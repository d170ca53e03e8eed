------------------------------ MODULE MCPolicies ------------------------------
(***************************************************************************)
(* Instances of PolicyEnforcement: a policy that is edited, published and  *)
(* rolled back by two administrators; policies archived, attached and      *)
(* their groups changed; templates seeded beside renamed policies; uploads *)
(* that cross the threshold of violations; and viewers under each          *)
(* clipboard mode, with what noVNC and the VNC server send each other.     *)
(***************************************************************************)
EXTENDS PolicyEnforcement, TLC

CONSTANTS p1, p2, p3, n1, n2, n3, t1, g1, g2, u1, r1, r2,
          app, pdf, exe, dotexe, sub, site, com

MCKindOf == [p \in Policies |-> IF p = p1 THEN "SESSION" ELSE "CLIPBOARD"]

Rule(on, form, pattern, action) ==
    [on |-> on, form |-> form, pattern |-> pattern, action |-> action]

ReleasePdf   == Rule("mime", "exact", <<app, pdf>>, "AUTO_RELEASE")
HoldApps     == Rule("mime", "wild", app, "QUARANTINE")
DenyExe      == Rule("mime", "exact", <<app, exe>>, "DENY")
DenyDotExe   == Rule("mime", "ext", dotexe, "DENY")
ReleaseByDot == Rule("mime", "ext", dotexe, "AUTO_RELEASE")
ReleaseSite  == Rule("source", "wild", <<site, com>>, "AUTO_RELEASE")
DenyHost     == Rule("source", "exact", <<sub, site, com>>, "DENY")

MCRules == {ReleasePdf, HoldApps, DenyExe, DenyDotExe, ReleaseByDot, ReleaseSite, DenyHost}

Content(m, screen) == [mode |-> m, screen |-> screen]

Plain  == Content("?", <<0, 0>>)
Closed == Content("NONE", <<4, 3>>)
Up     == Content("LOCAL_TO_REMOTE", <<0, 0>>)
Both   == Content("BIDIRECTIONAL_TEXT", <<0, 0>>)
Down   == Content("REMOTE_TO_LOCAL", <<0, 0>>)
Small  == Content("?", <<4, 3>>)
Large  == Content("?", <<8, 6>>)

MCContents == {Plain, Closed, Up, Both, Down, Small, Large}

File(detected, declared, ext, source, infected) ==
    [detected |-> detected, declared |-> declared, ext |-> ext, source |-> source,
     infected |-> infected]

Host(labels, dot) == [labels |-> labels, dot |-> dot]

Paper      == File(<<app, pdf>>, None, None, None, FALSE)
Renamed    == File(<<app, exe>>, <<app, pdf>>, None, None, FALSE)
Posing     == File(<<app, pdf>>, <<app, exe>>, dotexe, None, FALSE)
Infected   == File(<<app, pdf>>, None, None, None, TRUE)
FromSite   == File(<<exe, exe>>, None, None, Host(<<site, com>>, TRUE), FALSE)
FromHost   == File(<<exe, exe>>, None, None, Host(<<sub, site, com>>, FALSE), FALSE)
FromOther  == File(<<exe, exe>>, None, None, Host(<<site, com, sub>>, FALSE), FALSE)

MCDefaultScreen == <<6, 4>>

MCFiles == {Paper, Renamed, Posing, Infected, FromSite, FromHost, FromOther}

-----------------------------------------------------------------------------
Version(status, rules, content) ==
    [status |-> status, rules |-> {[rule |-> x, id |-> 0] : x \in rules}, content |-> content]

Live(n, v) == [name |-> n, cur |-> v, archived |-> FALSE]

In(g) == [user |-> u1, group |-> g, id |-> 0]

Silent == [client |-> <<>>, server |-> <<>>]

NoUse == [edits |-> {}, requests |-> {}, budget |-> 0, rules |-> {}, contents |-> {},
          files |-> {}, outages |-> FALSE, ageing |-> FALSE, viewer |-> FALSE, crashes |-> 0]

\* One policy in force and a draft of it, edited by two administrators.
Editing ==
    [policy |-> [p \in Policies |-> IF p = p1 THEN Live(n1, 1) ELSE None],
     version |-> [p \in Policies |->
                    IF p = p1 THEN <<Version("PUBLISHED", {ReleasePdf}, Plain),
                                     Version("DRAFT", {DenyExe}, Plain)>>
                    ELSE <<>>],
     attached |-> {<<g1, p1>>},
     member |-> {In(g1)},
     group |-> {g1},
     active |-> {},
     wire |-> Silent,
     use |-> [NoUse EXCEPT !.edits = {"save", "publish", "rollback", "draft"},
                           !.requests = {r1, r2},
                           !.budget = 4,
                           !.rules = {{ReleasePdf, DenyDotExe}, {HoldApps}},
                           !.contents = {Plain, Small},
                           !.files = MCFiles \ {Infected}]]

\* Rules of both kinds from two policies of two groups, which are attached,
\* archived and left.
Assigning ==
    [Editing EXCEPT
        !.policy = [p \in Policies |-> CASE p = p1 -> Live(n1, 1)
                                          [] p = p2 -> Live(n2, 1)
                                          [] OTHER  -> None],
        !.version = [p \in Policies |->
                       IF p = p1
                       THEN <<Version("PUBLISHED", {ReleasePdf, ReleaseSite, DenyDotExe}, Plain)>>
                       ELSE IF p = p2 THEN <<Version("PUBLISHED", {DenyHost}, Plain)>>
                       ELSE <<>>],
        !.member = {In(g1)},
        !.group = {g1, g2},
        !.use = [@ EXCEPT !.edits = {"archive", "restore", "attach", "detach", "group",
                                     "members", "set_groups"},
                          !.budget = 3,
                          !.rules = {}]]

\* Deployments that seed beside an administrator who creates and renames.
Seeding ==
    [Editing EXCEPT
        !.policy = [p \in Policies |-> None],
        !.version = [p \in Policies |-> <<>>],
        !.attached = {},
        !.use = [@ EXCEPT !.edits = {"create", "rename", "seed", "draft", "publish"},
                          !.requests = {r1},
                          !.budget = 4,
                          !.rules = {{ReleasePdf}},
                          !.contents = {Plain}]]

\* A user whose uploads are released, blocked, infected or lost.
Uploading ==
    [Editing EXCEPT
        !.active = {u1},
        !.use = [@ EXCEPT !.edits = {"upload"},
                          !.budget = 6,
                          !.rules = {},
                          !.files = {Paper, Renamed, Infected},
                          !.outages = TRUE,
                          !.ageing = TRUE,
                          !.crashes = 1]]

-----------------------------------------------------------------------------
Unit(kind, n, pixel, size, after) ==
    [kind |-> kind, n |-> n, bpp |-> pixel, size |-> size, after |-> after]

Msg(kind, n, size) == Unit(kind, n, 0, size, 0)

\* The greeting of RFB: version, security types and result, and the
\* initialisation messages.
Greeting ==
    [client |-> <<Msg("version", 0, 12), Unit("security", 0, 0, 1, 0), Msg("init", 0, 1)>>,
     server |-> <<Msg("version", 0, 12), Unit("security", 0, 0, 2, 1), Unit("result", 0, 0, 4, 2),
                  Unit("init", 0, 0, 24, 3)>>]

\* noVNC's setup, and updates in the encodings it was left with.
Drawing ==
    [client |-> <<Unit("pixels", 0, 1, 20, 0), Unit("pixels", 0, 4, 20, 0),
                  Msg("encodings", 1, 8), Msg("request", 0, 10), Msg("cut", 3, 11)>>,
     server |-> <<Unit("update", 2, 0, 4, 4), Unit("raw", 2, 4, 20, 4), Unit("copy", 0, 0, 16, 4),
                  Msg("cut", 2, 10)>>]

Typing ==
    [client |-> <<Msg("key", 0, 8), Msg("cut", -3, 11), Msg("pointer", 0, 6), Msg("fence", 2, 11),
                  Msg("desktop", 1, 24), Msg("continuous", 0, 10), Msg("xvp", 0, 4),
                  Msg("qemu", 0, 12)>>,
     server |-> <<>>]

Beeping ==
    [client |-> <<>>,
     server |-> <<Msg("bell", 0, 1), Msg("cut", -2, 10), Msg("colours", 1, 12), Msg("ended", 0, 1),
                  Msg("fence", 1, 10), Msg("xvp", 0, 4), Msg("update", 1, 4),
                  Msg("tight", 0, 15)>>]

\* A rectangle that comes before any pixel format, and an unknown key event.
Early ==
    [client |-> <<Msg("qemu", 1, 12)>>,
     server |-> <<Msg("update", 1, 4), Unit("raw", 1, 4, 16, 0)>>]

\* A screen policy and two clipboard policies of two groups, one of them
\* possibly published anew before or while the viewer is connected.
Viewing(streams, screen, one, other, again) ==
    [Editing EXCEPT
        !.policy = [p \in Policies |-> Live(CASE p = p1 -> n1 [] p = p2 -> n2 [] p = p3 -> n3, 1)],
        !.version = [p \in Policies |->
                       CASE p = p1 -> <<Version("PUBLISHED", {}, screen)>>
                         [] p = p2 -> <<Version("PUBLISHED", {}, one)>>
                         [] p = p3 -> <<Version("PUBLISHED", {}, other),
                                        Version("DRAFT", {}, again)>>],
        !.attached = {<<g1, p1>>, <<g1, p2>>, <<g2, p3>>},
        !.member = {In(g1), In(g2)},
        !.group = {g1, g2},
        !.wire = streams,
        !.use = [NoUse EXCEPT !.edits = {"publish"}, !.requests = {r1}, !.budget = 1,
                              !.viewer = TRUE]]

Viewers ==
    {Viewing(Drawing, Small, Plain, Closed, Both), Viewing(Drawing, Large, Up, Both, Down),
     Viewing(Typing, Plain, Down, Both, Up), Viewing(Beeping, Small, Closed, Plain, Both),
     Viewing(Early, Small, Closed, Plain, Both), Viewing(Greeting, Plain, Plain, Both, Closed)}

\* A viewer of each mode who says hello.
Hello == {Viewing(Greeting, Plain, Both, c, c) : c \in {Both, Up, Down, Closed}}

AllStarts == {Editing, Assigning, Seeding, Uploading} \cup Viewers
=============================================================================
