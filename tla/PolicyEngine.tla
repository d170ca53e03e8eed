---------------------------- MODULE PolicyEngine ----------------------------
(***************************************************************************)
(* What the published policies of a user's groups say: the action for a    *)
(* file, the clipboard mode and the screen of a new session.               *)
(*                                                                         *)
(* A MIME type is a pair of its two halves, a file name's extension a      *)
(* model value, a host name the sequence of its labels with a flag for the *)
(* trailing dot.  A rule is a record of what it looks at ("mime" or        *)
(* "source"), the form of its pattern, the pattern and the action.         *)
(***************************************************************************)
EXTENDS GroupAdmin, SequencesExt

CONSTANT DefaultScreen      \* DEFAULT_SCREEN_WIDTH and DEFAULT_SCREEN_HEIGHT

Actions == {"DENY", "QUARANTINE", "AUTO_RELEASE"}

\* The forms matching knows; a rule about sources has no extension.
ASSUME RuleAssumption ==
    /\ IsFiniteSet(Rules)
    /\ \A x \in Rules :
          /\ x # None
          /\ x.on \in {"mime", "source"}
          /\ x.form \in {"wild", "exact", "ext"}
          /\ x.action \in Actions
          /\ x.on = "source" => x.form # "ext" /\ x.pattern \in Seq(Range(x.pattern))

Precedence == [DENY |-> 3, QUARANTINE |-> 2, AUTO_RELEASE |-> 1]

\* Policies in force for a user; an archived one that is attached still is.
Applicable(u) ==
    {p \in Policies : /\ Exists(p)
                      /\ \E g \in GroupsOf(u) : <<g, p>> \in attached
                      /\ policy[p].cur # 0
                      /\ version[p][policy[p].cur].status = "PUBLISHED"}

InForce(p) == version[p][policy[p].cur]

PublishedRules(u) == UNION {{x.rule : x \in InForce(p).rules} : p \in Applicable(u)}

-----------------------------------------------------------------------------
MatchesExtension(value, pattern) == value = pattern

MatchesMimePattern(value, rule) ==
    /\ value # None
    /\ CASE rule.form = "wild"  -> value[1] = rule.pattern
         [] rule.form = "exact" -> value = rule.pattern
         [] OTHER               -> FALSE

NormalizeHostname(host) == host.labels

\* Whole labels, never a part of one.
MatchesSourcePattern(host, rule) ==
    LET labels == NormalizeHostname(host)
    IN  /\ labels # <<>> /\ rule.pattern # <<>>
        /\ IF rule.form = "wild" THEN IsSuffix(rule.pattern, labels)
           ELSE labels = rule.pattern

\* Variant: a declared type or an extension counts for every rule.
MatchesByName(rule, f) ==
    IF rule.on = "mime"
    THEN \/ MatchesMimePattern(f.detected, rule) \/ MatchesMimePattern(f.declared, rule)
         \/ rule.form = "ext" /\ MatchesExtension(f.ext, rule.pattern)
    ELSE f.source # None /\ MatchesSourcePattern(f.source, rule)

\* What the sender of a file chooses only makes a decision stricter.
Matches(rule, f) ==
    IF rule.on = "mime"
    THEN \/ MatchesMimePattern(f.detected, rule)
         \/ /\ rule.action # "AUTO_RELEASE"
            /\ \/ MatchesMimePattern(f.declared, rule)
               \/ rule.form = "ext" /\ MatchesExtension(f.ext, rule.pattern)
    ELSE f.source # None /\ MatchesSourcePattern(f.source, rule)

Better(best, rule) ==
    IF best = None \/ Precedence[rule.action] > Precedence[best.action] THEN rule ELSE best

\* evaluate_file_action over the rules in the order of the rows.
EvaluateInOrder(rows, f) ==
    LET best[i \in 0..Len(rows)] ==
            IF i = 0 THEN None
            ELSE IF Matches(rows[i], f) THEN Better(best[i - 1], rows[i])
            ELSE best[i - 1]
        found == best[Len(rows)]
    IN  IF found = None THEN "QUARANTINE" ELSE found.action

\* The database returns the rows in any order.
Orders(u) == SetToSeqs(PublishedRules(u))

-----------------------------------------------------------------------------
AllowsLocalToRemote == {"LOCAL_TO_REMOTE", "BIDIRECTIONAL_TEXT"}

AllowsRemoteToLocal == {"REMOTE_TO_LOCAL", "BIDIRECTIONAL_TEXT"}

Modes == AllowsLocalToRemote \cup AllowsRemoteToLocal \cup {"NONE"}

ModeOf(up, down) ==
    CASE up /\ down  -> "BIDIRECTIONAL_TEXT"
      [] up /\ ~down -> "LOCAL_TO_REMOTE"
      [] ~up /\ down -> "REMOTE_TO_LOCAL"
      [] OTHER       -> "NONE"

\* What the applicable policies of a kind say in their content.
ContentFor(u, kind) == {InForce(p).content : p \in {q \in Applicable(u) : KindOf[q] = kind}}

\* Content without a known mode is skipped.
ModesFor(u) == {c.mode : c \in ContentFor(u, "CLIPBOARD")} \cap Modes

\* Variant: a direction is open when some policy allows it.
ResolveLeniently(modes) ==
    IF modes = {} THEN "BIDIRECTIONAL_TEXT"
    ELSE ModeOf(modes \cap AllowsLocalToRemote # {}, modes \cap AllowsRemoteToLocal # {})

ResolveClipboard(modes) ==
    IF modes = {} THEN "BIDIRECTIONAL_TEXT"
    ELSE ModeOf(modes \subseteq AllowsLocalToRemote, modes \subseteq AllowsRemoteToLocal)

Area(screen) == screen[1] * screen[2]

\* Content without two positive numbers is skipped.
ScreensFor(u) == {s \in {c.screen : c \in ContentFor(u, "SESSION")} : s[1] > 0 /\ s[2] > 0}

\* The smallest area wins; which of two equal ones depends on the row order.
ResolveScreens(screens) ==
    IF screens = {} THEN {DefaultScreen}
    ELSE {s \in screens : \A t \in screens : Area(s) <= Area(t)}
=============================================================================
