-------------------------- MODULE PolicyEnforcement --------------------------
(***************************************************************************)
(* Policies and the two places that enforce them, uploads and the display  *)
(* relay's clipboard filter, with requests that die between two steps, and *)
(* what this part promises.                                                *)
(***************************************************************************)
EXTENDS UploadGate, ClipboardFilter

CONSTANT Starts         \* the installations to start from

VARIABLES
    session,        \* the browser session whose display is relayed
    raced,          \* policies that two publications or rollbacks overlapped on
    crashes

vars == <<policyVars, uploadVars, filterVars, session, raced, crashes, use>>

Uses == [edits : SUBSET (EditOps \cup {"upload"}), requests : SUBSET Requests, budget : Nat,
         rules : SUBSET SUBSET Rules, contents : SUBSET Contents, files : SUBSET Files,
         outages : BOOLEAN, ageing : BOOLEAN, viewer : BOOLEAN, crashes : Nat]

\* An installation: its policies, versions, attachments, groups and members,
\* the users with an active session, what a viewer and its sandbox will send
\* each other, and its use.  A policy's current version, and no other, is
\* published; a user is in a group once.
Installed(st) ==
    /\ st.policy \in [Policies -> PolicyRows \cup {None}]
    /\ st.version \in [Policies -> Seq(Versions)]
    /\ \A p \in Policies :
          IF st.policy[p] = None THEN st.version[p] = <<>>
          ELSE /\ st.policy[p].cur \in 0..Len(st.version[p])
               /\ \A v \in DOMAIN st.version[p] :
                     st.version[p][v].status = "PUBLISHED" <=> v = st.policy[p].cur

ASSUME StartAssumption ==
    \A st \in Starts :
        /\ st.use \in Uses
        /\ Installed(st)
        /\ st.group \subseteq Groups
        /\ st.attached \subseteq st.group \X {p \in Policies : st.policy[p] # None}
        /\ st.member \subseteq [user : Users, group : st.group, id : Nat]
        /\ \A m, k \in st.member : m.user = k.user /\ m.group = k.group => m = k
        /\ st.active \subseteq Users
        /\ st.wire \in [Directions -> Seq(Units)]

\* What the two ends send is RFB.
ASSUME FramingAssumption == \A st \in Starts : Framed(st.wire)

InitFrom(st) ==
    /\ policy = st.policy
    /\ version = st.version
    /\ attached = st.attached
    /\ member = st.member
    /\ group = st.group
    /\ seeded = {}
    /\ req = [r \in Requests |-> Idle]
    /\ rowId = 0
    /\ left = st.use.budget
    /\ active = st.active
    /\ blocked = [u \in Users |-> 0]
    /\ open = [u \in Users |-> 0]
    /\ malware = [u \in Users |-> 0]
    /\ sandbox = [u \in Users |-> {}]
    /\ logged = [u \in Users |-> {}]
    /\ noted = [u \in Users |-> 0]
    /\ mode = "unset"
    /\ wire = st.wire
    /\ conn = [d \in Directions |-> Opened]
    /\ bpp = 0
    /\ busy = NoDirection
    /\ torn = FALSE
    /\ session = None
    /\ raced = {}
    /\ crashes = 0
    /\ use = st.use

Init == \E st \in Starts : InitFrom(st)

\* create_session takes the clipboard mode and the screen from the policies
\* of the moment; asked keeps what those policies said.
CreateSession(u) ==
    /\ use.viewer
    /\ session = None
    /\ \E s \in ResolveScreens(ScreensFor(u)) :
          session' = [user |-> u, mode |-> ResolveClipboard(ModesFor(u)), screen |-> s,
                      asked |-> [modes |-> ModesFor(u), screens |-> ScreensFor(u)]]
    /\ UNCHANGED <<policyVars, uploadVars, filterVars>>

\* build_filters when the viewer connects.
Connect ==
    /\ session # None
    /\ mode = "unset"
    /\ mode' = session.mode
    /\ UNCHANGED <<policyVars, uploadVars, wire, conn, bpp, busy, torn, session>>

\* The process dies or loses its database connection: the transaction rolls
\* back, a file written into a sandbox stays.
Crash(r) ==
    /\ ~Free(r)
    /\ crashes < use.crashes
    /\ crashes' = crashes + 1
    /\ Finish(r)
    /\ UNCHANGED <<tableVars, left, uploadVars>>

\* Two requests that make a version current overlap.
Overlaps ==
    {p \in Policies : \E r, s \in Requests : /\ r # s
                                             /\ At(r, "activate") /\ At(s, "activate")
                                             /\ req[r].p = p /\ req[s].p = p}

Act ==
    \/ \E r \in use.requests : /\ EditStep(r) \/ GroupStep(r)
                               /\ UNCHANGED <<uploadVars, filterVars, session, crashes>>
    \/ \E rules \in use.rules, c \in use.contents :
          /\ SeedStandardPolicies(rules, c)
          /\ UNCHANGED <<uploadVars, filterVars, session, crashes>>
    \/ \E r \in use.requests : UploadStep(r) /\ UNCHANGED <<filterVars, session, crashes>>
    \/ \E u \in Users : /\ WindowPasses(u) \/ CloseIncident(u) \/ SessionEnds(u)
                        /\ UNCHANGED <<filterVars, session, crashes>>
    \/ \E r \in Requests : Crash(r) /\ UNCHANGED <<filterVars, session>>
    \/ \E u \in Users : CreateSession(u) /\ UNCHANGED crashes
    \/ Connect /\ UNCHANGED crashes
    \/ FilterStep /\ UNCHANGED <<policyVars, uploadVars, session, crashes>>

Next == Act /\ raced' = raced \cup Overlaps' /\ UNCHANGED use

Spec == Init /\ [][Next]_vars

-----------------------------------------------------------------------------
\* Rows have their types, and none refers to a policy, version or group that
\* is not there: what a delete or a failing insert has to keep.
TypeOK ==
    /\ policy \in [Policies -> PolicyRows \cup {None}]
    /\ \A p \in Policies : /\ \A v \in VersionsOf(p) : version[p][v] \in Versions
                           /\ Exists(p) => policy[p].cur \in 0..Len(version[p])
    /\ \A x \in attached : x[1] \in group /\ Exists(x[2])
    /\ \A m \in member : m.user \in Users /\ m.group \in group
    /\ \A m, k \in member : m.user = k.user /\ m.group = k.group => m = k
    /\ seeded \subseteq Templates
    /\ open \in [Users -> Nat] /\ blocked \in [Users -> Nat] /\ malware \in [Users -> Nat]
    /\ \A u \in Users : u \notin active => sandbox[u] = {}
    /\ busy \in Directions \cup {NoDirection}

\* What a rule is about, by definition: a type the file was found to have,
\* for a rule that does not release also a type or extension it claims, or a
\* host name that is, or under, its source.
Concerns(x, f) ==
    \/ /\ x.on = "mime" /\ x.form # "ext"
       /\ \E m \in {f.detected} \cup IF x.action = "AUTO_RELEASE" THEN {} ELSE {f.declared} :
             /\ m # None
             /\ x.pattern = IF x.form = "wild" THEN m[1] ELSE m
    \/ x.on = "mime" /\ x.form = "ext" /\ x.action # "AUTO_RELEASE" /\ x.pattern = f.ext
    \/ /\ x.on = "source" /\ f.source # None
       /\ \E i \in 1..Len(f.source.labels) :
             /\ x.form = "exact" => i = 1
             /\ x.pattern = SubSeq(f.source.labels, i, Len(f.source.labels))

\* What a file may meet, by definition: a DENY that concerns it, else a
\* QUARANTINE, else a release, else QUARANTINE.
Decision(u, f) ==
    LET hit(a) == \E x \in PublishedRules(u) : x.action = a /\ Concerns(x, f)
    IN  CASE hit("DENY") -> "DENY"
          [] ~hit("DENY") /\ hit("AUTO_RELEASE") /\ ~hit("QUARANTINE") -> "AUTO_RELEASE"
          [] OTHER -> "QUARANTINE"

\* Whatever order the database returns the rules in, and through whichever
\* groups and policies they come, evaluate_file_action decides as defined.
PrecedenceHolds ==
    \A u \in Users : \A f \in use.files : \A rows \in Orders(u) :
        EvaluateInOrder(rows, f) = Decision(u, f)

\* Publications and rollbacks that came one after the other leave one version
\* published, the current one: publish_version and rollback.
OnePublished ==
    \A p \in Policies \ raced : Exists(p) =>
        {v \in VersionsOf(p) : version[p][v].status = "PUBLISHED"} = {policy[p].cur} \ {0}

\* With as many blocked uploads as cross the threshold even when the last
\* ones overlapped, an incident is open: check_repeated_policy_violations.
ViolationsNoticed ==
    \A u \in Users : noted[u] >= Threshold + Cardinality(Requests) - 1 => open[u] > 0

\* Text passes the relay in a direction only if every policy that applied
\* when the session was created allows that direction, however the policies
\* change afterwards; and the screen is no larger than any of them asked for.
SessionFollowsPolicy ==
    session # None =>
        /\ \A d \in Directions :
              (\E i \in 1..Len(conn[d].out) : conn[d].out[i].kind = "cut") =>
                 session.asked.modes \subseteq IF d = "client" THEN AllowsLocalToRemote
                                               ELSE AllowsRemoteToLocal
        /\ \A s \in session.asked.screens : Area(session.screen) <= Area(s)

-----------------------------------------------------------------------------
\* What the documentation says and the code does not keep.

\* docs/policies.md and the filter's docstring: a session with a blocked
\* clipboard loses compression and the remote cursor, nothing else.  So a
\* viewer and a server that speak RFB keep their connection.
ClaimRestrictedSessionShows == ~torn
=============================================================================
