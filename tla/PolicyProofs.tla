----------------------------- MODULE PolicyProofs -----------------------------
(***************************************************************************)
(* The proofs of what PolicyEnforcement promises, for every set of         *)
(* policies, groups, users and requests, every threshold and stream.       *)
(***************************************************************************)
EXTENDS PolicyEnforcement, FiniteSetTheorems, SequenceTheorems, WellFoundedInduction, TLAPS

-----------------------------------------------------------------------------
\* The inductive invariants.

\* What is committed: rows have their types and refer to what is there.
Tables ==
    /\ policy \in [Policies -> PolicyRows \cup {None}]
    /\ version \in [Policies -> Seq(Versions)]
    /\ \A p \in Policies : IF Exists(p) THEN policy[p].cur \in 0..Len(version[p])
                           ELSE version[p] = <<>>
    /\ group \subseteq Groups
    /\ attached \subseteq group \X {p \in Policies : Exists(p)}
    /\ member \subseteq [user : Users, group : group, id : Nat]
    /\ \A m, k \in member : m.user = k.user /\ m.group = k.group => m = k
    /\ seeded \subseteq Templates
    /\ rowId \in Nat
    /\ left \in Nat
    /\ use \in Uses

\* What a request carries refers to rows that exist for good, or, of groups
\* it is putting a user into, to rows that its own inserts hold.
Carries(q) ==
    /\ q.pc \in {"save", "saving", "activate", "archive", "attach"} =>
          q.p \in Policies /\ Exists(q.p)
    /\ q.pc \in {"save", "saving", "activate"} => q.v \in VersionsOf(q.p)
    /\ q.pc \in {"save", "saving"} => q.rules \subseteq Rules /\ q.content \in Contents
    /\ q.pc = "activate" => q.cur \in 0..Len(version[q.p])
    /\ q.pc = "archive" => q.to \in BOOLEAN
    /\ q.pc = "regroup" => q.u \in Users /\ q.groups \subseteq group
    /\ q.pc \in {"scan", "blocked", "report", "written"} => q.u \in Users
    /\ q.pc \in {"scan", "written"} => q.f \in Files
    /\ q.pc = "report" => q.opens \in BOOLEAN

Carried == DOMAIN req = Requests /\ \A r \in Requests : Carries(req[r])

\* What uploads leave behind.
Counters ==
    /\ active \subseteq Users
    /\ open \in [Users -> Nat]
    /\ blocked \in [Users -> Nat]
    /\ malware \in [Users -> Nat]
    /\ noted \in [Users -> Nat]
    /\ sandbox \in [Users -> SUBSET Files]
    /\ \A u \in Users \ active : sandbox[u] = {}
    /\ busy \in Directions \cup {NoDirection}

TypeInv == Tables /\ Carried /\ Counters

-----------------------------------------------------------------------------
\* What a request loaded to make a version current is still so, as nobody
\* else is about to change which one is.
Knows(q) ==
    /\ q.cur = policy[q.p].cur
    /\ q.was = version[q.p][q.v].status
    /\ q.was # "PUBLISHED"
    /\ q.cur # 0 => q.prev = "PUBLISHED"

CurrentInv ==
    /\ Overlaps \subseteq raced
    /\ \A p \in Policies \ raced : Exists(p) =>
          \A v \in VersionsOf(p) : version[p][v].status = "PUBLISHED" <=> v = policy[p].cur
    /\ \A r \in Requests : At(r, "activate") /\ req[r].p \notin raced => Knows(req[r])

\* Blocked uploads about to be reported without an incident, as their
\* requests counted too few, or found one open.
Quiet(u) == {r \in Requests : At(r, "report") /\ req[r].u = u /\ ~req[r].opens}

\* An uploader who counts enough opens an incident; the others together
\* with what is on record stay below the threshold plus one for each of the
\* requests that may have counted at once.
NotedInv ==
    \A u \in Users :
        /\ noted[u] <= blocked[u]
        /\ open[u] = 0 =>
              noted[u] + Cardinality(Quiet(u)) <= Threshold + Cardinality(Requests) - 2

-----------------------------------------------------------------------------
\* A filter, and what it may pass on: units as they came, and encodings cut
\* down to those allowed.
IsFilter(c) == DOMAIN c = DOMAIN Opened

Forwarded == Units \cup [kind : {"forced"}, n : Int, bpp : Nat, size : Nat, after : Nat]

Clean(c) == \A i \in 1..Len(c.out) : c.out[i].kind # "cut"

\* The relay enforces what the session's policies said when it was created,
\* and the filter of a blocked direction passes no text.
RelayInv ==
    /\ wire \in [Directions -> Seq(Units)]
    /\ mode = "unset" => conn = [d \in Directions |-> Opened] /\ busy = NoDirection
    /\ session = None => mode = "unset"
    /\ session # None =>
          /\ session.mode = ResolveClipboard(session.asked.modes)
          /\ mode \in {"unset", session.mode}
          /\ session.asked.screens # {} =>
                /\ session.screen \in session.asked.screens
                /\ \A s \in session.asked.screens : Area(session.screen) <= Area(s)
    /\ DOMAIN conn = Directions
    /\ \A d \in Directions :
          /\ IsFilter(conn[d])
          /\ Parses(d) => conn[d].out \in Seq(Forwarded) /\ conn[d].taken \in Nat
          /\ Blocks(d) => Clean(conn[d])

-----------------------------------------------------------------------------
\* Rows.
LEMMA NewPolicyType ==
    ASSUME NEW n \in Names
    PROVE  NewPolicy(n) \in PolicyRows /\ NewPolicy(n).cur = 0
  BY DEF NewPolicy, PolicyRows

LEMMA FreshType ==
    ASSUME Tables, NEW rules, rules \subseteq Rules
    PROVE  Fresh(rules) \subseteq [rule : Rules, id : Nat]
  BY DEF Fresh, Tables

LEMMA DraftType ==
    ASSUME Tables, NEW rules, rules \subseteq Rules, NEW c \in Contents
    PROVE  Draft(rules, c) \in Versions /\ Draft(rules, c).status = "DRAFT"
  BY FreshType DEF Draft, Versions, Status

LEMMA VersionFields ==
    ASSUME NEW v \in Versions
    PROVE  /\ v.status \in Status /\ v.rules \subseteq [rule : Rules, id : Nat]
           /\ v.content \in Contents
  BY DEF Versions

\* The sets a behaviour's use names are of the constants.
LEMMA UseType ==
    ASSUME Tables
    PROVE  /\ use.requests \subseteq Requests
           /\ use.rules \subseteq SUBSET Rules
           /\ use.contents \subseteq Contents
           /\ use.files \subseteq Files
  BY DEF Tables, Uses

-----------------------------------------------------------------------------
\* Rows of policies stay, versions are only added.
Grows ==
    \A p \in Policies : Exists(p) => Exists(p)' /\ Len(version[p]) <= Len(version'[p])

\* The rows a request carries a reference to are still there.
HoldsGroups == \A r \in Requests : At(r, "regroup") => req[r].groups \subseteq group'

LEMMA CarriedKept ==
    ASSUME TypeInv, version' \in [Policies -> Seq(Versions)], Grows, HoldsGroups,
           DOMAIN req' = Requests,
           \A r \in Requests : req'[r] = req[r] \/ Carries(req[r])'
    PROVE  Carried'
<1>1. SUFFICES ASSUME NEW r \in Requests, req'[r] = req[r]
               PROVE  Carries(req[r])'
  BY DEF Carried
<1>2. Carries(req[r])
  BY DEF TypeInv, Carried
<1>3. ASSUME NEW p \in Policies, Exists(p)
      PROVE  /\ Exists(p)' /\ Len(version[p]) \in Nat /\ Len(version'[p]) \in Nat
             /\ Len(version[p]) <= Len(version'[p])
             /\ VersionsOf(p) = 1..Len(version[p]) /\ VersionsOf(p)' = 1..Len(version'[p])
  BY <1>3 DEF Grows, VersionsOf, TypeInv, Tables
<1>4. req[r].pc \in {"save", "saving", "activate", "archive", "attach"} =>
          /\ req[r].p \in Policies /\ Exists(req[r].p)' /\ Exists(req[r].p)
  BY <1>1, <1>2, <1>3 DEF Carries
<1>5. req[r].pc \in {"save", "saving", "activate"} => req[r].v \in VersionsOf(req[r].p)'
  BY <1>1, <1>2, <1>3, <1>4 DEF Carries
<1>6. req[r].pc = "activate" => req[r].cur \in 0..Len(version'[req[r].p])
  BY <1>1, <1>2, <1>3, <1>4 DEF Carries
<1>7. req[r].pc = "regroup" => req[r].groups \subseteq group'
  BY DEF HoldsGroups, At
<1> QED
  BY <1>1, <1>2, <1>4, <1>5, <1>6, <1>7 DEF Carries

-----------------------------------------------------------------------------
\* Types.
LEMMA InitTypes == Init => TypeInv
<1> SUFFICES ASSUME NEW st \in Starts, InitFrom(st)
             PROVE  TypeInv
  BY DEF Init
<1>1. /\ st.use \in Uses /\ Installed(st)
      /\ st.group \subseteq Groups
      /\ st.attached \subseteq st.group \X {p \in Policies : st.policy[p] # None}
      /\ st.member \subseteq [user : Users, group : st.group, id : Nat]
      /\ \A m, k \in st.member : m.user = k.user /\ m.group = k.group => m = k
      /\ st.active \subseteq Users
  BY StartAssumption
<1>2. st.use.budget \in Nat
  BY <1>1 DEF Uses
<1>3. Tables
  BY <1>1, <1>2 DEF InitFrom, Installed, Tables, Exists
<1>4. Carried
  BY DEF InitFrom, Carried, Carries, Idle
<1>5. Counters
  BY <1>1 DEF InitFrom, Counters
<1> QED
  BY <1>3, <1>4, <1>5 DEF TypeInv

\* Steps that leave the tables alone: a request goes on, carrying what exists.
LEMMA CarriedStep ==
    ASSUME TypeInv, UNCHANGED <<tableVars, use>>, left' \in Nat,
           NEW r \in Requests, NEW q, Carries(q), Go(r, q)
    PROVE  Tables' /\ Carried'
<1>1. Tables'
  BY DEF TypeInv, Tables, tableVars, Exists
<1>2. Carries(q)'
  BY DEF Carries, tableVars, Exists, VersionsOf
<1>3. DOMAIN req' = Requests
  BY DEF Go, TypeInv, Carried
<1>4. \A s \in Requests : req'[s] = req[s] \/ Carries(req[s])'
  BY <1>2, <1>3 DEF Go, TypeInv, Carried
<1>5. Grows
  BY DEF Grows, tableVars, Exists, TypeInv, Tables
<1>6. HoldsGroups
  BY DEF HoldsGroups, TypeInv, Carried, Carries, At, tableVars
<1>7. version' \in [Policies -> Seq(Versions)]
  BY <1>1 DEF Tables
<1> QED
  BY <1>1, <1>3, <1>4, <1>5, <1>6, <1>7, CarriedKept

LEMMA ArrivesLeft ==
    ASSUME Tables, NEW r, NEW op, Arrives(r, op)
    PROVE  left' \in Nat
  BY DEF Arrives, Tables

LEMMA EditLoadTypes ==
    ASSUME TypeInv, UNCHANGED use, NEW r \in use.requests,
           \/ \E p \in Policies : \E v \in VersionsOf(p) :
                 \/ \E rules \in use.rules, c \in use.contents : SaveLoad(r, p, v, rules, c)
                 \/ PublishLoad(r, p, v) \/ RollbackLoad(r, p, v)
           \/ SaveFlush(r)
           \/ \E p \in Policies : ArchiveLoad(r, p) \/ RestoreLoad(r, p)
           \/ \E p \in Policies, g \in group : AttachLoad(r, g, p)
    PROVE  Tables' /\ Carried'
<1>0. r \in Requests /\ Tables
  BY UseType DEF TypeInv
<1>a. \A p \in Policies : ~Exists(p) => VersionsOf(p) = {}
  BY DEF TypeInv, Tables, VersionsOf
<1>1. ASSUME NEW p \in Policies, NEW v \in VersionsOf(p), NEW rules \in use.rules,
             NEW c \in use.contents, SaveLoad(r, p, v, rules, c)
      PROVE  Tables' /\ Carried'
  <2> DEFINE q == [pc |-> "save", p |-> p, v |-> v, rules |-> rules, content |-> c,
                   loaded |-> version[p][v].content]
  <2>1. left' \in Nat /\ Go(r, q) /\ UNCHANGED tableVars
    BY <1>0, <1>1, ArrivesLeft DEF SaveLoad
  <2>2. Exists(p)
    BY <1>a
  <2>3. rules \subseteq Rules /\ c \in Contents
    BY <1>0, UseType
  <2>4. Carries(q)
    BY <2>2, <2>3 DEF Carries
  <2> HIDE DEF q
  <2> QED
    BY <1>0, <2>1, <2>4, CarriedStep
<1>2. ASSUME NEW p \in Policies, NEW v \in VersionsOf(p),
             PublishLoad(r, p, v) \/ RollbackLoad(r, p, v)
      PROVE  Tables' /\ Carried'
  <2>1. PICK op \in {"publish", "rollback"} :
            left' \in Nat /\ Go(r, Activation(op, p, v)) /\ UNCHANGED tableVars
    BY <1>0, <1>2, ArrivesLeft DEF PublishLoad, RollbackLoad
  <2> DEFINE q == Activation(op, p, v)
  <2>2. Exists(p)
    BY <1>a
  <2>3. policy[p].cur \in 0..Len(version[p])
    BY <1>0, <2>2 DEF Tables
  <2>4. /\ q.pc = "activate" /\ q.p = p /\ q.v = v /\ q.cur = policy[p].cur
    BY DEF Activation
  <2> HIDE DEF q
  <2>5. Carries(q)
    BY <2>2, <2>3, <2>4 DEF Carries
  <2> QED
    BY <1>0, <2>1, <2>5, CarriedStep DEF q
<1>3. CASE SaveFlush(r)
  <2> DEFINE q == [pc |-> "saving", p |-> req[r].p, v |-> req[r].v, rules |-> req[r].rules,
                   content |-> req[r].content, loaded |-> req[r].loaded,
                   gone |-> version[req[r].p][req[r].v].rules]
  <2>1. req[r].pc = "save" /\ Go(r, q) /\ UNCHANGED <<tableVars, left>>
    BY <1>3 DEF SaveFlush, At
  <2>2. Carries(req[r])
    BY <1>0 DEF TypeInv, Carried
  <2>3. Carries(q)
    BY <2>1, <2>2 DEF Carries
  <2> HIDE DEF q
  <2>4. left' \in Nat
    BY <1>0, <2>1 DEF Tables
  <2> QED
    BY <1>0, <2>1, <2>3, <2>4, CarriedStep
<1>4. ASSUME NEW p \in Policies, ArchiveLoad(r, p) \/ RestoreLoad(r, p)
      PROVE  Tables' /\ Carried'
  <2>1. PICK to \in BOOLEAN : /\ Exists(p) /\ left' \in Nat /\ UNCHANGED tableVars
                              /\ Go(r, [pc |-> "archive", p |-> p, to |-> to])
    BY <1>0, <1>4, ArrivesLeft DEF ArchiveLoad, RestoreLoad
  <2>2. Carries([pc |-> "archive", p |-> p, to |-> to])
    BY <2>1 DEF Carries
  <2> QED
    BY <1>0, <2>1, <2>2, CarriedStep
<1>5. ASSUME NEW p \in Policies, NEW g \in group, AttachLoad(r, g, p)
      PROVE  Tables' /\ Carried'
  <2>1. /\ Exists(p) /\ left' \in Nat /\ UNCHANGED tableVars
        /\ Go(r, [pc |-> "attach", g |-> g, p |-> p])
    BY <1>0, <1>5, ArrivesLeft DEF AttachLoad
  <2>2. Carries([pc |-> "attach", g |-> g, p |-> p])
    BY <2>1 DEF Carries
  <2> QED
    BY <1>0, <2>1, <2>2, CarriedStep
<1> QED
  BY <1>1, <1>2, <1>3, <1>4, <1>5

\* Steps that write rows of policies and leave the groups alone.
LEMMA TablesStep ==
    ASSUME TypeInv, UNCHANGED <<attached, member, group, use>>,
           policy' \in [Policies -> PolicyRows \cup {None}],
           version' \in [Policies -> Seq(Versions)],
           \A p \in Policies : IF Exists(p)' THEN policy'[p].cur \in 0..Len(version'[p])
                               ELSE version'[p] = <<>>,
           Grows, seeded' \subseteq Templates, rowId' \in Nat, left' \in Nat,
           \/ req' = req
           \/ \E r \in Requests : Finish(r)
    PROVE  Tables' /\ Carried'
<1>1. Tables'
  <2>1. attached' \subseteq group' \X {p \in Policies : Exists(p)'}
    BY DEF TypeInv, Tables, Grows
  <2>2. member' \subseteq [user : Users, group : group', id : Nat]
    BY DEF TypeInv, Tables
  <2> QED
    BY <2>1, <2>2 DEF TypeInv, Tables
<1>2. DOMAIN req' = Requests
  BY DEF TypeInv, Carried, Finish, Go
<1>3. Carries(Idle)'
  BY DEF Carries, Idle
<1>4. \A r \in Requests : req'[r] = req[r] \/ Carries(req[r])'
  BY <1>2, <1>3 DEF TypeInv, Carried, Finish, Go
<1>5. HoldsGroups
  BY DEF HoldsGroups, TypeInv, Carried, Carries, At
<1> QED
  BY <1>1, <1>2, <1>4, <1>5, CarriedKept

LEMMA SaveCommitTypes ==
    ASSUME TypeInv, UNCHANGED use, NEW r \in Requests, SaveCommit(r)
    PROVE  Tables' /\ Carried'
<1> DEFINE q == req[r]  s == version[q.p]  old == s[q.v]  new == Saved(q, old)
<1>1. /\ q.pc = "saving" /\ Carries(q) /\ Tables
  BY DEF SaveCommit, At, TypeInv, Carried
<1>2. /\ q.p \in Policies /\ Exists(q.p) /\ q.v \in VersionsOf(q.p)
      /\ q.rules \subseteq Rules /\ q.content \in Contents
  BY <1>1 DEF Carries
<1>3. s \in Seq(Versions) /\ q.v \in 1..Len(s)
  BY <1>1, <1>2 DEF Tables, VersionsOf
<1>4. old \in Versions
  BY <1>3
<1>5. Fresh(q.rules) \subseteq [rule : Rules, id : Nat]
  BY <1>1, <1>2, FreshType
<1>6. new \in Versions
  BY <1>2, <1>4, <1>5 DEF Versions, Saved
<1>7. version' = [version EXCEPT ![q.p] = [s EXCEPT ![q.v] = new]]
  BY <1>1, <1>2, <1>3 DEF SaveCommit, Tables
<1> HIDE DEF new, old
<1>8. /\ [s EXCEPT ![q.v] = new] \in Seq(Versions)
      /\ Len([s EXCEPT ![q.v] = new]) = Len(s)
  BY <1>3, <1>6, ExceptSeq
<1>9. /\ version' \in [Policies -> Seq(Versions)]
      /\ \A p \in Policies : Len(version'[p]) = Len(version[p])
  BY <1>1, <1>2, <1>7, <1>8 DEF Tables
<1>10. /\ UNCHANGED <<policy, attached, member, group, seeded, left>> /\ Finish(r)
       /\ rowId' \in Nat
  BY <1>1 DEF SaveCommit, Tables
<1>11. Grows
  BY <1>1, <1>9, <1>10 DEF Grows, Exists, Tables
<1>12. \A p \in Policies : IF Exists(p)' THEN policy'[p].cur \in 0..Len(version'[p])
                           ELSE version'[p] = <<>>
  BY <1>1, <1>2, <1>7, <1>9, <1>10 DEF Exists, Tables
<1> QED
  BY <1>1, <1>9, <1>10, <1>11, <1>12, TablesStep DEF Tables

\* A step that writes one policy's row, its versions staying.
LEMMA PolicyRowStep ==
    ASSUME TypeInv, UNCHANGED <<version, attached, member, group, seeded, rowId, use>>,
           NEW p \in Policies, NEW x \in PolicyRows, x.cur \in 0..Len(version[p]),
           policy' = [policy EXCEPT ![p] = x], left' \in Nat,
           \/ req' = req
           \/ \E r \in Requests : Finish(r)
    PROVE  Tables' /\ Carried'
<1>1. Tables
  BY DEF TypeInv
<1>2. policy' \in [Policies -> PolicyRows \cup {None}]
  BY <1>1 DEF Tables
<1>3. Grows
  BY <1>1, NullAssumption DEF Tables, Grows, Exists
<1>4. \A k \in Policies : IF Exists(k)' THEN policy'[k].cur \in 0..Len(version'[k])
                          ELSE version'[k] = <<>>
  BY <1>1, NullAssumption DEF Tables, Exists
<1> QED
  BY <1>1, <1>2, <1>3, <1>4, TablesStep DEF Tables

LEMMA RowTypes ==
    ASSUME Tables, NEW p \in Policies, Exists(p)
    PROVE  /\ policy[p] \in PolicyRows /\ policy[p].cur \in 0..Len(version[p])
           /\ \A n \in Names : [policy[p] EXCEPT !.name = n] \in PolicyRows
           /\ \A b \in BOOLEAN : [policy[p] EXCEPT !.archived = b] \in PolicyRows
           /\ \A v \in Nat : [policy[p] EXCEPT !.cur = v] \in PolicyRows
           /\ \A n \in Names : [policy[p] EXCEPT !.name = n].cur = policy[p].cur
           /\ \A b \in BOOLEAN : [policy[p] EXCEPT !.archived = b].cur = policy[p].cur
           /\ \A v \in Nat : [policy[p] EXCEPT !.cur = v].cur = v
<1>1. policy[p] \in PolicyRows /\ policy[p].cur \in 0..Len(version[p])
  BY DEF Tables, Exists
<1> QED
  BY <1>1 DEF PolicyRows

LEMMA PolicyRowTypes ==
    ASSUME TypeInv, UNCHANGED use, NEW r \in Requests,
           \/ \E p \in Policies, n \in Names : CreatePolicy(r, p, n) \/ RenamePolicy(r, p, n)
           \/ ArchiveCommit(r)
    PROVE  Tables' /\ Carried'
<1>0. Tables /\ Carries(req[r])
  BY DEF TypeInv, Carried
<1>1. ASSUME NEW p \in Policies, NEW n \in Names, CreatePolicy(r, p, n)
      PROVE  Tables' /\ Carried'
  <2>1. /\ policy' = [policy EXCEPT ![p] = NewPolicy(n)] /\ left' \in Nat
        /\ UNCHANGED <<version, attached, member, group, seeded, rowId, req>>
    BY <1>0, <1>1, ArrivesLeft DEF CreatePolicy
  <2>2. NewPolicy(n) \in PolicyRows /\ NewPolicy(n).cur \in 0..Len(version[p])
    BY <1>0, NewPolicyType DEF Tables
  <2> QED
    BY <2>1, <2>2, PolicyRowStep
<1>2. ASSUME NEW p \in Policies, NEW n \in Names, RenamePolicy(r, p, n)
      PROVE  Tables' /\ Carried'
  <2>1. /\ policy' = [policy EXCEPT ![p] = [policy[p] EXCEPT !.name = n]] /\ left' \in Nat
        /\ UNCHANGED <<version, attached, member, group, seeded, rowId, req>>
        /\ Exists(p)
    BY <1>0, <1>2, ArrivesLeft DEF RenamePolicy
  <2>2. /\ [policy[p] EXCEPT !.name = n] \in PolicyRows
        /\ [policy[p] EXCEPT !.name = n].cur \in 0..Len(version[p])
    BY <1>0, <2>1, RowTypes
  <2> QED
    BY <2>1, <2>2, PolicyRowStep
<1>3. CASE ArchiveCommit(r)
  <2> DEFINE p == req[r].p  to == req[r].to
  <2>1. /\ policy' = [policy EXCEPT ![p] = [policy[p] EXCEPT !.archived = to]]
        /\ UNCHANGED <<version, attached, member, group, seeded, rowId, left>>
        /\ Finish(r) /\ req[r].pc = "archive"
    BY <1>3 DEF ArchiveCommit, At
  <2>2. p \in Policies /\ Exists(p) /\ to \in BOOLEAN /\ left' \in Nat
    BY <1>0, <2>1 DEF Carries, Tables
  <2>3. /\ [policy[p] EXCEPT !.archived = to] \in PolicyRows
        /\ [policy[p] EXCEPT !.archived = to].cur \in 0..Len(version[p])
    BY <1>0, <2>2, RowTypes
  <2> QED
    BY <2>1, <2>2, <2>3, PolicyRowStep
<1> QED
  BY <1>1, <1>2, <1>3

LEMMA DraftTypes ==
    ASSUME TypeInv, UNCHANGED use, NEW r \in Requests, NEW p \in Policies,
           NEW rules \in use.rules, NEW c \in use.contents,
           CreateDraftVersion(r, p, rules, c)
    PROVE  Tables' /\ Carried'
<1> DEFINE d == Draft(rules, c)  s == version[p]
<1>1. Tables
  BY DEF TypeInv
<1>2. d \in Versions
  BY <1>1, UseType, DraftType
<1>3. /\ version' = [version EXCEPT ![p] = Append(s, d)] /\ left' \in Nat /\ rowId' \in Nat
      /\ UNCHANGED <<policy, attached, member, group, seeded, req>> /\ Exists(p)
  BY <1>1, ArrivesLeft DEF CreateDraftVersion, Tables
<1> HIDE DEF d
<1>4. s \in Seq(Versions) /\ Append(s, d) \in Seq(Versions) /\ Len(Append(s, d)) = Len(s) + 1
  BY <1>1, <1>2, AppendProperties DEF Tables
<1>5. version' \in [Policies -> Seq(Versions)]
  BY <1>1, <1>3, <1>4 DEF Tables
<1>6. \A k \in Policies : version'[k] = IF k = p THEN Append(s, d) ELSE version[k]
  BY <1>1, <1>3 DEF Tables
<1>7. \A k \in Policies : Len(version[k]) \in Nat
  BY <1>1 DEF Tables
<1>8. Grows
  BY <1>3, <1>4, <1>6, <1>7 DEF Grows, Exists
<1>9. \A k \in Policies : IF Exists(k)' THEN policy'[k].cur \in 0..Len(version'[k])
                          ELSE version'[k] = <<>>
  BY <1>1, <1>3, <1>4, <1>6, <1>7 DEF Exists, Tables
<1> QED
  BY <1>1, <1>3, <1>5, <1>8, <1>9, TablesStep DEF Tables

\* What making a version current does to the versions.
LEMMA ActivationVersions ==
    ASSUME NEW s \in Seq(Versions), NEW q, q.v \in 1..Len(s), q.cur \in 0..Len(s)
    PROVE  LET t == Enact(q, Retire(q, s))
               old == q.cur # 0 /\ q.prev # "SUPERSEDED"
           IN  /\ t \in Seq(Versions)
               /\ Len(t) = Len(s)
               /\ \A k \in 1..Len(s) :
                     t[k].status = IF k = q.v /\ q.was # "PUBLISHED" THEN "PUBLISHED"
                                   ELSE IF k = q.cur /\ old THEN "SUPERSEDED" ELSE s[k].status
<1>0. ASSUME NEW u \in Seq(Versions), NEW i \in 1..Len(u), NEW x \in Status
      PROVE  LET w == [u EXCEPT ![i].status = x]
             IN  /\ w \in Seq(Versions) /\ Len(w) = Len(u)
                 /\ \A k \in 1..Len(u) : w[k].status = IF k = i THEN x ELSE u[k].status
  <2> DEFINE e == [u[i] EXCEPT !.status = x]
  <2>1. u[i] \in Versions
    OBVIOUS
  <2>2. e \in Versions
    BY <2>1 DEF Versions
  <2>3. e.status = x
    BY <2>1 DEF Versions
  <2> HIDE DEF e
  <2>4. [u EXCEPT ![i].status = x] = [u EXCEPT ![i] = e]
    BY DEF e
  <2> QED
    BY <2>2, <2>3, <2>4, ExceptSeq
<1> DEFINE a == Retire(q, s)  t == Enact(q, a)  old == q.cur # 0 /\ q.prev # "SUPERSEDED"
<1>1. /\ a \in Seq(Versions) /\ Len(a) = Len(s)
      /\ \A k \in 1..Len(s) : a[k].status = IF k = q.cur /\ old THEN "SUPERSEDED"
                                            ELSE s[k].status
  <2>1. CASE old
    <3>1. q.cur \in 1..Len(s) /\ "SUPERSEDED" \in Status
      BY <2>1 DEF Status
    <3>2. a = [s EXCEPT ![q.cur].status = "SUPERSEDED"]
      BY <2>1 DEF Retire
    <3> QED
      BY <1>0, <2>1, <3>1, <3>2
  <2>2. CASE ~old
    BY <2>2 DEF Retire
  <2> QED
    BY <2>1, <2>2
<1> HIDE DEF a
<1>2. CASE q.was = "PUBLISHED"
  BY <1>1, <1>2 DEF Enact, a
<1>3. CASE q.was # "PUBLISHED"
  <2>1. q.v \in 1..Len(a) /\ "PUBLISHED" \in Status
    BY <1>1 DEF Status
  <2>2. t = [a EXCEPT ![q.v].status = "PUBLISHED"]
    BY <1>3 DEF Enact
  <2> HIDE DEF t
  <2>3. /\ t \in Seq(Versions) /\ Len(t) = Len(a)
        /\ \A k \in 1..Len(a) : t[k].status = IF k = q.v THEN "PUBLISHED" ELSE a[k].status
    BY <1>0, <1>1, <2>1, <2>2
  <2> QED
    BY <1>1, <1>3, <2>3 DEF t, a
<1> QED
  BY <1>2, <1>3

LEMMA ActivateTypes ==
    ASSUME TypeInv, UNCHANGED use, NEW r \in Requests, ActivateCommit(r)
    PROVE  Tables' /\ Carried'
<1> DEFINE q == req[r]  p == q.p  s == version[p]  t == Enact(q, Retire(q, s))
           x == [policy[p] EXCEPT !.cur = q.v]
<1>1. /\ q.pc = "activate" /\ Carries(q) /\ Tables
  BY DEF ActivateCommit, At, TypeInv, Carried
<1>2. p \in Policies /\ Exists(p) /\ q.v \in 1..Len(s) /\ q.cur \in 0..Len(s)
      /\ s \in Seq(Versions)
  BY <1>1 DEF Carries, VersionsOf, Tables
<1>3. t \in Seq(Versions) /\ Len(t) = Len(s)
  BY <1>2, ActivationVersions
<1>4. x \in PolicyRows /\ x.cur = q.v
  BY <1>1, <1>2, RowTypes
<1>5. /\ version' = [version EXCEPT ![p] = t] /\ policy' = [policy EXCEPT ![p] = x]
      /\ Finish(r) /\ UNCHANGED <<attached, member, group, seeded, rowId, left>>
  BY <1>1, <1>2 DEF ActivateCommit, Tables
<1> HIDE DEF t, x, s
<1>6. /\ \A k \in Policies : /\ version'[k] = IF k = p THEN t ELSE version[k]
                             /\ policy'[k] = IF k = p THEN x ELSE policy[k]
      /\ version' \in [Policies -> Seq(Versions)]
      /\ policy' \in [Policies -> PolicyRows \cup {None}]
  BY <1>1, <1>2, <1>3, <1>4, <1>5 DEF Tables
<1>7. \A k \in Policies : Exists(k)' <=> Exists(k)
  BY <1>2, <1>4, <1>6, NullAssumption DEF Exists
<1>8. Grows
  BY <1>1, <1>3, <1>6, <1>7 DEF Grows, s, Tables
<1>9. \A k \in Policies : IF Exists(k)' THEN policy'[k].cur \in 0..Len(version'[k])
                          ELSE version'[k] = <<>>
  BY <1>1, <1>2, <1>3, <1>4, <1>6, <1>7 DEF Tables, s
<1> QED
  BY <1>1, <1>5, <1>6, <1>8, <1>9, TablesStep DEF Tables

\* A seeded policy is new and has one version, which is current.
LEMMA Planted ==
    ASSUME Tables, NEW rules \in use.rules, NEW c \in use.contents,
           SeedStandardPolicies(rules, c)
    PROVE  \E new : /\ new \subseteq {p \in Policies : ~Exists(p)}
                    /\ policy' = [p \in Policies |-> IF p \in new THEN policy'[p] ELSE policy[p]]
                    /\ version' = [p \in Policies |-> IF p \in new THEN version'[p]
                                                      ELSE version[p]]
                    /\ \A p \in new : /\ policy'[p] \in PolicyRows /\ policy'[p].cur = 1
                                      /\ version'[p] \in Seq(Versions) /\ Len(version'[p]) = 1
                                      /\ version'[p][1].status = "PUBLISHED"
<1> DEFINE d == [Draft(rules, c) EXCEPT !.status = "PUBLISHED"]
           plant(at, p) == CHOOSE n \in DOMAIN at : at[n] = p
           row(at, p) == [NewPolicy(plant(at, p)) EXCEPT !.cur = 1]
           Vacant == {p \in Policies : ~Exists(p)}
           Missing == Unseeded \ {n \in Names : Taken(n)}
<1>1. d \in Versions /\ d.status = "PUBLISHED"
  BY UseType, DraftType DEF Versions, Status
<1> HIDE DEF d
<1>2. PICK at \in [Missing -> Vacant] :
          /\ policy' = [p \in Policies |-> IF p \in {at[n] : n \in DOMAIN at} THEN row(at, p)
                                           ELSE policy[p]]
          /\ version' = [p \in Policies |-> IF p \in {at[n] : n \in DOMAIN at} THEN <<d>>
                                            ELSE version[p]]
  BY DEF SeedStandardPolicies, d
<1> DEFINE new == {at[n] : n \in DOMAIN at}
<1>3. new \subseteq Vacant
  OBVIOUS
<1>4. ASSUME NEW p \in new
      PROVE  row(at, p) \in PolicyRows /\ row(at, p).cur = 1
  <2>1. plant(at, p) \in Missing
    OBVIOUS
  <2>2. plant(at, p) \in Names
    BY <2>1, PolicyAssumption DEF Unseeded
  <2>3. NewPolicy(plant(at, p)) \in PolicyRows
    BY <2>2, NewPolicyType
  <2> QED
    BY <2>3 DEF PolicyRows
<1>5. <<d>> \in Seq(Versions) /\ Len(<<d>>) = 1 /\ <<d>>[1] = d
  BY <1>1
<1>6. \A p \in new : p \in Policies /\ policy'[p] = row(at, p) /\ version'[p] = <<d>>
  BY <1>2, <1>3
<1>7. \A p \in Policies \ new : policy'[p] = policy[p] /\ version'[p] = version[p]
  BY <1>2
<1>8. /\ policy' = [p \in Policies |-> policy'[p]]
      /\ version' = [p \in Policies |-> version'[p]]
  BY <1>2
<1> HIDE DEF new, row
<1>9. /\ policy' = [p \in Policies |-> IF p \in new THEN policy'[p] ELSE policy[p]]
      /\ version' = [p \in Policies |-> IF p \in new THEN version'[p] ELSE version[p]]
  BY <1>7, <1>8
<1>10. \A p \in new : /\ policy'[p] \in PolicyRows /\ policy'[p].cur = 1
                      /\ version'[p] \in Seq(Versions) /\ Len(version'[p]) = 1
                      /\ version'[p][1].status = "PUBLISHED"
  BY <1>1, <1>4, <1>5, <1>6
<1> QED
  BY <1>3, <1>9, <1>10

LEMMA SeedTypes ==
    ASSUME TypeInv, UNCHANGED use, NEW rules \in use.rules, NEW c \in use.contents,
           SeedStandardPolicies(rules, c)
    PROVE  Tables' /\ Carried'
<1>1. Tables
  BY DEF TypeInv
<1>2. PICK new : /\ new \subseteq {p \in Policies : ~Exists(p)}
                 /\ policy' = [p \in Policies |-> IF p \in new THEN policy'[p] ELSE policy[p]]
                 /\ version' = [p \in Policies |-> IF p \in new THEN version'[p]
                                                   ELSE version[p]]
                 /\ \A p \in new : /\ policy'[p] \in PolicyRows /\ policy'[p].cur = 1
                                   /\ version'[p] \in Seq(Versions) /\ Len(version'[p]) = 1
                                   /\ version'[p][1].status = "PUBLISHED"
  BY <1>1, Planted
<1>3. \A p \in Policies : p \notin new => policy'[p] = policy[p] /\ version'[p] = version[p]
  BY <1>2
<1>4. /\ \A p \in Policies : policy'[p] \in PolicyRows \cup {None} /\ version'[p] \in Seq(Versions)
      /\ DOMAIN policy' = Policies /\ DOMAIN version' = Policies
  BY <1>1, <1>2, <1>3 DEF Tables
<1>5. /\ policy' \in [Policies -> PolicyRows \cup {None}]
      /\ version' \in [Policies -> Seq(Versions)]
  BY <1>2, <1>4
<1>6. Grows
  BY <1>1, <1>2, <1>3 DEF Grows, Exists, Tables
<1>7. \A p \in Policies : IF Exists(p)' THEN policy'[p].cur \in 0..Len(version'[p])
                          ELSE version'[p] = <<>>
  BY <1>1, <1>2, <1>3, NullAssumption DEF Exists, Tables
<1>8. /\ UNCHANGED <<attached, member, group, req>> /\ left' \in Nat
      /\ seeded' \subseteq Templates /\ rowId' \in Nat
  BY <1>1 DEF SeedStandardPolicies, Tables
<1> QED
  BY <1>5, <1>6, <1>7, <1>8, TablesStep

\* Steps that leave the policies alone and write attachments or members.
LEMMA GroupsStep ==
    ASSUME TypeInv, UNCHANGED <<policy, version, seeded, use>>, left' \in Nat, rowId' \in Nat,
           group' \subseteq Groups,
           attached' \subseteq group' \X {p \in Policies : Exists(p)},
           member' \subseteq [user : Users, group : group', id : Nat],
           \A m, k \in member' : m.user = k.user /\ m.group = k.group => m = k,
           HoldsGroups, DOMAIN req' = Requests,
           \A r \in Requests : req'[r] = req[r] \/ Carries(req[r])'
    PROVE  Tables' /\ Carried'
<1>1. Tables'
  BY DEF TypeInv, Tables, Exists
<1>2. Grows
  BY DEF Grows, Exists, TypeInv, Tables
<1>3. version' \in [Policies -> Seq(Versions)]
  BY <1>1 DEF Tables
<1> QED
  BY <1>1, <1>2, <1>3, CarriedKept

LEMMA SameRequests ==
    ASSUME TypeInv, \/ req' = req
                    \/ \E r \in Requests : Finish(r)
    PROVE  DOMAIN req' = Requests /\ \A r \in Requests : req'[r] = req[r] \/ Carries(req[r])'
<1>1. Carries(Idle)'
  BY DEF Carries, Idle
<1> QED
  BY <1>1 DEF TypeInv, Carried, Finish, Go

\* A member row of an existing group, if the user has none of that group.
LEMMA NoNewGroups ==
    ASSUME TypeInv, group' = group
    PROVE  HoldsGroups
  BY DEF HoldsGroups, TypeInv, Carried, Carries, At

LEMMA AttachTypes ==
    ASSUME TypeInv, UNCHANGED use, NEW r \in Requests,
           \/ AttachCommit(r)
           \/ \E p \in Policies, g \in group : Detach(r, g, p)
    PROVE  Tables' /\ Carried'
<1>1. Tables /\ Carries(req[r])
  BY DEF TypeInv, Carried
<1>2. /\ UNCHANGED <<policy, version, seeded, rowId, group, member>> /\ left' \in Nat
      /\ req' = req \/ Finish(r)
  BY <1>1, ArrivesLeft DEF AttachCommit, Detach, Tables
<1>3. attached' \subseteq group' \X {p \in Policies : Exists(p)}
  <2>1. CASE AttachCommit(r)
    <3>1. req[r].p \in Policies /\ Exists(req[r].p)
      BY <1>1, <2>1 DEF AttachCommit, Carries, At
    <3> QED
      BY <1>1, <1>2, <2>1, <3>1 DEF AttachCommit, Tables
  <2>2. ASSUME NEW p \in Policies, NEW g \in group, Detach(r, g, p)
        PROVE  attached' \subseteq attached
    BY <2>2 DEF Detach
  <2> QED
    BY <1>1, <1>2, <2>1, <2>2 DEF Tables
<1>4. /\ DOMAIN req' = Requests
      /\ \A k \in Requests : req'[k] = req[k] \/ Carries(req[k])'
  BY <1>2, SameRequests
<1>5. HoldsGroups
  BY <1>2, NoNewGroups
<1> QED
  BY <1>1, <1>2, <1>3, <1>4, <1>5, GroupsStep DEF Tables

LEMMA GroupTypes ==
    ASSUME TypeInv, UNCHANGED use, NEW r \in use.requests, GroupStep(r)
    PROVE  Tables' /\ Carried'
<1>0. r \in Requests /\ Tables /\ Carries(req[r])
  BY UseType DEF TypeInv, Carried
<1>1. ASSUME NEW g \in Groups, CreateGroup(r, g)
      PROVE  Tables' /\ Carried'
  <2>1. /\ UNCHANGED <<policy, version, attached, member, seeded, rowId, req>>
        /\ left' \in Nat /\ group' = group \cup {g}
    BY <1>0, <1>1, ArrivesLeft DEF CreateGroup
  <2>2. /\ group' \subseteq Groups /\ attached' \subseteq group' \X {p \in Policies : Exists(p)}
        /\ \A m, k \in member' : m.user = k.user /\ m.group = k.group => m = k
        /\ rowId' \in Nat
    BY <1>0, <2>1 DEF Tables
  <2>3. member' \subseteq [user : Users, group : group', id : Nat]
    BY <1>0, <2>1 DEF Tables
  <2>4. HoldsGroups
    BY <2>1 DEF HoldsGroups, TypeInv, Carried, Carries, At
  <2>5. DOMAIN req' = Requests /\ \A k \in Requests : req'[k] = req[k] \/ Carries(req[k])'
    BY <2>1, SameRequests
  <2> QED
    BY <2>1, <2>2, <2>3, <2>4, <2>5, GroupsStep
<1>2. ASSUME NEW g \in Groups, DeleteGroup(r, g)
      PROVE  Tables' /\ Carried'
  <2>1. /\ UNCHANGED <<policy, version, seeded, rowId, req>> /\ left' \in Nat
        /\ group' = group \ {g} /\ member' = {m \in member : m.group # g}
        /\ attached' = {x \in attached : x[1] # g} /\ ~Referenced(g)
    BY <1>0, <1>2, ArrivesLeft DEF DeleteGroup, AttachmentsWithout
  <2>2. /\ group' \subseteq Groups /\ rowId' \in Nat
        /\ \A m, k \in member' : m.user = k.user /\ m.group = k.group => m = k
    BY <1>0, <2>1 DEF Tables
  <2>3. attached' \subseteq group' \X {p \in Policies : Exists(p)}
    BY <1>0, <2>1 DEF Tables
  <2>4. member' \subseteq [user : Users, group : group', id : Nat]
    BY <1>0, <2>1 DEF Tables
  <2>5. HoldsGroups
    BY <2>1 DEF HoldsGroups, Referenced, TypeInv, Carried, Carries, At
  <2>6. DOMAIN req' = Requests /\ \A k \in Requests : req'[k] = req[k] \/ Carries(req[k])'
    BY <2>1, SameRequests
  <2> QED
    BY <2>1, <2>2, <2>3, <2>4, <2>5, <2>6, GroupsStep
<1>3. ASSUME NEW u \in Users, NEW g \in Groups, AddMember(r, u, g) \/ RemoveMember(r, u, g)
      PROVE  Tables' /\ Carried'
  <2>1. /\ UNCHANGED <<policy, version, attached, group, seeded, req>> /\ left' \in Nat
        /\ rowId' \in Nat
    BY <1>0, <1>3, ArrivesLeft DEF AddMember, RemoveMember, Tables
  <2>2. /\ member' \subseteq [user : Users, group : group', id : Nat]
        /\ \A m, k \in member' : m.user = k.user /\ m.group = k.group => m = k
    <3>1. CASE AddMember(r, u, g)
      <4> DEFINE x == [user |-> u, group |-> g, id |-> rowId + 1]
      <4>1. x \in [user : Users, group : group, id : Nat] /\ x.user = u /\ x.group = g
        BY <1>0, <3>1 DEF AddMember, Tables
      <4>2. member' = member \cup {x}
        BY <3>1 DEF AddMember
      <4>3. \A m \in member : ~(m.user = u /\ m.group = g)
        BY <3>1 DEF AddMember, GroupsOf
      <4> HIDE DEF x
      <4> QED
        BY <1>0, <2>1, <4>1, <4>2, <4>3 DEF Tables
    <3>2. CASE RemoveMember(r, u, g)
      BY <1>0, <2>1, <3>2 DEF RemoveMember, Tables
    <3> QED
      BY <1>3, <3>1, <3>2
  <2>3. HoldsGroups
    BY <2>1, NoNewGroups
  <2>4. DOMAIN req' = Requests /\ \A k \in Requests : req'[k] = req[k] \/ Carries(req[k])'
    BY <2>1, SameRequests
  <2>5. group' \subseteq Groups /\ attached' \subseteq group' \X {p \in Policies : Exists(p)}
    BY <1>0, <2>1 DEF Tables
  <2> QED
    BY <2>1, <2>2, <2>3, <2>4, <2>5, GroupsStep
<1>4. ASSUME NEW u \in Users, NEW gs \in SUBSET Groups, SetGroupsFlush(r, u, gs)
      PROVE  Tables' /\ Carried'
  <2> DEFINE q == [pc |-> "regroup", u |-> u, groups |-> gs, gone |-> {m \in member : m.user = u}]
  <2>1. Go(r, q) /\ UNCHANGED tableVars /\ left' \in Nat /\ gs \subseteq group
    BY <1>0, <1>4, ArrivesLeft DEF SetGroupsFlush
  <2>2. Carries(q)
    BY <2>1 DEF Carries
  <2> HIDE DEF q
  <2> QED
    BY <1>0, <2>1, <2>2, CarriedStep
<1>5. CASE SetGroupsCommit(r)
  <2> DEFINE q == req[r]
             kept == member \ q.gone
             ok == \A m \in kept : ~(m.user = q.u /\ m.group \in q.groups)
             mine == {[user |-> q.u, group |-> g, id |-> rowId + 1] : g \in q.groups}
  <2>1. /\ UNCHANGED <<policy, version, attached, group, seeded, left>> /\ Finish(r)
        /\ rowId' \in Nat /\ left' \in Nat /\ q.pc = "regroup"
        /\ member' = IF ok THEN kept \cup mine ELSE member
    BY <1>0, <1>5 DEF SetGroupsCommit, Tables, At
  <2>2. q.u \in Users /\ q.groups \subseteq group
    BY <1>0, <2>1 DEF Carries
  <2>3. /\ mine \subseteq [user : Users, group : group, id : Nat]
        /\ \A m \in mine : m.user = q.u /\ m.group \in q.groups
        /\ \A m, k \in mine : m.group = k.group => m = k
    BY <1>0, <2>2 DEF Tables
  <2>4. kept \subseteq member
    OBVIOUS
  <2> HIDE DEF mine, kept
  <2>5. /\ member' \subseteq [user : Users, group : group', id : Nat]
        /\ \A m, k \in member' : m.user = k.user /\ m.group = k.group => m = k
    BY <1>0, <2>1, <2>3, <2>4 DEF Tables
  <2>6. HoldsGroups
    BY <2>1, NoNewGroups
  <2>7. DOMAIN req' = Requests /\ \A k \in Requests : req'[k] = req[k] \/ Carries(req[k])'
    BY <1>0, <2>1, SameRequests
  <2>8. group' \subseteq Groups /\ attached' \subseteq group' \X {p \in Policies : Exists(p)}
    BY <1>0, <2>1 DEF Tables
  <2> QED
    BY <2>1, <2>5, <2>6, <2>7, <2>8, GroupsStep
<1> QED
  BY <1>1, <1>2, <1>3, <1>4, <1>5 DEF GroupStep

\* Steps of an upload, and its request's death.
LEMMA UploadTypes ==
    ASSUME TypeInv, UNCHANGED <<use, busy>>, NEW r \in use.requests, UploadStep(r)
    PROVE  Tables' /\ Carried' /\ Counters'
<1>0. r \in Requests /\ Tables /\ Carries(req[r]) /\ Counters /\ left \in Nat
  BY UseType DEF TypeInv, Carried, Tables
<1>1. ASSUME NEW u \in Users, NEW f \in use.files, NEW rows, UploadBegins(r, u, f, rows)
      PROVE  Tables' /\ Carried' /\ Counters'
  <2>1. PICK pc \in {"scan", "blocked"} :
            /\ Go(r, [pc |-> pc, u |-> u, f |-> f]) /\ left' \in Nat
            /\ UNCHANGED <<tableVars, uploadVars>>
    BY <1>0, <1>1, ArrivesLeft DEF UploadBegins
  <2>2. Carries([pc |-> pc, u |-> u, f |-> f])
    BY <1>0, UseType DEF Carries
  <2>3. Tables' /\ Carried'
    BY <1>0, <2>1, <2>2, CarriedStep
  <2> QED
    BY <1>0, <2>1, <2>3 DEF Counters, uploadVars
<1>2. Carries(Idle)
  BY DEF Carries, Idle
<1>3. CASE UploadCount(r)
  <2> DEFINE u == req[r].u  opens == Reaches(blocked[u] + 1) /\ open[u] = 0
             q == [pc |-> "report", u |-> u, opens |-> opens]
  <2>1. u \in Users
    BY <1>0, <1>3 DEF UploadCount, At, Carries
  <2>2. Carries(q)
    BY <2>1 DEF Carries
  <2>3. /\ Go(r, q) \/ Finish(r)
        /\ left' = left
        /\ UNCHANGED <<tableVars, uploadVars>>
    BY <1>3 DEF UploadCount
  <2> HIDE DEF q
  <2>4. Tables' /\ Carried'
    BY <1>0, <1>2, <2>2, <2>3, CarriedStep DEF Finish
  <2> QED
    BY <1>0, <2>3, <2>4 DEF Counters, uploadVars
<1>4. CASE UploadReport(r) \/ ScannerDown(r) \/ ScanInfected(r) \/ UploadCommit(r)
  <2> DEFINE u == req[r].u
  <2>1. u \in Users /\ Finish(r) /\ UNCHANGED <<tableVars, left>>
    BY <1>0, <1>4 DEF UploadReport, ScannerDown, ScanInfected, UploadCommit, At, Carries
  <2>2. Tables' /\ Carried'
    BY <1>0, <1>2, <2>1, CarriedStep DEF Finish
  <2>3. Counters'
    <3>1. CASE UploadReport(r)
      BY <1>0, <2>1, <3>1 DEF UploadReport, Counters
    <3>2. CASE ScannerDown(r)
      BY <1>0, <2>1, <3>2 DEF ScannerDown, Counters
    <3>3. CASE ScanInfected(r)
      BY <1>0, <2>1, <3>3 DEF ScanInfected, Counters
    <3>4. CASE UploadCommit(r)
      BY <1>0, <2>1, <3>4 DEF UploadCommit, Counters
    <3> QED
      BY <1>4, <3>1, <3>2, <3>3, <3>4
  <2> QED
    BY <2>2, <2>3
<1>5. CASE WriteUpload(r)
  <2> DEFINE q == req[r]
         w == [pc |-> "written", u |-> q.u, f |-> q.f]
  <2>1. /\ q.pc = "scan" /\ UNCHANGED <<tableVars, left, active, blocked, open, malware, noted>>
    BY <1>5 DEF WriteUpload, At
  <2>2. q.u \in Users /\ q.f \in Files
    BY <1>0, <2>1 DEF Carries
  <2>3. Carries(w)
    BY <2>2 DEF Carries
  <2>4. /\ Go(r, w) \/ Finish(r)
        /\ sandbox' = sandbox
           \/ /\ q.u \in active
              /\ sandbox' = [sandbox EXCEPT ![q.u] = sandbox[q.u] \cup {q.f}]
    BY <1>5 DEF WriteUpload, Place
  <2> HIDE DEF w
  <2>5. Tables' /\ Carried'
    BY <1>0, <1>2, <2>1, <2>3, <2>4, CarriedStep DEF Finish
  <2>6. CASE sandbox' = sandbox
    BY <1>0, <2>1, <2>5, <2>6 DEF Counters
  <2>7. CASE /\ q.u \in active
             /\ sandbox' = [sandbox EXCEPT ![q.u] = sandbox[q.u] \cup {q.f}]
    BY <1>0, <2>1, <2>2, <2>5, <2>7 DEF Counters
  <2> QED
    BY <2>4, <2>6, <2>7
<1> QED
  BY <1>1, <1>3, <1>4, <1>5 DEF UploadStep

LEMMA CrashTypes ==
    ASSUME TypeInv, UNCHANGED <<use, busy>>, NEW r \in Requests, Crash(r)
    PROVE  Tables' /\ Carried' /\ Counters'
<1>1. Carries(Idle) /\ left' \in Nat
  BY DEF Carries, Idle, Crash, TypeInv, Tables
<1>2. Tables' /\ Carried'
  BY <1>1, CarriedStep DEF Crash, Finish
<1> QED
  BY <1>2 DEF Crash, TypeInv, Counters, uploadVars

LEMMA ViolationTypes ==
    ASSUME TypeInv, UNCHANGED <<use, busy>>, NEW u \in Users,
           WindowPasses(u) \/ CloseIncident(u) \/ SessionEnds(u)
    PROVE  Tables' /\ Carried' /\ Counters'
<1>1. UNCHANGED policyVars /\ Tables /\ Carried /\ Counters
  BY DEF WindowPasses, CloseIncident, SessionEnds, TypeInv
<1>2. Tables' /\ Carried'
  BY <1>1 DEF policyVars, tableVars, Tables, Carried, Carries, Exists, VersionsOf
<1>3. CASE WindowPasses(u)
  <2>1. blocked[u] - 1 \in Nat
    BY <1>1, <1>3 DEF WindowPasses, Counters
  <2>2. 0..(blocked[u] - 1) \subseteq Nat
    BY <2>1
  <2>3. PICK n \in Nat : noted' = [noted EXCEPT ![u] = n]
    <3>1. PICK n \in 0..(blocked[u] - 1) : noted' = [noted EXCEPT ![u] = n]
      BY <1>3, Zenon DEF WindowPasses
    <3> QED
      BY <2>2, <3>1
  <2> QED
    BY <1>1, <1>2, <1>3, <2>1, <2>3 DEF WindowPasses, Counters
<1>4. CASE CloseIncident(u)
  <2>1. open[u] - 1 \in Nat
    BY <1>1, <1>4 DEF CloseIncident, Counters
  <2> QED
    BY <1>1, <1>2, <1>4, <2>1 DEF CloseIncident, Counters
<1>5. CASE SessionEnds(u)
  BY <1>1, <1>2, <1>5 DEF SessionEnds, Counters
<1> QED
  BY <1>3, <1>4, <1>5

\* Steps of the viewer's session and its filters.
LEMMA ViewerTypes ==
    ASSUME TypeInv, UNCHANGED use, UNCHANGED <<policyVars, uploadVars>>,
           (\E u \in Users : CreateSession(u)) \/ Connect \/ FilterStep
    PROVE  TypeInv'
<1>1. Tables' /\ Carried'
  BY DEF TypeInv, policyVars, tableVars, Tables, Carried, Carries, Exists, VersionsOf
<1>2. busy' \in Directions \cup {NoDirection}
  BY DEF TypeInv, Counters, CreateSession, Connect, filterVars, FilterStep, Feed, TakeOne,
         FeedEnds, ProtocolError, PassThrough
<1> QED
  BY <1>1, <1>2 DEF TypeInv, Counters, uploadVars

\* An administrator's request, and a seeding.
LEMMA AdminTypes ==
    ASSUME TypeInv, UNCHANGED <<use, uploadVars, filterVars>>,
           \/ \E r \in use.requests : EditStep(r) \/ GroupStep(r)
           \/ \E rules \in use.rules, c \in use.contents : SeedStandardPolicies(rules, c)
    PROVE  TypeInv'
<1>1. Counters'
  BY DEF TypeInv, Counters, uploadVars, filterVars
<1>2. ASSUME NEW r \in use.requests, EditStep(r)
      PROVE  Tables' /\ Carried'
  <2>0. r \in Requests
    BY UseType DEF TypeInv
  <2>1. CASE (\E p \in Policies, n \in Names : CreatePolicy(r, p, n) \/ RenamePolicy(r, p, n))
             \/ ArchiveCommit(r)
    BY <2>0, <2>1, PolicyRowTypes
  <2>2. ASSUME NEW p \in Policies, NEW rules \in use.rules, NEW c \in use.contents,
               CreateDraftVersion(r, p, rules, c)
        PROVE  Tables' /\ Carried'
    BY <2>0, <2>2, DraftTypes
  <2>3. CASE \/ \E p \in Policies : \E v \in VersionsOf(p) :
                  \/ \E rules \in use.rules, c \in use.contents : SaveLoad(r, p, v, rules, c)
                  \/ PublishLoad(r, p, v) \/ RollbackLoad(r, p, v)
             \/ SaveFlush(r)
             \/ \E p \in Policies : ArchiveLoad(r, p) \/ RestoreLoad(r, p)
             \/ \E p \in Policies, g \in group : AttachLoad(r, g, p)
    BY <2>3, EditLoadTypes
  <2>4. CASE SaveCommit(r)
    BY <2>0, <2>4, SaveCommitTypes
  <2>5. CASE ActivateCommit(r)
    BY <2>0, <2>5, ActivateTypes
  <2>6. CASE AttachCommit(r) \/ \E p \in Policies, g \in group : Detach(r, g, p)
    BY <2>0, <2>6, AttachTypes
  <2> QED
    BY <1>2, <2>1, <2>2, <2>3, <2>4, <2>5, <2>6, Zenon DEF EditStep
<1> QED
  BY <1>1, <1>2, GroupTypes, SeedTypes DEF TypeInv

\* The four kinds of steps.
LEMMA ActKinds ==
    ASSUME Act
    PROVE  \/ /\ UNCHANGED <<uploadVars, filterVars, session>>
              /\ \/ \E r \in use.requests : EditStep(r) \/ GroupStep(r)
                 \/ \E rules \in use.rules, c \in use.contents : SeedStandardPolicies(rules, c)
           \/ /\ UNCHANGED <<filterVars, session>>
              /\ \E r \in use.requests : UploadStep(r)
           \/ /\ UNCHANGED <<filterVars, session>>
              /\ \/ \E u \in Users : WindowPasses(u) \/ CloseIncident(u) \/ SessionEnds(u)
                 \/ \E r \in Requests : Crash(r)
           \/ /\ UNCHANGED <<policyVars, uploadVars>>
              /\ \/ \E u \in Users : CreateSession(u)
                 \/ Connect
                 \/ FilterStep /\ UNCHANGED session
  BY DEF Act, CreateSession, Connect

LEMMA StepTypes == TypeInv /\ [Next]_vars => TypeInv'
<1>1. ASSUME TypeInv, UNCHANGED vars
      PROVE  TypeInv'
  BY <1>1 DEF TypeInv, Tables, Carried, Carries, Counters, Exists, VersionsOf, vars, policyVars,
              tableVars, uploadVars, filterVars
<1>2. ASSUME TypeInv, Act, UNCHANGED use
      PROVE  TypeInv'
  <2>1. UNCHANGED filterVars => UNCHANGED busy
    BY DEF filterVars
  <2>2. ASSUME NEW r \in use.requests, UploadStep(r), UNCHANGED filterVars
        PROVE  TypeInv'
    BY <1>2, <2>1, <2>2, UploadTypes DEF TypeInv
  <2>3. ASSUME NEW u \in Users, WindowPasses(u) \/ CloseIncident(u) \/ SessionEnds(u),
               UNCHANGED filterVars
        PROVE  TypeInv'
    BY <1>2, <2>1, <2>3, ViolationTypes DEF TypeInv
  <2>4. ASSUME NEW r \in Requests, Crash(r), UNCHANGED filterVars
        PROVE  TypeInv'
    BY <1>2, <2>1, <2>4, CrashTypes DEF TypeInv
  <2>5. CASE /\ UNCHANGED <<uploadVars, filterVars>>
             /\ \/ \E r \in use.requests : EditStep(r) \/ GroupStep(r)
                \/ \E rules \in use.rules, c \in use.contents : SeedStandardPolicies(rules, c)
    BY <1>2, <2>5, AdminTypes
  <2>6. CASE /\ UNCHANGED <<policyVars, uploadVars>>
             /\ (\E u \in Users : CreateSession(u)) \/ Connect \/ FilterStep
    BY <1>2, <2>6, ViewerTypes
  <2> QED
    BY <1>2, <2>2, <2>3, <2>4, <2>5, <2>6, ActKinds
<1> QED
  BY <1>1, <1>2 DEF Next

\* Rows have their types and refer to what is there; requests carry ids of
\* policies and versions that stay, and of groups that their inserts hold.
THEOREM PolicyTypes == Spec => [](TypeInv /\ TypeOK)
<1>1. TypeInv => TypeOK
  <2>1. ASSUME TypeInv
        PROVE  TypeOK
    <3>1. /\ policy \in [Policies -> PolicyRows \cup {None}] /\ seeded \subseteq Templates
          /\ \A p \in Policies : /\ \A v \in VersionsOf(p) : version[p][v] \in Versions
                                 /\ Exists(p) => policy[p].cur \in 0..Len(version[p])
      BY <2>1 DEF TypeInv, Tables, VersionsOf
    <3>2. /\ \A x \in attached : x[1] \in group /\ Exists(x[2])
          /\ \A m \in member : m.user \in Users /\ m.group \in group
          /\ \A m, k \in member : m.user = k.user /\ m.group = k.group => m = k
      BY <2>1 DEF TypeInv, Tables
    <3>3. /\ open \in [Users -> Nat] /\ blocked \in [Users -> Nat] /\ malware \in [Users -> Nat]
          /\ \A u \in Users : u \notin active => sandbox[u] = {}
          /\ busy \in Directions \cup {NoDirection}
      BY <2>1 DEF TypeInv, Counters
    <3> QED
      BY <3>1, <3>2, <3>3 DEF TypeOK
  <2> QED
    BY <2>1
<1> QED
  BY <1>1, InitTypes, StepTypes, PTL DEF Spec

-----------------------------------------------------------------------------
\* One published version.
LEMMA InitCurrent == Init => CurrentInv
<1> SUFFICES ASSUME NEW st \in Starts, InitFrom(st)
             PROVE  CurrentInv
  BY DEF Init
<1>1. Installed(st)
  BY StartAssumption
<1>2. \A r \in Requests : ~At(r, "activate")
  BY DEF InitFrom, Idle, At
<1>3. Overlaps = {}
  BY <1>2 DEF Overlaps
<1>4. \A p \in Policies : Exists(p) =>
          \A v \in VersionsOf(p) : version[p][v].status = "PUBLISHED" <=> v = policy[p].cur
  BY <1>1 DEF InitFrom, Installed, Exists, VersionsOf
<1> QED
  BY <1>2, <1>3, <1>4 DEF CurrentInv

\* No version's status changes and none becomes current, but of new policies.
Settled ==
    \A p \in Policies :
        IF Exists(p)
        THEN /\ Exists(p)' /\ policy'[p].cur = policy[p].cur
             /\ VersionsOf(p) \subseteq VersionsOf(p)'
             /\ \A v \in VersionsOf(p) : version'[p][v].status = version[p][v].status
             /\ \A v \in VersionsOf(p)' \ VersionsOf(p) : version'[p][v].status # "PUBLISHED"
        ELSE Exists(p)' => \A v \in VersionsOf(p)' :
                 version'[p][v].status = "PUBLISHED" <=> v = policy'[p].cur

LEMMA CurrentKept ==
    ASSUME TypeInv, TypeInv', CurrentInv, Settled, raced' = raced \cup Overlaps',
           \A r \in Requests : \/ req'[r] = req[r]
                               \/ req'[r].pc # "activate"
                               \/ req'[r].p \notin raced => Knows(req[r])'
    PROVE  CurrentInv'
<1>1. Overlaps' \subseteq raced' /\ raced \subseteq raced'
  OBVIOUS
<1>2. ASSUME NEW p \in Policies \ raced', Exists(p)', NEW v \in VersionsOf(p)'
      PROVE  version'[p][v].status = "PUBLISHED" <=> v = policy'[p].cur
  <2>1. p \in Policies \ raced
    BY <1>1
  <2>2. CASE Exists(p)
    <3>1. \A w \in VersionsOf(p) : version[p][w].status = "PUBLISHED" <=> w = policy[p].cur
      BY <2>1, <2>2 DEF CurrentInv
    <3>2. policy[p].cur \in 0..Len(version[p]) /\ VersionsOf(p) = 1..Len(version[p])
          /\ Len(version[p]) \in Nat
      BY <2>2 DEF TypeInv, Tables, VersionsOf
    <3>3. /\ policy'[p].cur = policy[p].cur /\ VersionsOf(p) \subseteq VersionsOf(p)'
          /\ \A w \in VersionsOf(p) : version'[p][w].status = version[p][w].status
          /\ \A w \in VersionsOf(p)' \ VersionsOf(p) : version'[p][w].status # "PUBLISHED"
      BY <2>2 DEF Settled
    <3>4. CASE v \in VersionsOf(p)
      BY <3>1, <3>3, <3>4
    <3>5. CASE v \notin VersionsOf(p)
      <4>1. version'[p][v].status # "PUBLISHED"
        BY <3>3, <3>5
      <4>2. v # 0
        BY DEF TypeInv, Tables, VersionsOf
      <4> QED
        BY <3>2, <3>3, <3>5, <4>1, <4>2
    <3> QED
      BY <3>4, <3>5
  <2>3. CASE ~Exists(p)
    BY <1>2, <2>3 DEF Settled
  <2> QED
    BY <2>2, <2>3
<1>3. ASSUME NEW r \in Requests, At(r, "activate")', req'[r].p \notin raced'
      PROVE  Knows(req[r])'
  <2>1. CASE req'[r] = req[r]
    <3> DEFINE q == req[r]
    <3>1. At(r, "activate") /\ q.p \notin raced
      BY <1>1, <1>3, <2>1 DEF At
    <3>2. Knows(q)
      BY <3>1 DEF CurrentInv
    <3>3. Carries(q) /\ q.pc = "activate"
      BY <3>1 DEF TypeInv, Carried, At
    <3>4. q.p \in Policies /\ Exists(q.p) /\ q.v \in VersionsOf(q.p)
      BY <3>3 DEF Carries
    <3>5. policy'[q.p].cur = policy[q.p].cur
          /\ version'[q.p][q.v].status = version[q.p][q.v].status
      BY <3>4 DEF Settled
    <3> QED
      BY <2>1, <3>2, <3>5 DEF Knows
  <2>2. CASE req'[r].p \notin raced => Knows(req[r])'
    BY <1>1, <1>3, <2>2
  <2> QED
    BY <1>3, <2>1, <2>2 DEF At
<1> QED
  BY <1>1, <1>2, <1>3 DEF CurrentInv

LEMMA SettledSame ==
    ASSUME TypeInv, UNCHANGED <<policy, version>>
    PROVE  Settled
  BY DEF Settled, Exists, VersionsOf, TypeInv, Tables

\* Steps after which no request is newly about to make a version current.
Others == \A r \in Requests : req'[r] = req[r] \/ req'[r].pc # "activate"

LEMMA OthersGo ==
    ASSUME TypeInv, NEW r \in Requests, NEW q, q.pc # "activate", Go(r, q)
    PROVE  Others
  BY DEF Others, Go, TypeInv, Carried

LEMMA OthersFinish ==
    ASSUME TypeInv, NEW r \in Requests, Finish(r)
    PROVE  Others
  BY DEF Others, Finish, Go, Idle, TypeInv, Carried

LEMMA OthersSame ==
    ASSUME req' = req
    PROVE  Others
  BY DEF Others

LEMMA EditCalm ==
    ASSUME TypeInv, NEW r \in Requests,
           \/ \E p \in Policies : \E v \in VersionsOf(p) :
                 \E rules \in use.rules, c \in use.contents : SaveLoad(r, p, v, rules, c)
           \/ SaveFlush(r)
           \/ \E p \in Policies : ArchiveLoad(r, p) \/ RestoreLoad(r, p)
           \/ \E p \in Policies, g \in group : AttachLoad(r, g, p) \/ Detach(r, g, p)
           \/ AttachCommit(r)
    PROVE  Settled /\ Others
<1>1. UNCHANGED <<policy, version>>
  BY DEF SaveLoad, SaveFlush, ArchiveLoad, RestoreLoad, AttachLoad, Detach, AttachCommit, tableVars
<1>2. \/ \E q : q.pc # "activate" /\ Go(r, q)
      \/ Finish(r)
      \/ req' = req
  BY DEF SaveLoad, SaveFlush, ArchiveLoad, RestoreLoad, AttachLoad, Detach, AttachCommit
<1> QED
  BY <1>1, <1>2, SettledSame, OthersGo, OthersFinish, OthersSame

LEMMA GroupCalm ==
    ASSUME TypeInv, NEW r \in Requests, GroupStep(r)
    PROVE  Settled /\ Others
<1>1. UNCHANGED <<policy, version>>
  BY DEF GroupStep, CreateGroup, DeleteGroup, AddMember, RemoveMember, SetGroupsFlush,
         SetGroupsCommit, tableVars
<1>2. \/ \E q : q.pc # "activate" /\ Go(r, q)
      \/ Finish(r)
      \/ req' = req
  BY DEF GroupStep, CreateGroup, DeleteGroup, AddMember, RemoveMember, SetGroupsFlush,
         SetGroupsCommit
<1> QED
  BY <1>1, <1>2, SettledSame, OthersGo, OthersFinish, OthersSame

LEMMA UploadCalm ==
    ASSUME TypeInv, NEW r \in Requests, UploadStep(r) \/ Crash(r)
    PROVE  Settled /\ Others
<1>1. UNCHANGED <<policy, version>>
  BY DEF UploadStep, UploadBegins, UploadCount, UploadReport, ScannerDown, ScanInfected,
         WriteUpload, UploadCommit, Crash, tableVars
<1>2. \/ \E q : q.pc # "activate" /\ Go(r, q)
      \/ Finish(r)
  <2>1. ASSUME NEW u, NEW f, NEW rows, UploadBegins(r, u, f, rows)
        PROVE  \E q : q.pc # "activate" /\ Go(r, q)
    <3>1. PICK pc \in {"scan", "blocked"} : Go(r, [pc |-> pc, u |-> u, f |-> f])
      BY <2>1 DEF UploadBegins
    <3> QED
      BY <3>1
  <2>2. CASE UploadCount(r)
    <3>1. Finish(r) \/ \E o : Go(r, [pc |-> "report", u |-> req[r].u, opens |-> o])
      BY <2>2 DEF UploadCount
    <3> QED
      BY <3>1
  <2>3. CASE WriteUpload(r)
    <3>1. Finish(r) \/ Go(r, [pc |-> "written", u |-> req[r].u, f |-> req[r].f])
      BY <2>3 DEF WriteUpload
    <3> QED
      BY <3>1
  <2>4. CASE UploadReport(r) \/ ScannerDown(r) \/ ScanInfected(r) \/ UploadCommit(r) \/ Crash(r)
    BY <2>4 DEF UploadReport, ScannerDown, ScanInfected, UploadCommit, Crash
  <2> QED
    BY <2>1, <2>2, <2>3, <2>4, Zenon DEF UploadStep
<1> QED
  BY <1>1, <1>2, SettledSame, OthersGo, OthersFinish

LEMMA PolicyRowCalm ==
    ASSUME TypeInv, NEW r \in Requests,
           \/ \E p \in Policies, n \in Names : CreatePolicy(r, p, n) \/ RenamePolicy(r, p, n)
           \/ ArchiveCommit(r)
    PROVE  Settled /\ Others
<1>0. Tables /\ Carries(req[r])
  BY DEF TypeInv, Carried
<1>1. Others /\ version' = version
  BY OthersFinish, OthersSame DEF CreatePolicy, RenamePolicy, ArchiveCommit
<1>2. ASSUME NEW p \in Policies, NEW n \in Names, CreatePolicy(r, p, n)
      PROVE  Settled
  <2>1. /\ policy' = [policy EXCEPT ![p] = NewPolicy(n)] /\ ~Exists(p)
    BY <1>2 DEF CreatePolicy
  <2>2. version[p] = <<>>
    BY <1>0, <2>1 DEF Tables
  <2>3. VersionsOf(p) = {}
    BY <2>2 DEF VersionsOf
  <2> QED
    BY <1>0, <1>1, <2>1, <2>3 DEF Settled, Exists, VersionsOf, Tables
<1>3. ASSUME NEW p \in Policies, Exists(p), NEW x \in PolicyRows, x.cur = policy[p].cur,
             policy' = [policy EXCEPT ![p] = x]
      PROVE  Settled
  <2>1. \A k \in Policies : /\ Exists(k)' <=> Exists(k)
                            /\ Exists(k) => policy'[k].cur = policy[k].cur
    BY <1>0, <1>3, NullAssumption DEF Tables, Exists
  <2> QED
    BY <1>1, <2>1 DEF Settled, VersionsOf
<1>4. ASSUME NEW p \in Policies, NEW n \in Names, RenamePolicy(r, p, n)
      PROVE  Settled
  <2>1. policy' = [policy EXCEPT ![p] = [policy[p] EXCEPT !.name = n]] /\ Exists(p)
    BY <1>4 DEF RenamePolicy
  <2>2. /\ [policy[p] EXCEPT !.name = n] \in PolicyRows
        /\ [policy[p] EXCEPT !.name = n].cur = policy[p].cur
    BY <1>0, <2>1, RowTypes
  <2> QED
    BY <1>3, <2>1, <2>2
<1>5. CASE ArchiveCommit(r)
  <2> DEFINE p == req[r].p  to == req[r].to
  <2>1. policy' = [policy EXCEPT ![p] = [policy[p] EXCEPT !.archived = to]]
        /\ req[r].pc = "archive"
    BY <1>5 DEF ArchiveCommit, At
  <2>2. p \in Policies /\ Exists(p) /\ to \in BOOLEAN
    BY <1>0, <2>1 DEF Carries
  <2>3. /\ [policy[p] EXCEPT !.archived = to] \in PolicyRows
        /\ [policy[p] EXCEPT !.archived = to].cur = policy[p].cur
    BY <1>0, <2>2, RowTypes
  <2> QED
    BY <1>1, <1>3, <2>1, <2>2, <2>3
<1> QED
  BY <1>1, <1>2, <1>4, <1>5

LEMMA DraftCalm ==
    ASSUME TypeInv, NEW r \in Requests, NEW p \in Policies, NEW rules \in use.rules,
           NEW c \in use.contents, CreateDraftVersion(r, p, rules, c)
    PROVE  Settled /\ Others
<1> DEFINE d == Draft(rules, c)  s == version[p]
<1>1. Tables
  BY DEF TypeInv
<1>2. d \in Versions /\ d.status = "DRAFT"
  BY <1>1, UseType, DraftType
<1>3. version' = [version EXCEPT ![p] = Append(s, d)] /\ UNCHANGED <<policy, req>>
  BY DEF CreateDraftVersion
<1> HIDE DEF d
<1>4. s \in Seq(Versions) /\ Len(s) \in Nat
  BY <1>1 DEF Tables
<1>5. /\ Append(s, d) \in Seq(Versions) /\ Len(Append(s, d)) = Len(s) + 1
      /\ \A i \in 1..Len(s) : Append(s, d)[i] = s[i]
      /\ Append(s, d)[Len(s) + 1] = d
  BY <1>2, <1>4, AppendProperties
<1>6. /\ version'[p] = Append(s, d)
      /\ \A k \in Policies : k # p => version'[k] = version[k]
  BY <1>1, <1>3 DEF Tables
<1>7. VersionsOf(p) = 1..Len(s) /\ VersionsOf(p)' = 1..(Len(s) + 1)
  BY <1>4, <1>5, <1>6 DEF VersionsOf
<1>8. /\ VersionsOf(p) \subseteq VersionsOf(p)'
      /\ \A v \in VersionsOf(p) : version'[p][v].status = version[p][v].status
      /\ \A v \in VersionsOf(p)' \ VersionsOf(p) : version'[p][v].status # "PUBLISHED"
  <2>1. \A v \in VersionsOf(p)' \ VersionsOf(p) : v = Len(s) + 1
    BY <1>4, <1>7
  <2> QED
    BY <1>2, <1>4, <1>5, <1>6, <1>7, <2>1
<1>9. Exists(p)
  BY DEF CreateDraftVersion
<1>10. Settled
  BY <1>3, <1>6, <1>8, <1>9 DEF Settled, Exists, VersionsOf
<1> QED
  BY <1>3, <1>10, OthersSame

LEMMA SaveCommitCalm ==
    ASSUME TypeInv, NEW r \in Requests, SaveCommit(r)
    PROVE  Settled /\ Others
<1> DEFINE q == req[r]  p == q.p  s == version[p]  new == Saved(q, s[q.v])
<1>1. /\ q.pc = "saving" /\ Carries(q) /\ Tables
  BY DEF SaveCommit, At, TypeInv, Carried
<1>2. p \in Policies /\ Exists(p) /\ q.v \in VersionsOf(p)
  BY <1>1 DEF Carries
<1>3. s \in Seq(Versions) /\ q.v \in 1..Len(s)
  BY <1>1, <1>2 DEF Tables, VersionsOf
<1>4. s[q.v] \in Versions
  BY <1>3
<1>5. new.status = s[q.v].status
  BY <1>4 DEF Saved, Versions
<1>6. version' = [version EXCEPT ![p] = [s EXCEPT ![q.v] = new]]
      /\ UNCHANGED policy /\ Finish(r)
  BY <1>1, <1>2, <1>3 DEF SaveCommit, Tables
<1> HIDE DEF new
<1>7. /\ version'[p] = [s EXCEPT ![q.v] = new]
      /\ \A k \in Policies : k # p => version'[k] = version[k]
  BY <1>1, <1>2, <1>6 DEF Tables
<1>8. /\ DOMAIN version'[p] = DOMAIN version[p]
      /\ \A v \in DOMAIN version[p] : version'[p][v].status = version[p][v].status
  BY <1>3, <1>5, <1>7
<1>9. Settled
  BY <1>2, <1>6, <1>7, <1>8 DEF Settled, Exists, VersionsOf
<1> QED
  BY <1>6, <1>9, OthersFinish

LEMMA SeedCalm ==
    ASSUME TypeInv, NEW rules \in use.rules, NEW c \in use.contents,
           SeedStandardPolicies(rules, c)
    PROVE  Settled /\ Others
<1>1. Tables
  BY DEF TypeInv
<1>2. PICK new : /\ new \subseteq {p \in Policies : ~Exists(p)}
                 /\ policy' = [p \in Policies |-> IF p \in new THEN policy'[p] ELSE policy[p]]
                 /\ version' = [p \in Policies |-> IF p \in new THEN version'[p]
                                                   ELSE version[p]]
                 /\ \A p \in new : /\ policy'[p] \in PolicyRows /\ policy'[p].cur = 1
                                   /\ version'[p] \in Seq(Versions) /\ Len(version'[p]) = 1
                                   /\ version'[p][1].status = "PUBLISHED"
  BY <1>1, Planted
<1>3. \A p \in Policies : p \notin new => policy'[p] = policy[p] /\ version'[p] = version[p]
  BY <1>2
<1>4. \A p \in new : \A v \in VersionsOf(p)' :
          version'[p][v].status = "PUBLISHED" /\ v = policy'[p].cur
  BY <1>2 DEF VersionsOf
<1>5. Settled
  BY <1>2, <1>3, <1>4 DEF Settled, Exists, VersionsOf
<1> QED
  BY <1>5, OthersSame DEF SeedStandardPolicies

\* A request that loads a version to make it current loads what is so.
LEMMA LoadKnows ==
    ASSUME TypeInv, CurrentInv, NEW r \in Requests, NEW p \in Policies,
           NEW v \in VersionsOf(p), PublishLoad(r, p, v) \/ RollbackLoad(r, p, v)
    PROVE  /\ Settled
           /\ \A s \in Requests : \/ req'[s] = req[s]
                                  \/ req'[s].p \notin raced => Knows(req[s])'
<1>1. UNCHANGED tableVars /\ Exists(p) /\ \E op : Go(r, Activation(op, p, v))
  BY DEF PublishLoad, RollbackLoad
<1>2. PICK op : Go(r, Activation(op, p, v))
  BY <1>1
<1> DEFINE q == Activation(op, p, v)
<1>3. /\ q.p = p /\ q.v = v /\ q.cur = policy[p].cur /\ q.was = version[p][v].status
      /\ q.cur # 0 => q.prev = version[p][q.cur].status
  BY DEF Activation
<1> HIDE DEF q
<1>4. req'[r] = q /\ \A s \in Requests : s # r => req'[s] = req[s]
  BY <1>2 DEF Go, TypeInv, Carried, q
<1>5. ASSUME p \notin raced
      PROVE  Knows(q)
  <2>1. \A w \in VersionsOf(p) : version[p][w].status = "PUBLISHED" <=> w = policy[p].cur
    BY <1>1, <1>5 DEF CurrentInv
  <2>2. policy[p].cur # 0 => policy[p].cur \in VersionsOf(p)
    BY <1>1 DEF TypeInv, Tables, VersionsOf
  <2>3. version[p][v].status # "PUBLISHED"
    BY <2>1 DEF PublishLoad, RollbackLoad
  <2> QED
    BY <1>3, <2>1, <2>2, <2>3 DEF Knows
<1>6. policy' = policy /\ version' = version
  BY <1>1 DEF tableVars
<1>7. p \notin raced => Knows(req[r])'
  BY <1>4, <1>5, <1>6 DEF Knows
<1>8. Settled
  BY <1>6, SettledSame
<1> QED
  BY <1>3, <1>4, <1>7, <1>8

LEMMA ActivateCurrent ==
    ASSUME TypeInv, CurrentInv, NEW r \in Requests, ActivateCommit(r),
           raced' = raced \cup Overlaps'
    PROVE  CurrentInv'
<1> DEFINE q == req[r]  p == q.p  s == version[p]  t == Enact(q, Retire(q, s))
           x == [policy[p] EXCEPT !.cur = q.v]
<1>1. /\ q.pc = "activate" /\ Carries(q) /\ Tables
  BY DEF ActivateCommit, At, TypeInv, Carried
<1>2. /\ p \in Policies /\ Exists(p) /\ q.v \in 1..Len(s) /\ q.cur \in 0..Len(s)
      /\ s \in Seq(Versions) /\ Len(s) \in Nat
  BY <1>1 DEF Carries, VersionsOf, Tables
<1>3. /\ t \in Seq(Versions) /\ Len(t) = Len(s)
      /\ \A k \in 1..Len(s) :
            t[k].status = IF k = q.v /\ q.was # "PUBLISHED" THEN "PUBLISHED"
                          ELSE IF k = q.cur /\ q.cur # 0 /\ q.prev # "SUPERSEDED"
                               THEN "SUPERSEDED" ELSE s[k].status
  BY <1>2, ActivationVersions
<1>4. x.cur = q.v
  BY <1>1, <1>2, RowTypes
<1>5. /\ version' = [version EXCEPT ![p] = t] /\ policy' = [policy EXCEPT ![p] = x]
      /\ Finish(r)
  BY <1>1, <1>2 DEF ActivateCommit, Tables
<1> HIDE DEF t, x, s
<1>6. /\ version'[p] = t /\ policy'[p].cur = q.v
      /\ \A k \in Policies : k # p => version'[k] = version[k] /\ policy'[k] = policy[k]
  BY <1>1, <1>2, <1>4, <1>5 DEF Tables
<1>7. req'[r].pc = "idle" /\ \A k \in Requests : k # r => req'[k] = req[k]
  BY <1>5 DEF Finish, Go, Idle, TypeInv, Carried
<1>8. Overlaps' \subseteq raced' /\ raced \subseteq raced'
  OBVIOUS
<1>9. ASSUME NEW k \in Policies \ raced', Exists(k)', NEW v \in VersionsOf(k)'
      PROVE  version'[k][v].status = "PUBLISHED" <=> v = policy'[k].cur
  <2>1. CASE k # p
    BY <1>6, <1>8, <1>9, <2>1 DEF CurrentInv, Exists, VersionsOf
  <2>2. CASE k = p
    <3>1. Knows(q)
      BY <1>1, <1>8, <2>2 DEF CurrentInv, At
    <3>2. \A w \in 1..Len(s) : s[w].status = "PUBLISHED" <=> w = policy[p].cur
      BY <1>2, <1>8, <2>2 DEF CurrentInv, VersionsOf, s
    <3>3. v \in 1..Len(s)
      BY <1>3, <1>6, <2>2 DEF VersionsOf
    <3>4. q.cur = policy[p].cur /\ q.was # "PUBLISHED" /\ (q.cur # 0 => q.prev = "PUBLISHED")
      BY <3>1 DEF Knows
    <3>5. t[v].status = "PUBLISHED" <=> v = q.v
      BY <1>2, <1>3, <3>2, <3>3, <3>4
    <3> QED
      BY <1>6, <2>2, <3>5
  <2> QED
    BY <2>1, <2>2
<1>10. ASSUME NEW k \in Requests, At(k, "activate")', req'[k].p \notin raced'
       PROVE  Knows(req[k])'
  <2>1. k # r /\ req'[k] = req[k]
    BY <1>7, <1>10 DEF At
  <2>2. At(k, "activate") /\ req[k].p \notin raced
    BY <1>8, <1>10, <2>1 DEF At
  <2>3. req[k].p # p
    BY <1>1, <1>2, <2>1, <2>2 DEF CurrentInv, Overlaps, At
  <2>4. Knows(req[k]) /\ Carries(req[k]) /\ req[k].pc = "activate"
    BY <2>2 DEF CurrentInv, TypeInv, Carried, At
  <2>5. req[k].p \in Policies
    BY <2>4 DEF Carries
  <2> QED
    BY <1>6, <2>1, <2>3, <2>4, <2>5 DEF Knows
<1> QED
  BY <1>8, <1>9, <1>10 DEF CurrentInv

LEMMA StepCurrent == TypeInv /\ TypeInv' /\ CurrentInv /\ [Next]_vars => CurrentInv'
<1>1. ASSUME CurrentInv, UNCHANGED vars
      PROVE  CurrentInv'
  BY <1>1 DEF CurrentInv, Overlaps, Knows, At, Exists, VersionsOf, vars, policyVars, tableVars
<1>2. ASSUME TypeInv, TypeInv', CurrentInv, Act, raced' = raced \cup Overlaps'
      PROVE  CurrentInv'
  <2>1. ASSUME Settled, Others
        PROVE  CurrentInv'
    BY <1>2, <2>1, CurrentKept DEF Others
  <2>2. ASSUME NEW r \in use.requests, EditStep(r)
        PROVE  CurrentInv'
    <3>0. r \in Requests
      BY <1>2, UseType DEF TypeInv
    <3>1. CASE (\E p \in Policies, n \in Names : CreatePolicy(r, p, n) \/ RenamePolicy(r, p, n))
               \/ ArchiveCommit(r)
      BY <1>2, <2>1, <3>0, <3>1, PolicyRowCalm
    <3>2. ASSUME NEW p \in Policies, NEW rules \in use.rules, NEW c \in use.contents,
                 CreateDraftVersion(r, p, rules, c)
          PROVE  CurrentInv'
      BY <1>2, <2>1, <3>0, <3>2, DraftCalm
    <3>3. CASE \/ \E p \in Policies : \E v \in VersionsOf(p) :
                     \E rules \in use.rules, c \in use.contents : SaveLoad(r, p, v, rules, c)
               \/ SaveFlush(r)
               \/ \E p \in Policies : ArchiveLoad(r, p) \/ RestoreLoad(r, p)
               \/ \E p \in Policies, g \in group : AttachLoad(r, g, p) \/ Detach(r, g, p)
               \/ AttachCommit(r)
      BY <1>2, <2>1, <3>0, <3>3, EditCalm
    <3>4. CASE SaveCommit(r)
      BY <1>2, <2>1, <3>0, <3>4, SaveCommitCalm
    <3>5. CASE ActivateCommit(r)
      BY <1>2, <3>0, <3>5, ActivateCurrent
    <3>6. ASSUME NEW p \in Policies, NEW v \in VersionsOf(p),
                 PublishLoad(r, p, v) \/ RollbackLoad(r, p, v)
          PROVE  CurrentInv'
      BY <1>2, <3>0, <3>6, LoadKnows, CurrentKept
    <3> QED
      BY <2>2, <3>1, <3>2, <3>3, <3>4, <3>5, <3>6, Zenon DEF EditStep
  <2>3. ASSUME NEW r \in use.requests, GroupStep(r) \/ UploadStep(r)
        PROVE  CurrentInv'
    BY <1>2, <2>1, <2>3, UseType, GroupCalm, UploadCalm DEF TypeInv
  <2>4. ASSUME NEW r \in Requests, Crash(r)
        PROVE  CurrentInv'
    BY <1>2, <2>1, <2>4, UploadCalm
  <2>5. ASSUME NEW rules \in use.rules, NEW c \in use.contents, SeedStandardPolicies(rules, c)
        PROVE  CurrentInv'
    BY <1>2, <2>1, <2>5, SeedCalm
  <2>6. CASE UNCHANGED policyVars
    <3>1. Settled
      BY <1>2, <2>6, SettledSame DEF policyVars, tableVars
    <3>2. Others
      BY <2>6, OthersSame DEF policyVars
    <3> QED
      BY <2>1, <3>1, <3>2
  <2>7. ASSUME NEW u \in Users, WindowPasses(u) \/ CloseIncident(u) \/ SessionEnds(u)
        PROVE  UNCHANGED policyVars
    BY <2>7 DEF WindowPasses, CloseIncident, SessionEnds
  <2> QED
    BY <1>2, <2>2, <2>3, <2>4, <2>5, <2>6, <2>7, ActKinds
<1> QED
  BY <1>1, <1>2 DEF Next

\* publish_version and rollback leave one version PUBLISHED, the current one,
\* of every policy on which no two of them overlapped.
THEOREM OneVersionPublished == Spec => []OnePublished
<1>1. TypeInv /\ CurrentInv => OnePublished
  <2>1. ASSUME TypeInv, CurrentInv, NEW p \in Policies \ raced, Exists(p)
        PROVE  {v \in VersionsOf(p) : version[p][v].status = "PUBLISHED"} = {policy[p].cur} \ {0}
    <3>1. \A v \in VersionsOf(p) : version[p][v].status = "PUBLISHED" <=> v = policy[p].cur
      BY <2>1 DEF CurrentInv
    <3>2. VersionsOf(p) = 1..Len(version[p]) /\ policy[p].cur \in 0..Len(version[p])
          /\ Len(version[p]) \in Nat
      BY <2>1 DEF TypeInv, Tables, VersionsOf
    <3> QED
      BY <3>1, <3>2
  <2> QED
    BY <2>1 DEF OnePublished
<1>2. TypeInv /\ [Next]_vars => TypeInv'
  BY StepTypes
<1> QED
  BY <1>1, <1>2, InitTypes, InitCurrent, StepCurrent, PTL DEF Spec

-----------------------------------------------------------------------------
\* Repeated violations.
LEMMA QuietCount ==
    ASSUME NEW u
    PROVE  /\ IsFiniteSet(Quiet(u)) /\ Cardinality(Quiet(u)) \in Nat
           /\ Cardinality(Quiet(u)) <= Cardinality(Requests)
           /\ Cardinality(Requests) \in Nat
<1>1. IsFiniteSet(Requests) /\ Quiet(u) \subseteq Requests
  <2>1. IsFiniteSet(Requests)
    BY PolicyAssumption
  <2>2. Quiet(u) \subseteq Requests
    BY DEF Quiet
  <2> QED
    BY <2>1, <2>2
<1>2. IsFiniteSet(Quiet(u)) /\ Cardinality(Quiet(u)) <= Cardinality(Requests)
  BY <1>1, FS_Subset
<1> QED
  BY <1>1, <1>2, FS_CardinalityType

LEMMA QuietCountNext ==
    ASSUME NEW u
    PROVE  /\ IsFiniteSet(Quiet(u)') /\ Cardinality(Quiet(u)') \in Nat
           /\ Cardinality(Quiet(u)') <= Cardinality(Requests)
<1>1. IsFiniteSet(Requests) /\ Quiet(u)' \subseteq Requests
  <2>1. IsFiniteSet(Requests)
    BY PolicyAssumption
  <2>2. Quiet(u)' \subseteq Requests
    BY DEF Quiet
  <2> QED
    BY <2>1, <2>2
<1>2. IsFiniteSet(Quiet(u)') /\ Cardinality(Quiet(u)') <= Cardinality(Requests)
  BY <1>1, FS_Subset
<1> QED
  BY <1>1, <1>2, FS_CardinalityType

LEMMA InitNoted == Init => NotedInv
<1> SUFFICES ASSUME NEW st \in Starts, InitFrom(st), NEW u \in Users
             PROVE  /\ noted[u] <= blocked[u]
                    /\ noted[u] + Cardinality(Quiet(u)) <= Threshold + Cardinality(Requests) - 2
  BY DEF Init, NotedInv
<1>1. noted[u] = 0 /\ blocked[u] = 0
  BY DEF InitFrom
<1>2. Cardinality(Quiet(u)) <= Cardinality(Requests) /\ Cardinality(Quiet(u)) \in Nat
      /\ Cardinality(Requests) \in Nat
  BY QuietCount
<1> QED
  BY <1>1, <1>2, ThresholdAssumption

\* Nobody newly decides to report without an incident.
NoNewQuiet == \A r \in Requests : req'[r] = req[r] \/ req'[r].pc # "report"

LEMMA NotedFades ==
    ASSUME TypeInv, NotedInv, NoNewQuiet, NEW u \in Users,
           noted'[u] \in Nat, noted'[u] <= noted[u], open'[u] = open[u]
    PROVE  open'[u] = 0 =>
              noted'[u] + Cardinality(Quiet(u)') <= Threshold + Cardinality(Requests) - 2
<1>1. Quiet(u)' \subseteq Quiet(u)
  BY DEF Quiet, NoNewQuiet, At
<1>2. Cardinality(Quiet(u)') <= Cardinality(Quiet(u))
  BY <1>1, QuietCount, FS_Subset
<1>3. /\ Cardinality(Quiet(u)) \in Nat /\ Cardinality(Quiet(u)') \in Nat
      /\ Cardinality(Requests) \in Nat
  BY QuietCount, QuietCountNext
<1>4. noted[u] \in Nat
  BY DEF TypeInv, Counters
<1>5. open[u] = 0 =>
         noted[u] + Cardinality(Quiet(u)) <= Threshold + Cardinality(Requests) - 2
  BY DEF NotedInv
<1> QED
  BY <1>2, <1>3, <1>4, <1>5, ThresholdAssumption

LEMMA NotedKept ==
    ASSUME TypeInv, NotedInv, NoNewQuiet, NEW u \in Users,
           noted'[u] = noted[u], blocked'[u] \in Nat, blocked[u] <= blocked'[u], open'[u] = open[u]
    PROVE  /\ noted'[u] <= blocked'[u]
           /\ open'[u] = 0 =>
                 noted'[u] + Cardinality(Quiet(u)') <= Threshold + Cardinality(Requests) - 2
<1>1. noted[u] \in Nat /\ blocked[u] \in Nat /\ noted[u] <= blocked[u]
  BY DEF TypeInv, Counters, NotedInv
<1> QED
  BY <1>1, NotedFades

\* Where the count of a user's blocks starts again, at most every request has
\* yet to report one.
LEMMA NotedAfresh ==
    ASSUME NEW u \in Users, noted'[u] = 0, blocked'[u] \in Nat
    PROVE  /\ noted'[u] <= blocked'[u]
           /\ noted'[u] + Cardinality(Quiet(u)') <= Threshold + Cardinality(Requests) - 2
<1>1. /\ Cardinality(Quiet(u)') \in Nat /\ Cardinality(Requests) \in Nat
      /\ Cardinality(Quiet(u)') <= Cardinality(Requests)
  BY QuietCount, QuietCountNext
<1> QED
  BY <1>1, ThresholdAssumption

LEMMA NoNewQuietGo ==
    ASSUME TypeInv, NEW r \in Requests, NEW q, q.pc # "report", Go(r, q)
    PROVE  NoNewQuiet
  BY DEF NoNewQuiet, Go, TypeInv, Carried

LEMMA NoNewQuietFinish ==
    ASSUME TypeInv, NEW r \in Requests, Finish(r)
    PROVE  NoNewQuiet
  BY DEF NoNewQuiet, Finish, Go, Idle, TypeInv, Carried

LEMMA AdminQuiet ==
    ASSUME TypeInv,
           \/ \E r \in Requests : EditStep(r) \/ GroupStep(r)
           \/ \E rules \in use.rules, c \in use.contents : SeedStandardPolicies(rules, c)
    PROVE  NoNewQuiet
<1>1. ASSUME NEW r \in Requests, EditStep(r)
      PROVE  (\E q : q.pc # "report" /\ Go(r, q)) \/ req' = req
  <2>1. ASSUME NEW p, NEW v, PublishLoad(r, p, v) \/ RollbackLoad(r, p, v)
        PROVE  \E q : q.pc # "report" /\ Go(r, q)
    <3>1. PICK op : Go(r, Activation(op, p, v))
      BY <2>1 DEF PublishLoad, RollbackLoad
    <3>2. Activation(op, p, v).pc = "activate"
      BY DEF Activation
    <3> QED
      BY <3>1, <3>2
  <2>2. ASSUME NEW p, NEW v, NEW rules, NEW c, SaveLoad(r, p, v, rules, c)
        PROVE  \E q : q.pc # "report" /\ Go(r, q)
    BY <2>2 DEF SaveLoad
  <2>3. ASSUME NEW p, NEW n, NEW rules, NEW c,
               CreatePolicy(r, p, n) \/ RenamePolicy(r, p, n) \/ CreateDraftVersion(r, p, rules, c)
               \/ Detach(r, n, p)
        PROVE  req' = req
    BY <2>3 DEF CreatePolicy, RenamePolicy, CreateDraftVersion, Detach
  <2>4. ASSUME NEW p, NEW g, ArchiveLoad(r, p) \/ RestoreLoad(r, p) \/ AttachLoad(r, g, p)
        PROVE  \E q : q.pc # "report" /\ Go(r, q)
    BY <2>4 DEF ArchiveLoad, RestoreLoad, AttachLoad
  <2>5. CASE SaveFlush(r) \/ SaveCommit(r) \/ ActivateCommit(r) \/ ArchiveCommit(r) \/ AttachCommit(r)
    BY <2>5 DEF SaveFlush, SaveCommit, ActivateCommit, ArchiveCommit, AttachCommit, Finish, Idle
  <2> QED
    BY <1>1, <2>1, <2>2, <2>3, <2>4, <2>5, Zenon DEF EditStep
<1>2. ASSUME NEW r \in Requests, GroupStep(r)
      PROVE  (\E q : q.pc # "report" /\ Go(r, q)) \/ req' = req
  BY <1>2 DEF GroupStep, CreateGroup, DeleteGroup, AddMember, RemoveMember, SetGroupsFlush,
              SetGroupsCommit, Finish, Idle
<1>3. req' = req => NoNewQuiet
  BY DEF NoNewQuiet
<1> QED
  BY <1>1, <1>2, <1>3, NoNewQuietGo DEF SeedStandardPolicies

\* The request that counts: it opens an incident, or finds one open, or has
\* counted too few.
LEMMA CountNoted ==
    ASSUME TypeInv, NotedInv, NEW r \in Requests, UploadCount(r), NEW u \in Users
    PROVE  /\ noted'[u] <= blocked'[u]
           /\ open'[u] = 0 =>
                 noted'[u] + Cardinality(Quiet(u)') <= Threshold + Cardinality(Requests) - 2
<1> DEFINE w == req[r].u  opens == Reaches(blocked[w] + 1) /\ open[w] = 0
           q == [pc |-> "report", u |-> w, opens |-> opens]
<1>1. UNCHANGED uploadVars /\ (Finish(r) \/ Go(r, q))
  BY DEF UploadCount
<1>2. noted' = noted /\ blocked' = blocked /\ open' = open
  BY <1>1 DEF uploadVars
<1>3. noted[u] \in Nat /\ blocked[u] \in Nat /\ noted[u] <= blocked[u]
  BY DEF TypeInv, Counters, NotedInv
<1>4. CASE Finish(r)
  BY <1>2, <1>3, <1>4, NoNewQuietFinish, NotedKept
<1>5. CASE Go(r, q) /\ (w # u \/ opens)
  <2>1. req'[r] = q /\ \A s \in Requests : s # r => req'[s] = req[s]
    BY <1>5 DEF Go, TypeInv, Carried
  <2>2. q.u = w /\ q.opens = opens
    OBVIOUS
  <2> HIDE DEF q, w, opens
  <2>3. Quiet(u)' \subseteq Quiet(u)
    BY <1>5, <2>1, <2>2 DEF Quiet, At
  <2>4. Cardinality(Quiet(u)') <= Cardinality(Quiet(u))
    BY <2>3, QuietCount, FS_Subset
  <2>5. /\ Cardinality(Quiet(u)) \in Nat /\ Cardinality(Quiet(u)') \in Nat
        /\ Cardinality(Requests) \in Nat
    BY QuietCount, QuietCountNext
  <2>6. open[u] = 0 => noted[u] + Cardinality(Quiet(u)) <= Threshold + Cardinality(Requests) - 2
    BY DEF NotedInv
  <2> QED
    BY <1>2, <1>3, <2>4, <2>5, <2>6, ThresholdAssumption
<1>6. CASE w = u /\ ~opens
  <2>1. open[u] = 0 => ~(blocked[u] + 1 >= Threshold)
    BY <1>6 DEF Reaches
  <2>2. /\ Cardinality(Quiet(u)') \in Nat /\ Cardinality(Requests) \in Nat
        /\ Cardinality(Quiet(u)') <= Cardinality(Requests)
    BY QuietCount, QuietCountNext
  <2> QED
    BY <1>2, <1>3, <2>1, <2>2, ThresholdAssumption
<1> QED
  BY <1>1, <1>4, <1>5, <1>6

LEMMA ReportNoted ==
    ASSUME TypeInv, NotedInv, NEW r \in Requests, UploadReport(r), NEW u \in Users
    PROVE  /\ noted'[u] <= blocked'[u]
           /\ open'[u] = 0 =>
                 noted'[u] + Cardinality(Quiet(u)') <= Threshold + Cardinality(Requests) - 2
<1> DEFINE w == req[r].u
<1>1. Finish(r) /\ At(r, "report")
  BY DEF UploadReport
<1>2. w \in Users /\ req[r].opens \in BOOLEAN
  BY <1>1 DEF TypeInv, Carried, Carries, At
<1>3. /\ noted[u] \in Nat /\ blocked[u] \in Nat /\ noted[u] <= blocked[u]
      /\ open[u] \in Nat
  BY DEF TypeInv, Counters, NotedInv
<1>4. CASE w # u
  <2>1. noted'[u] = noted[u] /\ blocked'[u] = blocked[u] /\ open'[u] = open[u]
    BY <1>4 DEF UploadReport, TypeInv, Counters
  <2> QED
    BY <1>1, <1>3, <2>1, NoNewQuietFinish, NotedKept
<1>5. CASE w = u
  <2>1. /\ noted'[u] = noted[u] + 1 /\ blocked'[u] = blocked[u] + 1
        /\ open'[u] = open[u] + IF req[r].opens THEN 1 ELSE 0
    BY <1>5 DEF UploadReport, TypeInv, Counters
  <2>2. CASE req[r].opens
    BY <1>3, <2>1, <2>2
  <2>3. CASE ~req[r].opens
    <3>1. r \in Quiet(u)
      BY <1>1, <1>5, <2>3 DEF Quiet
    <3>2. req'[r] = Idle /\ \A s \in Requests : s # r => req'[s] = req[s]
      BY <1>1 DEF Finish, Go, TypeInv, Carried
    <3>3. Quiet(u)' = Quiet(u) \ {r}
      BY <3>2 DEF Quiet, At, Idle
    <3>4. Cardinality(Quiet(u)') = Cardinality(Quiet(u)) - 1
      BY <3>1, <3>3, QuietCount, FS_RemoveElement
    <3>5. /\ Cardinality(Quiet(u)) \in Nat /\ Cardinality(Requests) \in Nat
      BY QuietCount
    <3>6. open[u] = 0 => noted[u] + Cardinality(Quiet(u)) <= Threshold + Cardinality(Requests) - 2
      BY DEF NotedInv
    <3> QED
      BY <1>3, <2>1, <2>3, <3>4, <3>5, <3>6, ThresholdAssumption
  <2> QED
    BY <1>2, <2>2, <2>3
<1> QED
  BY <1>4, <1>5

LEMMA UploadNoted ==
    ASSUME TypeInv, NotedInv, NEW r \in Requests, NEW u \in Users,
           UploadStep(r) \/ Crash(r)
    PROVE  /\ noted'[u] <= blocked'[u]
           /\ open'[u] = 0 =>
                 noted'[u] + Cardinality(Quiet(u)') <= Threshold + Cardinality(Requests) - 2
<1>0. blocked[u] \in Nat /\ blocked \in [Users -> Nat]
  BY DEF TypeInv, Counters
<1>1. ASSUME NEW k, NEW f, NEW rows, UploadBegins(r, k, f, rows)
      PROVE  NoNewQuiet /\ UNCHANGED uploadVars
  <2>1. PICK pc \in {"scan", "blocked"} : Go(r, [pc |-> pc, u |-> k, f |-> f])
    BY <1>1 DEF UploadBegins
  <2>2. [pc |-> pc, u |-> k, f |-> f].pc # "report"
    OBVIOUS
  <2> QED
    BY <1>1, <2>1, <2>2, NoNewQuietGo DEF UploadBegins
<1>2. CASE ScannerDown(r) \/ ScanInfected(r) \/ UploadCommit(r) \/ Crash(r)
  <2>1. Finish(r) /\ noted' = noted /\ open' = open
    BY <1>2 DEF ScannerDown, ScanInfected, UploadCommit, Crash, uploadVars
  <2>2. blocked'[u] \in Nat /\ blocked[u] <= blocked'[u]
    <3>1. CASE ScannerDown(r)
      BY <1>0, <3>1 DEF ScannerDown
    <3>2. CASE ScanInfected(r) \/ UploadCommit(r) \/ Crash(r)
      BY <1>0, <3>2 DEF ScanInfected, UploadCommit, Crash, uploadVars
    <3> QED
      BY <1>2, <3>1, <3>2
  <2> QED
    BY <2>1, <2>2, NoNewQuietFinish, NotedKept
<1>3. CASE WriteUpload(r)
  <2>1. UNCHANGED <<noted, open, blocked>>
    BY <1>3 DEF WriteUpload
  <2>2. Finish(r) \/ Go(r, [pc |-> "written", u |-> req[r].u, f |-> req[r].f])
    BY <1>3 DEF WriteUpload
  <2>3. NoNewQuiet
    BY <2>2, NoNewQuietFinish, NoNewQuietGo
  <2> QED
    BY <1>0, <2>1, <2>3, NotedKept
<1>4. ASSUME NoNewQuiet, UNCHANGED uploadVars
      PROVE  /\ noted'[u] <= blocked'[u]
             /\ open'[u] = 0 =>
                   noted'[u] + Cardinality(Quiet(u)') <= Threshold + Cardinality(Requests) - 2
  BY <1>0, <1>4, NotedKept DEF uploadVars
<1>5. CASE UploadCount(r) \/ UploadReport(r)
  BY <1>5, CountNoted, ReportNoted
<1> QED
  BY <1>1, <1>2, <1>3, <1>4, <1>5 DEF UploadStep

LEMMA StepNoted == TypeInv /\ NotedInv /\ [Next]_vars => NotedInv'
<1> SUFFICES ASSUME TypeInv, NotedInv, [Next]_vars, NEW u \in Users
             PROVE  /\ noted'[u] <= blocked'[u]
                    /\ open'[u] = 0 => noted'[u] + Cardinality(Quiet(u)')
                                           <= Threshold + Cardinality(Requests) - 2
  BY DEF NotedInv
<1>0. /\ blocked \in [Users -> Nat] /\ noted \in [Users -> Nat] /\ open \in [Users -> Nat]
      /\ blocked[u] <= blocked[u] /\ blocked[u] \in Nat
  BY DEF TypeInv, Counters
<1> DEFINE Good == /\ noted'[u] <= blocked'[u]
                   /\ open'[u] = 0 => noted'[u] + Cardinality(Quiet(u)')
                                          <= Threshold + Cardinality(Requests) - 2
<1>1. ASSUME UNCHANGED uploadVars, NoNewQuiet
      PROVE  Good
  BY <1>0, <1>1, NotedKept DEF uploadVars
<1>2. CASE UNCHANGED vars
  BY <1>1, <1>2 DEF vars, policyVars, NoNewQuiet
<1>3. ASSUME NEW k \in Users, WindowPasses(k) \/ CloseIncident(k) \/ SessionEnds(k)
      PROVE  Good
  <2>1. NoNewQuiet
    BY <1>3 DEF WindowPasses, CloseIncident, SessionEnds, policyVars, NoNewQuiet
  <2>2. CASE SessionEnds(k)
    BY <1>0, <2>1, <2>2, NotedKept DEF SessionEnds
  <2>3. CASE k # u
    <3>1. noted'[u] = noted[u] /\ blocked'[u] = blocked[u] /\ open'[u] = open[u]
      BY <1>0, <1>3, <2>3 DEF WindowPasses, CloseIncident, SessionEnds
    <3> QED
      BY <1>0, <2>1, <3>1, NotedKept
  <2>4. CASE k = u /\ CloseIncident(k)
    <3>1. noted'[u] = 0 /\ blocked'[u] \in Nat
      BY <1>0, <2>4 DEF CloseIncident
    <3> QED
      BY <3>1, NotedAfresh
  <2>5. CASE k = u /\ WindowPasses(k)
    <3>1. PICK n \in {noted[u], noted[u] - 1} \cap 0..(blocked[u] - 1) :
             noted' = [noted EXCEPT ![u] = n]
      BY <2>5 DEF WindowPasses
    <3>2. noted'[u] = n /\ blocked'[u] = blocked[u] - 1 /\ open'[u] = open[u]
      BY <1>0, <2>5, <3>1 DEF WindowPasses
    <3>3. noted[u] \in Nat /\ n \in Nat /\ n <= noted[u] /\ n <= blocked'[u]
      BY <1>0, <3>1, <3>2
    <3> QED
      BY <2>1, <3>2, <3>3, NotedFades
  <2> QED
    BY <1>3, <2>2, <2>3, <2>4, <2>5
<1>4. use.requests \subseteq Requests
  BY UseType DEF TypeInv
<1>5. ASSUME NEW r \in Requests, UploadStep(r) \/ Crash(r)
      PROVE  Good
  BY <1>5, UploadNoted
<1>6. ASSUME UNCHANGED <<policyVars, uploadVars>>
      PROVE  Good
  BY <1>1, <1>6 DEF policyVars, NoNewQuiet
<1>7. ASSUME UNCHANGED uploadVars,
             \/ \E r \in use.requests : EditStep(r) \/ GroupStep(r)
             \/ \E rules \in use.rules, c \in use.contents : SeedStandardPolicies(rules, c)
      PROVE  Good
  BY <1>1, <1>4, <1>7, AdminQuiet
<1> HIDE DEF Good
<1>8. ASSUME Act
      PROVE  Good
  BY <1>3, <1>4, <1>5, <1>6, <1>7, <1>8, ActKinds
<1> QED
  BY <1>2, <1>8 DEF Next, Good

\* However uploads overlap, with blocked uploads enough to cross the
\* threshold even when the last ones counted at once, an incident is open:
\* check_repeated_policy_violations.
THEOREM ViolationsAreNoticed == Spec => []ViolationsNoticed
<1>1. TypeInv /\ NotedInv => ViolationsNoticed
  <2>1. ASSUME TypeInv, NotedInv, NEW u \in Users,
               noted[u] >= Threshold + Cardinality(Requests) - 1
        PROVE  open[u] > 0
    <3>1. noted[u] \in Nat /\ open[u] \in Nat
      BY <2>1 DEF TypeInv, Counters
    <3>2. Cardinality(Quiet(u)) \in Nat /\ Cardinality(Requests) \in Nat
      BY QuietCount
    <3>3. open[u] = 0 => noted[u] + Cardinality(Quiet(u)) <= Threshold + Cardinality(Requests) - 2
      BY <2>1 DEF NotedInv
    <3> QED
      BY <2>1, <3>1, <3>2, <3>3, ThresholdAssumption
  <2> QED
    BY <2>1 DEF ViolationsNoticed
<1> QED
  BY <1>1, InitTypes, StepTypes, InitNoted, StepNoted, PTL DEF Spec

-----------------------------------------------------------------------------
\* The relay and the session's policy.
\* The clipboard mode a session is given opens a direction only if every
\* mode asked for does.
LEMMA ModeOpens ==
    ASSUME NEW modes
    PROVE  /\ ResolveClipboard(modes) \in AllowsLocalToRemote => modes \subseteq AllowsLocalToRemote
           /\ ResolveClipboard(modes) \in AllowsRemoteToLocal => modes \subseteq AllowsRemoteToLocal
           /\ ResolveClipboard(modes) # "unset"
<1> DEFINE up == modes \subseteq AllowsLocalToRemote  down == modes \subseteq AllowsRemoteToLocal
<1>1. CASE modes = {}
  BY <1>1 DEF ResolveClipboard
<1>2. CASE modes # {}
  <2>1. ResolveClipboard(modes) = ModeOf(up, down)
    BY <1>2 DEF ResolveClipboard
  <2> HIDE DEF up, down
  <2>2. /\ up /\ down => ModeOf(up, down) = "BIDIRECTIONAL_TEXT"
        /\ up /\ ~down => ModeOf(up, down) = "LOCAL_TO_REMOTE"
        /\ ~up /\ down => ModeOf(up, down) = "REMOTE_TO_LOCAL"
        /\ ~up /\ ~down => ModeOf(up, down) = "NONE"
    BY DEF ModeOf
  <2>3. /\ ModeOf(up, down) \in AllowsLocalToRemote => up
        /\ ModeOf(up, down) \in AllowsRemoteToLocal => down
        /\ ModeOf(up, down) # "unset"
    BY <2>2 DEF AllowsLocalToRemote, AllowsRemoteToLocal
  <2> QED
    BY <2>1, <2>3 DEF up, down
<1> QED
  BY <1>1, <1>2

LEMMA InitRelay == Init => RelayInv
<1> SUFFICES ASSUME NEW st \in Starts, InitFrom(st)
             PROVE  RelayInv
  BY DEF Init
<1>1. st.wire \in [Directions -> Seq(Units)]
  BY StartAssumption
<1>2. /\ wire \in [Directions -> Seq(Units)] /\ mode = "unset" /\ session = None
      /\ conn = [d \in Directions |-> Opened] /\ busy = NoDirection
  BY <1>1 DEF InitFrom
<1>3. ASSUME NEW d \in Directions
      PROVE  /\ IsFilter(conn[d]) /\ conn[d].out \in Seq(Forwarded) /\ conn[d].taken \in Nat
             /\ Clean(conn[d])
  <2>1. conn[d] = Opened
    BY <1>2
  <2>2. Opened.out = <<>> /\ Opened.taken = 0 /\ IsFilter(Opened)
    BY DEF Opened, IsFilter
  <2> QED
    BY <2>1, <2>2 DEF Clean
<1> QED
  BY <1>2, <1>3 DEF RelayInv

\* A filter of a direction in a mode.
Sound(d) ==
    /\ IsFilter(conn[d])
    /\ Parses(d) => conn[d].out \in Seq(Forwarded) /\ conn[d].taken \in Nat
    /\ Blocks(d) => Clean(conn[d])

\* What is passed on for a unit is a unit, and no text if text is blocked.
LEMMA PassedType ==
    ASSUME NEW d, NEW u \in Units
    PROVE  /\ Passed(d, u) \in Seq(Forwarded)
           /\ Blocks(d) => \A i \in 1..Len(Passed(d, u)) : Passed(d, u)[i].kind # "cut"
<1> DEFINE w == [u EXCEPT !.kind = "forced"]
<1>0. w \in Forwarded /\ w.kind = "forced"
  BY DEF Units, Forwarded
<1>1. u \in Forwarded
  BY DEF Forwarded
<1> HIDE DEF w
<1>2. \/ Passed(d, u) = <<>>
      \/ Passed(d, u) = <<w>>
      \/ Passed(d, u) = <<u>> /\ ~(u.kind = "cut" /\ Blocks(d))
  BY DEF Passed, w
<1>3. CASE Passed(d, u) = <<>>
  BY <1>3
<1>4. CASE Passed(d, u) = <<w>>
  BY <1>0, <1>4
<1>5. CASE Passed(d, u) = <<u>> /\ ~(u.kind = "cut" /\ Blocks(d))
  BY <1>1, <1>5
<1> QED
  BY <1>2, <1>3, <1>4, <1>5

LEMMA BlockedIsParsed ==
    ASSUME NEW d \in Directions, Blocks(d)
    PROVE  Parses(d)
  BY DEF Parses, Restricts, Directions

LEMMA TakeSound ==
    ASSUME RelayInv, NEW d \in Directions, TakeOne(d)
    PROVE  \A e \in Directions : Sound(e)'
<1> DEFINE u == Coming(d)
           c == conn[d]
           out == c.out \o Passed(d, u)
<1>1. DOMAIN c = {"fed", "pos", "taken", "rects", "out"} /\ DOMAIN conn = Directions
  BY DEF RelayInv, IsFilter, Opened
<1>2. /\ c.out \in Seq(Forwarded) /\ c.taken \in Nat /\ (Blocks(d) => Clean(c))
      /\ wire \in [Directions -> Seq(Units)] /\ c.taken < Len(wire[d])
  BY DEF RelayInv, TakeOne, HasBytes
<1>3. u \in Units
  BY <1>2 DEF Coming
<1>4. /\ Passed(d, u) \in Seq(Forwarded)
      /\ Blocks(d) => \A i \in 1..Len(Passed(d, u)) : Passed(d, u)[i].kind # "cut"
  BY <1>3, PassedType
<1>5. conn' = [conn EXCEPT ![d] = Consumed(d, u)]
  BY DEF TakeOne
<1>6. /\ DOMAIN Consumed(d, u) = DOMAIN c /\ Consumed(d, u).taken = c.taken + 1
      /\ Consumed(d, u).out = out
  BY <1>1 DEF Consumed
<1>7. /\ conn'[d] = Consumed(d, u)
      /\ \A e \in Directions : e # d => conn'[e] = conn[e]
      /\ mode' = mode
  BY <1>1, <1>5 DEF TakeOne
<1>8. /\ out \in Seq(Forwarded)
      /\ Blocks(d) => \A i \in 1..Len(out) : out[i].kind # "cut"
  <2> DEFINE s1 == c.out  s2 == Passed(d, u)
  <2>1. s1 \in Seq(Forwarded) /\ s2 \in Seq(Forwarded)
    BY <1>2, <1>4
  <2>2. Blocks(d) => /\ \A i \in 1..Len(s1) : s1[i].kind # "cut"
                     /\ \A i \in 1..Len(s2) : s2[i].kind # "cut"
    BY <1>2, <1>4 DEF Clean
  <2> HIDE DEF s1, s2
  <2>3. /\ s1 \o s2 \in Seq(Forwarded) /\ Len(s1 \o s2) = Len(s1) + Len(s2)
        /\ \A i \in 1..Len(s1) + Len(s2) :
              (s1 \o s2)[i] = IF i <= Len(s1) THEN s1[i] ELSE s2[i - Len(s1)]
    BY <2>1, ConcatProperties
  <2>4. Len(s1) \in Nat /\ Len(s2) \in Nat
    BY <2>1
  <2>5. Blocks(d) => \A i \in 1..Len(s1 \o s2) : (s1 \o s2)[i].kind # "cut"
    BY <2>2, <2>3, <2>4
  <2> QED
    BY <2>3, <2>5 DEF s1, s2
<1>9. c.taken + 1 \in Nat
  BY <1>2
<1> HIDE DEF out, c
<1>10. Sound(d)'
  <2>1. DOMAIN conn'[d] = DOMAIN Opened /\ conn'[d].taken \in Nat /\ conn'[d].out = out
    BY <1>1, <1>6, <1>7, <1>9 DEF Opened
  <2> QED
    BY <1>7, <1>8, <2>1 DEF Sound, IsFilter, Clean, Blocks
<1>11. ASSUME NEW e \in Directions, e # d
       PROVE  Sound(e)'
  BY <1>7, <1>11 DEF RelayInv, Sound, IsFilter, Clean, Parses, Restricts, Blocks
<1> QED
  BY <1>10, <1>11

LEMMA FilterSound ==
    ASSUME RelayInv, FilterStep
    PROVE  /\ DOMAIN conn' = Directions /\ mode' = mode /\ wire' = wire /\ mode # "unset"
           /\ \A e \in Directions : Sound(e)'
<1>1. PICK d \in Directions : \/ \E n \in ChunkSizes : Feed(d, n)
                              \/ TakeOne(d) \/ FeedEnds(d) \/ ProtocolError(d) \/ PassThrough(d)
  BY DEF FilterStep
<1>2. mode # "unset"
  <2>1. d # NoDirection
    BY DEF Directions, NoDirection
  <2> QED
    BY <1>1, <2>1 DEF RelayInv, Feed, TakeOne, FeedEnds, ProtocolError, PassThrough
<1>3. mode' = mode /\ wire' = wire /\ DOMAIN conn' = Directions
  BY <1>1 DEF RelayInv, Feed, TakeOne, FeedEnds, ProtocolError, PassThrough
<1>4. DOMAIN conn = Directions /\ \A e \in Directions : IsFilter(conn[e])
  BY DEF RelayInv
<1>5. ASSUME NEW n \in ChunkSizes, Feed(d, n)
      PROVE  \A e \in Directions : Sound(e)'
  <2>1. /\ conn' = [conn EXCEPT ![d] = [conn[d] EXCEPT !.fed = conn[d].fed + n]]
    BY <1>5 DEF Feed
  <2>2. LET x == [conn[d] EXCEPT !.fed = conn[d].fed + n]
        IN  DOMAIN x = DOMAIN conn[d] /\ x.out = conn[d].out /\ x.taken = conn[d].taken
    BY <1>4 DEF IsFilter, Opened
  <2>3. \A e \in Directions : /\ DOMAIN conn'[e] = DOMAIN conn[e]
                              /\ conn'[e].out = conn[e].out /\ conn'[e].taken = conn[e].taken
    BY <1>4, <2>1, <2>2
  <2> QED
    BY <1>3, <2>3 DEF RelayInv, Sound, IsFilter, Clean, Parses, Restricts, Blocks
<1>6. ASSUME TakeOne(d)
      PROVE  \A e \in Directions : Sound(e)'
  BY <1>6, TakeSound
<1>7. ASSUME FeedEnds(d) \/ ProtocolError(d)
      PROVE  \A e \in Directions : Sound(e)'
  <2>1. conn' = conn
    BY <1>7 DEF FeedEnds, ProtocolError
  <2> QED
    BY <1>3, <2>1 DEF RelayInv, Sound, IsFilter, Clean, Parses, Restricts, Blocks
<1>8. ASSUME PassThrough(d)
      PROVE  \A e \in Directions : Sound(e)'
  <2> DEFINE x == [conn[d] EXCEPT !.pos = conn[d].fed, !.taken = Arrived(d),
                                  !.out = SubSeq(wire[d], 1, Arrived(d))]
  <2>1. ~Parses(d) /\ conn' = [conn EXCEPT ![d] = x]
    BY <1>8 DEF PassThrough
  <2>2. DOMAIN x = DOMAIN conn[d]
    OBVIOUS
  <2> HIDE DEF x
  <2>3. DOMAIN conn'[d] = DOMAIN conn[d] /\ \A e \in Directions : e # d => conn'[e] = conn[e]
    BY <1>4, <2>1, <2>2
  <2>4. ~Blocks(d)
    BY <2>1, BlockedIsParsed
  <2>5. Sound(d)'
    BY <1>3, <1>4, <2>1, <2>3, <2>4 DEF Sound, IsFilter, Parses, Restricts, Blocks
  <2>6. ASSUME NEW e \in Directions, e # d
        PROVE  Sound(e)'
    BY <1>3, <2>3, <2>6 DEF RelayInv, Sound, IsFilter, Clean, Parses, Restricts, Blocks
  <2> QED
    BY <2>5, <2>6
<1> QED
  BY <1>1, <1>2, <1>3, <1>5, <1>6, <1>7, <1>8

\* What the session was created with stays.
LEMMA RelaySame ==
    ASSUME RelayInv, UNCHANGED <<filterVars, session>>
    PROVE  RelayInv'
  BY DEF RelayInv, filterVars, IsFilter, Clean, Parses, Restricts, Blocks

LEMMA CreateRelay ==
    ASSUME RelayInv, NEW u \in Users, CreateSession(u)
    PROVE  RelayInv'
<1>1. /\ UNCHANGED filterVars /\ session = None
  BY DEF CreateSession
<1>2. PICK s \in ResolveScreens(ScreensFor(u)) :
          session' = [user |-> u, mode |-> ResolveClipboard(ModesFor(u)), screen |-> s,
                      asked |-> [modes |-> ModesFor(u), screens |-> ScreensFor(u)]]
  BY DEF CreateSession
<1>3. /\ session'.mode = ResolveClipboard(session'.asked.modes)
      /\ session'.screen = s /\ session'.asked.screens = ScreensFor(u)
  BY <1>2
<1>4. ScreensFor(u) # {} => /\ s \in ScreensFor(u)
                            /\ \A t \in ScreensFor(u) : Area(s) <= Area(t)
  BY DEF ResolveScreens
<1>5. mode = "unset" /\ mode' = mode /\ wire' = wire /\ conn' = conn /\ busy' = busy
  BY <1>1 DEF RelayInv, filterVars
<1>6. \A d \in Directions :
          /\ IsFilter(conn'[d])
          /\ Parses(d)' => conn'[d].out \in Seq(Forwarded) /\ conn'[d].taken \in Nat
          /\ Blocks(d)' => Clean(conn'[d])
  BY <1>5 DEF RelayInv, Parses, Restricts, Blocks
<1>7. session'.asked.screens # {} =>
          /\ session'.screen \in session'.asked.screens
          /\ \A t \in session'.asked.screens : Area(session'.screen) <= Area(t)
  BY <1>3, <1>4
<1> QED
  BY <1>3, <1>5, <1>6, <1>7 DEF RelayInv

LEMMA ConnectRelay ==
    ASSUME RelayInv, Connect
    PROVE  RelayInv'
<1>1. /\ session # None /\ mode = "unset" /\ mode' = session.mode
      /\ UNCHANGED <<wire, conn, busy, session>>
  BY DEF Connect
<1>2. /\ conn = [d \in Directions |-> Opened]
      /\ session.mode = ResolveClipboard(session.asked.modes)
  BY <1>1 DEF RelayInv
<1>3. ResolveClipboard(session.asked.modes) # "unset"
  BY ModeOpens
<1>4. Parses("client") /\ Parses("server") /\ Blocks("client") /\ Blocks("server")
  BY <1>1 DEF Parses, Restricts, Blocks
<1>5. \A d \in Directions :
          /\ IsFilter(conn[d]) /\ conn[d].out \in Seq(Forwarded) /\ conn[d].taken \in Nat
          /\ Clean(conn[d])
  BY <1>4 DEF RelayInv, Directions
<1>6. \A d \in Directions :
          /\ IsFilter(conn'[d]) /\ conn'[d].out \in Seq(Forwarded) /\ conn'[d].taken \in Nat
          /\ Clean(conn'[d])
  BY <1>1, <1>5
<1>7. /\ wire' \in [Directions -> Seq(Units)] /\ DOMAIN conn' = Directions
      /\ session'.mode = ResolveClipboard(session'.asked.modes)
      /\ session'.asked.screens # {} =>
            /\ session'.screen \in session'.asked.screens
            /\ \A s \in session'.asked.screens : Area(session'.screen) <= Area(s)
  BY <1>1 DEF RelayInv
<1> QED
  BY <1>1, <1>2, <1>3, <1>6, <1>7 DEF RelayInv

LEMMA FilterRelay ==
    ASSUME RelayInv, FilterStep, UNCHANGED session
    PROVE  RelayInv'
<1>1. /\ DOMAIN conn' = Directions /\ mode' = mode /\ wire' = wire /\ mode # "unset"
      /\ \A e \in Directions : Sound(e)'
  BY FilterSound
<1>2. \A d \in Directions :
          /\ IsFilter(conn'[d])
          /\ Parses(d)' => conn'[d].out \in Seq(Forwarded) /\ conn'[d].taken \in Nat
          /\ Blocks(d)' => Clean(conn'[d])
  BY <1>1 DEF Sound
<1> QED
  BY <1>1, <1>2 DEF RelayInv

LEMMA StepRelay == RelayInv /\ [Next]_vars => RelayInv'
<1> SUFFICES ASSUME RelayInv, [Next]_vars
             PROVE  RelayInv'
  OBVIOUS
<1>1. CASE UNCHANGED vars
  BY <1>1, RelaySame DEF vars
<1>2. CASE Act
  <2>1. \/ UNCHANGED <<filterVars, session>>
        \/ \E u \in Users : CreateSession(u)
        \/ Connect
        \/ FilterStep /\ UNCHANGED session
    BY <1>2, ActKinds
  <2> QED
    BY <2>1, RelaySame, CreateRelay, ConnectRelay, FilterRelay
<1> QED
  BY <1>1, <1>2 DEF Next

\* Whatever is published while a session lives, its relay passes text in a
\* direction only if every policy that applied at its creation allows that,
\* and its screen is the smallest they asked for.
THEOREM SessionKeepsItsPolicy == Spec => []SessionFollowsPolicy
<1>1. RelayInv => SessionFollowsPolicy
  <2> SUFFICES ASSUME RelayInv, session # None
               PROVE  /\ \A d \in Directions :
                            (\E i \in 1..Len(conn[d].out) : conn[d].out[i].kind = "cut") =>
                               session.asked.modes \subseteq IF d = "client"
                                                             THEN AllowsLocalToRemote
                                                             ELSE AllowsRemoteToLocal
                      /\ \A s \in session.asked.screens : Area(session.screen) <= Area(s)
    BY DEF SessionFollowsPolicy
  <2>1. /\ session.mode = ResolveClipboard(session.asked.modes)
        /\ mode \in {"unset", session.mode}
        /\ session.asked.screens # {} =>
              \A s \in session.asked.screens : Area(session.screen) <= Area(s)
    BY DEF RelayInv
  <2>2. ASSUME NEW d \in Directions,
               \E i \in 1..Len(conn[d].out) : conn[d].out[i].kind = "cut"
        PROVE  session.asked.modes \subseteq IF d = "client" THEN AllowsLocalToRemote
                                             ELSE AllowsRemoteToLocal
    <3>1. ~Blocks(d)
      BY <2>2 DEF RelayInv, Clean
    <3>2. mode \in IF d = "client" THEN AllowsLocalToRemote ELSE AllowsRemoteToLocal
      BY <3>1 DEF Blocks, AllowsLocalToRemote, AllowsRemoteToLocal
    <3>3. mode = session.mode
      BY <2>1, <3>2 DEF AllowsLocalToRemote, AllowsRemoteToLocal
    <3> QED
      BY <2>1, <3>2, <3>3, ModeOpens
  <2> QED
    BY <2>1, <2>2
<1> QED
  BY <1>1, InitRelay, StepRelay, PTL DEF Spec

-----------------------------------------------------------------------------
\* The file policy engine.

\* Least numbers.
LEMMA LeastBy ==
    ASSUME NEW T, T \subseteq Nat, T # {}, NEW R, IsWellFoundedOn(R, Nat),
           \A x, y \in Nat : y < x => <<y, x>> \in R
    PROVE  \E x \in T : \A y \in T : x <= y
<1>1. PICK x \in T : \A y \in T : ~ (<<y, x>> \in R)
  BY WFMin
<1>2. ASSUME NEW y \in T
      PROVE  x <= y
  <2>1. x \in Nat /\ y \in Nat
    OBVIOUS
  <2>2. ~(y < x)
    BY <1>1, <2>1, Zenon
  <2> QED
    BY <2>1, <2>2
<1> QED
  BY <1>2

\* A set of natural numbers has a least one.
LEMMA LeastNatural ==
    ASSUME NEW T, T \subseteq Nat, T # {}
    PROVE  \E x \in T : \A y \in T : x <= y
<1> DEFINE R == OpToRel(<, Nat)
<1>1. IsWellFoundedOn(R, Nat)
  BY NatLessThanWellFounded
<1>2. \A x, y \in Nat : y < x => <<y, x>> \in R
  BY Zenon DEF OpToRel
<1> HIDE DEF R
<1> QED
  BY <1>1, <1>2, LeastBy

\* What starts at the bottom and climbs reaches the top.
LEMMA Climbing ==
    ASSUME NEW n \in Nat, NEW S, 0 \in S, \A k \in 1..n : k - 1 \in S => k \in S
    PROVE  0..n \subseteq S
<1> SUFFICES ASSUME (0..n) \ S # {} PROVE FALSE
  OBVIOUS
<1> DEFINE T == (0..n) \ S
<1>1. T \subseteq Nat /\ T # {}
  OBVIOUS
<1> HIDE DEF T
<1>2. PICK k \in T : \A j \in T : k <= j
  BY <1>1, LeastNatural
<1> USE DEF T
<1>3. k \in 1..n
  BY <1>2
<1>4. k - 1 \in S
  BY <1>2, <1>3
<1> QED BY <1>2, <1>3, <1>4

\* A recursion over 1..n in a set of values has a solution.
Steps(n, V, F) == F \in [1..n -> [V -> V]]

Iterates(n, V, base, F, b) ==
    b \in [0..n -> V] /\ b[0] = base /\ \A i \in 1..n : b[i] = F[i][b[i - 1]]

LEMMA Recursion ==
    ASSUME NEW n \in Nat, NEW V, NEW base \in V, NEW F, Steps(n, V, F)
    PROVE  \E b : Iterates(n, V, base, F, b)
<1>0. F \in [1..n -> [V -> V]]
  BY DEF Steps
<1> DEFINE Solved(k) == \E b \in [0..k -> V] :
                            b[0] = base /\ \A i \in 1..k : b[i] = F[i][b[i - 1]]
           S == {k \in 0..n : Solved(k)}
<1>1. 0 \in S
  <2> DEFINE b == [i \in 0..0 |-> base]
  <2>1. b \in [0..0 -> V] /\ b[0] = base /\ 1..0 = {}
    OBVIOUS
  <2> HIDE DEF b
  <2>2. Solved(0)
    BY <2>1
  <2> QED BY <2>2
<1>2. ASSUME NEW k \in 1..n, k - 1 \in S
      PROVE  k \in S
  <2>1. PICK b \in [0..(k - 1) -> V] :
           b[0] = base /\ \A i \in 1..(k - 1) : b[i] = F[i][b[i - 1]]
    BY <1>2
  <2> DEFINE c == [i \in 0..k |-> IF i = k THEN F[k][b[k - 1]] ELSE b[i]]
  <2>2. b[k - 1] \in V /\ F[k] \in [V -> V]
    BY <1>0, <2>1
  <2>3. c \in [0..k -> V]
    BY <2>1, <2>2
  <2>4. c[0] = base
    BY <2>1
  <2>5. \A i \in 1..k : c[i] = F[i][c[i - 1]]
    <3>1. ASSUME NEW i \in 1..k PROVE c[i] = F[i][c[i - 1]]
      <4>1. c[i - 1] = b[i - 1]
        OBVIOUS
      <4>2. CASE i = k
        BY <4>1, <4>2
      <4>3. CASE i # k
        <5>1. i \in 1..(k - 1) /\ c[i] = b[i]
          BY <4>3
        <5> QED BY <2>1, <4>1, <5>1
      <4> QED BY <4>2, <4>3
    <3> QED BY <3>1
  <2> HIDE DEF c
  <2>6. Solved(k)
    BY <2>3, <2>4, <2>5
  <2> HIDE DEF Solved
  <2>7. k \in 0..n
    OBVIOUS
  <2> QED BY <2>6, <2>7
<1> HIDE DEF S
<1>3. 0..n \subseteq S
  BY <1>1, <1>2, Climbing
<1>4. Solved(n)
  BY <1>3 DEF S
<1> QED BY <1>4 DEF Iterates

\* evaluate_file_action's loop: its running result after each row.
RunningBest(rows, f, b) ==
    /\ b[0] = None
    /\ \A i \in 1..Len(rows) :
          b[i] = IF Matches(rows[i], f) THEN Better(b[i - 1], rows[i]) ELSE b[i - 1]

LEMMA LoopRuns ==
    ASSUME NEW rows \in Seq(Rules), NEW f
    PROVE  \E b \in [0..Len(rows) -> Rules \cup {None}] :
              /\ RunningBest(rows, f, b)
              /\ EvaluateInOrder(rows, f)
                    = IF b[Len(rows)] = None THEN "QUARANTINE" ELSE b[Len(rows)].action
<1> DEFINE n == Len(rows)
           V == Rules \cup {None}
           Next1(g) == [i \in 0..n |-> IF i = 0 THEN None
                                       ELSE IF Matches(rows[i], f) THEN Better(g[i - 1], rows[i])
                                       ELSE g[i - 1]]
           F == [i \in 1..n |-> [v \in V |-> IF Matches(rows[i], f) THEN Better(v, rows[i])
                                             ELSE v]]
           best == CHOOSE g : g = Next1(g)
<1>1. n \in Nat /\ \A i \in 1..n : rows[i] \in Rules
  OBVIOUS
<1>2. F \in [1..n -> [V -> V]]
  BY <1>1 DEF Better
<1>3. PICK b \in [0..n -> V] : b[0] = None /\ \A i \in 1..n : b[i] = F[i][b[i - 1]]
  <2>1. None \in V /\ n \in Nat /\ Steps(n, V, F)
    BY <1>1, <1>2 DEF Steps
  <2> HIDE DEF F, n, V
  <2>2. PICK b : Iterates(n, V, None, F, b)
    BY <2>1, Recursion
  <2> QED BY <2>2 DEF Iterates
<1>4. \A i \in 1..n : b[i] = IF Matches(rows[i], f) THEN Better(b[i - 1], rows[i])
                             ELSE b[i - 1]
  <2>1. \A i \in 1..n : b[i - 1] \in V
    BY <1>1, <1>3
  <2> QED BY <1>3, <2>1
<1>5. b = Next1(b)
  BY <1>1, <1>3, <1>4
<1>6. best = Next1(best)
  <2> HIDE DEF Next1
  <2> QED BY <1>5
<1> HIDE DEF best
<1>7. /\ DOMAIN best = 0..n
      /\ best[0] = None
      /\ \A i \in 1..n : best[i] = IF Matches(rows[i], f) THEN Better(best[i - 1], rows[i])
                                   ELSE best[i - 1]
  <2>1. ASSUME NEW g
        PROVE  /\ DOMAIN Next1(g) = 0..n
               /\ Next1(g)[0] = None
               /\ \A i \in 1..n :
                     Next1(g)[i] = IF Matches(rows[i], f) THEN Better(g[i - 1], rows[i])
                                   ELSE g[i - 1]
    BY <1>1
  <2> HIDE DEF Next1
  <2> QED BY <1>6, <2>1
<1>8. EvaluateInOrder(rows, f) = IF best[n] = None THEN "QUARANTINE" ELSE best[n].action
  BY DEF EvaluateInOrder, best
<1> DEFINE S == {i \in 0..n : best[i] \in V}
<1>9. 0..n \subseteq S
  <2>1. 0 \in S
    BY <1>1, <1>7
  <2>2. ASSUME NEW k \in 1..n, k - 1 \in S PROVE k \in S
    BY <1>1, <1>7, <2>2 DEF Better
  <2> HIDE DEF S, n
  <2> QED BY <1>1, <2>1, <2>2, Climbing
<1>10. best \in [0..n -> V]
  BY <1>6, <1>9
<1> QED BY <1>7, <1>8, <1>10 DEF RunningBest

\* After each row the result is a matching rule of highest precedence.
Leads(rows, f, k, x) ==
    /\ x = None => \A i \in 1..k : ~Matches(rows[i], f)
    /\ x # None =>
          /\ \E i \in 1..k : rows[i] = x /\ Matches(rows[i], f)
          /\ \A i \in 1..k : Matches(rows[i], f) =>
                Precedence[rows[i].action] <= Precedence[x.action]

LEMMA BestLeads ==
    ASSUME NEW rows \in Seq(Rules), NEW f, NEW b \in [0..Len(rows) -> Rules \cup {None}],
           RunningBest(rows, f, b), NEW k \in 0..Len(rows)
    PROVE  Leads(rows, f, k, b[k])
<1> DEFINE n == Len(rows)
           S == {i \in 0..n : Leads(rows, f, i, b[i])}
<1>1. n \in Nat /\ \A i \in 1..n : rows[i] \in Rules
  OBVIOUS
<1>2. \A x \in Rules : Precedence[x.action] \in Nat
  BY RuleAssumption DEF Precedence, Actions
<1>3. 0 \in S
  BY <1>1 DEF RunningBest, Leads
<1>4. ASSUME NEW j \in 1..n, j - 1 \in S PROVE j \in S
  <2>1. Leads(rows, f, j - 1, b[j - 1]) /\ b[j - 1] \in Rules \cup {None} /\ j \in 0..n
    BY <1>1, <1>4
  <2>2. b[j] = IF Matches(rows[j], f) THEN Better(b[j - 1], rows[j]) ELSE b[j - 1]
    BY DEF RunningBest
  <2>3. \A i \in 1..j : i = j \/ i \in 1..(j - 1)
    OBVIOUS
  <2>4. 1..(j - 1) \subseteq 1..j /\ 1..j \subseteq 1..n /\ j \in 1..j
    BY <1>1
  <2>5. rows[j] \in Rules /\ rows[j] # None
    BY <1>1, RuleAssumption
  <2> HIDE DEF n
  <2>6. CASE ~Matches(rows[j], f)
    <3>1. b[j] = b[j - 1]
      BY <2>2, <2>6
    <3> QED BY <2>1, <2>3, <2>4, <2>6, <3>1 DEF Leads
  <2>7. CASE Matches(rows[j], f) /\ b[j] = rows[j]
    <3>1. b[j - 1] = None \/ Precedence[b[j - 1].action] <= Precedence[rows[j].action]
      BY <1>2, <2>1, <2>2, <2>5, <2>7 DEF Better
    <3>2. ASSUME NEW i \in 1..j, Matches(rows[i], f)
          PROVE  Precedence[rows[i].action] <= Precedence[rows[j].action]
      <4>1. CASE i = j
        BY <1>2, <2>5, <4>1
      <4>2. CASE i \in 1..(j - 1)
        <5>1. b[j - 1] # None /\ b[j - 1] \in Rules
          BY <2>1, <3>2, <4>2 DEF Leads
        <5>2. Precedence[rows[i].action] <= Precedence[b[j - 1].action]
          BY <2>1, <3>2, <4>2, <5>1 DEF Leads
        <5>3. rows[i] \in Rules
          BY <1>1, <2>4
        <5> QED BY <1>2, <2>5, <3>1, <5>1, <5>2, <5>3
      <4> QED BY <2>3, <4>1, <4>2
    <3>3. Leads(rows, f, j, b[j])
      BY <2>4, <2>5, <2>7, <3>2 DEF Leads
    <3> QED BY <2>1, <3>3
  <2>8. CASE Matches(rows[j], f) /\ b[j] # rows[j]
    <3>1. /\ b[j] = b[j - 1] /\ b[j] # None /\ b[j] \in Rules
          /\ Precedence[rows[j].action] <= Precedence[b[j].action]
      BY <1>2, <2>1, <2>2, <2>5, <2>8 DEF Better
    <3>2. Leads(rows, f, j, b[j])
      BY <2>1, <2>3, <2>4, <3>1 DEF Leads
    <3> QED BY <2>1, <3>2
  <2> QED BY <2>6, <2>7, <2>8
<1> HIDE DEF S, n
<1>5. 0..n \subseteq S
  BY <1>1, <1>3, <1>4, Climbing
<1> QED BY <1>5 DEF S, n

\* So the loop decides by precedence, whatever the order of the rows.
Hits(rows, f, a) == \E i \in 1..Len(rows) : Matches(rows[i], f) /\ rows[i].action = a

LEMMA OrderIsIrrelevant ==
    ASSUME NEW rows \in Seq(Rules), NEW f
    PROVE  EvaluateInOrder(rows, f)
              = IF Hits(rows, f, "DENY") THEN "DENY"
                ELSE IF Hits(rows, f, "AUTO_RELEASE") /\ ~Hits(rows, f, "QUARANTINE")
                THEN "AUTO_RELEASE"
                ELSE "QUARANTINE"
<1> DEFINE n == Len(rows)
<1>1. PICK b \in [0..n -> Rules \cup {None}] :
        /\ RunningBest(rows, f, b)
        /\ EvaluateInOrder(rows, f) = IF b[n] = None THEN "QUARANTINE" ELSE b[n].action
  BY LoopRuns
<1> DEFINE x == b[n]
<1>2. n \in Nat /\ \A i \in 1..n : rows[i] \in Rules
  OBVIOUS
<1>3. Leads(rows, f, n, x) /\ x \in Rules \cup {None}
  BY <1>1, <1>2, BestLeads
<1>4. /\ Precedence["DENY"] = 3 /\ Precedence["QUARANTINE"] = 2
      /\ Precedence["AUTO_RELEASE"] = 1
  BY DEF Precedence
<1>5. \A y \in Rules : y.action \in {"DENY", "QUARANTINE", "AUTO_RELEASE"}
  BY RuleAssumption DEF Actions
<1>6. CASE x = None
  <2>1. EvaluateInOrder(rows, f) = "QUARANTINE"
    BY <1>1, <1>6
  <2>2. \A a : ~Hits(rows, f, a)
    BY <1>3, <1>6 DEF Leads, Hits
  <2> QED BY <2>1, <2>2
<1>7. CASE x # None
  <2>1. x \in Rules /\ Hits(rows, f, x.action)
    BY <1>3, <1>7 DEF Leads, Hits
  <2>2. ASSUME NEW a, Hits(rows, f, a) PROVE Precedence[a] <= Precedence[x.action]
    BY <1>3, <1>7, <2>2 DEF Leads, Hits
  <2>3. EvaluateInOrder(rows, f) = x.action
    BY <1>1, <1>7
  <2> HIDE DEF x, n
  <2>4. CASE x.action = "DENY"
    BY <2>1, <2>3, <2>4
  <2>5. CASE x.action = "QUARANTINE"
    <3>1. ~Hits(rows, f, "DENY")
      BY <1>4, <2>2, <2>5
    <3> QED BY <2>1, <2>3, <2>5, <3>1
  <2>6. CASE x.action = "AUTO_RELEASE"
    <3>1. ~Hits(rows, f, "DENY") /\ ~Hits(rows, f, "QUARANTINE")
      BY <1>4, <2>2, <2>6
    <3> QED BY <2>1, <2>3, <2>6, <3>1
  <2> QED BY <1>5, <2>1, <2>4, <2>5, <2>6
<1> QED BY <1>6, <1>7

\* A wildcard of a source is the tail of a host name's labels.
LEMMA SuffixIsTail ==
    ASSUME NEW S, NEW p \in Seq(S), p # <<>>, NEW T, NEW l \in Seq(T)
    PROVE  IsSuffix(p, l) <=> \E i \in 1..Len(l) : p = SubSeq(l, i, Len(l))
<1> DEFINE m == Len(p)
           n == Len(l)
<1>1. m \in Nat \ {0} /\ n \in Nat
  OBVIOUS
<1>2. IsSuffix(p, l) <=> /\ m <= n
                         /\ \A j \in 1..m : p[m - j + 1] = l[n - j + 1]
  <2>1. /\ Reverse(p) \in Seq(S) /\ Len(Reverse(p)) = m
        /\ \A j \in 1..m : Reverse(p)[j] = p[m - j + 1]
    BY <1>1 DEF Reverse
  <2>2. /\ Reverse(l) \in Seq(T) /\ Len(Reverse(l)) = n
        /\ \A j \in 1..n : Reverse(l)[j] = l[n - j + 1]
    BY <1>1 DEF Reverse
  <2> DEFINE a == Reverse(p)
             c == Reverse(l)
  <2> HIDE DEF a, c
  <2>3. IsSuffix(p, l) <=> m <= n /\ SubSeq(a, 1, m) = SubSeq(c, 1, m)
    BY <2>1, <2>2 DEF IsSuffix, IsPrefix, a, c
  <2>4. ASSUME m <= n
        PROVE  SubSeq(a, 1, m) = SubSeq(c, 1, m) <=> \A j \in 1..m : a[j] = c[j]
    <3>1. /\ SubSeq(a, 1, m) = [j \in 1..m |-> a[j]]
          /\ SubSeq(c, 1, m) = [j \in 1..m |-> c[j]]
      BY <1>1, <2>1, <2>2, <2>4 DEF a, c
    <3> QED BY <3>1
  <2>5. m <= n => \A j \in 1..m : a[j] = p[m - j + 1] /\ c[j] = l[n - j + 1]
    BY <1>1, <2>1, <2>2 DEF a, c
  <2> QED BY <2>3, <2>4, <2>5
<1>3. ASSUME NEW i \in 1..n
      PROVE  p = SubSeq(l, i, n) <=> m = n - i + 1 /\ \A k \in 1..m : p[k] = l[i + k - 1]
  <2>1. /\ SubSeq(l, i, n) = [k \in 1..(n - i + 1) |-> l[i + k - 1]]
        /\ p = [k \in 1..m |-> p[k]]
    BY <1>1, <1>3
  <2> QED BY <1>1, <1>3, <2>1
<1>4. ASSUME IsSuffix(p, l) PROVE \E i \in 1..n : p = SubSeq(l, i, n)
  <2> DEFINE i == n - m + 1
  <2>1. m <= n /\ \A j \in 1..m : p[m - j + 1] = l[n - j + 1]
    BY <1>2, <1>4
  <2>2. i \in 1..n /\ m = n - i + 1
    BY <1>1, <2>1
  <2>3. ASSUME NEW k \in 1..m PROVE p[k] = l[i + k - 1]
    <3>1. m - k + 1 \in 1..m /\ m - (m - k + 1) + 1 = k /\ n - (m - k + 1) + 1 = i + k - 1
      BY <1>1, <2>3
    <3> HIDE DEF i, m, n
    <3>2. p[m - (m - k + 1) + 1] = l[n - (m - k + 1) + 1]
      BY <2>1, <3>1
    <3> QED BY <3>1, <3>2
  <2>4. p = SubSeq(l, i, n)
    BY <1>3, <2>2, <2>3
  <2> QED BY <2>2, <2>4
<1>5. ASSUME NEW i \in 1..n, p = SubSeq(l, i, n) PROVE IsSuffix(p, l)
  <2>1. m = n - i + 1 /\ \A k \in 1..m : p[k] = l[i + k - 1]
    BY <1>3, <1>5
  <2>2. m <= n
    BY <1>1, <2>1
  <2>3. ASSUME NEW j \in 1..m PROVE p[m - j + 1] = l[n - j + 1]
    <3>1. m - j + 1 \in 1..m /\ i + (m - j + 1) - 1 = n - j + 1
      BY <1>1, <2>1, <2>3
    <3> HIDE DEF m, n
    <3>2. p[m - j + 1] = l[i + (m - j + 1) - 1]
      BY <2>1, <3>1
    <3> QED BY <3>1, <3>2
  <2> QED BY <1>2, <2>2, <2>3
<1> QED BY <1>4, <1>5

\* So a rule matches a file just when it concerns it.
LEMMA MatchingIsConcern ==
    ASSUME NEW x \in Rules, NEW f \in Files
    PROVE  Matches(x, f) <=> Concerns(x, f)
<1>1. /\ x.on \in {"mime", "source"}
      /\ x.form \in {"wild", "exact", "ext"}
      /\ x.on = "source" => x.form # "ext" /\ x.pattern \in Seq(Range(x.pattern))
  BY RuleAssumption
<1>2. CASE x.on = "mime"
  <2>1. ASSUME NEW m
        PROVE  MatchesMimePattern(m, x) <=>
                  x.form # "ext" /\ m # None /\ x.pattern = IF x.form = "wild" THEN m[1] ELSE m
    BY <1>1 DEF MatchesMimePattern
  <2>2. Matches(x, f) <=>
           \/ MatchesMimePattern(f.detected, x)
           \/ x.action # "AUTO_RELEASE" /\ MatchesMimePattern(f.declared, x)
           \/ x.action # "AUTO_RELEASE" /\ x.form = "ext" /\ f.ext = x.pattern
    BY <1>2 DEF Matches, MatchesExtension
  <2>3. Concerns(x, f) <=>
           \/ MatchesMimePattern(f.detected, x)
           \/ x.action # "AUTO_RELEASE" /\ MatchesMimePattern(f.declared, x)
           \/ x.action # "AUTO_RELEASE" /\ x.form = "ext" /\ f.ext = x.pattern
    BY <1>2, <2>1 DEF Concerns
  <2> QED BY <2>2, <2>3
<1>3. CASE x.on = "source" /\ f.source = None
  BY <1>3 DEF Matches, Concerns
<1>4. CASE x.on = "source" /\ f.source # None
  <2> DEFINE l == f.source.labels
             p == x.pattern
             n == Len(l)
             tail(i) == p = SubSeq(l, i, n)
  <2>1. l \in Seq(Range(l)) /\ p \in Seq(Range(p)) /\ x.form \in {"wild", "exact"}
    BY <1>1, <1>4, FileAssumption
  <2>2. n \in Nat /\ \A i \in 1..n : Len(SubSeq(l, i, n)) = n - i + 1
    BY <2>1
  <2>3. p = <<>> => \A i \in 1..n : ~tail(i)
    <3>1. Len(<<>>) = 0
      OBVIOUS
    <3> HIDE DEF l, p, n
    <3> QED BY <2>2, <3>1
  <2>4. l = <<>> <=> n = 0
    BY <2>1
  <2>5. Matches(x, f) <=> /\ l # <<>> /\ p # <<>>
                          /\ IF x.form = "wild" THEN IsSuffix(p, l) ELSE l = p
    BY <1>4 DEF Matches, MatchesSourcePattern, NormalizeHostname
  <2>6. Concerns(x, f) <=> \E i \in 1..n : (x.form = "exact" => i = 1) /\ tail(i)
    BY <1>4 DEF Concerns
  <2>7. CASE x.form = "wild"
    <3>1. p # <<>> => (IsSuffix(p, l) <=> \E i \in 1..n : tail(i))
      BY <2>1, SuffixIsTail
    <3>2. (\E i \in 1..n : tail(i)) => l # <<>> /\ p # <<>>
      BY <2>2, <2>3, <2>4
    <3> HIDE DEF l, p, n, tail
    <3> QED BY <2>5, <2>6, <2>7, <3>1, <3>2
  <2>8. CASE x.form = "exact"
    <3>1. n # 0 => SubSeq(l, 1, n) = l
      BY <2>1
    <3>2. (\E i \in 1..n : i = 1 /\ tail(i)) <=> n # 0 /\ p = l
      BY <2>2, <3>1
    <3>3. n # 0 /\ p = l => p # <<>>
      BY <2>4
    <3> HIDE DEF l, p, n, tail
    <3> QED BY <2>4, <2>5, <2>6, <2>8, <3>2, <3>3
  <2> QED BY <2>1, <2>7, <2>8
<1> QED BY <1>1, <1>2, <1>3, <1>4

\* The database's order lists every rule in force, each once.
LEMMA OrderListsAll ==
    ASSUME NEW u, PublishedRules(u) \subseteq Rules, NEW rows \in Orders(u)
    PROVE  /\ rows \in Seq(Rules)
           /\ PublishedRules(u) = {rows[i] : i \in 1..Len(rows)}
<1> DEFINE S == PublishedRules(u)
           n == Cardinality(S)
           R == {rows[i] : i \in 1..n}
<1>1. IsFiniteSet(S) /\ n \in Nat
  BY RuleAssumption, FS_Subset, FS_CardinalityType
<1>2. rows \in [1..n -> S] /\ \A i, j \in 1..n : i # j => rows[i] # rows[j]
  BY DEF Orders, SetToSeqs
<1>3. rows \in Seq(Rules) /\ Len(rows) = n
  BY <1>1, <1>2
<1>4. R \subseteq S
  BY <1>2
<1>5. rows \in Bijection(1..n, R)
  BY <1>2 DEF Bijection, Injection, Surjection, IsInjective
<1>6. Cardinality(1..n) = n /\ IsFiniteSet(1..n)
  BY <1>1, FS_Interval
<1>7. Cardinality(R) = n
  <2>1. ExistsBijection(1..n, R)
    BY <1>5 DEF ExistsBijection
  <2> HIDE DEF R, n
  <2> QED BY <1>6, <2>1, FS_Bijection
<1>8. R = S
  <2> HIDE DEF R, S
  <2> QED BY <1>1, <1>4, <1>7, FS_Subset
<1> QED BY <1>3, <1>8

\* PrecedenceHolds: through whichever groups and policies the rules in force
\* come and in whatever order, evaluate_file_action finds the strictest one
\* that concerns the file.
THEOREM PrecedenceIsKept == Spec => []PrecedenceHolds
<1>1. ASSUME TypeInv PROVE PrecedenceHolds
  <2>1. ASSUME NEW u \in Users, NEW f \in use.files, NEW rows \in Orders(u)
        PROVE  EvaluateInOrder(rows, f) = Decision(u, f)
    <3>1. f \in Files
      BY <1>1 DEF TypeInv, Tables, Uses
    <3>2. PublishedRules(u) \subseteq Rules
      <4>1. ASSUME NEW p \in Applicable(u), NEW x \in InForce(p).rules PROVE x.rule \in Rules
        <5>1. InForce(p) \in Versions
          BY <1>1 DEF TypeInv, Tables, Applicable, InForce
        <5> QED BY <5>1 DEF Versions
      <4> QED BY <4>1 DEF PublishedRules
    <3>3. rows \in Seq(Rules) /\ PublishedRules(u) = {rows[i] : i \in 1..Len(rows)}
      BY <3>2, OrderListsAll
    <3>4. ASSUME NEW a
          PROVE  Hits(rows, f, a) <=> \E x \in PublishedRules(u) : x.action = a /\ Concerns(x, f)
      BY <3>1, <3>2, <3>3, MatchingIsConcern DEF Hits
    <3> QED BY <3>3, <3>4, OrderIsIrrelevant DEF Decision
  <2> QED BY <2>1 DEF PrecedenceHolds
<1> QED BY <1>1, PolicyTypes, PTL

-----------------------------------------------------------------------------
\* The clipboard filter.

\* The format the filter of the client has seen last.
Tracks ==
    \/ bpp = 0
    \/ \E j \in 1..conn["client"].taken :
          /\ wire["client"][j].kind = "pixels" /\ bpp = wire["client"][j].bpp
          /\ \A k \in (j + 1)..conn["client"].taken : wire["client"][k].kind # "pixels"

\* A filter stands between two units, at the byte and the rectangle where
\* those it has taken end; outside feed() it has taken all that are complete.
Stands(d) ==
    /\ conn[d].fed \in Nat
    /\ conn[d].taken \in 0..Len(wire[d])
    /\ conn[d].out = Expected(d, conn[d].taken)
    /\ Parses(d) => /\ conn[d].pos = Offset(d, conn[d].taken)
                    /\ conn[d].pos <= conn[d].fed
                    /\ conn[d].rects = Owed(wire[d], conn[d].taken)
    /\ busy # d /\ ~torn => conn[d].taken = Arrived(d)

\* What came from the server was sent after the client's units it waits for.
Awaited ==
    \A i \in 1..Len(wire["server"]) :
        Offset("server", i - 1) < conn["server"].fed =>
            wire["server"][i].after <= conn["client"].taken

FrameInv ==
    /\ Framed(wire)
    /\ \A d \in Directions : Stands(d)
    /\ conn["client"].rects = 0
    /\ Parses("client") => Tracks
    /\ Parses("server") => Awaited

\* The bytes of a stream add up.
LEMMA BytesIs ==
    ASSUME NEW s \in Seq(Units)
    PROVE  /\ Bytes(s, 0) = 0
           /\ \A i \in 0..Len(s) : Bytes(s, i) \in Nat
           /\ \A i \in 1..Len(s) : Bytes(s, i) = Bytes(s, i - 1) + s[i].size
<1> DEFINE n == Len(s)
           V == Nat
           Next1(g) == [i \in 0..n |-> IF i = 0 THEN 0 ELSE g[i - 1] + s[i].size]
           F == [i \in 1..n |-> [v \in V |-> v + s[i].size]]
           base == 0
           best == CHOOSE g : g = Next1(g)
<1>0. n \in Nat
  OBVIOUS
<1>1. \A i \in 1..n, v \in V : v + s[i].size \in V
  <2>1. \A i \in 1..n : s[i] \in Units
    OBVIOUS
  <2>2. \A u \in Units : u.size \in Nat
    BY DEF Units
  <2> QED BY <2>1, <2>2
<1>2. F \in [1..n -> [V -> V]] /\ 0 \in V
  BY <1>1
<1>3. PICK b \in [0..n -> V] : b[0] = base /\ \A i \in 1..n : b[i] = F[i][b[i - 1]]
  <2>1. n \in Nat /\ base \in V /\ Steps(n, V, F)
    BY <1>0, <1>2 DEF Steps
  <2> HIDE DEF F, n, V, base
  <2>2. PICK b : Iterates(n, V, base, F, b)
    BY <2>1, Recursion
  <2> QED BY <2>2 DEF Iterates
<1>4. \A i \in 1..n : b[i] = b[i - 1] + s[i].size
  <2>1. ASSUME NEW i \in 1..n PROVE b[i - 1] \in V
    <3>1. i - 1 \in 0..n
      BY <1>0
    <3> HIDE DEF n, V
    <3> QED BY <1>3, <3>1
  <2>2. \A i \in 1..n, v \in V : F[i][v] = v + s[i].size
    OBVIOUS
  <2> HIDE DEF F, n, V
  <2> QED BY <1>3, <2>1, <2>2
<1>5. b = Next1(b)
  <2> HIDE DEF V, F
  <2> QED BY <1>0, <1>3, <1>4
<1>6. best = Next1(best)
  <2> HIDE DEF Next1
  <2> QED BY <1>5
<1> HIDE DEF best
<1>7. /\ DOMAIN best = 0..n
      /\ best[0] = 0
      /\ \A i \in 1..n : best[i] = best[i - 1] + s[i].size
  <2>1. ASSUME NEW g
        PROVE  /\ DOMAIN Next1(g) = 0..n
               /\ Next1(g)[0] = 0
               /\ \A i \in 1..n : Next1(g)[i] = g[i - 1] + s[i].size
    BY <1>0
  <2> HIDE DEF Next1
  <2> QED BY <1>6, <2>1
<1>8. \A k : Bytes(s, k) = best[k]
  BY DEF Bytes, best
<1> DEFINE S == {i \in 0..n : best[i] \in V}
<1>9. 0..n \subseteq S
  <2>1. 0 \in S
    BY <1>0, <1>2, <1>7
  <2>2. ASSUME NEW k \in 1..n, k - 1 \in S PROVE k \in S
    <3>1. best[k - 1] \in V /\ k \in 0..n
      BY <2>2
    <3> HIDE DEF V, n
    <3> QED BY <1>1, <1>7, <2>2, <3>1
  <2> HIDE DEF S, n
  <2> QED BY <1>0, <2>1, <2>2, Climbing
<1> HIDE DEF V, n, F
<1> QED BY <1>7, <1>8, <1>9 DEF V, n

\* Rectangles that are announced and drawn.
StillDue(u, v) == IF u.kind = "update" THEN u.n ELSE IF v > 0 THEN v - 1 ELSE 0

LEMMA OwedIs ==
    ASSUME NEW s \in Seq(Units)
    PROVE  /\ Owed(s, 0) = 0
           /\ \A i \in 0..Len(s) : Owed(s, i) \in Int
           /\ \A i \in 1..Len(s) : Owed(s, i) = StillDue(s[i], Owed(s, i - 1))
<1> DEFINE n == Len(s)
           V == Int
           Next1(g) == [i \in 0..n |-> IF i = 0 THEN 0 ELSE StillDue(s[i], g[i - 1])]
           F == [i \in 1..n |-> [v \in V |-> StillDue(s[i], v)]]
           base == 0
           best == CHOOSE g : g = Next1(g)
<1>0. n \in Nat
  OBVIOUS
<1>1. \A i \in 1..n, v \in V : StillDue(s[i], v) \in V
  <2>1. \A i \in 1..n : s[i] \in Units
    OBVIOUS
  <2>2. \A u \in Units, v \in V : StillDue(u, v) \in V
    BY DEF Units, StillDue
  <2> QED BY <2>1, <2>2
<1>2. F \in [1..n -> [V -> V]] /\ 0 \in V
  BY <1>1
<1>3. PICK b \in [0..n -> V] : b[0] = base /\ \A i \in 1..n : b[i] = F[i][b[i - 1]]
  <2>1. n \in Nat /\ base \in V /\ Steps(n, V, F)
    BY <1>0, <1>2 DEF Steps
  <2> HIDE DEF F, n, V, base
  <2>2. PICK b : Iterates(n, V, base, F, b)
    BY <2>1, Recursion
  <2> QED BY <2>2 DEF Iterates
<1>4. \A i \in 1..n : b[i] = StillDue(s[i], b[i - 1])
  <2>1. ASSUME NEW i \in 1..n PROVE b[i - 1] \in V
    <3>1. i - 1 \in 0..n
      BY <1>0
    <3> HIDE DEF n, V
    <3> QED BY <1>3, <3>1
  <2>2. \A i \in 1..n, v \in V : F[i][v] = StillDue(s[i], v)
    OBVIOUS
  <2> HIDE DEF F, n, V
  <2> QED BY <1>3, <2>1, <2>2
<1>5. b = Next1(b)
  <2> HIDE DEF V, F
  <2> QED BY <1>0, <1>3, <1>4
<1>6. best = Next1(best)
  <2> HIDE DEF Next1
  <2> QED BY <1>5
<1> HIDE DEF best
<1>7. /\ DOMAIN best = 0..n
      /\ best[0] = 0
      /\ \A i \in 1..n : best[i] = StillDue(s[i], best[i - 1])
  <2>1. ASSUME NEW g
        PROVE  /\ DOMAIN Next1(g) = 0..n
               /\ Next1(g)[0] = 0
               /\ \A i \in 1..n : Next1(g)[i] = StillDue(s[i], g[i - 1])
    BY <1>0
  <2> HIDE DEF Next1
  <2> QED BY <1>6, <2>1
<1>8. \A k : Owed(s, k) = best[k]
  BY DEF Owed, best, StillDue
<1> DEFINE S == {i \in 0..n : best[i] \in V}
<1>9. 0..n \subseteq S
  <2>1. 0 \in S
    BY <1>0, <1>2, <1>7
  <2>2. ASSUME NEW k \in 1..n, k - 1 \in S PROVE k \in S
    <3>1. best[k - 1] \in V /\ k \in 0..n
      BY <2>2
    <3> HIDE DEF V, n
    <3> QED BY <1>1, <1>7, <2>2, <3>1
  <2> HIDE DEF S, n
  <2> QED BY <1>0, <2>1, <2>2, Climbing
<1> HIDE DEF V, n, F
<1> QED BY <1>7, <1>8, <1>9 DEF V, n

\* Sequences that are joined.
Lengthened(v, x) == v \o x

Joins(q, n, V, b) ==
    /\ n \in Nat /\ n = Len(q)
    /\ b \in [0..n -> V] /\ b[0] = <<>>
    /\ \A i \in 1..n : b[i] = Lengthened(b[i - 1], q[i])

LEMMA JoinedFrom ==
    ASSUME NEW q, NEW n, NEW V, NEW b, Joins(q, n, V, b)
    PROVE  /\ Joined(q, 0) = <<>>
           /\ \A i \in 0..n : Joined(q, i) \in V
           /\ \A i \in 1..n : Joined(q, i) = Joined(q, i - 1) \o q[i]
<1> DEFINE cat(v, i) == Lengthened(v, q[i])
           Next1(g) == [i \in 0..n |-> IF i = 0 THEN <<>> ELSE cat(g[i - 1], i)]
           best == CHOOSE g : g = Next1(g)
<1>2. \A k : Joined(q, k) = best[k]
  <2>1. n = Len(q)
    BY DEF Joins
  <2> QED BY <2>1 DEF Joined, best, Lengthened
<1>0. n \in Nat /\ b \in [0..n -> V] /\ b[0] = <<>>
  BY DEF Joins
<1>3. \A i \in 1..n : b[i] = cat(b[i - 1], i) /\ b[i - 1] \in V /\ b[i] \in V
  BY <1>0 DEF Joins
<1> HIDE DEF cat
<1>5. b = Next1(b)
  BY <1>0, <1>3
<1>6. best = Next1(best)
  <2> HIDE DEF Next1
  <2> QED BY <1>5
<1> HIDE DEF best
<1>7. /\ best[0] = <<>>
      /\ \A i \in 1..n : best[i] = cat(best[i - 1], i)
  <2>1. ASSUME NEW g
        PROVE  /\ Next1(g)[0] = <<>>
               /\ \A i \in 1..n : Next1(g)[i] = cat(g[i - 1], i)
    BY <1>0
  <2> HIDE DEF Next1
  <2> QED BY <1>6, <2>1
<1> DEFINE S == {i \in 0..n : best[i] = b[i]}
<1>8. ASSUME NEW k \in 1..n, k - 1 \in S PROVE k \in S
  BY <1>0, <1>3, <1>7, <1>8
<1>9. 0 \in S
  BY <1>0, <1>7
<1> HIDE DEF S
<1>10. 0..n \subseteq S
  BY <1>0, <1>8, <1>9, Climbing
<1>11. \A i \in 0..n : best[i] \in V
  BY <1>0, <1>10 DEF S
<1> QED BY <1>2, <1>7, <1>11 DEF cat, Lengthened

LEMMA JoinedIs ==
    ASSUME NEW T, NEW q \in Seq(Seq(T))
    PROVE  /\ Joined(q, 0) = <<>>
           /\ \A i \in 0..Len(q) : Joined(q, i) \in Seq(T)
           /\ \A i \in 1..Len(q) : Joined(q, i) = Joined(q, i - 1) \o q[i]
<1> DEFINE n == Len(q)
           V == Seq(T)
           F == [i \in 1..n |-> [v \in V |-> v \o q[i]]]
<1>1. n \in Nat /\ <<>> \in V
  OBVIOUS
<1>2. \A i \in 1..n : \A v \in V : v \o q[i] \in V
  <2>1. ASSUME NEW i \in 1..n, NEW v \in V PROVE v \o q[i] \in V
    <3>1. q[i] \in Seq(T)
      OBVIOUS
    <3> HIDE DEF n
    <3> QED BY <3>1
  <2> QED BY <2>1
<1>3. F \in [1..n -> [V -> V]] /\ \A i \in 1..n : \A v \in V : F[i][v] = Lengthened(v, q[i])
  <2> HIDE DEF n, V
  <2> QED BY <1>2 DEF Lengthened
<1>4. PICK b : Iterates(n, V, <<>>, F, b)
  <2> DEFINE base == <<>>
  <2>1. n \in Nat /\ base \in V /\ Steps(n, V, F)
    BY <1>1, <1>3 DEF Steps
  <2> HIDE DEF n, V, F, base
  <2>2. \E b : Iterates(n, V, base, F, b)
    BY <2>1, Recursion
  <2> QED BY <2>2 DEF base
<1>5. Joins(q, n, V, b)
  <2>1. n = Len(q)
    OBVIOUS
  <2> HIDE DEF n, V, F
  <2>2. ASSUME NEW i \in 1..n PROVE b[i] = Lengthened(b[i - 1], q[i])
    <3>1. b[i - 1] \in V
      BY <1>1, <1>4 DEF Iterates
    <3> QED BY <1>3, <1>4, <3>1 DEF Iterates
  <2> QED BY <1>1, <1>4, <2>1, <2>2 DEF Joins, Iterates
<1>6. /\ Joined(q, 0) = <<>>
      /\ \A i \in 0..n : Joined(q, i) \in V
      /\ \A i \in 1..n : Joined(q, i) = Joined(q, i - 1) \o q[i]
  <2> HIDE DEF n, V, F
  <2> QED BY <1>5, JoinedFrom
<1> QED BY <1>6

\* A set of natural numbers that is bounded has a greatest one.
LEMMA GreatestNatural ==
    ASSUME NEW n \in Nat, NEW T, T \subseteq 0..n, T # {}
    PROVE  \E x \in T : \A y \in T : y <= x
<1> DEFINE U == {n - y : y \in T}
<1>1. U \subseteq Nat /\ U # {}
  <2>1. \A y \in T : n - y \in Nat
    <3>1. \A y \in 0..n : n - y \in Nat
      OBVIOUS
    <3> QED BY <3>1
  <2>2. PICK y : y \in T
    OBVIOUS
  <2> QED BY <2>1, <2>2
<1> HIDE DEF U
<1>2. PICK x \in U : \A y \in U : x <= y
  BY <1>1, LeastNatural
<1> USE DEF U
<1>3. PICK z \in T : x = n - z
  BY <1>2
<1>4. \A y \in T : n - z <= n - y
  BY <1>2, <1>3
<1>5. \A y \in T : y <= z
  BY <1>4
<1> QED BY <1>5

Speaks == wire \in [Directions -> Seq(Units)] /\ Framed(wire)

\* Each unit has a byte, so that later units begin later.
LEMMA OffsetsGrow ==
    ASSUME Speaks, NEW d \in Directions
    PROVE  /\ Len(wire[d]) \in Nat
           /\ Offset(d, 0) = 0
           /\ \A i \in 0..Len(wire[d]) : Offset(d, i) \in Nat
           /\ \A i \in 1..Len(wire[d]) : /\ Offset(d, i) = Offset(d, i - 1) + wire[d][i].size
                                         /\ wire[d][i].size \in Nat \ {0}
           /\ \A i, j \in 0..Len(wire[d]) : i < j => Offset(d, i) < Offset(d, j)
<1> DEFINE n == Len(wire[d])
<1>1. wire[d] \in Seq(Units) /\ n \in Nat
  BY DEF Speaks
<1>2. /\ Offset(d, 0) = 0
      /\ \A i \in 0..n : Offset(d, i) \in Nat
      /\ \A i \in 1..n : Offset(d, i) = Offset(d, i - 1) + wire[d][i].size
  BY <1>1, BytesIs DEF Offset
<1>3. ASSUME NEW i \in 1..n PROVE wire[d][i].size \in Nat \ {0}
  <2>1. wire[d][i] \in Units
    BY <1>1
  <2>2. wire[d][i].size \in Nat
    BY <2>1 DEF Units
  <2>3. \/ wire[d][i].size >= 12 \/ wire[d][i].size >= 2 \/ wire[d][i].size >= 1
    BY DEF Speaks, Framed
  <2> QED BY <2>2, <2>3
<1> DEFINE S == {j \in 0..n : \A i \in 0..n : i < j => Offset(d, i) < Offset(d, j)}
<1> HIDE DEF n
<1>4. 0 \in S
  BY <1>1
<1>5. ASSUME NEW k \in 1..n, k - 1 \in S PROVE k \in S
  <2>0. k - 1 \in 0..n /\ k \in 0..n
    BY <1>1
  <2>1. k - 1 \in 0..n /\ k \in 0..n /\ Offset(d, k - 1) < Offset(d, k)
    <3> DEFINE a == Offset(d, k - 1)  b == wire[d][k].size
    <3>1. Offset(d, k) = a + b /\ a \in Nat /\ b \in Nat \ {0}
      BY <1>2, <1>3, <2>0
    <3> HIDE DEF a, b
    <3>2. a < Offset(d, k)
      BY <3>1
    <3> QED BY <2>0, <3>2 DEF a
  <2>2. ASSUME NEW i \in 0..n, i < k PROVE Offset(d, i) < Offset(d, k)
    <3>1. CASE i = k - 1
      BY <2>1, <3>1
    <3>2. CASE i < k - 1
      <4>1. Offset(d, i) < Offset(d, k - 1)
        BY <1>5, <3>2
      <4> QED BY <1>2, <2>1, <4>1
    <3> QED BY <1>1, <2>2, <3>1, <3>2
  <2> QED BY <2>1, <2>2
<1> HIDE DEF S
<1>6. 0..n \subseteq S
  BY <1>1, <1>4, <1>5, Climbing
<1> QED BY <1>1, <1>2, <1>3, <1>6 DEF S, n

\* Where the bytes that have arrived end.
Reached(d, k) ==
    /\ k \in 0..Len(wire[d])
    /\ Offset(d, k) <= conn[d].fed
    /\ k < Len(wire[d]) => Offset(d, k + 1) > conn[d].fed

LEMMA ArrivedReached ==
    ASSUME Speaks, NEW d \in Directions, conn[d].fed \in Nat
    PROVE  Reached(d, Arrived(d))
<1> DEFINE n == Len(wire[d])
           T == {k \in 0..n : Offset(d, k) <= conn[d].fed}
<1>1. n \in Nat /\ Offset(d, 0) = 0 /\ \A i \in 0..n : Offset(d, i) \in Nat
  BY OffsetsGrow
<1>2. T \subseteq 0..n /\ 0 \in T
  BY <1>1
<1>3. PICK k \in T : \A j \in T : j <= k
  <2> HIDE DEF T, n
  <2> QED BY <1>1, <1>2, GreatestNatural
<1>4. Reached(d, k)
  <2>1. ASSUME k < n PROVE Offset(d, k + 1) > conn[d].fed
    <3>1. k + 1 \in 0..n /\ ~(k + 1 <= k)
      BY <1>1, <1>3, <2>1
    <3>2. k + 1 \notin T
      BY <1>3, <3>1
    <3> QED BY <1>1, <3>1, <3>2
  <2> QED BY <1>3, <2>1 DEF Reached
<1>5. Arrived(d) = CHOOSE j \in 0..n : Reached(d, j)
  BY DEF Arrived, Reached
<1>6. k \in 0..n
  BY <1>3
<1> HIDE DEF n
<1> QED BY <1>4, <1>5, <1>6

LEMMA ReachedOnce ==
    ASSUME Speaks, NEW d \in Directions, conn[d].fed \in Nat, NEW k, Reached(d, k)
    PROVE  Arrived(d) = k
<1> DEFINE n == Len(wire[d])
           a == Arrived(d)
<1>1. Reached(d, a)
  BY ArrivedReached
<1>2. /\ n \in Nat /\ \A i \in 0..n : Offset(d, i) \in Nat
      /\ \A i, j \in 0..n : i < j => Offset(d, i) < Offset(d, j)
  BY OffsetsGrow
<1>3. /\ a \in 0..n /\ k \in 0..n
      /\ Offset(d, a) <= conn[d].fed /\ Offset(d, k) <= conn[d].fed
      /\ a < n => Offset(d, a + 1) > conn[d].fed
      /\ k < n => Offset(d, k + 1) > conn[d].fed
  BY <1>1 DEF Reached
<1> HIDE DEF n, a
<1>4. ASSUME NEW i \in 0..n, NEW j \in 0..n, i < j, Offset(d, j) <= conn[d].fed,
             i < n => Offset(d, i + 1) > conn[d].fed
      PROVE  FALSE
  <2>1. i + 1 \in 0..n /\ i < n /\ (i + 1 = j \/ i + 1 < j)
    BY <1>2, <1>4
  <2>2. Offset(d, i + 1) <= Offset(d, j)
    BY <1>2, <2>1
  <2> QED BY <1>2, <1>4, <2>1, <2>2
<1>5. ~(a < k) /\ ~(k < a)
  BY <1>3, <1>4
<1> QED BY <1>3, <1>5 DEF a

\* What has been sent of a stream ends with a unit.
LEMMA SentReady ==
    ASSUME Speaks, NEW d \in Directions
    PROVE  \E K \in 0..Len(wire[d]) :
              /\ Sent(d) = Offset(d, K)
              /\ \A i \in 1..K : d = "server" => conn["client"].taken >= wire[d][i].after
<1> DEFINE n == Len(wire[d])
           ready == {k \in 0..n :
                        \A i \in 1..k : d = "server" => conn["client"].taken >= wire[d][i].after}
<1>1. n \in Nat
  BY OffsetsGrow
<1>2. ready \subseteq 0..n /\ 0 \in ready
  BY <1>1
<1>3. \E x \in ready : \A y \in ready : y <= x
  <2> HIDE DEF ready, n
  <2> QED BY <1>1, <1>2, GreatestNatural
<1> DEFINE K == CHOOSE k \in ready : \A j \in ready : j <= k
<1>4. K \in ready
  <2> HIDE DEF ready
  <2> QED BY <1>3
<1>5. Sent(d) = Offset(d, K)
  BY DEF Sent
<1> HIDE DEF K
<1> QED BY <1>4, <1>5

\* What should have been passed on, unit by unit.
LEMMA ExpectedIs ==
    ASSUME wire \in [Directions -> Seq(Units)], NEW d \in Directions
    PROVE  /\ Expected(d, 0) = <<>>
           /\ \A i \in 0..Len(wire[d]) : Expected(d, i) \in Seq(Forwarded)
           /\ \A i \in 1..Len(wire[d]) :
                 Expected(d, i) = Expected(d, i - 1) \o Passed(d, wire[d][i])
<1> DEFINE n == Len(wire[d])
           q == [i \in 1..n |-> Passed(d, wire[d][i])]
<1>1. wire[d] \in Seq(Units) /\ n \in Nat
  OBVIOUS
<1>2. \A i \in 1..n : Passed(d, wire[d][i]) \in Seq(Forwarded)
  <2>1. \A i \in 1..n : wire[d][i] \in Units
    BY <1>1
  <2> HIDE DEF n
  <2> QED BY <2>1, PassedType
<1>3. q \in Seq(Seq(Forwarded)) /\ Len(q) = n /\ \A i \in 1..n : q[i] = Passed(d, wire[d][i])
  <2> DEFINE V == Seq(Forwarded)  P(i) == Passed(d, wire[d][i])
  <2>1. n \in Nat /\ \A i \in 1..n : P(i) \in V
    BY <1>1, <1>2
  <2> HIDE DEF n, V, P
  <2>2. [i \in 1..n |-> P(i)] \in Seq(V) /\ Len([i \in 1..n |-> P(i)]) = n
    BY <2>1
  <2> QED BY <2>2 DEF V, P
<1>4. \A k : Expected(d, k) = Joined(q, k)
  BY DEF Expected
<1> HIDE DEF q, n
<1>5. /\ Joined(q, 0) = <<>>
      /\ \A i \in 0..n : Joined(q, i) \in Seq(Forwarded)
      /\ \A i \in 1..n : Joined(q, i) = Joined(q, i - 1) \o q[i]
  BY <1>3, JoinedIs
<1> QED BY <1>3, <1>4, <1>5 DEF n

\* All of it, of a stream that is not looked at.
LEMMA ExpectedPlain ==
    ASSUME wire \in [Directions -> Seq(Units)], NEW d \in Directions, ~Parses(d)
    PROVE  \A k \in 0..Len(wire[d]) : Expected(d, k) = SubSeq(wire[d], 1, k)
<1> DEFINE n == Len(wire[d])
           s == wire[d]
           S == {k \in 0..n : Expected(d, k) = SubSeq(s, 1, k)}
<1>1. s \in Seq(Units) /\ n \in Nat /\ n = Len(s)
  OBVIOUS
<1>2. ~Restricts /\ ~Blocks(d)
  BY BlockedIsParsed DEF Parses
<1>3. \A u : Passed(d, u) = <<u>>
  BY <1>2 DEF Passed
<1>4. /\ Expected(d, 0) = <<>>
      /\ \A i \in 1..n : Expected(d, i) = Expected(d, i - 1) \o <<s[i]>>
  BY <1>3, ExpectedIs
<1> HIDE DEF n, s
<1>5. 0 \in S
  <2>1. SubSeq(s, 1, 0) = <<>>
    BY SubSeqEmpty
  <2>2. Expected(d, 0) = SubSeq(s, 1, 0)
    BY <1>4, <2>1
  <2>3. 0 \in 0..n
    BY <1>1
  <2> QED BY <2>2, <2>3
<1>6. ASSUME NEW k \in 1..n, k - 1 \in S PROVE k \in S
  <2>1. k - 1 \in 0..n /\ k \in 0..n /\ Expected(d, k - 1) = SubSeq(s, 1, k - 1)
    BY <1>1, <1>6
  <2>2. SubSeq(s, 1, k - 1) \o <<s[k]>> = SubSeq(s, 1, k)
    BY <1>1
  <2> QED BY <1>4, <2>1, <2>2
<1> HIDE DEF S
<1>7. 0..n \subseteq S
  BY <1>1, <1>5, <1>6, Climbing
<1> QED BY <1>7 DEF S, n, s

\* The unit that comes next.
LEMMA UnitAhead ==
    ASSUME RelayInv, FrameInv, NEW d \in Directions, HasBytes(d)
    PROVE  /\ Speaks
           /\ conn[d].taken \in Nat /\ conn[d].taken + 1 \in 1..Len(wire[d])
           /\ Coming(d) = wire[d][conn[d].taken + 1] /\ Coming(d) \in Units
           /\ conn[d].fed \in Nat
           /\ Parses(d) => /\ conn[d].pos = Offset(d, conn[d].taken) /\ conn[d].pos \in Nat
                           /\ conn[d].rects = Owed(wire[d], conn[d].taken)
                           /\ conn[d].rects \in Int
<1>1. Speaks /\ wire[d] \in Seq(Units) /\ Stands(d)
  BY DEF RelayInv, FrameInv, Speaks
<1> DEFINE n == Len(wire[d])  k == conn[d].taken
<1>2. n \in Nat /\ k \in 0..n /\ k < n
  BY <1>1 DEF Stands, HasBytes
<1>3. k \in Nat /\ k + 1 \in 1..n
  BY <1>2
<1>4. Offset(d, k) \in Nat /\ Owed(wire[d], k) \in Int
  BY <1>1, <1>2, OffsetsGrow, OwedIs
<1>5. Coming(d) = wire[d][k + 1] /\ Coming(d) \in Units
  <2>1. wire[d][k + 1] \in Units
    BY <1>1, <1>3
  <2> QED BY <2>1 DEF Coming
<1> QED BY <1>1, <1>3, <1>4, <1>5 DEF Stands

\* What RFB says of it.
LEMMA FramedUnit ==
    ASSUME RelayInv, FrameInv, NEW d \in Directions, HasBytes(d), Parses(d)
    PROVE  LET u == Coming(d)
               rect == conn[d].rects > 0
               frames == IF rect THEN RectFrames(u.bpp) ELSE MessageFrames(d)
               odd == u.kind = "qemu" /\ u.n # 0
           IN  /\ u.size >= IF rect THEN 12 ELSE IF odd THEN 2 ELSE 1
               /\ u.kind \in DOMAIN frames /\ ~odd => u.size = Length(frames[u.kind], u.n)
               /\ rect /\ u.kind = "raw" => Drawn(wire["client"], u)
<1> DEFINE i == conn[d].taken + 1
<1>1. /\ Speaks /\ i \in 1..Len(wire[d]) /\ i - 1 = conn[d].taken
      /\ Coming(d) = wire[d][i] /\ conn[d].rects = Owed(wire[d], i - 1)
  <2>1. conn[d].taken \in Nat
    BY UnitAhead
  <2>2. (conn[d].taken + 1) - 1 = conn[d].taken
    BY <2>1
  <2> QED BY <2>2, UnitAhead
<1> HIDE DEF i
<1> QED BY <1>1 DEF Speaks, Framed

\* The tables of lengths.
LEMMA FrameIs ==
    /\ \A p : /\ DOMAIN RectFrames(p) = {"copy", "raw"}
              /\ RectFrames(p)["copy"] = <<16, 0>> /\ RectFrames(p)["raw"] = <<12, p>>
    /\ "update" \notin DOMAIN MessageFrames("client")
    /\ \A d \in Directions : "qemu" \in DOMAIN MessageFrames(d) => MessageFrames(d)["qemu"] = <<12, 0>>
<1>1. "update" \notin DOMAIN MessageFrames("client")
  BY DEF MessageFrames, ClientFrames
<1>2. MessageFrames("client")["qemu"] = <<12, 0>>
  BY DEF MessageFrames, ClientFrames
<1>3. "qemu" \notin DOMAIN MessageFrames("server")
  BY DEF MessageFrames, ServerFrames
<1>4. ASSUME NEW p
      PROVE  /\ DOMAIN RectFrames(p) = {"copy", "raw"}
             /\ RectFrames(p)["copy"] = <<16, 0>> /\ RectFrames(p)["raw"] = <<12, p>>
  BY DEF RectFrames
<1> QED BY <1>1, <1>2, <1>3, <1>4 DEF Directions

\* A length is that of the header at least.
LEMMA LengthIs ==
    ASSUME NEW n \in Int
    PROVE  /\ Magnitude(n) \in Nat
           /\ \A a \in Nat : Length(<<a, 0>>, n) = a
           /\ \A a, p \in Nat : Length(<<a, p>>, n) >= a
<1>1. Magnitude(n) \in Nat
  BY DEF Magnitude
<1>2. ASSUME NEW a \in Nat, NEW p \in Nat
      PROVE  Length(<<a, 0>>, n) = a /\ Length(<<a, p>>, n) >= a
  <2>1. Length(<<a, 0>>, n) = a + 0 * Magnitude(n) /\ Length(<<a, p>>, n) = a + p * Magnitude(n)
    BY DEF Length
  <2> DEFINE m == Magnitude(n)
  <2>2. p * m \in Nat /\ 0 * m = 0
    BY <1>1
  <2> HIDE DEF m
  <2> QED BY <2>1, <2>2 DEF m
<1> QED BY <1>1, <1>2

\* A rectangle is drawn in the format the filter has seen.
LEMMA FormatKnown ==
    ASSUME RelayInv, FrameInv, NEW d \in Directions, HasBytes(d), Parses(d)
    PROVE  /\ bpp \in Nat
           /\ conn[d].rects > 0 => d = "server"
           /\ conn[d].rects > 0 /\ Coming(d).kind = "raw" /\ bpp # 0 => bpp = Coming(d).bpp
<1> DEFINE client == wire["client"]  u == Coming(d)
           t == conn["client"].taken
<1>1. "client" \in Directions /\ "server" \in Directions /\ (d = "client" \/ d = "server")
  BY DEF Directions
<1>2. client \in Seq(Units) /\ t \in 0..Len(client) /\ Len(client) \in Nat
  BY <1>1 DEF RelayInv, FrameInv, Stands
<1>3. Parses("client") /\ Tracks
  BY <1>1 DEF FrameInv, Parses
<1>4. \A j \in 1..t : j \in 1..Len(client) /\ client[j] \in Units
  BY <1>2
<1>5. bpp \in Nat
  BY <1>3, <1>4 DEF Tracks, Units
<1>6. conn[d].rects > 0 => d = "server"
  BY <1>1 DEF FrameInv
<1>7. ASSUME conn[d].rects > 0, u.kind = "raw", bpp # 0
      PROVE  bpp = u.bpp
  <2>1. d = "server" /\ Awaited
    BY <1>6, <1>7 DEF FrameInv
  <2>2. Drawn(client, u)
    BY <1>7, FramedUnit
  <2>3. u.after <= t
    <3> DEFINE i == conn[d].taken + 1
    <3>1. /\ i \in 1..Len(wire[d]) /\ i - 1 = conn[d].taken /\ u = wire[d][i]
          /\ conn[d].pos = Offset(d, conn[d].taken)
      <4>1. conn[d].taken \in Nat
        BY UnitAhead
      <4>2. (conn[d].taken + 1) - 1 = conn[d].taken
        BY <4>1
      <4> QED BY <4>2, UnitAhead
    <3>2. Offset(d, i - 1) < conn[d].fed
      <4>1. conn[d].fed \in Nat /\ conn[d].pos \in Nat /\ conn[d].fed > conn[d].pos
        BY UnitAhead DEF HasBytes
      <4> QED BY <3>1, <4>1
    <3> HIDE DEF i, u
    <3> QED BY <2>1, <3>1, <3>2 DEF Awaited
  <2>4. PICK j \in 1..t : /\ client[j].kind = "pixels" /\ bpp = client[j].bpp
                          /\ \A k \in (j + 1)..t : client[k].kind # "pixels"
    BY <1>3, <1>7 DEF Tracks
  <2>5. u.after \in Nat
    BY UnitAhead DEF Units
  <2> HIDE DEF client, u, t
  <2>6. ASSUME NEW k \in (j + 1)..Len(client) PROVE client[k].kind # "pixels"
    <3>1. k \in 1..Len(client)
      BY <1>2, <2>6
    <3>2. client[k].kind = "pixels" => k <= u.after
      BY <2>2, <3>1 DEF Drawn
    <3>3. k <= u.after => k \in (j + 1)..t
      BY <1>2, <2>3, <2>5, <2>6
    <3> QED BY <2>4, <3>2, <3>3
  <2>7. j \in 1..Len(client)
    BY <1>4
  <2> QED BY <2>2, <2>4, <2>6, <2>7 DEF Drawn
<1> QED BY <1>5, <1>6, <1>7

\* A unit that is complete is taken to its last byte, one that is not waits
\* for a byte of its own.
LEMMA RectangleLength ==
    ASSUME RelayInv, FrameInv, NEW d \in Directions, HasBytes(d), Parses(d),
           conn[d].rects > 0, ~Unknown(d, Coming(d))
    PROVE  /\ Complete(d, Coming(d)) =>
                Length(Frames(d)[Coming(d).kind], Coming(d).n) = Coming(d).size
           /\ ~Complete(d, Coming(d)) => conn[d].fed - conn[d].pos < Coming(d).size
<1> DEFINE u == Coming(d)
           have == conn[d].fed - conn[d].pos
<1>1. /\ u.n \in Int /\ u.size \in Nat /\ u.bpp \in Nat /\ have \in Int
      /\ conn[d].fed \in Nat /\ conn[d].pos \in Nat
  BY UnitAhead DEF Units
<1>2. /\ u.size >= 12
      /\ u.kind \in DOMAIN RectFrames(u.bpp) /\ ~(u.kind = "qemu" /\ u.n # 0) =>
            u.size = Length(RectFrames(u.bpp)[u.kind], u.n)
  BY FramedUnit
<1>3. bpp \in Nat /\ (u.kind = "raw" /\ bpp # 0 => bpp = u.bpp)
  BY FormatKnown
<1>4. have < 12 \/ (u.kind \in {"copy", "raw"} /\ ~(u.kind = "raw" /\ bpp = 0))
  <2>1. ~(have >= 12 /\ (u.kind \notin DOMAIN RectFrames(bpp) \/ (u.kind = "raw" /\ bpp = 0)))
    BY DEF Unknown
  <2>2. DOMAIN RectFrames(bpp) = {"copy", "raw"}
    BY FrameIs
  <2> HIDE DEF u, have
  <2> QED BY <1>1, <2>1, <2>2
<1>5. Frames(d) = RectFrames(bpp)
  BY DEF Frames
<1>6. Complete(d, u) <=> u.kind \in {"copy", "raw"} /\ have >= Length(RectFrames(bpp)[u.kind], u.n)
  BY <1>5, FrameIs DEF Complete
<1> HIDE DEF u, have
<1> DEFINE c == <<16, 0>>  r == <<12, bpp>>
<1>11. /\ Length(c, u.n) = 16 /\ Length(r, u.n) >= 12
       /\ bpp = 0 => Length(r, u.n) = 12
  BY <1>1, <1>3, LengthIs
<1>12. RectFrames(bpp)["copy"] = c /\ RectFrames(bpp)["raw"] = r
  BY FrameIs
<1> HIDE DEF c, r
<1>7. u.kind \in {"copy", "raw"} => Length(RectFrames(bpp)[u.kind], u.n) >= 12
  <2>1. u.kind = "copy" => Length(RectFrames(bpp)[u.kind], u.n) = 16
    BY <1>11, <1>12
  <2>2. u.kind = "raw" => Length(RectFrames(bpp)[u.kind], u.n) >= 12
    BY <1>11, <1>12
  <2> QED BY <2>1, <2>2
<1>8. ASSUME u.kind \in {"copy", "raw"}, ~(u.kind = "raw" /\ bpp = 0)
      PROVE  Length(RectFrames(bpp)[u.kind], u.n) = u.size
  <2>1. RectFrames(bpp)[u.kind] = RectFrames(u.bpp)[u.kind]
    BY <1>3, <1>8, FrameIs
  <2>2. u.kind \in DOMAIN RectFrames(u.bpp) /\ u.kind # "qemu"
    BY <1>8, FrameIs
  <2> QED BY <1>2, <2>1, <2>2
<1>9. Complete(d, u) => Length(RectFrames(bpp)[u.kind], u.n) = u.size
  <2> SUFFICES ASSUME Complete(d, u) PROVE Length(RectFrames(bpp)[u.kind], u.n) = u.size
    OBVIOUS
  <2> DEFINE l == Length(RectFrames(bpp)[u.kind], u.n)
  <2>1. have >= l /\ l >= 12 /\ u.kind \in {"copy", "raw"}
    BY <1>6, <1>7
  <2>2. ~(u.kind = "raw" /\ bpp = 0)
    <3>1. u.kind = "raw" /\ bpp = 0 => l = 12
      BY <1>11, <1>12
    <3>2. u.kind = "raw" /\ bpp = 0 => ~(have < 12)
      BY <1>1, <2>1, <3>1
    <3> QED BY <1>4, <3>2
  <2> QED BY <1>8, <2>1, <2>2
<1>10. ~Complete(d, u) => have < u.size
  <2>1. CASE have < 12
    BY <1>1, <1>2, <2>1
  <2>2. CASE u.kind \in {"copy", "raw"} /\ ~(u.kind = "raw" /\ bpp = 0)
    BY <1>1, <1>6, <1>8, <2>2
  <2> QED BY <1>4, <2>1, <2>2
<1> QED BY <1>5, <1>9, <1>10 DEF u, have

LEMMA MessageLength ==
    ASSUME RelayInv, FrameInv, NEW d \in Directions, HasBytes(d), Parses(d),
           ~(conn[d].rects > 0), ~Unknown(d, Coming(d))
    PROVE  /\ Complete(d, Coming(d)) =>
                Length(Frames(d)[Coming(d).kind], Coming(d).n) = Coming(d).size
           /\ ~Complete(d, Coming(d)) => conn[d].fed - conn[d].pos < Coming(d).size
<1> DEFINE u == Coming(d)
           have == conn[d].fed - conn[d].pos
           odd == u.kind = "qemu" /\ u.n # 0
<1>1. u.n \in Int /\ u.size \in Nat /\ have \in Int
  BY UnitAhead DEF Units
<1>2. /\ u.size >= IF odd THEN 2 ELSE 1
      /\ u.kind \in DOMAIN MessageFrames(d) /\ ~odd =>
            u.size = Length(MessageFrames(d)[u.kind], u.n)
  BY FramedUnit
<1>3. u.kind \in DOMAIN MessageFrames(d) /\ ~(odd /\ have >= 2)
  BY DEF Unknown
<1>4. Frames(d) = MessageFrames(d)
  BY DEF Frames
<1>5. Complete(d, u) <=> have >= Length(MessageFrames(d)[u.kind], u.n)
  BY <1>3, <1>4 DEF Complete
<1>6. odd => Length(MessageFrames(d)[u.kind], u.n) = 12
  BY <1>1, <1>3, LengthIs, FrameIs
<1> HIDE DEF u, have, odd
<1> DEFINE l == Length(MessageFrames(d)[u.kind], u.n)
<1>7. Complete(d, u) => l = u.size
  BY <1>1, <1>2, <1>3, <1>5, <1>6
<1>8. ~Complete(d, u) => have < u.size
  <2>1. CASE odd
    BY <1>1, <1>2, <1>3, <2>1
  <2>2. CASE ~odd
    BY <1>1, <1>2, <1>3, <1>5, <2>2
  <2> QED BY <2>1, <2>2
<1> QED BY <1>4, <1>7, <1>8 DEF u, have

LEMMA UnitLength ==
    ASSUME RelayInv, FrameInv, NEW d \in Directions, HasBytes(d), Parses(d),
           ~Unknown(d, Coming(d))
    PROVE  /\ Complete(d, Coming(d)) =>
                /\ Length(Frames(d)[Coming(d).kind], Coming(d).n) = Coming(d).size
                /\ d = "client" => Coming(d).kind # "update"
           /\ ~Complete(d, Coming(d)) => conn[d].fed - conn[d].pos < Coming(d).size
<1>1. d = "client" => Coming(d).kind # "update"
  <2> SUFFICES ASSUME d = "client" PROVE Coming(d).kind # "update"
    OBVIOUS
  <2>1. ~(conn[d].rects > 0)
    BY DEF FrameInv
  <2>2. Coming(d).kind \in DOMAIN MessageFrames(d)
    BY <2>1 DEF Unknown
  <2> QED BY <2>2, FrameIs
<1> QED BY <1>1, RectangleLength, MessageLength

\* What stays when the streams do.
LEMMA SameStreams ==
    ASSUME mode' = mode, wire' = wire
    PROVE  /\ \A d, k : (Offset(d, k)' = Offset(d, k)) /\ (Expected(d, k)' = Expected(d, k))
           /\ \A d : Parses(d)' <=> Parses(d)
<1>1. \A d, u : Passed(d, u)' = Passed(d, u)
  BY DEF Passed, Restricts, Blocks
<1>2. ASSUME NEW d, NEW k PROVE Expected(d, k)' = Expected(d, k)
  <2> DEFINE q == [i \in 1..Len(wire[d]) |-> Passed(d, wire[d][i])]
  <2>1. q' = q
    BY <1>1
  <2>2. Expected(d, k) = Joined(q, k) /\ Expected(d, k)' = Joined(q', k)
    BY DEF Expected
  <2> HIDE DEF q
  <2> QED BY <2>1, <2>2
<1>3. \A d, k : Offset(d, k)' = Offset(d, k)
  BY DEF Offset
<1>4. \A d : Parses(d)' <=> Parses(d)
  BY DEF Parses, Restricts, Blocks
<1> QED BY <1>2, <1>3, <1>4

LEMMA SameArrived ==
    ASSUME wire' = wire, NEW d, conn'[d].fed = conn[d].fed
    PROVE  Arrived(d)' = Arrived(d)
  BY DEF Arrived, Offset

LEMMA StandsSame ==
    ASSUME mode' = mode, wire' = wire, NEW d, conn'[d] = conn[d], Stands(d),
           busy' # d /\ ~torn' => busy # d /\ ~torn
    PROVE  Stands(d)'
<1>1. Arrived(d)' = Arrived(d)
  BY SameArrived
<1> QED BY <1>1, SameStreams DEF Stands

LEMMA TracksSame ==
    ASSUME wire' = wire, bpp' = bpp, conn'["client"].taken = conn["client"].taken, Tracks
    PROVE  Tracks'
  BY DEF Tracks

LEMMA AwaitedSame ==
    ASSUME Speaks, wire' = wire, conn'["server"].fed = conn["server"].fed,
           conn["client"].taken \in Nat, conn'["client"].taken \in Nat,
           conn'["client"].taken >= conn["client"].taken, Awaited
    PROVE  Awaited'
<1>1. \A i \in 1..Len(wire["server"]) : wire["server"][i].after \in Nat
  <2>1. \A i \in 1..Len(wire["server"]) : wire["server"][i] \in Units
    BY DEF Speaks, Directions
  <2> QED BY <2>1 DEF Units
<1>2. \A k : Offset("server", k)' = Offset("server", k)
  BY DEF Offset
<1>3. ASSUME NEW i \in 1..Len(wire["server"]), Offset("server", i - 1) < conn["server"].fed
      PROVE  wire["server"][i].after <= conn'["client"].taken
  <2>1. wire["server"][i].after <= conn["client"].taken
    BY <1>3 DEF Awaited
  <2> QED BY <1>1, <2>1
<1> QED BY <1>2, <1>3 DEF Awaited

LEMMA FrameSame ==
    ASSUME FrameInv, UNCHANGED filterVars
    PROVE  FrameInv'
<1>1. /\ mode' = mode /\ wire' = wire /\ conn' = conn /\ bpp' = bpp /\ busy' = busy
      /\ torn' = torn
  BY DEF filterVars
<1>2. \A d \in Directions : Stands(d)'
  BY <1>1, StandsSame DEF FrameInv
<1>3. Tracks' <=> Tracks
  BY <1>1 DEF Tracks
<1>4. Awaited' <=> Awaited
  BY <1>1 DEF Awaited, Offset
<1> QED BY <1>1, <1>2, <1>3, <1>4, SameStreams DEF FrameInv

NothingExpected ==
    wire \in [Directions -> Seq(Units)] => \A d \in Directions : Expected(d, 0) = <<>>

LEMMA ExpectedFirst == NothingExpected
  BY ExpectedIs DEF NothingExpected

LEMMA ExpectedZero ==
    ASSUME wire' \in [Directions -> Seq(Units)], NEW d \in Directions
    PROVE  Expected(d, 0)' = <<>>
<1>1. NothingExpected'
  BY ExpectedFirst, PTL
<1> QED BY <1>1 DEF NothingExpected

\* Nothing has come yet.
LEMMA NothingYet ==
    ASSUME Speaks, NEW d \in Directions, conn[d] = Opened
    PROVE  Stands(d) /\ Arrived(d) = 0
<1>1. /\ Opened.fed = 0 /\ Opened.pos = 0 /\ Opened.taken = 0 /\ Opened.rects = 0
      /\ Opened.out = <<>>
  BY DEF Opened
<1>2. Expected(d, 0) = <<>> /\ Offset(d, 0) = 0 /\ Owed(wire[d], 0) = 0 /\ Len(wire[d]) \in Nat
  <2>1. wire \in [Directions -> Seq(Units)] /\ wire[d] \in Seq(Units)
    BY DEF Speaks
  <2> QED BY <2>1, ExpectedIs, OffsetsGrow, OwedIs
<1>3. 0 < Len(wire[d]) => Offset(d, 0 + 1) > 0
  <2> SUFFICES ASSUME 0 < Len(wire[d]) PROVE Offset(d, 0 + 1) > 0
    OBVIOUS
  <2>1. 0 \in 0..Len(wire[d]) /\ 1 \in 0..Len(wire[d]) /\ 0 < 1
    BY <1>2
  <2>2. Offset(d, 0) < Offset(d, 1)
    BY <2>1, OffsetsGrow
  <2>3. Offset(d, 1) \in Nat
    BY <2>1, OffsetsGrow
  <2> QED BY <1>2, <2>2, <2>3
<1>4. Reached(d, 0)
  BY <1>1, <1>2, <1>3 DEF Reached
<1>5. Arrived(d) = 0
  BY <1>1, <1>4, ReachedOnce
<1> QED BY <1>1, <1>2, <1>5 DEF Stands

LEMMA InitFrame == Init => FrameInv
<1> SUFFICES ASSUME NEW st \in Starts, InitFrom(st)
             PROVE  FrameInv
  BY DEF Init
<1>1. st.wire \in [Directions -> Seq(Units)] /\ Framed(st.wire)
  BY StartAssumption, FramingAssumption
<1>2. /\ Speaks /\ conn = [d \in Directions |-> Opened] /\ bpp = 0
  BY <1>1 DEF InitFrom, Speaks
<1>3. \A d \in Directions : Stands(d)
  BY <1>2, NothingYet
<1>4. conn["client"] = Opened /\ conn["server"] = Opened
  BY <1>2 DEF Directions
<1>5. Opened.rects = 0 /\ Opened.fed = 0
  BY DEF Opened
<1>6. Awaited
  <2>1. ASSUME NEW i \in 1..Len(wire["server"]) PROVE ~(Offset("server", i - 1) < 0)
    <3>1. Len(wire["server"]) \in Nat /\ \A j \in 0..Len(wire["server"]) : Offset("server", j) \in Nat
      BY <1>2, OffsetsGrow DEF Directions
    <3>2. i - 1 \in 0..Len(wire["server"])
      BY <3>1
    <3> QED BY <3>1, <3>2
  <2> QED BY <1>4, <1>5, <2>1 DEF Awaited
<1> QED BY <1>2, <1>3, <1>4, <1>5, <1>6 DEF FrameInv, Speaks, Tracks

LEMMA ConnectFrame ==
    ASSUME RelayInv, FrameInv, Connect
    PROVE  FrameInv'
<1>1. /\ mode = "unset" /\ UNCHANGED <<wire, conn, bpp, busy, torn>>
  BY DEF Connect
<1>2. conn = [d \in Directions |-> Opened]
  BY <1>1 DEF RelayInv
<1>3. Speaks
  BY DEF RelayInv, FrameInv, Speaks
<1>4. Parses("client") /\ Parses("server")
  BY <1>1 DEF Parses, Restricts, Blocks
<1>5. Tracks /\ Awaited
  BY <1>4 DEF FrameInv
<1>6. Tracks' /\ Awaited'
  BY <1>1, <1>5 DEF Tracks, Awaited, Offset
<1>7. ASSUME NEW d \in Directions PROVE Stands(d)'
  <2>1. conn[d] = Opened
    BY <1>2
  <2>2. Arrived(d) = 0 /\ Stands(d)
    BY <1>3, <2>1, NothingYet
  <2>3. Arrived(d)' = 0
    BY <1>1, <2>2, SameArrived
  <2>4. Expected(d, 0)' = <<>>
    BY <1>1, <1>3, ExpectedZero DEF Speaks
  <2>5. Opened.taken = 0 /\ Opened.out = <<>>
    BY DEF Opened
  <2>6. \A k : Offset(d, k)' = Offset(d, k)
    BY <1>1 DEF Offset
  <2>7. Parses(d)
    BY <1>4 DEF Directions
  <2>8. conn'[d] = Opened
    BY <1>1, <2>1
  <2> QED BY <1>1, <2>1, <2>2, <2>3, <2>4, <2>5, <2>6, <2>7, <2>8 DEF Stands
<1>8. Framed(wire') /\ conn'["client"].rects = 0
  BY <1>1 DEF FrameInv
<1> QED BY <1>6, <1>7, <1>8 DEF FrameInv

LEMMA FeedFrame ==
    ASSUME RelayInv, FrameInv, NEW d \in Directions, NEW n \in ChunkSizes, Feed(d, n)
    PROVE  FrameInv'
<1>1. /\ busy = NoDirection /\ ~torn /\ conn[d].fed + n <= Sent(d) /\ busy' = d
      /\ conn' = [conn EXCEPT ![d] = [conn[d] EXCEPT !.fed = conn[d].fed + n]]
      /\ UNCHANGED <<mode, wire, bpp, torn>>
  BY DEF Feed
<1>2. DOMAIN conn = Directions /\ IsFilter(conn[d]) /\ Speaks
  BY DEF RelayInv, FrameInv, Speaks
<1>3. LET x == [conn[d] EXCEPT !.fed = conn[d].fed + n]
      IN  /\ x.fed = conn[d].fed + n /\ x.pos = conn[d].pos /\ x.taken = conn[d].taken
          /\ x.rects = conn[d].rects /\ x.out = conn[d].out
  BY <1>2 DEF IsFilter, Opened
<1>4. /\ \A e \in Directions : e # d => conn'[e] = conn[e]
      /\ conn'[d].fed = conn[d].fed + n /\ conn'[d].pos = conn[d].pos
      /\ conn'[d].taken = conn[d].taken /\ conn'[d].rects = conn[d].rects
      /\ conn'[d].out = conn[d].out
  BY <1>1, <1>2, <1>3
<1>5. "client" \in Directions /\ "server" \in Directions /\ (d = "client" \/ d = "server")
  BY DEF Directions
<1>6. Stands(d) /\ conn[d].fed \in Nat /\ n \in Nat
  BY ChunkAssumption DEF FrameInv, Stands
<1>7. Stands(d)'
  <2>1. conn'[d].fed \in Nat
    BY <1>4, <1>6
  <2>2. Parses(d) => conn[d].pos <= conn'[d].fed
    <3> SUFFICES ASSUME Parses(d) PROVE conn[d].pos <= conn'[d].fed
      OBVIOUS
    <3>1. conn[d].pos = Offset(d, conn[d].taken) /\ conn[d].taken \in 0..Len(wire[d])
          /\ conn[d].pos <= conn[d].fed
      BY <1>6 DEF Stands
    <3>2. conn[d].pos \in Nat
      BY <1>2, <3>1, OffsetsGrow
    <3> QED BY <1>4, <1>6, <3>1, <3>2
  <2> QED BY <1>1, <1>4, <1>6, <2>1, <2>2, SameStreams DEF Stands
<1>8. ASSUME NEW e \in Directions, e # d PROVE Stands(e)'
  <2>1. e # NoDirection
    BY DEF Directions, NoDirection
  <2>2. Stands(e) /\ conn'[e] = conn[e]
    BY <1>4, <1>8 DEF FrameInv
  <2> QED BY <1>1, <2>1, <2>2, StandsSame
<1>9. conn'["client"].taken = conn["client"].taken /\ conn'["client"].rects = conn["client"].rects
  BY <1>4, <1>5
<1>10. Tracks => Tracks'
  BY <1>1, <1>9, TracksSame
<1>11. conn["client"].taken \in Nat
  <2>1. Stands("client") /\ Len(wire["client"]) \in Nat
    BY <1>2, <1>5, OffsetsGrow DEF FrameInv
  <2> QED BY <2>1 DEF Stands
<1>12. ASSUME Awaited PROVE Awaited'
  <2>1. CASE d = "client"
    <3>1. conn'["server"].fed = conn["server"].fed
      BY <1>4, <1>5, <2>1
    <3>2. conn["client"].taken >= conn["client"].taken
      BY <1>11
    <3> QED BY <1>1, <1>2, <1>9, <1>11, <1>12, <3>1, <3>2, AwaitedSame
  <2>2. CASE d = "server"
    <3>1. PICK K \in 0..Len(wire[d]) :
              /\ Sent(d) = Offset(d, K)
              /\ \A i \in 1..K : d = "server" => conn["client"].taken >= wire[d][i].after
      BY <1>2, SentReady
    <3> DEFINE m == Len(wire[d])
    <3>2. /\ m \in Nat /\ \A i \in 0..m : Offset(d, i) \in Nat
          /\ \A i, j \in 0..m : i < j => Offset(d, i) < Offset(d, j)
      BY <1>2, OffsetsGrow
    <3>3. ASSUME NEW i \in 1..m, Offset(d, i - 1) < conn'[d].fed
          PROVE  wire[d][i].after <= conn["client"].taken
      <4>1. conn'[d].fed <= Offset(d, K) /\ conn'[d].fed \in Nat
        BY <1>1, <1>4, <1>6, <3>1
      <4>2. i - 1 \in 0..m /\ K \in 0..m
        BY <3>1, <3>2
      <4>3. Offset(d, i - 1) < Offset(d, K)
        <5> HIDE DEF m
        <5>1. Offset(d, i - 1) \in Nat /\ Offset(d, K) \in Nat
          BY <3>2, <4>2
        <5> QED BY <3>3, <4>1, <5>1
      <4>4. ~(K < i - 1) /\ K # i - 1
        <5> HIDE DEF m
        <5>1. Offset(d, i - 1) \in Nat /\ Offset(d, K) \in Nat
          BY <3>2, <4>2
        <5> QED BY <3>2, <4>2, <4>3, <5>1
      <4>5. i \in 1..K
        BY <3>2, <4>2, <4>4
      <4>6. wire[d][i].after \in Nat
        <5>1. wire[d][i] \in Units
          BY <1>2 DEF Speaks
        <5> QED BY <5>1 DEF Units
      <4>7. conn["client"].taken >= wire[d][i].after
        BY <2>2, <3>1, <4>5
      <4> QED BY <1>11, <4>6, <4>7
    <3>4. \A i : Offset(d, i - 1)' = Offset(d, i - 1)
      BY <1>1 DEF Offset
    <3> QED BY <1>1, <1>9, <2>2, <3>3, <3>4 DEF Awaited
  <2> QED BY <1>5, <2>1, <2>2
<1>13. \A e \in Directions : Stands(e)'
  BY <1>7, <1>8
<1>14. (Parses("client")' <=> Parses("client")) /\ (Parses("server")' <=> Parses("server"))
  BY <1>1, SameStreams
<1> QED BY <1>1, <1>9, <1>10, <1>12, <1>13, <1>14 DEF FrameInv

LEMMA EndFrame ==
    ASSUME RelayInv, FrameInv, NEW d \in Directions, FeedEnds(d) \/ ProtocolError(d)
    PROVE  FrameInv'
<1>1. UNCHANGED <<mode, wire, conn, bpp>> /\ busy = d /\ Parses(d) /\ busy' = NoDirection
  BY DEF FeedEnds, ProtocolError
<1>2. \/ torn'
      \/ torn' = torn /\ (HasBytes(d) => ~Complete(d, Coming(d)) /\ ~Unknown(d, Coming(d)))
  BY DEF FeedEnds, ProtocolError
<1>3. Speaks /\ Stands(d)
  BY DEF RelayInv, FrameInv, Speaks
<1>4. ASSUME ~torn' PROVE conn[d].taken = Arrived(d)
  <2> DEFINE k == conn[d].taken  n == Len(wire[d])
  <2>1. /\ k \in 0..n /\ n \in Nat /\ conn[d].pos = Offset(d, k) /\ conn[d].pos <= conn[d].fed
        /\ conn[d].fed \in Nat
    BY <1>1, <1>3, OffsetsGrow DEF Stands
  <2>2. ASSUME k < n PROVE Offset(d, k + 1) > conn[d].fed
    <3>1. /\ k + 1 \in 1..n /\ k + 1 \in 0..n /\ k \in 0..n /\ k < k + 1 /\ (k + 1) - 1 = k
      BY <2>1, <2>2
    <3>2. /\ Offset(d, k) \in Nat /\ Offset(d, k + 1) \in Nat /\ Offset(d, k) < Offset(d, k + 1)
      BY <1>3, <3>1, OffsetsGrow
    <3>3. Offset(d, k + 1) = Offset(d, k) + wire[d][k + 1].size
      BY <1>3, <3>1, OffsetsGrow
    <3>4. CASE ~HasBytes(d)
      <4>1. ~(conn[d].fed > conn[d].pos)
        BY <2>2, <3>4 DEF HasBytes
      <4> QED BY <2>1, <3>2, <4>1
    <3>5. CASE HasBytes(d)
      <4>1. conn[d].fed - conn[d].pos < Coming(d).size /\ Coming(d) = wire[d][k + 1]
            /\ Coming(d) \in Units
        BY <1>1, <1>2, <1>4, <3>5, UnitLength, UnitAhead
      <4>2. Coming(d).size \in Nat
        BY <4>1 DEF Units
      <4> QED BY <2>1, <3>2, <3>3, <4>1, <4>2
    <3> QED BY <3>4, <3>5
  <2>3. Reached(d, k)
    BY <2>1, <2>2 DEF Reached
  <2> QED BY <1>3, <2>1, <2>3, ReachedOnce
<1>5. Stands(d)'
  <2>1. Arrived(d)' = Arrived(d)
    BY <1>1, SameArrived
  <2> QED BY <1>1, <1>3, <1>4, <2>1, SameStreams DEF Stands
<1>6. ASSUME NEW e \in Directions, e # d PROVE Stands(e)'
  <2>1. ~torn' => ~torn
    BY <1>2 DEF FeedEnds, ProtocolError
  <2>2. Stands(e)
    BY DEF FrameInv
  <2> QED BY <1>1, <1>6, <2>1, <2>2, StandsSame
<1>7. Tracks' <=> Tracks
  BY <1>1 DEF Tracks
<1>8. Awaited' <=> Awaited
  BY <1>1 DEF Awaited, Offset
<1>9. (Parses("client")' <=> Parses("client")) /\ (Parses("server")' <=> Parses("server"))
  BY <1>1, SameStreams
<1> QED BY <1>1, <1>5, <1>6, <1>7, <1>8, <1>9 DEF FrameInv

LEMMA PassFrame ==
    ASSUME RelayInv, FrameInv, NEW d \in Directions, PassThrough(d)
    PROVE  FrameInv'
<1> DEFINE x == [conn[d] EXCEPT !.pos = conn[d].fed, !.taken = Arrived(d),
                                !.out = SubSeq(wire[d], 1, Arrived(d))]
<1>1. /\ busy = d /\ ~Parses(d) /\ conn' = [conn EXCEPT ![d] = x]
      /\ busy' = NoDirection /\ UNCHANGED <<mode, wire, bpp, torn>>
  BY DEF PassThrough
<1>2. /\ DOMAIN conn = Directions /\ IsFilter(conn[d]) /\ Speaks /\ Stands(d)
      /\ wire \in [Directions -> Seq(Units)]
  BY DEF RelayInv, FrameInv, Speaks
<1>3. /\ x.fed = conn[d].fed /\ x.taken = Arrived(d) /\ x.rects = conn[d].rects
      /\ x.out = SubSeq(wire[d], 1, Arrived(d))
  BY <1>2 DEF IsFilter, Opened
<1> HIDE DEF x
<1>4. /\ \A e \in Directions : e # d => conn'[e] = conn[e]
      /\ conn'[d] = x
  BY <1>1, <1>2
<1>5. "client" \in Directions /\ "server" \in Directions /\ (d = "client" \/ d = "server")
  BY DEF Directions
<1>6. Stands(d)'
  <2>1. conn[d].fed \in Nat /\ conn'[d].fed = conn[d].fed /\ conn'[d].taken = Arrived(d)
    BY <1>2, <1>3, <1>4 DEF Stands
  <2>2. Arrived(d) \in 0..Len(wire[d])
    BY <1>2, <2>1, ArrivedReached DEF Reached
  <2>3. conn'[d].out = Expected(d, Arrived(d))
    BY <1>1, <1>2, <1>3, <1>4, <2>2, ExpectedPlain
  <2>4. Arrived(d)' = Arrived(d)
    BY <1>1, <2>1, SameArrived
  <2> QED BY <1>1, <2>1, <2>2, <2>3, <2>4, SameStreams DEF Stands
<1>7. ASSUME NEW e \in Directions, e # d PROVE Stands(e)'
  <2>1. Stands(e) /\ conn'[e] = conn[e]
    BY <1>4, <1>7 DEF FrameInv
  <2> QED BY <1>1, <1>7, <2>1, StandsSame
<1>8. conn'["client"].rects = 0
  BY <1>3, <1>4, <1>5 DEF FrameInv
<1>9. ~Parses("server")' /\ (Parses("client")' <=> Parses("client"))
  <2>1. ~Parses("server")
    BY <1>1, <1>5 DEF Parses
  <2> QED BY <1>1, <2>1, SameStreams
<1>10. Parses("client") => Tracks'
  <2> SUFFICES ASSUME Parses("client") PROVE Tracks'
    OBVIOUS
  <2>1. d # "client" /\ Tracks
    BY <1>1 DEF FrameInv
  <2>2. conn'["client"].taken = conn["client"].taken
    BY <1>4, <1>5, <2>1
  <2> QED BY <1>1, <2>1, <2>2, TracksSame
<1>11. Framed(wire')
  BY <1>1 DEF FrameInv
<1> QED BY <1>6, <1>7, <1>8, <1>9, <1>10, <1>11 DEF FrameInv

LEMMA TakeFrame ==
    ASSUME RelayInv, FrameInv, NEW d \in Directions, TakeOne(d)
    PROVE  FrameInv'
<1> DEFINE u == Coming(d)
           c == conn[d]
           k == conn[d].taken
           n == Len(wire[d])
<1>1. /\ busy = d /\ Parses(d) /\ HasBytes(d) /\ Complete(d, u) /\ ~Unknown(d, u)
      /\ conn' = [conn EXCEPT ![d] = Consumed(d, u)] /\ Track(d, u)
      /\ UNCHANGED <<mode, wire, busy, torn>>
  BY DEF TakeOne
<1>2. /\ DOMAIN conn = Directions /\ IsFilter(conn[d]) /\ Speaks /\ Stands(d)
      /\ wire \in [Directions -> Seq(Units)]
  BY DEF RelayInv, FrameInv, Speaks
<1>3. /\ k \in Nat /\ k + 1 \in 1..n /\ u = wire[d][k + 1] /\ u \in Units
      /\ c.fed \in Nat /\ c.pos = Offset(d, k) /\ c.pos \in Nat
      /\ c.rects = Owed(wire[d], k) /\ c.rects \in Int
  BY <1>1, UnitAhead
<1>4. u.size \in Nat
  BY <1>3 DEF Units
<1>5. Length(Frames(d)[u.kind], u.n) = u.size /\ (d = "client" => u.kind # "update")
  BY <1>1, UnitLength
<1>6. LET y == Consumed(d, u)
      IN  /\ y.fed = c.fed /\ y.pos = c.pos + u.size /\ y.taken = k + 1
          /\ y.rects = (IF u.kind = "update" THEN u.n ELSE IF c.rects > 0 THEN c.rects - 1 ELSE 0)
          /\ y.out = c.out \o Passed(d, u)
  BY <1>2, <1>5 DEF Consumed, IsFilter, Opened
<1>7. /\ \A e \in Directions : e # d => conn'[e] = conn[e]
      /\ conn'[d] = Consumed(d, u)
  BY <1>1, <1>2
<1>8. c.fed - c.pos >= u.size
  BY <1>1, <1>5 DEF Complete
<1>9. /\ (k + 1) - 1 = k /\ k + 1 \in 0..n /\ n \in Nat
  BY <1>2, <1>3, OffsetsGrow
<1>10. "client" \in Directions /\ "server" \in Directions /\ (d = "client" \/ d = "server")
  BY DEF Directions
<1>11. Stands(d)'
  <2>1. Offset(d, k + 1) = c.pos + u.size
    BY <1>2, <1>3, <1>9, OffsetsGrow
  <2>2. c.pos + u.size <= c.fed
    <3> DEFINE a == c.pos  b == u.size  f == c.fed
    <3>1. a \in Nat /\ b \in Nat /\ f \in Nat /\ f - a >= b
      BY <1>3, <1>4, <1>8
    <3> HIDE DEF a, b, f
    <3>2. a + b <= f
      BY <3>1
    <3> QED BY <3>2 DEF a, b, f
  <2>3. Owed(wire[d], k + 1) = conn'[d].rects
    <3>1. wire[d] \in Seq(Units)
      BY <1>2
    <3>2. Owed(wire[d], k + 1) = StillDue(wire[d][k + 1], Owed(wire[d], (k + 1) - 1))
      BY <1>3, <3>1, OwedIs
    <3> QED BY <1>3, <1>6, <1>7, <1>9, <3>2 DEF StillDue
  <2>4. Expected(d, k + 1) = conn'[d].out
    <3>1. Expected(d, k + 1) = Expected(d, (k + 1) - 1) \o Passed(d, wire[d][k + 1])
      BY <1>2, <1>3, ExpectedIs
    <3>2. c.out = Expected(d, k)
      BY <1>2 DEF Stands
    <3> QED BY <1>3, <1>6, <1>7, <1>9, <3>1, <3>2
  <2>5. /\ conn'[d].fed = c.fed /\ conn'[d].pos = c.pos + u.size /\ conn'[d].taken = k + 1
    BY <1>6, <1>7
  <2> HIDE DEF u, c, k, n
  <2>6. conn'[d].fed \in Nat /\ conn'[d].taken \in 0..Len(wire[d])
    BY <1>3, <1>9, <2>5 DEF n
  <2> QED BY <1>1, <2>1, <2>2, <2>3, <2>4, <2>5, <2>6, SameStreams DEF Stands
<1>12. ASSUME NEW e \in Directions, e # d PROVE Stands(e)'
  <2>1. Stands(e) /\ conn'[e] = conn[e]
    BY <1>7, <1>12 DEF FrameInv
  <2> QED BY <1>1, <2>1, StandsSame
<1>13. conn'["client"].rects = 0
  <2>1. CASE d = "client"
    <3>1. c.rects = 0
      BY <2>1 DEF FrameInv
    <3> QED BY <1>5, <1>6, <1>7, <2>1, <3>1
  <2>2. CASE d = "server"
    BY <1>7, <1>10, <2>2 DEF FrameInv
  <2> QED BY <1>10, <2>1, <2>2
<1>14. (Parses("client")' <=> Parses("client")) /\ (Parses("server")' <=> Parses("server"))
  BY <1>1, SameStreams
<1>15. Tracks => Tracks'
  <2> SUFFICES ASSUME Tracks PROVE Tracks'
    OBVIOUS
  <2>1. CASE d = "server"
    <3>1. bpp' = bpp
      BY <1>1, <2>1 DEF Track
    <3>2. conn'["client"].taken = conn["client"].taken
      BY <1>7, <1>10, <2>1
    <3> QED BY <1>1, <3>1, <3>2, TracksSame
  <2>2. CASE d = "client"
    <3>1. conn'["client"].taken = k + 1 /\ wire' = wire /\ u = wire["client"][k + 1]
          /\ k = conn["client"].taken
      BY <1>1, <1>3, <1>6, <1>7, <2>2
    <3>2. CASE u.kind = "pixels"
      <4>1. bpp' = u.bpp
        BY <1>1, <2>2, <3>2 DEF Track
      <4>2. k + 1 \in 1..(k + 1) /\ ((k + 1) + 1)..(k + 1) = {}
        BY <1>3
      <4> HIDE DEF u, k
      <4> QED BY <3>1, <3>2, <4>1, <4>2 DEF Tracks
    <3>3. CASE u.kind # "pixels"
      <4>1. bpp' = bpp
        BY <1>1, <3>3 DEF Track
      <4>2. CASE bpp = 0
        BY <4>1, <4>2 DEF Tracks
      <4>3. CASE bpp # 0
        <5> HIDE DEF u
        <5>1. PICK j \in 1..k :
                 /\ wire["client"][j].kind = "pixels" /\ bpp = wire["client"][j].bpp
                 /\ \A i \in (j + 1)..k : wire["client"][i].kind # "pixels"
          BY <3>1, <4>3 DEF Tracks
        <5> HIDE DEF k
        <5>2. j \in 1..(k + 1) /\ \A i \in (j + 1)..(k + 1) : i = k + 1 \/ i \in (j + 1)..k
          BY <1>3
        <5>3. \A i \in (j + 1)..(k + 1) : wire["client"][i].kind # "pixels"
          BY <3>1, <3>3, <5>1, <5>2
        <5> QED BY <3>1, <4>1, <5>1, <5>2, <5>3 DEF Tracks
      <4> QED BY <4>2, <4>3
    <3> QED BY <3>2, <3>3
  <2> QED BY <1>10, <2>1, <2>2
<1>16. Awaited => Awaited'
  <2>1. conn'["server"].fed = conn["server"].fed
    BY <1>6, <1>7, <1>10
  <2>2. conn["client"].taken \in Nat
    <3>1. Stands("client") /\ Len(wire["client"]) \in Nat
      BY <1>2, <1>10, OffsetsGrow DEF FrameInv
    <3> QED BY <3>1 DEF Stands
  <2>3. \/ conn'["client"].taken = conn["client"].taken + 1
        \/ conn'["client"].taken = conn["client"].taken
    BY <1>6, <1>7, <1>10
  <2>4. conn'["client"].taken \in Nat /\ conn'["client"].taken >= conn["client"].taken
    BY <2>2, <2>3
  <2> QED BY <1>1, <1>2, <2>1, <2>2, <2>4, AwaitedSame
<1>17. \A e \in Directions : Stands(e)'
  BY <1>11, <1>12
<1>18. Framed(wire')
  BY <1>1 DEF FrameInv
<1> HIDE DEF u, c, k, n
<1> QED BY <1>13, <1>14, <1>15, <1>16, <1>17, <1>18 DEF FrameInv

LEMMA StepFrame == RelayInv /\ FrameInv /\ [Next]_vars => FrameInv'
<1> SUFFICES ASSUME RelayInv, FrameInv, [Next]_vars
             PROVE  FrameInv'
  OBVIOUS
<1>1. CASE UNCHANGED vars
  BY <1>1, FrameSame DEF vars
<1>2. CASE Act
  <2>1. \/ UNCHANGED filterVars
        \/ Connect
        \/ FilterStep
    BY <1>2, ActKinds DEF CreateSession
  <2>2. CASE FilterStep
    <3>1. PICK d \in Directions : \/ \E n \in ChunkSizes : Feed(d, n)
                                  \/ TakeOne(d) \/ FeedEnds(d) \/ ProtocolError(d) \/ PassThrough(d)
      BY <2>2 DEF FilterStep
    <3> QED BY <3>1, FeedFrame, TakeFrame, EndFrame, PassFrame
  <2> QED
    BY <2>1, <2>2, FrameSame, ConnectFrame
<1> QED
  BY <1>1, <1>2 DEF Next

\* Streams of RFB of any length, cut anywhere and interleaved in any way: a
\* filter always stands between two units, and between two feeds it has taken
\* exactly the units that have arrived and passed on what the mode allows.
THEOREM FilterIsExact == Spec => []FilterExact
<1>1. FrameInv => FilterExact
  BY DEF FrameInv, Stands, FilterExact, Directions, NoDirection
<1> QED
  BY <1>1, InitRelay, StepRelay, InitFrame, StepFrame, PTL DEF Spec
=============================================================================
