----------------------------- MODULE NodeProofs -----------------------------
(***************************************************************************)
(* The proofs of what NodeTrust promises, for every fleet, number of       *)
(* requests, sessions and tokens, ceiling and recovery length.             *)
(***************************************************************************)
EXTENDS NodeTrust, FiniteSetTheorems, WellFoundedInduction, TLAPS

-----------------------------------------------------------------------------
\* For each promise, the strengthening that heartbeats, administrators,
\* enrolments and creations preserve.

\* Where a job stands says which rows it has loaded and what it is about.
Shape(j, q) ==
    /\ q.pc \in {"load", "bootstrap"} => q.new = Untouched
    /\ q.pc = "ask" => j \in Nodes /\ q.old[j] \in Rows
    /\ \A n \in q.todo : q.old[n] \in Rows
    /\ q.pc \in {"admin", "enroll", "write", "create"} => q.node \in Nodes
    /\ q.pc = "admin" => q.op \in AdminOps
    /\ q.pc = "enroll" => q.op = "enroll"
    /\ q.pc \notin {"admin", "enroll"} => q.op = "none"
    /\ q.pc = "create" => q.new[q.node] \in Rows /\ q.new[q.node] # None /\ HasRoom(q.new[q.node])

\* What a heartbeat carries into a row: the hold and the connection as they
\* were loaded, a capacity within the ceiling.
Carries(q, n) ==
    q.op = "none" /\ q.new[n] # None =>
        /\ q.old[n] \in Rows
        /\ q.new[n].status = NextStatus(q.old[n])
        /\ q.new[n].endpoint = q.old[n].endpoint
        /\ q.new[n].capacity <= use.ceiling

\* An agent's smoothed capacity: the readings of the current streak are the
\* last ones, and all above what is reported.
Sustained(g) ==
    /\ g.streak < RecoveryPolls
    /\ g.streak <= Len(g.recent)
    /\ Len(g.recent) <= RecoveryPolls
    /\ g.reported # None => g.reported <= use.ceiling
    /\ g.streak > 0 =>
          /\ g.reported # None
          /\ \A i \in 1 .. Len(g.recent) : i > Len(g.recent) - g.streak => g.recent[i] > g.reported

\* The inductive invariant behind TypeOK.
TypeInv ==
    /\ TypeOK
    /\ \A j \in Jobs : Shape(j, job[j]) /\ \A n \in Nodes : Carries(job[j], n)
    /\ \A n \in Nodes : Sustained(agent[n])

-----------------------------------------------------------------------------
\* Nobody has loaded, written or is about to write the status DEGRADED.
Plain(r) == r = None \/ r.status # "DEGRADED"

HoldInv ==
    \A n \in Nodes :
        /\ row[n].status # "DEGRADED"
        /\ \A j \in Jobs : Plain(job[j].old[n]) /\ Plain(job[j].new[n])

-----------------------------------------------------------------------------
\* A token is still on offer, or a request is enrolling with it, or it has
\* enrolled a host, or it was wasted.
Enrolling == {j \in Requests : At(j, "enroll")}

EnrolInv ==
    /\ IsFiniteSet(drawn)
    /\ enrolments + Cardinality(offered) + Cardinality(Enrolling) <= Cardinality(drawn)

-----------------------------------------------------------------------------
\* The creations that have found room on an agent and not yet used it.
Bound(a) ==
    {j \in Requests :
        /\ job[j].pc \in {"write", "select", "create"}
        /\ \E n \in Nodes : /\ job[j].new[n] # None
                            /\ HasRoom(job[j].new[n])
                            /\ ConnectionForNode(n, job[j].new[n]) = a}

RoomLeft(a) ==
    Cardinality(RunningOn(a)) + Cardinality(Bound(a)) <= use.ceiling + Cardinality(Requests) - 1

RoomInv == \A a \in Nodes : RoomLeft(a)

-----------------------------------------------------------------------------
\* The agent that calls about a session reach, when they reach one.
Answers(n) == IF row[n].endpoint THEN n ELSE Default

\* A container runs where calls about its session go.
Reachable(s) ==
    ~sess[s].replaced /\ sess[s].at # None =>
        sess[s].node \in Nodes /\ sess[s].at = Answers(sess[s].node)

GoneInv == TerminatedIsGone /\ \A s \in Sessions : Reachable(s)

-----------------------------------------------------------------------------
\* Operators.
\* Records as the provers need them: a function on the columns of a row.
Columns == {"exists", "status", "trust", "endpoint", "token", "capacity", "active", "beat"}

LEMMA RowFields ==
    ASSUME NEW r \in Rows
    PROVE  /\ r.exists \in BOOLEAN /\ r.status \in Status
           /\ r.trust \in {"PENDING", "APPROVED", "REVOKED"}
           /\ r.endpoint \in BOOLEAN /\ r.token \in BOOLEAN
           /\ r.capacity \in Nat /\ r.active \in Nat /\ r.beat \in {"never", "fresh", "stale"}
  BY DEF Rows

LEMMA NewRowType == NewRow \in Rows /\ NoRow \in Rows
  BY DEF NewRow, NoRow, Rows, Status

LEMMA MergeType ==
    ASSUME NEW cur \in Rows, NEW old, NEW new \in Rows
    PROVE  /\ Merge(cur, old, new) \in Rows
           /\ Merge(cur, old, new).status =
                 IF new.status = old.status THEN cur.status ELSE new.status
           /\ Merge(cur, old, new).endpoint =
                 IF new.endpoint = old.endpoint THEN cur.endpoint ELSE new.endpoint
<1> DEFINE m == Merge(cur, old, new)
<1>1. DOMAIN cur = Columns
  BY DEF Rows, Columns
<1>2. m = [c \in Columns |-> IF new[c] = old[c] THEN cur[c] ELSE new[c]]
  BY <1>1 DEF Merge
<1>3. /\ m.status = IF new.status = old.status THEN cur.status ELSE new.status
      /\ m.endpoint = IF new.endpoint = old.endpoint THEN cur.endpoint ELSE new.endpoint
  BY <1>2 DEF Columns
<1>4. /\ m.exists \in BOOLEAN /\ m.status \in Status
      /\ m.trust \in {"PENDING", "APPROVED", "REVOKED"}
      /\ m.endpoint \in BOOLEAN /\ m.token \in BOOLEAN
      /\ m.capacity \in Nat /\ m.active \in Nat /\ m.beat \in {"never", "fresh", "stale"}
  BY <1>2, RowFields DEF Columns
<1>5. m = [exists |-> m.exists, status |-> m.status, trust |-> m.trust,
           endpoint |-> m.endpoint, token |-> m.token, capacity |-> m.capacity,
           active |-> m.active, beat |-> m.beat]
  BY <1>2 DEF Columns
<1> HIDE DEF m
<1>6. m \in Rows
  BY <1>4, <1>5 DEF Rows
<1> QED
  BY <1>3, <1>6 DEF m

LEMMA ChangedType ==
    ASSUME NEW r \in Rows, NEW op \in AdminOps
    PROVE  Changed(op, r) \in Rows
  BY DEF Changed, AdminOps, Rows, Status

LEMMA ChangedPlain ==
    ASSUME NEW r \in Rows, NEW op \in AdminOps, r.status # "DEGRADED"
    PROVE  Changed(op, r).status # "DEGRADED"
  BY DEF Changed, AdminOps, Rows

\* A row as an enrolment leaves it.
LEMMA EnrolledRow ==
    ASSUME NEW r \in Rows
    PROVE  [r EXCEPT !.status = "OFFLINE", !.trust = "PENDING", !.endpoint = FALSE,
                     !.token = TRUE] \in Rows
  BY DEF Rows, Status

\* ConnectionForNode, case by case.
LEMMA Connections ==
    ASSUME NEW n \in Nodes, NEW r \in Rows
    PROVE  /\ ConnectionForNode(n, r) \in Nodes \cup {None}
           /\ ConnectionForNode(n, r) # None =>
                 ConnectionForNode(n, r) = IF r.endpoint THEN n ELSE Default
           /\ Reached(n, r) => ConnectionForNode(n, r) \in Nodes
  BY NodeAssumption DEF ConnectionForNode, Rows, Reached

-----------------------------------------------------------------------------
\* Least numbers.
LEMMA LeastBy ==
    ASSUME NEW T, T \subseteq Nat, T # {}, NEW R, IsWellFoundedOn(R, Nat),
           \A x, y \in Nat : y < x => <<y, x>> \in R
    PROVE  \E x \in T : \A y \in T : x <= y
<1>1. PICK x \in T : \A y \in T : ~ (<<y, x>> \in R)
  BY WFMin
<1>2. ASSUME NEW y \in T
      PROVE  x <= y
  <2>1. x \in Nat /\ y \in Nat
    OBVIOUS
  <2>2. ~(y < x)
    BY <1>1, <2>1, Zenon
  <2> QED
    BY <2>1, <2>2
<1> QED
  BY <1>2

\* A set of natural numbers has a least one.
LEMMA LeastNatural ==
    ASSUME NEW T, T \subseteq Nat, T # {}
    PROVE  \E x \in T : \A y \in T : x <= y
<1> DEFINE R == OpToRel(<, Nat)
<1>1. IsWellFoundedOn(R, Nat)
  BY NatLessThanWellFounded
<1>2. \A x, y \in Nat : y < x => <<y, x>> \in R
  BY Zenon DEF OpToRel
<1> HIDE DEF R
<1> QED
  BY <1>1, <1>2, LeastBy

LEMMA LeastType ==
    ASSUME NEW T, T \subseteq Nat, T # {}
    PROVE  Least(T) \in T /\ \A y \in T : Least(T) <= y
<1>1. \E x \in T : \A y \in T : x <= y
  BY LeastNatural
<1> QED
  BY <1>1 DEF Least

LEMMA CapacityType ==
    ASSUME NEW ram \in Int, NEW cpu \in Int, NEW active \in Nat, use.ceiling \in Nat
    PROVE  /\ ComputeCapacity(ram, cpu, active) \in Nat
           /\ ComputeCapacity(ram, cpu, active) <= use.ceiling
<1> DEFINE slots(free) == IF free < 0 THEN 0 ELSE free
           T == {slots(ram) + active, slots(cpu) + active, use.ceiling}
<1>1. T \subseteq Nat /\ use.ceiling \in T
  OBVIOUS
<1>2. ComputeCapacity(ram, cpu, active) = Least(T)
  BY DEF ComputeCapacity
<1> HIDE DEF T
<1> QED
  BY <1>1, <1>2, LeastType

-----------------------------------------------------------------------------
\* The self-report.
LEMMA AgentFields ==
    ASSUME NEW g \in Agents
    PROVE  /\ g.up \in BOOLEAN /\ g.reported \in Nat \cup {None} /\ g.streak \in Nat
           /\ g.recent \in Seq(Nat) /\ Len(g.recent) \in Nat
           /\ \A i \in 1 .. Len(g.recent) : g.recent[i] \in Nat
  BY DEF Agents

\* The readings kept after one more: the last RecoveryPolls of them.
LEMMA Remembered ==
    ASSUME NEW g \in Agents, NEW raw \in Nat, Len(g.recent) <= RecoveryPolls
    PROVE  LET h == Remember(g, raw)
               k == Len(g.recent)
           IN
           /\ h \in Agents
           /\ h.up = g.up /\ h.reported = g.reported /\ h.streak = g.streak
           /\ Len(h.recent) = IF k = RecoveryPolls THEN RecoveryPolls ELSE k + 1
           /\ h.recent[Len(h.recent)] = raw
           /\ \A i \in 1 .. Len(h.recent) - 1 :
                 h.recent[i] = IF k = RecoveryPolls THEN g.recent[i + 1] ELSE g.recent[i]
<1> DEFINE k == Len(g.recent)
           seen == Append(g.recent, raw)
           s == IF Len(seen) > RecoveryPolls THEN Tail(seen) ELSE seen
           h == [g EXCEPT !.recent = s]
<1>1. Remember(g, raw) = h
  BY DEF Remember
<1>2. k \in Nat /\ RecoveryPolls \in Nat \ {0} /\ g.recent \in Seq(Nat)
  BY RecoveryAssumption, AgentFields
<1>3. /\ seen \in Seq(Nat) /\ Len(seen) = k + 1 /\ seen[k + 1] = raw
      /\ \A i \in 1 .. k : seen[i] = g.recent[i]
  BY <1>2
<1>4. /\ s \in Seq(Nat) /\ Len(s) = IF k = RecoveryPolls THEN k ELSE k + 1
      /\ \A i \in 1 .. Len(s) : s[i] = IF k = RecoveryPolls THEN seen[i + 1] ELSE seen[i]
  <2>1. CASE k = RecoveryPolls
    <3>1. s = Tail(seen)
      BY <1>2, <1>3, <2>1
    <3> HIDE DEF seen, s
    <3> QED
      BY <1>2, <1>3, <2>1, <3>1
  <2>2. CASE k # RecoveryPolls
    <3>1. s = seen
      BY <1>2, <1>3, <2>2
    <3> HIDE DEF seen, s
    <3> QED
      BY <1>2, <1>3, <2>2, <3>1
  <2> QED
    BY <2>1, <2>2
<1> HIDE DEF seen, s
<1>5. /\ h \in Agents /\ h.up = g.up /\ h.reported = g.reported /\ h.streak = g.streak
      /\ h.recent = s
  BY <1>4 DEF Agents
<1> HIDE DEF h
<1>6. Len(s) \in Nat \ {0} /\ s[Len(s)] = raw
  BY <1>2, <1>3, <1>4
<1>7. ASSUME NEW i \in 1 .. Len(s) - 1
      PROVE  s[i] = IF k = RecoveryPolls THEN g.recent[i + 1] ELSE g.recent[i]
  <2>1. i \in 1 .. Len(s) /\ s[i] = IF k = RecoveryPolls THEN seen[i + 1] ELSE seen[i]
    BY <1>2, <1>4, <1>6
  <2>2. k = RecoveryPolls => i + 1 \in 1 .. k
    BY <1>2, <1>4
  <2>3. k # RecoveryPolls => i \in 1 .. k
    BY <1>2, <1>4
  <2> QED
    BY <1>3, <2>1, <2>2, <2>3
<1> QED
  BY <1>1, <1>4, <1>5, <1>6, <1>7

\* _CapacityHysteresis keeps its streak honest, and what it reports rises
\* only after a full one.
LEMMA HysteresisKeeps ==
    ASSUME NEW g \in Agents, NEW raw \in Nat, use.ceiling \in Nat, raw <= use.ceiling,
           Sustained(g)
    PROVE  LET h == Remember(ApplyHysteresis(g, raw), raw) IN
           /\ h \in Agents /\ h.reported \in Nat /\ h.reported <= use.ceiling
           /\ Sustained(h)
           /\ g.reported # None /\ h.reported # None /\ h.reported > g.reported =>
                 /\ Len(h.recent) = RecoveryPolls
                 /\ \A i \in 1 .. RecoveryPolls : h.recent[i] > g.reported
<1> DEFINE e == ApplyHysteresis(g, raw)
           h == Remember(e, raw)
           k == Len(g.recent)
           m == Len(h.recent)
<1>1. /\ RecoveryPolls \in Nat \ {0} /\ k \in Nat /\ g.streak \in Nat
      /\ g.reported \in Nat \cup {None}
      /\ \A i \in 1 .. k : g.recent[i] \in Nat
  BY RecoveryAssumption, AgentFields
<1>2. /\ g.streak < RecoveryPolls /\ g.streak <= k /\ k <= RecoveryPolls
      /\ g.reported # None => g.reported <= use.ceiling
      /\ g.streak > 0 =>
            g.reported # None /\ \A i \in 1 .. k : i > k - g.streak => g.recent[i] > g.reported
  BY DEF Sustained
<1>3. /\ e \in Agents /\ e.recent = g.recent
      /\ \/ /\ e.reported = raw /\ e.streak = 0
            /\ g.reported = None \/ raw <= g.reported \/ g.streak + 1 >= RecoveryPolls
         \/ /\ e.reported = g.reported /\ e.streak = g.streak + 1
            /\ g.reported # None /\ ~(raw <= g.reported) /\ ~(g.streak + 1 >= RecoveryPolls)
  <2>1. CASE g.reported = None \/ raw <= g.reported
    <3>1. e = [g EXCEPT !.reported = raw, !.streak = 0]
      BY <2>1 DEF ApplyHysteresis
    <3> DEFINE x == [g EXCEPT !.reported = raw, !.streak = 0]
    <3>2. x \in Agents
      BY DEF Agents
    <3>3. x.recent = g.recent /\ x.reported = raw /\ x.streak = 0
      BY DEF Agents
    <3>4. e \in Agents /\ e.recent = g.recent /\ e.reported = raw /\ e.streak = 0
      BY <3>1, <3>2, <3>3
    <3> QED
      BY <2>1, <3>4
  <2>2. CASE ~(g.reported = None \/ raw <= g.reported) /\ g.streak + 1 >= RecoveryPolls
    <3>1. e = [g EXCEPT !.reported = raw, !.streak = 0]
      BY <2>2 DEF ApplyHysteresis
    <3> DEFINE x == [g EXCEPT !.reported = raw, !.streak = 0]
    <3>2. x \in Agents
      BY DEF Agents
    <3>3. x.recent = g.recent /\ x.reported = raw /\ x.streak = 0
      BY DEF Agents
    <3>4. e \in Agents /\ e.recent = g.recent /\ e.reported = raw /\ e.streak = 0
      BY <3>1, <3>2, <3>3
    <3> QED
      BY <2>2, <3>4
  <2>3. CASE ~(g.reported = None \/ raw <= g.reported) /\ ~(g.streak + 1 >= RecoveryPolls)
    <3>1. e = [g EXCEPT !.streak = @ + 1]
      BY <2>3 DEF ApplyHysteresis
    <3>2. e \in Agents /\ e.recent = g.recent /\ e.reported = g.reported /\ e.streak = g.streak + 1
      BY <1>1, <3>1 DEF Agents
    <3> QED
      BY <2>3, <3>2
  <2> QED
    BY <2>1, <2>2, <2>3
<1>4. /\ h \in Agents /\ h.reported = e.reported /\ h.streak = e.streak
      /\ m = IF k = RecoveryPolls THEN RecoveryPolls ELSE k + 1
      /\ h.recent[m] = raw
      /\ \A i \in 1 .. m - 1 :
            h.recent[i] = IF k = RecoveryPolls THEN g.recent[i + 1] ELSE g.recent[i]
  BY <1>2, <1>3, Remembered
<1> HIDE DEF e, h, k, m
\* The readings of the streak, and the new one, are above what was reported.
<1>5. ASSUME g.reported # None, ~(raw <= g.reported)
      PROVE  \A i \in 1 .. m : i > m - (g.streak + 1) => h.recent[i] > g.reported
  <2>1. SUFFICES ASSUME NEW i \in 1 .. m, i > m - (g.streak + 1)
                 PROVE  h.recent[i] > g.reported
    OBVIOUS
  <2>2. m \in Nat /\ g.reported \in Nat
    BY <1>1, <1>4, <1>5
  <2>3. CASE i = m
    BY <1>4, <1>5, <2>2, <2>3
  <2>4. CASE i # m
    <3>1. i \in 1 .. m - 1 /\ g.streak > 0
      BY <1>1, <2>1, <2>2, <2>4
    <3>2. CASE k = RecoveryPolls
      <4>1. i + 1 \in 1 .. k /\ i + 1 > k - g.streak /\ h.recent[i] = g.recent[i + 1]
        BY <1>1, <1>4, <2>1, <2>2, <3>1, <3>2
      <4> QED
        BY <1>2, <3>1, <4>1
    <3>3. CASE k # RecoveryPolls
      <4>1. i \in 1 .. k /\ i > k - g.streak /\ h.recent[i] = g.recent[i]
        BY <1>1, <1>4, <2>1, <2>2, <3>1, <3>3
      <4> QED
        BY <1>2, <3>1, <4>1
    <3> QED
      BY <3>2, <3>3
  <2> QED
    BY <2>3, <2>4
<1>6. h.reported \in Nat /\ h.reported <= use.ceiling
  BY <1>1, <1>2, <1>3, <1>4
<1>7. /\ h.streak < RecoveryPolls /\ h.streak <= m /\ m <= RecoveryPolls /\ m \in Nat
  BY <1>1, <1>2, <1>3, <1>4
<1>8. h.streak > 0 =>
         /\ h.reported # None
         /\ \A i \in 1 .. m : i > m - h.streak => h.recent[i] > h.reported
  BY <1>1, <1>3, <1>4, <1>5
<1>9. Sustained(h)
  BY <1>6, <1>7, <1>8 DEF Sustained, m
<1>10. ASSUME g.reported # None, h.reported # None, h.reported > g.reported
       PROVE  m = RecoveryPolls /\ \A i \in 1 .. RecoveryPolls : h.recent[i] > g.reported
  <2>1. ~(raw <= g.reported) /\ g.streak + 1 >= RecoveryPolls
    BY <1>1, <1>3, <1>4, <1>6, <1>10
  <2>2. m = RecoveryPolls /\ m - (g.streak + 1) = 0
    BY <1>1, <1>2, <1>4, <2>1
  <2> QED
    BY <1>1, <1>5, <1>10, <2>1, <2>2
<1> QED
  BY <1>4, <1>6, <1>9, <1>10 DEF m, h, e

-----------------------------------------------------------------------------
\* Types.
LEMMA HandlerFields ==
    ASSUME NEW q \in Handlers
    PROVE  /\ q.pc \in Points /\ q.op \in AdminOps \cup {"enroll", "none"}
           /\ q.node \in Nodes \cup {None} /\ q.sess \in Sessions \cup {None}
           /\ q.todo \in SUBSET Nodes
           /\ q.old \in [Nodes -> Rows \cup {None}] /\ q.new \in [Nodes -> Rows \cup {None}]
  BY DEF Handlers

LEMMA IdleFields ==
    /\ Idle.pc = "idle" /\ Idle.op = "none" /\ Idle.node = None /\ Idle.sess = None
    /\ Idle.todo = {} /\ Idle.old = Untouched /\ Idle.new = Untouched
    /\ Untouched \in [Nodes -> Rows \cup {None}]
    /\ \A n \in Nodes : Untouched[n] = None
  BY DEF Idle, Untouched

LEMMA IdleType == Idle \in Handlers /\ (\A j : Shape(j, Idle)) /\ \A n \in Nodes : Carries(Idle, n)
<1>1. Idle \in Handlers
  BY DEF Idle, Handlers, Points, Untouched
<1> QED
  BY <1>1, IdleFields DEF Shape, Carries

LEMMA TypeFacts ==
    ASSUME TypeInv
    PROVE  /\ row \in [Nodes -> Rows] /\ lock \in [Nodes -> Jobs \cup {None}]
           /\ agent \in [Nodes -> Agents] /\ sess \in [Sessions -> Placements]
           /\ offered \subseteq drawn /\ drawn \subseteq Tokens
           /\ held \in [Nodes -> Tokens \cup {None}] /\ enrolments \in Nat
           /\ use \in Uses /\ downs \in Nat
           /\ job \in [Jobs -> Handlers]
           /\ use.ceiling \in Nat /\ use.requests \subseteq Requests
           /\ use.headroom \subseteq Int
           /\ \A n \in Nodes : Sustained(agent[n])
  BY DEF TypeInv, TypeOK, StoreTypeOK, Uses

LEMMA JobFacts ==
    ASSUME TypeInv, NEW j \in Jobs
    PROVE  /\ job[j] \in Handlers /\ Shape(j, job[j])
           /\ \A n \in Nodes : Carries(job[j], n)
  BY TypeFacts DEF TypeInv

\* What every step keeps of the jobs.
JobsOK ==
    /\ job \in [Jobs -> Handlers]
    /\ \A j \in Jobs : Shape(j, job[j]) /\ \A n \in Nodes : Carries(job[j], n)

LEMMA GoType ==
    ASSUME TypeInv, NEW j \in Jobs, NEW q \in Handlers, Go(j, q), Shape(j, q),
           \A n \in Nodes : Carries(q, n), use' = use
    PROVE  JobsOK'
<1>1. job' = [job EXCEPT ![j] = q] /\ job \in [Jobs -> Handlers]
  BY TypeFacts DEF Go
<1>2. job' \in [Jobs -> Handlers] /\ job'[j] = q /\ \A k \in Jobs : k # j => job'[k] = job[k]
  BY <1>1
<1>3. ASSUME NEW k \in Jobs
      PROVE  Shape(k, job'[k]) /\ \A n \in Nodes : Carries(job'[k], n)
  BY <1>2, JobFacts
<1>4. ASSUME NEW k \in Jobs
      PROVE  (Shape(k, job[k]) /\ \A n \in Nodes : Carries(job[k], n))'
  BY <1>3 DEF Shape, Carries
<1> QED
  BY <1>2, <1>4 DEF JobsOK

LEMMA FinishType ==
    ASSUME TypeInv, NEW j \in Jobs, Finish(j), use' = use
    PROVE  JobsOK'
  BY IdleType, GoType DEF Finish

LEMMA SameJobs ==
    ASSUME TypeInv, job' = job, use' = use
    PROVE  JobsOK'
  BY DEF TypeInv, TypeOK, StoreTypeOK, JobsOK, Shape, Carries

LEMMA SameAgents ==
    ASSUME TypeInv, agent' = agent, use' = use
    PROVE  agent' \in [Nodes -> Agents] /\ \A n \in Nodes : Sustained(agent[n])'
  BY TypeFacts DEF Sustained

LEMMA CommitType ==
    ASSUME TypeInv, NEW j \in Jobs, CommitRows(j)
    PROVE  /\ row' \in [Nodes -> Rows] /\ lock' \in [Nodes -> Jobs \cup {None}]
           /\ \A n \in Nodes :
                 \/ row'[n] = row[n]
                 \/ /\ job[j].new[n] # None /\ job[j].new[n] \in Rows
                    /\ row'[n] = Merge(row[n], job[j].old[n], job[j].new[n])
<1>1. ASSUME NEW n \in Nodes
      PROVE  /\ row'[n] \in Rows
             /\ \/ row'[n] = row[n]
                \/ /\ job[j].new[n] # None /\ job[j].new[n] \in Rows
                   /\ row'[n] = Merge(row[n], job[j].old[n], job[j].new[n])
  <2>1. row[n] \in Rows /\ job[j].new \in [Nodes -> Rows \cup {None}]
    BY TypeFacts, JobFacts, HandlerFields
  <2>2. row'[n] = IF n \in Written(j) /\ ~Conflicts(j)
                  THEN Merge(row[n], Loaded(j, n), job[j].new[n])
                  ELSE row[n]
    BY DEF CommitRows
  <2>3. n \in Written(j) => job[j].new[n] # None /\ job[j].new[n] \in Rows
    BY <2>1 DEF Written
  <2> QED
    BY <2>1, <2>2, <2>3, MergeType DEF Loaded
<1>2. row' = [n \in Nodes |-> row'[n]]
  BY DEF CommitRows
<1>3. lock' \in [Nodes -> Jobs \cup {None}]
  BY TypeFacts DEF CommitRows, Unlock
<1> QED
  BY <1>1, <1>2, <1>3

LEMMA RunningFinite ==
    ASSUME NEW n
    PROVE  IsFiniteSet(RunningOn(n)) /\ Cardinality(RunningOn(n)) \in Nat
<1>1. RunningOn(n) \subseteq Sessions
  BY DEF RunningOn
<1> QED
  BY <1>1, FiniteAssumption, FS_Subset, FS_CardinalityType

\* What is reported rises only after RecoveryPolls readings above it.
Rises(g, h) ==
    g.reported # None /\ h.reported # None /\ h.reported > g.reported =>
        /\ Len(h.recent) = RecoveryPolls
        /\ \A i \in 1 .. RecoveryPolls : h.recent[i] > g.reported

LEMMA SelfReportType ==
    ASSUME TypeInv, NEW n \in Nodes, NEW ram \in use.headroom, NEW cpu \in use.headroom
    PROVE  LET h == SelfReport(n, ram, cpu) IN
           /\ h \in Agents /\ h.reported \in Nat /\ h.reported <= use.ceiling
           /\ Sustained(h) /\ Rises(agent[n], h)
<1> DEFINE raw == ComputeCapacity(ram, cpu, Cardinality(RunningOn(n)))
<1>1. /\ agent[n] \in Agents /\ Sustained(agent[n]) /\ use.ceiling \in Nat
      /\ ram \in Int /\ cpu \in Int
  BY TypeFacts
<1>2. raw \in Nat /\ raw <= use.ceiling
  BY <1>1, RunningFinite, CapacityType
<1>3. SelfReport(n, ram, cpu) = Remember(ApplyHysteresis(agent[n], raw), raw)
  BY DEF SelfReport
<1> HIDE DEF raw
<1> QED
  BY <1>1, <1>2, <1>3, HysteresisKeeps DEF Rises

LEMMA BeatType ==
    ASSUME NEW r \in Rows, NEW g, g.reported \in Nat, NEW active \in Nat
    PROVE  LET b == ApplyNodeStatus(r, g, active) IN
           /\ b \in Rows
           /\ b.status = NextStatus(r) /\ b.endpoint = r.endpoint /\ b.token = r.token
           /\ b.capacity = g.reported /\ b.active = active
  BY DEF ApplyNodeStatus, NextStatus, Rows, Status, AdminHold

\* A heartbeat of agent a, taken into job j's object of node n.
Heard(j, a, n, old) ==
    /\ job' \in [Jobs -> Handlers]
    /\ \A k \in Jobs : k # j => job'[k] = job[k]
    /\ job'[j].pc = "write" /\ job'[j].op = job[j].op /\ job'[j].node = n
    /\ job'[j].sess = job[j].sess /\ job'[j].todo = job[j].todo
    /\ job'[j].old[n] \in Rows
    /\ job'[j].old[n].status = old.status /\ job'[j].old[n].endpoint = old.endpoint
    /\ job'[j].new[n] \in Rows
    /\ job'[j].new[n].status = NextStatus(old)
    /\ job'[j].new[n].endpoint = old.endpoint /\ job'[j].new[n].token = old.token
    /\ job'[j].new[n].capacity <= use.ceiling
    /\ job'[j].new[n].active = Cardinality(RunningOn(a))
    /\ \A m \in Nodes : m # n => /\ job'[j].old[m] = job[j].old[m]
                                 /\ job'[j].new[m] = job[j].new[m]

LEMMA ReportMoves ==
    ASSUME TypeInv, NEW j \in Jobs, NEW a \in Nodes, NEW n \in Nodes, NEW old \in Rows,
           Report(j, a, n, old), use' = use
    PROVE  /\ Heard(j, a, n, old)
           /\ agent' \in [Nodes -> Agents]
           /\ \A m \in Nodes : Sustained(agent[m])' /\ Rises(agent[m], agent'[m])
<1>1. PICK ram, cpu \in use.headroom :
        LET report == SelfReport(a, ram, cpu) IN
        /\ agent' = [agent EXCEPT ![a] = report]
        /\ Go(j, [job[j] EXCEPT
                     !.pc = "write", !.node = n, !.old[n] = [old EXCEPT !.beat = "never"],
                     !.new[n] = ApplyNodeStatus(old, report, Cardinality(RunningOn(a)))])
  BY DEF Report
<1> DEFINE h == SelfReport(a, ram, cpu)
           o == [old EXCEPT !.beat = "never"]
           w == ApplyNodeStatus(old, h, Cardinality(RunningOn(a)))
           q == job[j]
           ol == [q.old EXCEPT ![n] = o]
           nw == [q.new EXCEPT ![n] = w]
           x == [q EXCEPT !.pc = "write", !.node = n, !.old = ol, !.new = nw]
<1>2. h \in Agents /\ h.reported \in Nat /\ h.reported <= use.ceiling /\ Sustained(h)
        /\ Rises(agent[a], h)
  BY SelfReportType
<1>3. o \in Rows /\ o.status = old.status /\ o.endpoint = old.endpoint
  BY DEF Rows
<1>4. /\ w \in Rows /\ w.status = NextStatus(old) /\ w.endpoint = old.endpoint
      /\ w.token = old.token /\ w.capacity <= use.ceiling
      /\ w.active = Cardinality(RunningOn(a))
  BY <1>2, RunningFinite, BeatType
<1>5. agent' = [agent EXCEPT ![a] = h] /\ Go(j, x)
  <2>1. x = [q EXCEPT !.pc = "write", !.node = n, !.old[n] = o, !.new[n] = w]
    BY Zenon
  <2> QED
    BY <1>1, <2>1
<1> HIDE DEF h, o, w
<1>6. /\ x \in Handlers
      /\ x.pc = "write" /\ x.op = job[j].op /\ x.node = n /\ x.sess = job[j].sess
      /\ x.todo = job[j].todo /\ x.old[n] = o /\ x.new[n] = w
      /\ \A m \in Nodes : m # n => x.old[m] = job[j].old[m] /\ x.new[m] = job[j].new[m]
  <2>1. o \in Rows /\ w \in Rows /\ q \in Handlers
    BY <1>3, <1>4, JobFacts
  <2> HIDE DEF q
  <2>2. /\ ol \in [Nodes -> Rows \cup {None}] /\ nw \in [Nodes -> Rows \cup {None}]
        /\ ol[n] = o /\ nw[n] = w
        /\ \A m \in Nodes : m # n => ol[m] = q.old[m] /\ nw[m] = q.new[m]
    BY <2>1, HandlerFields
  <2> HIDE DEF ol, nw
  <2>3. x \in Handlers
    BY <2>1, <2>2 DEF Handlers, Points
  <2>4. /\ x.pc = "write" /\ x.op = q.op /\ x.node = n /\ x.sess = q.sess /\ x.todo = q.todo
        /\ x.old = ol /\ x.new = nw
    BY <2>1 DEF Handlers
  <2> HIDE DEF x
  <2> QED
    BY <2>2, <2>3, <2>4 DEF q
<1> HIDE DEF x, q
<1>7. job' \in [Jobs -> Handlers] /\ job'[j] = x /\ \A k \in Jobs : k # j => job'[k] = job[k]
  BY <1>5, <1>6, TypeFacts DEF Go
<1>8. Heard(j, a, n, old)
  BY <1>3, <1>4, <1>6, <1>7 DEF Heard
<1>9. /\ agent' \in [Nodes -> Agents] /\ agent'[a] = h
      /\ \A m \in Nodes : m # a => agent'[m] = agent[m]
  BY <1>2, <1>5, TypeFacts
<1>10. ASSUME NEW m \in Nodes
       PROVE  Sustained(agent'[m]) /\ Rises(agent[m], agent'[m])
  <2>1. CASE m = a
    BY <1>2, <1>9, <2>1
  <2>2. CASE m # a
    <3>1. agent[m].reported \in Nat \cup {None} /\ Sustained(agent[m])
      BY TypeFacts, AgentFields
    <3> QED
      BY <1>9, <2>2, <3>1 DEF Rises
  <2> QED
    BY <2>1, <2>2
<1>11. \A m \in Nodes : Sustained(agent[m])'
  BY <1>10 DEF Sustained
<1> QED
  BY <1>8, <1>9, <1>10, <1>11

LEMMA HeardType ==
    ASSUME TypeInv, NEW j \in Jobs, NEW a, NEW n \in Nodes, NEW old \in Rows,
           Heard(j, a, n, old), job[j].op = "none", use' = use
    PROVE  JobsOK'
<1> DEFINE x == job'[j]
<1>1. Shape(j, job[j]) /\ \A m \in Nodes : Carries(job[j], m)
  BY JobFacts
<1>2. job[j].todo \subseteq Nodes
  BY JobFacts, HandlerFields
<1>3. Shape(j, x)
  BY <1>1, <1>2 DEF Shape, Heard
<1>4. ASSUME NEW m \in Nodes
      PROVE  Carries(x, m)
  <2>1. CASE m = n
    <3>1. NextStatus(x.old[n]) = NextStatus(old)
      BY DEF NextStatus, Heard
    <3> QED
      BY <2>1, <3>1 DEF Carries, Heard
  <2>2. CASE m # n
    BY <1>1, <2>2 DEF Carries, Heard
  <2> QED
    BY <2>1, <2>2
<1>5. job' = [job EXCEPT ![j] = x] /\ x \in Handlers
  BY TypeFacts DEF Heard
<1> HIDE DEF x
<1> QED
  BY <1>3, <1>4, <1>5, GoType DEF Go

\* A request that has loaded one row and changed it.
Touch(pc, op, n, old, new) ==
    [Idle EXCEPT !.pc = pc, !.op = op, !.node = n, !.old[n] = old, !.new[n] = new]

Touches(j, pc, op, n, old, new) ==
    /\ job' \in [Jobs -> Handlers]
    /\ \A k \in Jobs : k # j => job'[k] = job[k]
    /\ job'[j].pc = pc /\ job'[j].op = op /\ job'[j].node = n
    /\ job'[j].sess = None /\ job'[j].todo = {}
    /\ job'[j].old[n] = old /\ job'[j].new[n] = new
    /\ \A m \in Nodes : m # n => job'[j].old[m] = None /\ job'[j].new[m] = None

LEMMA TouchMoves ==
    ASSUME TypeInv, NEW j \in Jobs, NEW pc \in Points, NEW op \in AdminOps \cup {"enroll", "none"},
           NEW n \in Nodes, NEW old \in Rows, NEW new \in Rows,
           Go(j, Touch(pc, op, n, old, new))
    PROVE  Touches(j, pc, op, n, old, new)
<1> DEFINE ol == [Untouched EXCEPT ![n] = old]
           nw == [Untouched EXCEPT ![n] = new]
           x == [pc |-> pc, op |-> op, node |-> n, sess |-> None, todo |-> {},
                 old |-> ol, new |-> nw]
<1>1. Touch(pc, op, n, old, new) = x
  <2>1. Touch(pc, op, n, old, new) =
          [Idle EXCEPT !.pc = pc, !.op = op, !.node = n, !.old = ol, !.new = nw]
    BY IdleFields, Zenon DEF Touch
  <2> HIDE DEF ol, nw
  <2> QED
    BY <2>1 DEF Idle
<1>2. /\ ol \in [Nodes -> Rows \cup {None}] /\ nw \in [Nodes -> Rows \cup {None}]
      /\ ol[n] = old /\ nw[n] = new
      /\ \A m \in Nodes : m # n => ol[m] = None /\ nw[m] = None
  BY DEF Untouched
<1> HIDE DEF ol, nw
<1>3. x \in Handlers
  BY <1>2 DEF Handlers
<1>4. /\ x.pc = pc /\ x.op = op /\ x.node = n /\ x.sess = None /\ x.todo = {}
      /\ x.old = ol /\ x.new = nw
  OBVIOUS
<1> HIDE DEF x
<1>5. job' = [job EXCEPT ![j] = x]
  BY <1>1 DEF Go
<1> QED
  BY <1>2, <1>3, <1>4, <1>5, TypeFacts DEF Touches

LEMMA TouchType ==
    ASSUME TypeInv, NEW j \in Jobs, NEW pc, NEW op, NEW n \in Nodes, NEW old, NEW new,
           Touches(j, pc, op, n, old, new), use' = use,
           (pc = "admin" /\ op \in AdminOps) \/ (pc = "enroll" /\ op = "enroll")
    PROVE  JobsOK'
<1> DEFINE x == job'[j]
<1>1. Shape(j, x)
  BY DEF Shape, Touches, AdminOps
<1>2. \A m \in Nodes : Carries(x, m)
  BY DEF Carries, Touches, AdminOps
<1>3. job' = [job EXCEPT ![j] = x] /\ x \in Handlers
  BY TypeFacts DEF Touches
<1> HIDE DEF x
<1> QED
  BY <1>1, <1>2, <1>3, GoType DEF Go

LEMMA AdminLoadMoves ==
    ASSUME TypeInv, NEW j \in Jobs, NEW n \in Nodes, NEW op \in AdminOps, AdminLoad(j, n, op)
    PROVE  Touches(j, "admin", op, n, row[n], Changed(op, row[n])) /\ job[j].pc = "idle"
<1>1. row[n] \in Rows /\ Changed(op, row[n]) \in Rows /\ "admin" \in Points
  BY TypeFacts, ChangedType DEF Points
<1>2. Go(j, Touch("admin", op, n, row[n], Changed(op, row[n])))
  BY DEF AdminLoad, Touch
<1> QED
  BY <1>1, <1>2, TouchMoves DEF AdminLoad, Free, At

\* The row of a new host, or of one that comes back.
Enrolled(n) ==
    [(IF row[n].exists THEN row[n] ELSE NewRow) EXCEPT
        !.status = "OFFLINE", !.trust = "PENDING", !.endpoint = FALSE, !.token = TRUE]

LEMMA EnrollPostMoves ==
    ASSUME TypeInv, NEW j \in Jobs, NEW n \in Nodes, EnrollPost(j, n)
    PROVE  /\ job[j].pc = "idle" /\ held[n] \in Tokens /\ offered' = offered \ {held[n]}
           /\ \/ job' = job
              \/ /\ Touches(j, "enroll", "enroll", n, row[n], Enrolled(n))
                 /\ held[n] \in offered /\ Enrolled(n) \in Rows
                 /\ Enrolled(n).status = "OFFLINE"
           /\ held' \in [Nodes -> Tokens \cup {None}]
<1>1. row[n] \in Rows /\ Enrolled(n) \in Rows /\ Enrolled(n).status = "OFFLINE"
  <2> DEFINE fresh == IF row[n].exists THEN row[n] ELSE NewRow
  <2>1. row[n] \in Rows /\ fresh \in Rows
    BY TypeFacts, NewRowType
  <2> HIDE DEF fresh
  <2>2. [fresh EXCEPT !.status = "OFFLINE", !.trust = "PENDING", !.endpoint = FALSE,
                      !.token = TRUE] \in Rows
    BY <2>1, EnrolledRow
  <2>3. [fresh EXCEPT !.status = "OFFLINE", !.trust = "PENDING", !.endpoint = FALSE,
                      !.token = TRUE].status = "OFFLINE"
    BY <2>1 DEF Rows
  <2> QED
    BY <2>1, <2>2, <2>3 DEF Enrolled, fresh
<1>2. /\ job[j].pc = "idle" /\ held[n] \in Tokens /\ offered' = offered \ {held[n]}
      /\ held' \in [Nodes -> Tokens \cup {None}]
  BY TypeFacts DEF EnrollPost, Free, At, ConsumeToken
<1>3. \/ job' = job
      \/ held[n] \in offered /\ Go(j, Touch("enroll", "enroll", n, row[n], Enrolled(n)))
  BY DEF EnrollPost, Touch, Enrolled
<1>4. ASSUME Go(j, Touch("enroll", "enroll", n, row[n], Enrolled(n)))
      PROVE  Touches(j, "enroll", "enroll", n, row[n], Enrolled(n))
  <2>1. "enroll" \in Points /\ "enroll" \in AdminOps \cup {"enroll", "none"}
    BY DEF Points
  <2> HIDE DEF Enrolled
  <2> QED
    BY <1>1, <1>4, <2>1, TouchMoves
<1> QED
  BY <1>1, <1>2, <1>3, <1>4

\* A creation that goes on with the rows it has.
Moves(j, pc, node, todo) ==
    /\ job' \in [Jobs -> Handlers]
    /\ \A k \in Jobs : k # j => job'[k] = job[k]
    /\ job'[j].pc = pc /\ job'[j].node = node /\ job'[j].todo = todo
    /\ job'[j].op = job[j].op /\ job'[j].sess = job[j].sess
    /\ job'[j].old = job[j].old /\ job'[j].new = job[j].new

LEMMA GoMoves ==
    ASSUME TypeInv, NEW j \in Jobs, NEW x, Go(j, x), NEW pc \in Points, NEW node \in Nodes \cup {None},
           NEW todo \in SUBSET Nodes,
           x = [job[j] EXCEPT !.pc = pc, !.node = node, !.todo = todo]
    PROVE  Moves(j, pc, node, todo)
<1> DEFINE q == job[j]
<1>1. q \in Handlers
  BY JobFacts
<1>2. x = [q EXCEPT !.pc = pc, !.node = node, !.todo = todo]
  OBVIOUS
<1> HIDE DEF q
<1>3. x \in Handlers
  BY <1>1, <1>2 DEF Handlers
<1>4. /\ x.pc = pc /\ x.node = node /\ x.todo = todo
      /\ x.op = q.op /\ x.sess = q.sess /\ x.old = q.old /\ x.new = q.new
  BY <1>1, <1>2 DEF Handlers
<1>5. job' \in [Jobs -> Handlers] /\ job'[j] = x /\ \A k \in Jobs : k # j => job'[k] = job[k]
  BY <1>3, TypeFacts DEF Go
<1> QED
  BY <1>4, <1>5 DEF Moves, q

\* A node that cannot be asked is passed over.
LEMMA SkipMoves ==
    ASSUME TypeInv, NEW j \in Jobs, NEW n \in Nodes, Go(j, [job[j] EXCEPT !.todo = @ \ {n}])
    PROVE  Moves(j, job[j].pc, job[j].node, job[j].todo \ {n})
<1> DEFINE q == job[j]
           x == [q EXCEPT !.todo = @ \ {n}]
<1>1. q \in Handlers /\ Go(j, x)
  BY JobFacts
<1> HIDE DEF q
<1>2. x = [q EXCEPT !.pc = q.pc, !.node = q.node, !.todo = q.todo \ {n}]
  BY <1>1 DEF Handlers
<1>3. q.pc \in Points /\ q.node \in Nodes \cup {None} /\ q.todo \ {n} \in SUBSET Nodes
  BY <1>1, HandlerFields
<1> HIDE DEF x
<1> QED
  BY <1>1, <1>2, <1>3, GoMoves DEF q

LEMMA FlushMoves ==
    ASSUME TypeInv, NEW j \in Jobs, NEW n \in Nodes,
           Go(j, [job[j] EXCEPT !.pc = "select", !.todo = @ \ {n}])
    PROVE  Moves(j, "select", job[j].node, job[j].todo \ {n})
<1> DEFINE q == job[j]
           x == [q EXCEPT !.pc = "select", !.todo = @ \ {n}]
<1>1. q \in Handlers /\ Go(j, x)
  BY JobFacts
<1> HIDE DEF q
<1>2. x = [q EXCEPT !.pc = "select", !.node = q.node, !.todo = q.todo \ {n}]
  BY <1>1 DEF Handlers
<1>3. "select" \in Points /\ q.node \in Nodes \cup {None} /\ q.todo \ {n} \in SUBSET Nodes
  BY <1>1, HandlerFields DEF Points
<1> HIDE DEF x
<1> QED
  BY <1>1, <1>2, <1>3, GoMoves DEF q

LEMMA PickMoves ==
    ASSUME TypeInv, NEW j \in Jobs, NEW n \in Nodes,
           Go(j, [job[j] EXCEPT !.pc = "create", !.node = n])
    PROVE  Moves(j, "create", n, job[j].todo)
<1> DEFINE q == job[j]
           x == [q EXCEPT !.pc = "create", !.node = n]
<1>1. q \in Handlers /\ Go(j, x)
  BY JobFacts
<1> HIDE DEF q
<1>2. x = [q EXCEPT !.pc = "create", !.node = n, !.todo = q.todo]
  BY <1>1 DEF Handlers
<1>3. "create" \in Points /\ q.todo \in SUBSET Nodes
  BY <1>1, HandlerFields DEF Points
<1> HIDE DEF x
<1> QED
  BY <1>1, <1>2, <1>3, GoMoves DEF q

\* Among the nodes with room there is one with the most.
LEMMA BestCandidate ==
    ASSUME TypeInv, NEW j \in Jobs, At(j, "select"), Candidates(j) # {}
    PROVE  /\ Best(j) \in Nodes /\ job[j].new[Best(j)] \in Rows /\ job[j].new[Best(j)] # None
           /\ HasRoom(job[j].new[Best(j)])
<1> DEFINE C == Candidates(j)
           d(n) == use.ceiling - Room(j, n)
           T == {d(n) : n \in C}
<1>1. ASSUME NEW n \in C
      PROVE  /\ n \in Nodes /\ job[j].new[n] \in Rows /\ job[j].new[n] # None
             /\ HasRoom(job[j].new[n])
             /\ Room(j, n) \in Int /\ d(n) \in Nat
  <2> DEFINE r == job[j].new[n]
  <2>1. n \in Nodes /\ r # None /\ HasRoom(r)
    BY DEF Candidates, Written
  <2>2. r \in Rows
    BY <2>1, JobFacts, HandlerFields
  <2>3. r.capacity <= use.ceiling
    BY <2>1, JobFacts DEF Carries, Shape, At
  <2>4. Room(j, n) = r.capacity - r.active
    BY DEF Room
  <2> HIDE DEF r
  <2>5. r.capacity \in Nat /\ r.active \in Nat /\ use.ceiling \in Nat
    BY <2>2, RowFields, TypeFacts
  <2> QED
    BY <2>1, <2>2, <2>3, <2>4, <2>5 DEF r
<1>2. T \subseteq Nat /\ T # {}
  BY <1>1
<1>3. PICK x \in T : \A y \in T : x <= y
  BY <1>2, LeastNatural
<1>4. PICK n \in C : x = d(n)
  BY <1>3
<1>5. ASSUME NEW m \in C
      PROVE  Room(j, n) >= Room(j, m)
  <2>1. d(n) <= d(m)
    BY <1>3, <1>4
  <2> QED
    BY <1>1, <1>4, <2>1, TypeFacts
<1>6. Best(j) \in C
  BY <1>4, <1>5 DEF Best
<1> QED
  BY <1>1, <1>6

LEMMA MovesType ==
    ASSUME TypeInv, NEW j \in Jobs, NEW pc, NEW node, NEW todo, Moves(j, pc, node, todo),
           use' = use, todo \subseteq job[j].todo, job[j].op = "none",
           \/ pc = "select"
           \/ /\ pc = "create" /\ node \in Nodes /\ job[j].new[node] \in Rows
              /\ job[j].new[node] # None /\ HasRoom(job[j].new[node])
    PROVE  JobsOK'
<1> DEFINE x == job'[j]
<1>1. Shape(j, job[j]) /\ \A m \in Nodes : Carries(job[j], m)
  BY JobFacts
<1>2. Shape(j, x)
  BY <1>1 DEF Shape, Moves
<1>3. \A m \in Nodes : Carries(x, m)
  BY <1>1 DEF Carries, Moves
<1>4. job' = [job EXCEPT ![j] = x] /\ x \in Handlers
  BY TypeFacts DEF Moves
<1> HIDE DEF x
<1> QED
  BY <1>2, <1>3, <1>4, GoType DEF Go

\* A creation begins with the rows of the approved nodes.
LEMMA BeginMoves ==
    ASSUME TypeInv, NEW j \in Jobs, NEW s \in Sessions, SelectBegin(j, s)
    PROVE  /\ job[j].pc = "idle"
           /\ job' \in [Jobs -> Handlers]
           /\ \A k \in Jobs : k # j => job'[k] = job[k]
           /\ job'[j].pc \in {"bootstrap", "select"} /\ job'[j].op = "none"
           /\ job'[j].new = Untouched
           /\ job'[j].todo = Trusted
           /\ \A n \in Nodes : job'[j].old[n] = IF n \in Trusted THEN row[n] ELSE None
<1> DEFINE pc == IF Trusted = {} THEN "bootstrap" ELSE "select"
           ol == [n \in Nodes |-> IF n \in Trusted THEN row[n] ELSE None]
           x == [Idle EXCEPT !.pc = pc, !.sess = s, !.todo = Trusted, !.old = ol]
<1>1. Go(j, x) /\ job[j].pc = "idle"
  BY DEF SelectBegin, Free, At
<1>2. pc \in Points /\ pc \in {"bootstrap", "select"}
  BY DEF Points
<1>3. ol \in [Nodes -> Rows \cup {None}]
  BY TypeFacts
<1>4. Trusted \in SUBSET Nodes
  BY DEF Trusted
<1>5. \A n \in Nodes : ol[n] = IF n \in Trusted THEN row[n] ELSE None
  OBVIOUS
<1> HIDE DEF pc, ol
<1>6. Idle \in Handlers /\ Idle.op = "none" /\ Idle.new = Untouched
  BY IdleType, IdleFields
<1>7. /\ x.pc = pc /\ x.op = "none" /\ x.new = Untouched /\ x.todo = Trusted /\ x.old = ol
  BY <1>6 DEF Handlers
<1>8. x \in Handlers
  BY <1>2, <1>3, <1>4, <1>6 DEF Handlers
<1> HIDE DEF x
<1>9. job' \in [Jobs -> Handlers] /\ job'[j] = x /\ \A k \in Jobs : k # j => job'[k] = job[k]
  BY <1>1, <1>8, TypeFacts DEF Go
<1> QED
  BY <1>1, <1>2, <1>5, <1>7, <1>9

LEMMA BeginType ==
    ASSUME TypeInv, NEW j \in Jobs, NEW s \in Sessions, SelectBegin(j, s), use' = use
    PROVE  JobsOK'
<1> DEFINE x == job'[j]
<1>1. /\ x.pc \in {"bootstrap", "select"} /\ x.op = "none" /\ x.new = Untouched
      /\ x.todo = Trusted /\ \A n \in Trusted : x.old[n] \in Rows
  BY BeginMoves, TypeFacts DEF Trusted
<1>2. job' = [job EXCEPT ![j] = x] /\ x \in Handlers
  BY TypeFacts, BeginMoves
<1> HIDE DEF x
<1>3. Shape(j, x)
  BY <1>1 DEF Shape
<1>4. \A m \in Nodes : Carries(x, m)
  BY <1>1, IdleFields DEF Carries
<1> QED
  BY <1>2, <1>3, <1>4, GoType DEF Go

\* A tick: the poll tasks begin, the requests go on.
LEMMA TickMoves ==
    ASSUME TypeInv, PollTick
    PROVE  /\ job' \in [Jobs -> Handlers]
           /\ \A j \in Jobs :
                 \/ job'[j] = job[j]
                 \/ /\ j \in Nodes /\ job[j].pc = "idle"
                    /\ job'[j].pc \in {"ask_default", "load"} /\ job'[j].op = "none"
                    /\ job'[j].todo = {}
                    /\ job'[j].old = Untouched /\ job'[j].new = Untouched
<1> DEFINE a == [Idle EXCEPT !.pc = "ask_default"]
           l(j) == [Idle EXCEPT !.pc = "load", !.node = j]
<1>1. /\ a \in Handlers /\ a.pc = "ask_default" /\ a.op = "none" /\ a.todo = {}
      /\ a.old = Untouched /\ a.new = Untouched
  BY IdleFields DEF Idle, Handlers, Points
<1>2. ASSUME NEW j \in Nodes
      PROVE  /\ l(j) \in Handlers /\ l(j).pc = "load" /\ l(j).op = "none" /\ l(j).todo = {}
             /\ l(j).old = Untouched /\ l(j).new = Untouched
  BY IdleFields DEF Idle, Handlers, Points
<1>3. job' = [j \in Jobs |-> IF j = Default THEN a ELSE IF j \in PollList THEN l(j) ELSE job[j]]
  BY DEF PollTick
<1> HIDE DEF a, l
<1>4. PollList \subseteq Nodes /\ Default \in Nodes /\ \A n \in Nodes : job[n].pc = "idle"
  BY NodeAssumption DEF PollList, PollTick, Free, At
<1>5. ASSUME NEW j \in Jobs
      PROVE  /\ job'[j] \in Handlers
             /\ \/ job'[j] = job[j]
                \/ /\ j \in Nodes /\ job[j].pc = "idle"
                   /\ job'[j].pc \in {"ask_default", "load"} /\ job'[j].op = "none"
                   /\ job'[j].todo = {}
                   /\ job'[j].old = Untouched /\ job'[j].new = Untouched
  <2>1. CASE j = Default
    BY <1>1, <1>3, <1>4, <2>1
  <2>2. CASE j # Default /\ j \in PollList
    BY <1>2, <1>3, <1>4, <2>2
  <2>3. CASE j # Default /\ j \notin PollList
    BY <1>3, <2>3, TypeFacts
  <2> QED
    BY <2>1, <2>2, <2>3
<1>6. job' = [j \in Jobs |-> job'[j]]
  BY <1>3
<1> QED
  BY <1>5, <1>6

LEMMA TickType ==
    ASSUME TypeInv, PollTick, use' = use
    PROVE  JobsOK'
<1>1. ASSUME NEW j \in Jobs
      PROVE  Shape(j, job'[j]) /\ \A n \in Nodes : Carries(job'[j], n)
  <2>1. Shape(j, job[j]) /\ \A n \in Nodes : Carries(job[j], n)
    BY JobFacts
  <2>2. CASE job'[j].pc \in {"ask_default", "load"} /\ job'[j].op = "none" /\ job'[j].todo = {}
               /\ job'[j].new = Untouched
    BY <2>2, IdleFields DEF Shape, Carries
  <2> QED
    BY <2>1, <2>2, TickMoves
<1>2. ASSUME NEW j \in Jobs
      PROVE  (Shape(j, job[j]) /\ \A n \in Nodes : Carries(job[j], n))'
  BY <1>1 DEF Shape, Carries
<1> QED
  BY <1>2, TickMoves DEF JobsOK

\* A poll task looks at its row again.
LEMMA LoadMoves ==
    ASSUME TypeInv, NEW n \in Nodes, Go(n, [job[n] EXCEPT !.pc = "ask", !.old[n] = row[n]])
    PROVE  /\ job' \in [Jobs -> Handlers]
           /\ \A k \in Jobs : k # n => job'[k] = job[k]
           /\ job'[n].pc = "ask" /\ job'[n].op = job[n].op /\ job'[n].todo = job[n].todo
           /\ job'[n].new = job[n].new
           /\ job'[n].old[n] = row[n]
           /\ \A m \in Nodes : m # n => job'[n].old[m] = job[n].old[m]
<1> DEFINE q == job[n]
           ol == [q.old EXCEPT ![n] = row[n]]
           x == [q EXCEPT !.pc = "ask", !.old = ol]
<1>1. q \in Handlers /\ row[n] \in Rows /\ n \in Jobs
  BY JobFacts, TypeFacts DEF Jobs
<1>2. Go(n, x)
  <2>1. x = [q EXCEPT !.pc = "ask", !.old[n] = row[n]]
    BY Zenon
  <2> QED
    BY <2>1
<1> HIDE DEF q
<1>3. /\ ol \in [Nodes -> Rows \cup {None}] /\ ol[n] = row[n]
      /\ \A m \in Nodes : m # n => ol[m] = q.old[m]
  BY <1>1, HandlerFields
<1> HIDE DEF ol
<1>4. x \in Handlers
  BY <1>1, <1>3 DEF Handlers, Points
<1>5. x.pc = "ask" /\ x.op = q.op /\ x.todo = q.todo /\ x.new = q.new /\ x.old = ol
  BY <1>1 DEF Handlers
<1> HIDE DEF x
<1>6. job' \in [Jobs -> Handlers] /\ job'[n] = x /\ \A k \in Jobs : k # n => job'[k] = job[k]
  BY <1>1, <1>2, <1>4, TypeFacts DEF Go
<1> QED
  BY <1>3, <1>5, <1>6 DEF q

LEMMA LoadType ==
    ASSUME TypeInv, NEW n \in Nodes, job[n].pc = "load", use' = use,
           Go(n, [job[n] EXCEPT !.pc = "ask", !.old[n] = row[n]])
    PROVE  JobsOK'
<1> DEFINE x == job'[n]
<1>1. n \in Jobs /\ row[n] \in Rows
  BY TypeFacts DEF Jobs
<1>2. /\ \A m \in job[n].todo : job[n].old[m] \in Rows
      /\ job[n].new = Untouched /\ job[n].op = "none" /\ job[n].todo \subseteq Nodes
  BY <1>1, JobFacts, HandlerFields DEF Shape
<1>3. /\ x.pc = "ask" /\ x.op = "none" /\ x.todo = job[n].todo /\ x.new = Untouched
      /\ x.old[n] = row[n] /\ \A m \in Nodes : m # n => x.old[m] = job[n].old[m]
  BY <1>2, LoadMoves
<1>4. job' = [job EXCEPT ![n] = x] /\ x \in Handlers
  BY <1>1, TypeFacts, LoadMoves
<1> HIDE DEF x
<1>5. Shape(n, x)
  BY <1>1, <1>2, <1>3 DEF Shape
<1>6. \A m \in Nodes : Carries(x, m)
  BY <1>3, IdleFields DEF Carries
<1> QED
  BY <1>1, <1>4, <1>5, <1>6, GoType DEF Go

-----------------------------------------------------------------------------
\* Every step keeps the types.
Others ==
    /\ row' \in [Nodes -> Rows] /\ lock' \in [Nodes -> Jobs \cup {None}]
    /\ sess' \in [Sessions -> Placements]
    /\ offered' \subseteq drawn' /\ drawn' \subseteq Tokens
    /\ held' \in [Nodes -> Tokens \cup {None}] /\ enrolments' \in Nat
    /\ downs' \in Nat

AgentsOK == agent \in [Nodes -> Agents] /\ \A n \in Nodes : Sustained(agent[n])

LEMMA TypeOf ==
    ASSUME TypeInv, JobsOK', AgentsOK', Others, use' = use
    PROVE  TypeInv'
<1>1. use' \in Uses
  BY TypeFacts
<1> QED
  BY <1>1 DEF TypeInv, TypeOK, StoreTypeOK, JobsOK, AgentsOK, Others

LEMMA SameOthers ==
    ASSUME TypeInv, UNCHANGED <<row, sess, offered, drawn, held, enrolments>>, downs' \in Nat,
           lock' \in [Nodes -> Jobs \cup {None}]
    PROVE  Others
  BY TypeFacts DEF Others

LEMMA UnlockType ==
    ASSUME TypeInv, NEW j, Unlock(j)
    PROVE  lock' \in [Nodes -> Jobs \cup {None}]
  BY TypeFacts DEF Unlock

LEMMA SameAgentsOK ==
    ASSUME TypeInv, agent' = agent, use' = use
    PROVE  AgentsOK'
  BY SameAgents DEF AgentsOK

LEMMA NotedType ==
    ASSUME TypeInv, NoteReplaced
    PROVE  sess' \in [Sessions -> Placements]
<1>1. ASSUME NEW s \in Sessions
      PROVE  [sess[s] EXCEPT !.replaced = @ \/ Readdressed(s)] \in Placements
  <2>1. sess[s] \in Placements /\ Readdressed(s) \in BOOLEAN
    BY TypeFacts DEF Readdressed
  <2> QED
    BY <2>1 DEF Placements
<1> QED
  BY <1>1 DEF NoteReplaced

\* The steps of the poller.
LEMMA PollTypes ==
    ASSUME TypeInv, NEW n \in Nodes, PollTick \/ PollStep(n), downs' = downs, use' = use
    PROVE  TypeInv'
<1>1. /\ n \in Jobs /\ Default \in Nodes /\ downs' \in Nat
      /\ job[n] \in Handlers /\ Shape(n, job[n])
      /\ row \in [Nodes -> Rows] /\ lock \in [Nodes -> Jobs \cup {None}]
  BY TypeFacts, JobFacts, NodeAssumption DEF Jobs
<1>2. CASE PollTick
  <2>1. JobsOK'
    BY <1>2, TickType
  <2> QED
    BY <1>1, <1>2, <2>1, TypeOf, SameOthers, SameAgentsOK DEF PollTick
<1>3. CASE PollLoad(n)
  <2>1. JobsOK'
    BY <1>1, <1>3, LoadType, FinishType DEF PollLoad, At
  <2> QED
    BY <1>1, <1>3, <2>1, TypeOf, SameOthers, SameAgentsOK DEF PollLoad
<1>4. CASE PollAsk(n)
  <2>1. Others
    BY <1>1, <1>4, SameOthers DEF PollAsk
  <2>2. CASE Finish(n) /\ UNCHANGED agent
    BY <1>1, <2>1, <2>2, TypeOf, SameAgentsOK, FinishType
  <2>3. CASE Reached(n, Loaded(n, n)) /\ Report(n, ConnectionForNode(n, Loaded(n, n)), n, Loaded(n, n))
    <3> DEFINE old == Loaded(n, n)
               a == ConnectionForNode(n, old)
    <3>1. old \in Rows /\ job[n].op = "none"
      BY <1>1, <1>4 DEF PollAsk, Shape, At, Loaded
    <3>2. Report(n, a, n, old) /\ Reached(n, old)
      BY <2>3
    <3> HIDE DEF old
    <3>3. a \in Nodes
      BY <3>1, <3>2, Connections
    <3> HIDE DEF a
    <3>4. Heard(n, a, n, old) /\ AgentsOK'
      BY <1>1, <3>1, <3>2, <3>3, ReportMoves DEF AgentsOK
    <3>5. JobsOK'
      BY <1>1, <3>1, <3>4, HeardType
    <3> QED
      BY <2>1, <3>4, <3>5, TypeOf
  <2> QED
    BY <1>4, <2>2, <2>3 DEF PollAsk
<1>5. CASE PollAskDefault(n)
  <2>1. Others
    BY <1>1, <1>5, SameOthers DEF PollAskDefault
  <2>2. CASE Finish(n) /\ UNCHANGED agent
    BY <1>1, <2>1, <2>2, TypeOf, SameAgentsOK, FinishType
  <2>3. CASE Report(n, Default, Default, row[Default])
    <3>1. row[Default] \in Rows /\ job[n].op = "none"
      BY <1>1, <1>5 DEF PollAskDefault, Shape, At
    <3>2. Heard(n, Default, Default, row[Default]) /\ AgentsOK'
      BY <1>1, <2>3, <3>1, ReportMoves DEF AgentsOK
    <3>3. JobsOK'
      BY <1>1, <3>1, <3>2, HeardType
    <3> QED
      BY <2>1, <3>2, <3>3, TypeOf
  <2> QED
    BY <1>5, <2>2, <2>3 DEF PollAskDefault
<1>6. CASE PollWrite(n)
  <2>1. JobsOK'
    BY <1>1, <1>6, FinishType DEF PollWrite
  <2>2. row' \in [Nodes -> Rows] /\ lock' \in [Nodes -> Jobs \cup {None}]
    BY <1>1, <1>6, CommitType DEF PollWrite, CommitRow
  <2>3. Others
    BY <1>1, <1>6, <2>2, TypeFacts DEF PollWrite, Others
  <2> QED
    BY <1>6, <2>1, <2>3, TypeOf, SameAgentsOK DEF PollWrite
<1> QED
  BY <1>2, <1>3, <1>4, <1>5, <1>6 DEF PollStep

\* The steps of administrators and enrolling agents.
LEMMA AdminTypes ==
    ASSUME TypeInv, NEW j \in Requests, AdminStep(j) \/ AdminBegins(j), downs' = downs, use' = use
    PROVE  TypeInv'
<1>1. j \in Jobs /\ downs' \in Nat
  BY TypeFacts DEF Jobs
<1>2. CASE AdminCommit(j)
  <2>1. JobsOK'
    BY <1>1, <1>2, FinishType DEF AdminCommit
  <2>2. row' \in [Nodes -> Rows] /\ lock' \in [Nodes -> Jobs \cup {None}]
    BY <1>1, <1>2, CommitType DEF AdminCommit, CommitRow
  <2>3. Others
    BY <1>1, <1>2, <2>2, TypeFacts, NotedType DEF AdminCommit, Others
  <2> QED
    BY <1>2, <2>1, <2>3, TypeOf, SameAgentsOK DEF AdminCommit
<1>3. ASSUME NEW answered \in BOOLEAN, EnrollCommit(j, answered)
      PROVE  TypeInv'
  <2>1. JobsOK'
    BY <1>1, <1>3, FinishType DEF EnrollCommit
  <2>2. row' \in [Nodes -> Rows] /\ lock' \in [Nodes -> Jobs \cup {None}]
    BY <1>1, <1>3, CommitType DEF EnrollCommit, CommitRow
  <2>3. sess' \in [Sessions -> Placements] /\ offered' = offered /\ drawn' = drawn
    BY <1>3, NotedType DEF EnrollCommit
  <2>4. held' \in [Nodes -> Tokens \cup {None}]
    <3>1. held' = [held EXCEPT ![job[j].node] = IF answered THEN None ELSE @]
      BY <1>3 DEF EnrollCommit
    <3> QED
      BY <3>1, TypeFacts
  <2>5. enrolments' \in Nat
    BY <1>3, TypeFacts DEF EnrollCommit
  <2>6. Others
    BY <1>1, <2>2, <2>3, <2>4, <2>5, TypeFacts DEF Others
  <2> QED
    BY <1>3, <2>1, <2>6, TypeOf, SameAgentsOK DEF EnrollCommit
<1>4. ASSUME NEW n \in Nodes, NEW op \in AdminOps, AdminLoad(j, n, op)
      PROVE  TypeInv'
  <2>1. JobsOK'
    BY <1>1, <1>4, AdminLoadMoves, TouchType
  <2> QED
    BY <1>1, <1>4, <2>1, TypeFacts, TypeOf, SameOthers, SameAgentsOK DEF AdminLoad
<1>5. ASSUME NEW n \in Nodes, EnrollPost(j, n)
      PROVE  TypeInv'
  <2>1. JobsOK'
    BY <1>1, <1>5, EnrollPostMoves, TouchType, SameJobs
  <2>2. Others
    BY <1>1, <1>5, EnrollPostMoves, TypeFacts DEF Others, EnrollPost
  <2> QED
    BY <1>5, <2>1, <2>2, TypeOf, SameAgentsOK DEF EnrollPost
<1> QED
  BY <1>2, <1>3, <1>4, <1>5 DEF AdminStep, AdminBegins

\* The steps of a creation.
LEMMA CreateTypes ==
    ASSUME TypeInv, NEW j \in Requests, CreateStep(j), downs' = downs, use' = use
    PROVE  TypeInv'
<1>1. /\ j \in Jobs /\ Default \in Nodes /\ downs' \in Nat
      /\ job[j] \in Handlers /\ Shape(j, job[j])
      /\ row \in [Nodes -> Rows] /\ lock \in [Nodes -> Jobs \cup {None}]
  BY TypeFacts, JobFacts, NodeAssumption DEF Jobs
<1>2. ASSUME NEW n \in Nodes, SelectAsk(j, n)
      PROVE  TypeInv'
  <2> DEFINE old == Loaded(j, n)
             a == ConnectionForNode(n, old)
  <2>1. old \in Rows /\ job[j].op = "none"
    BY <1>1, <1>2 DEF SelectAsk, Shape, At, Loaded
  <2>2. Others
    BY <1>1, <1>2, SameOthers DEF SelectAsk
  <2>3. CASE Reached(n, old) /\ Report(j, a, n, old)
    <3>1. Reached(n, old) /\ Report(j, a, n, old)
      BY <2>3
    <3> HIDE DEF old
    <3>2. a \in Nodes
      BY <2>1, <3>1, Connections
    <3> HIDE DEF a
    <3>3. Heard(j, a, n, old) /\ AgentsOK'
      BY <1>1, <2>1, <3>1, <3>2, ReportMoves DEF AgentsOK
    <3>4. JobsOK'
      BY <1>1, <2>1, <3>3, HeardType
    <3> QED
      BY <2>2, <3>3, <3>4, TypeOf
  <2>4. CASE Go(j, [job[j] EXCEPT !.todo = @ \ {n}]) /\ UNCHANGED agent
    <3>1. Moves(j, job[j].pc, job[j].node, job[j].todo \ {n})
      BY <1>1, <2>4, SkipMoves
    <3>2. job[j].pc = "select" /\ job[j].todo \ {n} \subseteq job[j].todo
      BY <1>2 DEF SelectAsk, At
    <3>3. JobsOK'
      BY <1>1, <2>1, <3>1, <3>2, MovesType
    <3> QED
      BY <2>2, <2>4, <3>3, TypeOf, SameAgentsOK
  <2> QED
    BY <1>2, <2>3, <2>4 DEF SelectAsk
<1>3. CASE SelectAskDefault(j)
  <2>1. Others
    BY <1>1, <1>3, SameOthers DEF SelectAskDefault
  <2>2. CASE Finish(j) /\ UNCHANGED agent
    BY <1>1, <2>1, <2>2, TypeOf, SameAgentsOK, FinishType
  <2>3. CASE Report(j, Default, Default, row[Default])
    <3>1. row[Default] \in Rows /\ job[j].op = "none"
      BY <1>1, <1>3 DEF SelectAskDefault, Shape, At
    <3>2. Heard(j, Default, Default, row[Default]) /\ AgentsOK'
      BY <1>1, <2>3, <3>1, ReportMoves DEF AgentsOK
    <3>3. JobsOK'
      BY <1>1, <3>1, <3>2, HeardType
    <3> QED
      BY <2>1, <3>2, <3>3, TypeOf
  <2> QED
    BY <1>3, <2>2, <2>3 DEF SelectAskDefault
<1>4. CASE SelectFlush(j)
  <2> DEFINE n == job[j].node
  <2>1. n \in Nodes /\ job[j].op = "none"
    BY <1>1, <1>4 DEF SelectFlush, Shape, At
  <2>2. lock' \in [Nodes -> Jobs \cup {None}]
    BY <1>1, <1>4, UnlockType DEF SelectFlush
  <2>3. Others
    BY <1>1, <1>4, <2>2, SameOthers DEF SelectFlush
  <2>4. JobsOK'
    <3>1. CASE Finish(j)
      BY <1>1, <3>1, FinishType
    <3>2. CASE Go(j, [job[j] EXCEPT !.pc = "select", !.todo = @ \ {n}])
      <4> HIDE DEF n
      <4>1. Moves(j, "select", job[j].node, job[j].todo \ {n})
        BY <1>1, <2>1, <3>2, FlushMoves
      <4> QED
        BY <1>1, <2>1, <4>1, MovesType
    <3> QED
      BY <1>4, <3>1, <3>2 DEF SelectFlush
  <2> QED
    BY <1>4, <2>3, <2>4, TypeOf, SameAgentsOK DEF SelectFlush
<1>5. CASE DeadlockAbort(j)
  <2>1. Others
    BY <1>1, <1>5, SameOthers, UnlockType DEF DeadlockAbort
  <2> QED
    BY <1>1, <1>5, <2>1, TypeOf, SameAgentsOK, FinishType DEF DeadlockAbort
<1>6. CASE SelectPick(j)
  <2>1. Others
    BY <1>1, <1>6, SameOthers, UnlockType DEF SelectPick
  <2>2. JobsOK'
    <3>1. CASE Finish(j)
      BY <1>1, <3>1, FinishType
    <3>2. CASE Candidates(j) # {} /\ Go(j, [job[j] EXCEPT !.pc = "create", !.node = Best(j)])
      <4> DEFINE n == Best(j)
      <4>1. /\ n \in Nodes /\ job[j].new[n] \in Rows /\ job[j].new[n] # None
            /\ HasRoom(job[j].new[n])
        BY <1>1, <1>6, <3>2, BestCandidate DEF SelectPick
      <4> HIDE DEF n
      <4>2. Moves(j, "create", n, job[j].todo)
        BY <1>1, <3>2, <4>1, PickMoves DEF n
      <4>3. job[j].op = "none"
        BY <1>1, <1>6 DEF SelectPick, Shape, At
      <4> QED
        BY <1>1, <4>1, <4>2, <4>3, MovesType
    <3> QED
      BY <1>6, <3>1, <3>2 DEF SelectPick
  <2> QED
    BY <1>6, <2>1, <2>2, TypeOf, SameAgentsOK DEF SelectPick
<1>7. ASSUME NEW ok \in BOOLEAN, PlaceSession(j, ok)
      PROVE  TypeInv'
  <2>1. JobsOK'
    BY <1>1, <1>7, FinishType DEF PlaceSession
  <2>2. row' \in [Nodes -> Rows] /\ lock' \in [Nodes -> Jobs \cup {None}]
    BY <1>1, <1>7, CommitType DEF PlaceSession
  <2>3. sess' \in [Sessions -> Placements]
    <3> DEFINE n == job[j].node
               r == job[j].new[n]
               a == ConnectionForNode(n, r)
               runs == ok /\ Reached(n, r)
               p == [status |-> IF runs THEN "ACTIVE" ELSE "FAILED", node |-> n,
                     at |-> IF runs THEN a ELSE None,
                     replaced |-> Loaded(j, n).endpoint # row[n].endpoint]
    <3>1. n \in Nodes /\ r \in Rows
      BY <1>1, <1>7 DEF PlaceSession, At, Shape
    <3>2. sess' = [sess EXCEPT ![job[j].sess] = p]
      BY <1>7 DEF PlaceSession
    <3> HIDE DEF n, r
    <3>3. a \in Nodes \cup {None}
      BY <3>1, Connections
    <3> HIDE DEF a, runs
    <3>4. p \in Placements
      BY <3>1, <3>3 DEF Placements
    <3> HIDE DEF p
    <3> QED
      BY <3>2, <3>4, TypeFacts
  <2>4. Others
    BY <1>1, <1>7, <2>2, <2>3, TypeFacts DEF PlaceSession, Others
  <2> QED
    BY <1>7, <2>1, <2>4, TypeOf, SameAgentsOK DEF PlaceSession
<1> QED
  BY <1>2, <1>3, <1>4, <1>5, <1>6, <1>7 DEF CreateStep

LEMMA BeginTypes ==
    ASSUME TypeInv, NEW j \in Requests, NEW s \in Sessions, SelectBegin(j, s),
           downs' = downs, use' = use
    PROVE  TypeInv'
<1>1. j \in Jobs /\ downs' \in Nat /\ lock' \in [Nodes -> Jobs \cup {None}]
  BY TypeFacts DEF Jobs, SelectBegin
<1>2. JobsOK'
  BY <1>1, BeginType
<1> QED
  BY <1>1, <1>2, TypeOf, SameOthers, SameAgentsOK DEF SelectBegin

\* The steps that leave the jobs alone.
LEMMA TerminateTypes ==
    ASSUME TypeInv, NEW s \in Sessions, TerminateSession(s), downs' = downs, use' = use
    PROVE  TypeInv'
<1> DEFINE a == ConnectionForNode(sess[s].node, row[sess[s].node])
           answered == Reached(sess[s].node, row[sess[s].node])
           status == IF answered THEN "TERMINATED" ELSE "FAILED"
           at == IF answered /\ sess[s].at = a THEN None ELSE sess[s].at
           p == [sess[s] EXCEPT !.status = status, !.at = at]
<1>1. sess' = [sess EXCEPT ![s] = p]
  BY DEF TerminateSession
<1>2. sess[s] \in Placements
  BY TypeFacts
<1>3. status \in {"TERMINATED", "FAILED"} /\ at \in Nodes \cup {None}
  BY <1>2 DEF Placements
<1> HIDE DEF status, at
<1>4. p \in Placements
  BY <1>2, <1>3 DEF Placements
<1> HIDE DEF p
<1>5. Others
  BY <1>1, <1>4, TypeFacts DEF Others, TerminateSession
<1> QED
  BY <1>5, TypeOf, SameJobs, SameAgentsOK DEF TerminateSession

LEMMA TokenTypes ==
    ASSUME TypeInv, NEW t \in Tokens, downs' = downs, use' = use,
           TokenExpires(t) \/ \E n \in Nodes : CreateToken(n, t)
    PROVE  TypeInv'
<1>1. CASE TokenExpires(t)
  <2>1. Others
    BY <1>1, TypeFacts DEF TokenExpires, Others
  <2> QED
    BY <1>1, <2>1, TypeOf, SameJobs, SameAgentsOK DEF TokenExpires
<1>2. ASSUME NEW n \in Nodes, CreateToken(n, t)
      PROVE  TypeInv'
  <2>1. Others
    BY <1>2, TypeFacts DEF CreateToken, Others
  <2> QED
    BY <1>2, <2>1, TypeOf, SameJobs, SameAgentsOK DEF CreateToken
<1> QED
  BY <1>1, <1>2

LEMMA AgeTypes ==
    ASSUME TypeInv, NEW n \in Nodes, HeartbeatAges(n), downs' = downs, use' = use
    PROVE  TypeInv'
<1> DEFINE r == [row[n] EXCEPT !.beat = "stale"]
<1>1. row' = [row EXCEPT ![n] = r]
  BY Zenon DEF HeartbeatAges
<1>2. r \in Rows
  <2>1. row[n] \in Rows
    BY TypeFacts
  <2> QED
    BY <2>1 DEF Rows
<1> HIDE DEF r
<1>3. Others
  BY <1>1, <1>2, TypeFacts DEF HeartbeatAges, Others
<1> QED
  BY <1>3, TypeOf, SameJobs, SameAgentsOK DEF HeartbeatAges

LEMMA AgentTypes ==
    ASSUME TypeInv, NEW n \in Nodes, AgentStops(n) \/ AgentStarts(n), downs' \in Nat, use' = use
    PROVE  TypeInv' /\ \A m \in Nodes : Rises(agent[m], agent'[m])
<1> DEFINE g == IF AgentStarts(n) THEN Started ELSE [agent[n] EXCEPT !.up = FALSE]
<1>1. agent[n] \in Agents /\ Sustained(agent[n])
  BY TypeFacts
<1>2. agent' = [agent EXCEPT ![n] = g]
  <2>1. CASE AgentStarts(n)
    BY <2>1 DEF AgentStarts
  <2>2. CASE ~AgentStarts(n)
    <3>1. agent' = [agent EXCEPT ![n].up = FALSE]
      BY <2>2 DEF AgentStops
    <3> QED
      BY <2>2, <3>1, Zenon
  <2> QED
    BY <2>1, <2>2
<1>3. g \in Agents /\ Sustained(g) /\ Rises(agent[n], g)
  <2>1. CASE AgentStarts(n)
    <3>1. g = Started
      BY <2>1
    <3>2. Started \in Agents /\ Started.reported = None /\ Started.streak = 0
          /\ Len(Started.recent) = 0
      BY DEF Started, Agents
    <3> HIDE DEF g
    <3> QED
      BY <3>1, <3>2, RecoveryAssumption DEF Sustained, Rises
  <2>2. CASE ~AgentStarts(n)
    <3>1. g \in Agents /\ g.reported = agent[n].reported /\ g.streak = agent[n].streak
          /\ g.recent = agent[n].recent
      BY <1>1, <2>2 DEF Agents
    <3>2. agent[n].reported \in Nat \cup {None}
      BY <1>1, AgentFields
    <3> HIDE DEF g
    <3> QED
      BY <1>1, <3>1, <3>2 DEF Sustained, Rises
  <2> QED
    BY <2>1, <2>2
<1> HIDE DEF g
<1>4. /\ agent' \in [Nodes -> Agents] /\ agent'[n] = g
      /\ \A m \in Nodes : m # n => agent'[m] = agent[m]
  BY <1>2, <1>3, TypeFacts
<1>5. ASSUME NEW m \in Nodes
      PROVE  Sustained(agent'[m]) /\ Rises(agent[m], agent'[m])
  <2>1. CASE m = n
    BY <1>3, <1>4, <2>1
  <2>2. CASE m # n
    <3>1. agent[m].reported \in Nat \cup {None} /\ Sustained(agent[m])
      BY TypeFacts, AgentFields
    <3> QED
      BY <1>4, <2>2, <3>1 DEF Rises
  <2> QED
    BY <2>1, <2>2
<1>6. AgentsOK'
  BY <1>4, <1>5 DEF AgentsOK, Sustained
<1>7. UNCHANGED <<row, lock, job, sess, offered, drawn, held, enrolments>>
  BY DEF AgentStops, AgentStarts
<1>8. Others /\ JobsOK'
  BY <1>7, TypeFacts, SameJobs DEF Others
<1> QED
  BY <1>5, <1>6, <1>8, TypeOf

-----------------------------------------------------------------------------
\* The next-state relation, sorted by who takes the step.
AgentStep == \E n \in Nodes : AgentStops(n) \/ AgentStarts(n)

QuietStep ==
    \/ \E s \in Sessions : TerminateSession(s)
    \/ \E t \in Tokens : TokenExpires(t) \/ \E n \in Nodes : CreateToken(n, t)
    \/ \E n \in Nodes : HeartbeatAges(n)

FleetStep ==
    \/ PollTick
    \/ \E n \in Nodes : PollStep(n)
    \/ \E j \in Requests : AdminStep(j) \/ AdminBegins(j)
    \/ \E j \in Requests : CreateStep(j)
    \/ \E j \in Requests, s \in Sessions : SelectBegin(j, s)
    \/ QuietStep

LEMMA StepsOf ==
    ASSUME TypeInv, Next
    PROVE  /\ use' = use /\ downs' \in Nat
           /\ AgentStep \/ (FleetStep /\ downs' = downs)
<1>1. use.requests \subseteq Requests /\ use.sessions \subseteq Sessions /\ use.tokens \subseteq Tokens
      /\ downs \in Nat
  BY TypeFacts DEF Uses
<1>2. CASE Proceed /\ UNCHANGED <<downs, use>>
  BY <1>1, <1>2 DEF Proceed, RequestStep, FleetStep, QuietStep
<1>3. CASE Environment /\ UNCHANGED <<downs, use>>
  <2>1. CASE \E j \in use.requests : AdminBegins(j)
    BY <1>1, <1>3, <2>1 DEF FleetStep
  <2>2. CASE \E j \in use.requests, s \in use.sessions : SelectBegin(j, s)
    BY <1>1, <1>3, <2>2 DEF FleetStep
  <2>3. CASE \E n \in Nodes, t \in use.tokens : CreateToken(n, t)
    BY <1>1, <1>3, <2>3 DEF FleetStep, QuietStep
  <2>4. CASE (\E s \in Sessions : TerminateSession(s)) \/ \E t \in Tokens : TokenExpires(t)
    BY <1>1, <1>3, <2>4 DEF FleetStep, QuietStep
  <2>5. CASE \E n \in Nodes : AgentStarts(n)
    BY <1>1, <1>3, <2>5 DEF AgentStep
  <2> QED
    BY <1>3, <2>1, <2>2, <2>3, <2>4, <2>5 DEF Environment
<1>4. CASE (\E n \in Nodes : AgentStops(n)) /\ downs' = downs + 1 /\ UNCHANGED use
  BY <1>1, <1>4 DEF AgentStep
<1> QED
  BY <1>2, <1>3, <1>4 DEF Next

LEMMA QuietTypes ==
    ASSUME TypeInv, QuietStep, downs' = downs, use' = use
    PROVE  TypeInv'
<1>1. CASE \E s \in Sessions : TerminateSession(s)
  BY <1>1, TerminateTypes
<1>2. CASE \E t \in Tokens : TokenExpires(t) \/ \E n \in Nodes : CreateToken(n, t)
  BY <1>2, TokenTypes
<1>3. CASE \E n \in Nodes : HeartbeatAges(n)
  BY <1>3, AgeTypes
<1> QED
  BY <1>1, <1>2, <1>3 DEF QuietStep

LEMMA TypeStep ==
    ASSUME TypeInv, [Next]_vars
    PROVE  TypeInv'
<1>1. CASE UNCHANGED vars
  BY <1>1 DEF vars, nodeVars, TypeInv, TypeOK, StoreTypeOK, Shape, Carries, Sustained
<1>2. CASE Next
  <2>1. use' = use /\ downs' \in Nat /\ (AgentStep \/ (FleetStep /\ downs' = downs))
    BY <1>2, StepsOf
  <2>2. CASE AgentStep
    BY <2>1, <2>2, AgentTypes DEF AgentStep
  <2>3. CASE FleetStep /\ downs' = downs
    <3>1. CASE PollTick \/ \E n \in Nodes : PollStep(n)
      <4>1. \E n \in Nodes : PollTick \/ PollStep(n)
        BY <3>1, NodeAssumption
      <4> QED
        BY <2>1, <2>3, <4>1, PollTypes
    <3>2. CASE \E j \in Requests : AdminStep(j) \/ AdminBegins(j)
      BY <2>1, <2>3, <3>2, AdminTypes
    <3>3. CASE \E j \in Requests : CreateStep(j)
      BY <2>1, <2>3, <3>3, CreateTypes
    <3>4. CASE \E j \in Requests, s \in Sessions : SelectBegin(j, s)
      BY <2>1, <2>3, <3>4, BeginTypes
    <3>5. CASE QuietStep
      BY <2>1, <2>3, <3>5, QuietTypes
    <3> QED
      BY <2>3, <3>1, <3>2, <3>3, <3>4, <3>5 DEF FleetStep
  <2> QED
    BY <2>1, <2>2, <2>3
<1> QED
  BY <1>1, <1>2

\* What every fleet starts from.
LEMMA StartFacts ==
    ASSUME Init
    PROVE  /\ row \in [Nodes -> Rows] /\ (\A n \in Nodes : row[n].status # "DEGRADED")
           /\ use \in Uses /\ use.ceiling \in Nat
           /\ job = [j \in Jobs |-> Idle] /\ sess = [s \in Sessions |-> Unplaced]
           /\ lock = Untouched /\ held = Untouched
           /\ offered = {} /\ drawn = {} /\ enrolments = 0 /\ downs = 0
           /\ agent \in [Nodes -> Agents]
           /\ \A n \in Nodes : Sustained(agent[n])
<1>1. PICK st \in Starts : InitFrom(st)
  BY DEF Init
<1>2. /\ st.rows \in [Nodes -> Rows] /\ (\A n \in Nodes : st.rows[n].status # "DEGRADED")
      /\ st.use \in Uses
  BY StartAssumption
<1>3. row = st.rows /\ use = st.use
  BY <1>1 DEF InitFrom
<1>4. use.ceiling \in Nat
  BY <1>2, <1>3 DEF Uses
<1>5. ASSUME NEW n \in Nodes
      PROVE  agent[n] \in Agents /\ Sustained(agent[n])
  <2> DEFINE b == n \in st.up
             g == [Started EXCEPT !.up = b]
  <2>1. agent[n] = g
    BY <1>1 DEF InitFrom
  <2>2. b \in BOOLEAN
    OBVIOUS
  <2> HIDE DEF b
  <2>3. g \in Agents
    <3>1. Started \in Agents
      BY DEF Started, Agents
    <3> QED
      BY <2>2, <3>1 DEF Agents
  <2>4. g.reported = None /\ g.streak = 0 /\ Len(g.recent) = 0
    BY <2>2 DEF Started
  <2> HIDE DEF g
  <2> QED
    BY <2>1, <2>3, <2>4, RecoveryAssumption DEF Sustained
<1>6. agent = [n \in Nodes |-> agent[n]]
  BY <1>1 DEF InitFrom
<1>7. agent \in [Nodes -> Agents]
  BY <1>5, <1>6
<1> QED
  BY <1>1, <1>2, <1>3, <1>4, <1>5, <1>7 DEF InitFrom

LEMMA TypeInit ==
    ASSUME Init
    PROVE  TypeInv
<1>1. ASSUME NEW j \in Jobs
      PROVE  job[j] = Idle
  BY StartFacts
<1>2. \A j \in Jobs : Shape(j, job[j]) /\ \A n \in Nodes : Carries(job[j], n)
  BY <1>1, IdleType
<1>3. job \in [Jobs -> Handlers]
  BY StartFacts, IdleType
<1>4. sess \in [Sessions -> Placements]
  <2>1. Unplaced \in Placements
    BY DEF Unplaced, Placements
  <2> QED
    BY <2>1, StartFacts
<1>5. lock \in [Nodes -> Jobs \cup {None}] /\ held \in [Nodes -> Tokens \cup {None}]
  BY StartFacts DEF Untouched
<1> QED
  BY <1>2, <1>3, <1>4, <1>5, StartFacts DEF TypeInv, TypeOK, StoreTypeOK

LEMMA TypeInvariant == Spec => []TypeInv
<1>1. Init => TypeInv
  BY TypeInit
<1>2. TypeInv /\ [Next]_vars => TypeInv'
  BY TypeStep
<1> QED
  BY <1>1, <1>2, PTL DEF Spec

\* Rows, locks, agents, placements, tokens and jobs keep their types.
THEOREM NodeTypes == Spec => []TypeOK
<1>1. TypeInv => TypeOK
  BY DEF TypeInv
<1> QED
  BY <1>1, TypeInvariant, PTL

-----------------------------------------------------------------------------
\* What an agent reports rises only after a full streak.
LEMMA AskRises ==
    ASSUME TypeInv, NEW j \in Jobs, NEW a \in Nodes, NEW n \in Nodes, NEW old \in Rows,
           Report(j, a, n, old), use' = use, NEW m \in Nodes
    PROVE  Rises(agent[m], agent'[m])
  BY ReportMoves

LEMMA SameRises ==
    ASSUME TypeInv, agent' = agent, NEW m \in Nodes
    PROVE  Rises(agent[m], agent'[m])
<1>1. agent[m].reported \in Nat \cup {None}
  BY TypeFacts, AgentFields
<1> QED
  BY <1>1 DEF Rises

\* Who asks an agent, and for which row.
LEMMA Asking ==
    ASSUME TypeInv, FleetStep, agent' # agent
    PROVE  \E j \in Jobs, a \in Nodes, n \in Nodes, old \in Rows : Report(j, a, n, old)
<1>1. CASE PollTick \/ QuietStep \/ \E j \in Requests, s \in Sessions : SelectBegin(j, s)
  BY <1>1 DEF PollTick, QuietStep, SelectBegin, TerminateSession, TokenExpires, CreateToken,
              HeartbeatAges
<1>2. CASE \E j \in Requests : AdminStep(j) \/ AdminBegins(j)
  BY <1>2 DEF AdminStep, AdminBegins, AdminCommit, EnrollCommit, AdminLoad, EnrollPost
<1>3. ASSUME NEW n \in Nodes, PollStep(n)
      PROVE  \E j \in Jobs, a \in Nodes, m \in Nodes, old \in Rows : Report(j, a, m, old)
  <2>1. n \in Jobs /\ Shape(n, job[n]) /\ Default \in Nodes /\ row[Default] \in Rows
    BY JobFacts, TypeFacts, NodeAssumption DEF Jobs
  <2>2. CASE PollAsk(n)
    <3> DEFINE old == Loaded(n, n)
               a == ConnectionForNode(n, old)
    <3>1. Reached(n, old) /\ Report(n, a, n, old)
      BY <2>2 DEF PollAsk
    <3>2. old \in Rows
      BY <2>1, <2>2 DEF PollAsk, Shape, At, Loaded
    <3> HIDE DEF old
    <3>3. a \in Nodes
      BY <3>1, <3>2, Connections
    <3> HIDE DEF a
    <3> QED
      BY <2>1, <3>1, <3>2, <3>3
  <2>3. CASE PollAskDefault(n)
    <3>1. Report(n, Default, Default, row[Default])
      BY <2>3 DEF PollAskDefault
    <3> QED
      BY <2>1, <3>1
  <2> QED
    BY <1>3, <2>2, <2>3 DEF PollStep, PollLoad, PollWrite
<1>4. ASSUME NEW j \in Requests, CreateStep(j)
      PROVE  \E k \in Jobs, a \in Nodes, m \in Nodes, old \in Rows : Report(k, a, m, old)
  <2>1. j \in Jobs /\ Shape(j, job[j]) /\ Default \in Nodes /\ row[Default] \in Rows
    BY JobFacts, TypeFacts, NodeAssumption DEF Jobs
  <2>2. ASSUME NEW n \in Nodes, SelectAsk(j, n)
        PROVE  \E k \in Jobs, a \in Nodes, m \in Nodes, old \in Rows : Report(k, a, m, old)
    <3> DEFINE old == Loaded(j, n)
               a == ConnectionForNode(n, old)
    <3>1. Reached(n, old) /\ Report(j, a, n, old)
      BY <2>2 DEF SelectAsk
    <3>2. old \in Rows
      BY <2>1, <2>2 DEF SelectAsk, Shape, At, Loaded
    <3> HIDE DEF old
    <3>3. a \in Nodes
      BY <3>1, <3>2, Connections
    <3> HIDE DEF a
    <3> QED
      BY <2>1, <3>1, <3>2, <3>3
  <2>3. CASE SelectAskDefault(j)
    <3>1. Report(j, Default, Default, row[Default])
      BY <2>3 DEF SelectAskDefault
    <3> QED
      BY <2>1, <3>1
  <2> QED
    BY <1>4, <2>2, <2>3 DEF CreateStep, SelectFlush, DeadlockAbort, SelectPick, PlaceSession
<1> QED
  BY <1>1, <1>2, <1>3, <1>4 DEF FleetStep

LEMMA RiseStep ==
    ASSUME TypeInv, [Next]_vars, NEW m \in Nodes
    PROVE  Rises(agent[m], agent'[m])
<1>1. CASE agent' = agent
  BY <1>1, SameRises
<1>2. CASE Next /\ agent' # agent
  <2>1. use' = use /\ downs' \in Nat /\ (AgentStep \/ FleetStep)
    BY <1>2, StepsOf
  <2>2. CASE AgentStep
    BY <2>1, <2>2, AgentTypes DEF AgentStep
  <2>3. CASE FleetStep
    BY <1>2, <2>1, <2>3, Asking, AskRises
  <2> QED
    BY <2>1, <2>2, <2>3
<1> QED
  BY <1>1, <1>2 DEF vars, nodeVars

\* A reported capacity rises only when the last capacity_recovery_polls
\* readings were all above what was reported (_CapacityHysteresis.apply).
THEOREM RisesAreSustained == Spec => RiseSustained
<1>1. ASSUME TypeInv, [Next]_vars
      PROVE  \A n \in Nodes :
                LET old == agent[n].reported
                    new == agent'[n].reported
                    recent == agent'[n].recent
                IN old # None /\ new # None /\ new > old =>
                       /\ Len(recent) = RecoveryPolls
                       /\ \A i \in 1 .. RecoveryPolls : recent[i] > old
  BY <1>1, RiseStep DEF Rises
<1> QED
  BY <1>1, TypeInvariant, PTL DEF Spec, RiseSustained

-----------------------------------------------------------------------------
\* Who writes rows: the commits, and time.
LEMMA RowSteps ==
    ASSUME TypeInv, FleetStep, row' # row
    PROVE  \/ \E n \in Nodes : HeartbeatAges(n)
           \/ \E j \in Jobs : CommitRows(j) /\ job' = [job EXCEPT ![j] = Idle]
<1>1. CASE PollTick \/ \E j \in Requests, s \in Sessions : SelectBegin(j, s)
  BY <1>1 DEF PollTick, SelectBegin
<1>2. CASE QuietStep
  BY <1>2 DEF QuietStep, TerminateSession, TokenExpires, CreateToken
<1>3. ASSUME NEW n \in Nodes, PollStep(n)
      PROVE  CommitRows(n) /\ job' = [job EXCEPT ![n] = Idle] /\ n \in Jobs
  BY <1>3 DEF PollStep, PollLoad, PollAsk, PollAskDefault, PollWrite, CommitRow, Finish, Go, Jobs
<1>4. ASSUME NEW j \in Requests, AdminStep(j) \/ AdminBegins(j)
      PROVE  CommitRows(j) /\ job' = [job EXCEPT ![j] = Idle] /\ j \in Jobs
  <2>1. CASE AdminStep(j)
    BY <2>1 DEF AdminStep, AdminCommit, EnrollCommit, CommitRow, Finish, Go, Jobs
  <2>2. CASE AdminBegins(j)
    BY <2>2 DEF AdminBegins, AdminLoad, EnrollPost
  <2> QED
    BY <1>4, <2>1, <2>2
<1>5. ASSUME NEW j \in Requests, CreateStep(j)
      PROVE  CommitRows(j) /\ job' = [job EXCEPT ![j] = Idle] /\ j \in Jobs
  BY <1>5 DEF CreateStep, SelectAsk, SelectAskDefault, SelectFlush, DeadlockAbort, SelectPick,
              PlaceSession, Finish, Go, Jobs
<1> QED
  BY <1>1, <1>2, <1>3, <1>4, <1>5 DEF FleetStep

\* The status a row gets.
LEMMA RowPlain ==
    ASSUME TypeInv, HoldInv, FleetStep, NEW n \in Nodes
    PROVE  row'[n].status # "DEGRADED"
<1>1. row[n] \in Rows /\ row[n].status # "DEGRADED" /\ row \in [Nodes -> Rows]
  BY TypeFacts DEF HoldInv
<1>2. CASE row' = row
  BY <1>1, <1>2
<1>3. ASSUME NEW m \in Nodes, HeartbeatAges(m)
      PROVE  row'[n].status = row[n].status
  <2>1. row' = [row EXCEPT ![m] = [row[m] EXCEPT !.beat = "stale"]]
    BY <1>3, Zenon DEF HeartbeatAges
  <2>2. row[m] \in Rows
    BY TypeFacts
  <2> QED
    BY <1>1, <2>1, <2>2 DEF Rows
<1>4. ASSUME NEW j \in Jobs, CommitRows(j)
      PROVE  row'[n].status # "DEGRADED"
  <2> DEFINE old == job[j].old[n]
             new == job[j].new[n]
  <2>1. \/ row'[n] = row[n]
        \/ new # None /\ new \in Rows /\ row'[n] = Merge(row[n], old, new)
    BY <1>4, CommitType
  <2>2. Plain(new)
    BY DEF HoldInv
  <2> HIDE DEF old, new
  <2>3. CASE new # None /\ new \in Rows /\ row'[n] = Merge(row[n], old, new)
    <3>1. row'[n].status = IF new.status = old.status THEN row[n].status ELSE new.status
      BY <1>1, <2>3, MergeType
    <3> QED
      BY <1>1, <2>2, <2>3, <3>1 DEF Plain
  <2> QED
    BY <1>1, <2>1, <2>3
<1>5. CASE row' # row
  BY <1>1, <1>3, <1>4, <1>5, RowSteps
<1> QED
  BY <1>2, <1>5

JobPlain(q) == \A n \in Nodes : Plain(q.old[n]) /\ Plain(q.new[n])

LEMMA IdlePlain == JobPlain(Idle)
  BY IdleFields DEF JobPlain, Plain

LEMMA AskPlain ==
    ASSUME TypeInv, HoldInv, NEW j \in Jobs, NEW a \in Nodes, NEW n \in Nodes, NEW old \in Rows,
           Report(j, a, n, old), use' = use, old = row[n] \/ old = job[j].old[n]
    PROVE  \A k \in Jobs : JobPlain(job'[k])
<1>1. Heard(j, a, n, old)
  BY ReportMoves
<1>2. old.status # "DEGRADED"
  BY NullAssumption DEF HoldInv, Plain
<1>3. \A k \in Jobs : JobPlain(job[k])
  BY DEF HoldInv, JobPlain
<1>4. NextStatus(old) # "DEGRADED"
  BY <1>2 DEF NextStatus, AdminHold
<1>5. ASSUME NEW m \in Nodes
      PROVE  Plain(job'[j].old[m]) /\ Plain(job'[j].new[m])
  <2>1. CASE m = n
    BY <1>1, <1>2, <1>4, <2>1 DEF Heard, Plain
  <2>2. CASE m # n
    BY <1>1, <1>3, <2>2 DEF Heard, JobPlain
  <2> QED
    BY <2>1, <2>2
<1> QED
  BY <1>1, <1>3, <1>5 DEF Heard, JobPlain

LEMMA JobsPlain ==
    ASSUME TypeInv, HoldInv, FleetStep, use' = use, NEW k \in Jobs
    PROVE  JobPlain(job'[k])
<1>1. \A j \in Jobs : JobPlain(job[j])
  BY DEF HoldInv, JobPlain
<1>2. job \in [Jobs -> Handlers] /\ Default \in Nodes /\ row \in [Nodes -> Rows]
  BY TypeFacts, NodeAssumption
<1>3. ASSUME NEW n \in Nodes
      PROVE  Plain(row[n])
  BY DEF HoldInv, Plain
<1>4. ASSUME NEW j \in Jobs, Finish(j)
      PROVE  JobPlain(job'[k])
  BY <1>1, <1>2, <1>4, IdlePlain DEF Finish, Go
<1>5. ASSUME NEW j \in Jobs, NEW pc, NEW node, NEW todo, Moves(j, pc, node, todo)
      PROVE  JobPlain(job'[k])
  BY <1>1, <1>5 DEF Moves, JobPlain
<1>6. CASE job' = job
  BY <1>1, <1>6
<1>7. CASE PollTick
  <2>1. JobPlain(job[k])
    BY <1>1
  <2> QED
    BY <1>7, <2>1, TickMoves, IdleFields DEF JobPlain, Plain
<1>8. CASE QuietStep
  BY <1>6, <1>8 DEF QuietStep, TerminateSession, TokenExpires, CreateToken, HeartbeatAges
<1>9. ASSUME NEW n \in Nodes, PollStep(n)
      PROVE  JobPlain(job'[k])
  <2>1. n \in Jobs /\ Shape(n, job[n])
    BY JobFacts DEF Jobs
  <2>2. CASE PollLoad(n)
    <3>1. CASE Go(n, [job[n] EXCEPT !.pc = "ask", !.old[n] = row[n]])
      <4>1. /\ \A m \in Jobs : m # n => job'[m] = job[m]
            /\ job'[n].new = job[n].new /\ job'[n].old[n] = row[n]
            /\ \A m \in Nodes : m # n => job'[n].old[m] = job[n].old[m]
        BY <3>1, LoadMoves
      <4>2. JobPlain(job'[n])
        BY <1>1, <1>3, <2>1, <4>1 DEF JobPlain
      <4> QED
        BY <1>1, <4>1, <4>2
    <3> QED
      BY <1>4, <2>1, <2>2, <3>1 DEF PollLoad
  <2>3. CASE PollAsk(n)
    <3> DEFINE old == Loaded(n, n)
               a == ConnectionForNode(n, old)
    <3>1. CASE Reached(n, old) /\ Report(n, a, n, old)
      <4>1. old \in Rows /\ old = job[n].old[n]
        BY <2>1, <2>3 DEF PollAsk, Shape, At, Loaded
      <4>2. Reached(n, old) /\ Report(n, a, n, old)
        BY <3>1
      <4> HIDE DEF old
      <4>3. a \in Nodes
        BY <4>1, <4>2, Connections
      <4> HIDE DEF a
      <4> QED
        BY <2>1, <4>1, <4>2, <4>3, AskPlain
    <3> QED
      BY <1>4, <2>1, <2>3, <3>1 DEF PollAsk
  <2>4. CASE PollAskDefault(n)
    <3>1. CASE Report(n, Default, Default, row[Default])
      BY <1>2, <2>1, <3>1, AskPlain
    <3> QED
      BY <1>4, <2>1, <2>4, <3>1 DEF PollAskDefault
  <2>5. CASE PollWrite(n)
    BY <1>4, <2>1, <2>5 DEF PollWrite
  <2> QED
    BY <1>9, <2>2, <2>3, <2>4, <2>5 DEF PollStep
<1>10. ASSUME NEW j \in Requests, AdminStep(j) \/ AdminBegins(j)
       PROVE  JobPlain(job'[k])
  <2>1. j \in Jobs
    BY DEF Jobs
  <2>2. CASE AdminStep(j)
    BY <1>4, <2>1, <2>2 DEF AdminStep, AdminCommit, EnrollCommit
  <2>3. ASSUME NEW n \in Nodes, NEW pc, NEW op, NEW new, Touches(j, pc, op, n, row[n], new),
               Plain(new)
        PROVE  JobPlain(job'[k])
    <3>1. \A m \in Nodes : Plain(None)
      BY DEF Plain
    <3> QED
      BY <1>1, <1>3, <2>3, <3>1 DEF Touches, JobPlain
  <2>4. ASSUME NEW n \in Nodes, NEW op \in AdminOps, AdminLoad(j, n, op)
        PROVE  JobPlain(job'[k])
    <3>1. Plain(Changed(op, row[n]))
      BY <1>2, ChangedPlain DEF HoldInv, Plain
    <3> QED
      BY <2>1, <2>3, <2>4, <3>1, AdminLoadMoves
  <2>5. ASSUME NEW n \in Nodes, EnrollPost(j, n)
        PROVE  JobPlain(job'[k])
    <3>1. CASE job' = job
      BY <1>6, <3>1
    <3>2. CASE Touches(j, "enroll", "enroll", n, row[n], Enrolled(n))
                 /\ Enrolled(n).status = "OFFLINE"
      <4>1. Plain(Enrolled(n))
        BY <3>2 DEF Plain
      <4> QED
        BY <2>3, <3>2, <4>1
    <3> QED
      BY <2>1, <2>5, <3>1, <3>2, EnrollPostMoves
  <2> QED
    BY <1>10, <2>2, <2>4, <2>5 DEF AdminBegins
<1>11. ASSUME NEW j \in Requests, CreateStep(j)
       PROVE  JobPlain(job'[k])
  <2>1. j \in Jobs /\ Shape(j, job[j])
    BY JobFacts DEF Jobs
  <2>2. ASSUME NEW n \in Nodes, SelectAsk(j, n)
        PROVE  JobPlain(job'[k])
    <3> DEFINE old == Loaded(j, n)
               a == ConnectionForNode(n, old)
    <3>1. CASE Reached(n, old) /\ Report(j, a, n, old)
      <4>1. old \in Rows /\ old = job[j].old[n]
        BY <2>1, <2>2 DEF SelectAsk, Shape, Loaded
      <4>2. Reached(n, old) /\ Report(j, a, n, old)
        BY <3>1
      <4> HIDE DEF old
      <4>3. a \in Nodes
        BY <4>1, <4>2, Connections
      <4> HIDE DEF a
      <4> QED
        BY <2>1, <4>1, <4>2, <4>3, AskPlain
    <3>2. CASE Go(j, [job[j] EXCEPT !.todo = @ \ {n}])
      BY <1>5, <2>1, <3>2, SkipMoves
    <3> QED
      BY <2>2, <3>1, <3>2 DEF SelectAsk
  <2>3. CASE SelectAskDefault(j)
    <3>1. CASE Report(j, Default, Default, row[Default])
      BY <1>2, <2>1, <3>1, AskPlain
    <3> QED
      BY <1>4, <2>1, <2>3, <3>1 DEF SelectAskDefault
  <2>4. CASE SelectFlush(j)
    <3> DEFINE n == job[j].node
    <3>1. n \in Nodes
      BY <2>1, <2>4 DEF SelectFlush, Shape, At
    <3>2. CASE Go(j, [job[j] EXCEPT !.pc = "select", !.todo = @ \ {n}])
      <4>1. Go(j, [job[j] EXCEPT !.pc = "select", !.todo = @ \ {n}])
        BY <3>2
      <4> HIDE DEF n
      <4> QED
        BY <1>5, <2>1, <3>1, <4>1, FlushMoves
    <3> QED
      BY <1>4, <2>1, <2>4, <3>2 DEF SelectFlush
  <2>5. CASE SelectPick(j)
    <3> DEFINE n == Best(j)
    <3>1. CASE Candidates(j) # {} /\ Go(j, [job[j] EXCEPT !.pc = "create", !.node = n])
      <4>1. n \in Nodes /\ Go(j, [job[j] EXCEPT !.pc = "create", !.node = n])
        BY <2>1, <2>5, <3>1, BestCandidate DEF SelectPick
      <4> HIDE DEF n
      <4> QED
        BY <1>5, <2>1, <4>1, PickMoves
    <3> QED
      BY <1>4, <2>1, <2>5, <3>1 DEF SelectPick
  <2>6. CASE DeadlockAbort(j) \/ \E ok \in BOOLEAN : PlaceSession(j, ok)
    BY <1>4, <2>1, <2>6 DEF DeadlockAbort, PlaceSession
  <2> QED
    BY <1>11, <2>2, <2>3, <2>4, <2>5, <2>6 DEF CreateStep
<1>12. ASSUME NEW j \in Requests, NEW s \in Sessions, SelectBegin(j, s)
       PROVE  JobPlain(job'[k])
  <2>1. j \in Jobs
    BY DEF Jobs
  <2>2. \A m \in Nodes : Plain(None)
    BY DEF Plain
  <2> QED
    BY <1>1, <1>3, <1>12, <2>1, <2>2, BeginMoves, IdleFields DEF JobPlain
<1> QED
  BY <1>7, <1>8, <1>9, <1>10, <1>11, <1>12 DEF FleetStep

LEMMA HoldStep ==
    ASSUME TypeInv, HoldInv, [Next]_vars
    PROVE  HoldInv'
<1>1. CASE UNCHANGED vars
  BY <1>1 DEF vars, nodeVars, HoldInv, Plain
<1>2. CASE Next
  <2>1. use' = use /\ (AgentStep \/ FleetStep)
    BY <1>2, StepsOf
  <2>2. CASE AgentStep
    BY <2>2 DEF AgentStep, AgentStops, AgentStarts, HoldInv, Plain
  <2>3. CASE FleetStep
    <3>1. \A n \in Nodes : row'[n].status # "DEGRADED"
      BY <2>3, RowPlain
    <3>2. \A k \in Jobs : JobPlain(job'[k])
      BY <2>1, <2>3, JobsPlain
    <3> QED
      BY <3>1, <3>2 DEF HoldInv, JobPlain, Plain
  <2> QED
    BY <2>1, <2>2, <2>3
<1> QED
  BY <1>1, <1>2

LEMMA HoldInvariant == Spec => [](TypeInv /\ HoldInv)
<1>1. Init => TypeInv /\ HoldInv
  <2>1. ASSUME Init
        PROVE  HoldInv
    <3>1. \A j \in Jobs : job[j] = Idle
      BY <2>1, StartFacts
    <3> QED
      BY <2>1, <3>1, StartFacts, IdlePlain DEF HoldInv, JobPlain
  <2> QED
    BY <2>1, TypeInit
<1>2. TypeInv /\ HoldInv /\ [Next]_vars => (TypeInv /\ HoldInv)'
  BY TypeStep, HoldStep
<1> QED
  BY <1>1, <1>2, PTL DEF Spec

\* A heartbeat that changes a status had loaded the status OFFLINE.
LEMMA HoldStays ==
    ASSUME TypeInv, HoldInv, [Next]_vars, NEW n \in Nodes,
           row[n].status \in AdminHold, row'[n].status # row[n].status
    PROVE  \E j \in Jobs : /\ job[j].new[n] # None
                           /\ job'[j] = Idle
                           /\ \/ job[j].op \in AdminOps \cup {"enroll"}
                              \/ Loaded(j, n).status = "OFFLINE"
<1>1. row' # row /\ row \in [Nodes -> Rows] /\ row[n] \in Rows
  BY TypeFacts
<1>2. FleetStep
  <2>1. ~(UNCHANGED vars)
    BY <1>1 DEF vars, nodeVars
  <2>2. ~AgentStep
    BY <1>1 DEF AgentStep, AgentStops, AgentStarts
  <2> QED
    BY <2>1, <2>2, StepsOf
<1>3. ASSUME NEW m \in Nodes, HeartbeatAges(m)
      PROVE  FALSE
  <2>1. row' = [row EXCEPT ![m] = [row[m] EXCEPT !.beat = "stale"]]
    BY <1>3, Zenon DEF HeartbeatAges
  <2>2. row[m] \in Rows
    BY TypeFacts
  <2> QED
    BY <1>1, <2>1, <2>2 DEF Rows
<1>4. PICK j \in Jobs : CommitRows(j) /\ job' = [job EXCEPT ![j] = Idle]
  BY <1>1, <1>2, <1>3, RowSteps
<1> DEFINE old == job[j].old[n]
           new == job[j].new[n]
<1>5. new # None /\ new \in Rows /\ row'[n] = Merge(row[n], old, new)
  BY <1>4, CommitType
<1>6. job'[j] = Idle /\ job[j].op \in AdminOps \cup {"enroll", "none"}
  BY <1>4, TypeFacts, JobFacts, HandlerFields
<1>7. ASSUME job[j].op = "none"
      PROVE  old.status = "OFFLINE"
  <2>1. old \in Rows /\ new.status = NextStatus(old)
    BY <1>5, <1>7, JobFacts DEF Carries
  <2>2. old.status # "DEGRADED"
    BY <2>1, NullAssumption DEF HoldInv, Plain
  <2> HIDE DEF old, new
  <2>3. new.status # old.status
    BY <1>1, <1>5, MergeType
  <2>4. old.status \in Status
    BY <2>1, RowFields
  <2> QED
    BY <2>1, <2>2, <2>3, <2>4 DEF NextStatus, AdminHold, Status
<1> QED
  BY <1>5, <1>6, <1>7 DEF Loaded

\* A drain or a maintenance ends by an administrator, a revocation or an
\* enrolment, or by a heartbeat that had loaded an OFFLINE row before it;
\* never by one that loaded the row ONLINE (apply_node_status,
\* _poll_enrolled_node and select_node write only what they changed).
THEOREM HoldsAreKept == Spec => HoldKept
<1>1. ASSUME TypeInv, HoldInv, [Next]_vars
      PROVE  \A n \in Nodes :
                row[n].status \in AdminHold /\ row'[n].status # row[n].status =>
                    \E j \in Jobs : /\ job[j].new[n] # None
                                    /\ job'[j] = Idle
                                    /\ \/ job[j].op \in AdminOps \cup {"enroll"}
                                       \/ Loaded(j, n).status = "OFFLINE"
  BY <1>1, HoldStays
<1> QED
  BY <1>1, HoldInvariant, PTL DEF Spec, HoldKept

-----------------------------------------------------------------------------
\* Enrolments: every one uses up a token that was drawn for it.
LEMMA CreatePoints ==
    ASSUME TypeInv, NEW j \in Requests, CreateStep(j), use' = use
    PROVE  /\ \A k \in Jobs : k # j => job'[k] = job[k]
           /\ job[j].pc \in {"bootstrap", "select", "write", "create"}
           /\ job'[j].pc \in {"idle", "select", "write", "create"}
           /\ UNCHANGED <<offered, drawn, held, enrolments>>
<1>1. j \in Jobs /\ Shape(j, job[j]) /\ Default \in Nodes /\ row[Default] \in Rows
      /\ job \in [Jobs -> Handlers]
  BY JobFacts, TypeFacts, NodeAssumption DEF Jobs
<1>2. ASSUME Finish(j)
      PROVE  job'[j].pc = "idle" /\ \A k \in Jobs : k # j => job'[k] = job[k]
  BY <1>1, <1>2, IdleFields DEF Finish, Go
<1>3. ASSUME NEW n \in Nodes, SelectAsk(j, n)
      PROVE  /\ job'[j].pc \in {"select", "write"} /\ job[j].pc = "select"
             /\ \A k \in Jobs : k # j => job'[k] = job[k]
  <2> DEFINE old == Loaded(j, n)
             a == ConnectionForNode(n, old)
  <2>1. old \in Rows /\ job[j].pc = "select"
    BY <1>1, <1>3 DEF SelectAsk, Shape, At, Loaded
  <2>2. CASE Reached(n, old) /\ Report(j, a, n, old)
    <3>1. Reached(n, old) /\ Report(j, a, n, old)
      BY <2>2
    <3> HIDE DEF old
    <3>2. a \in Nodes
      BY <2>1, <3>1, Connections
    <3> HIDE DEF a
    <3>3. Heard(j, a, n, old)
      BY <1>1, <2>1, <3>1, <3>2, ReportMoves
    <3> QED
      BY <2>1, <3>3 DEF Heard
  <2>3. CASE Go(j, [job[j] EXCEPT !.todo = @ \ {n}])
    BY <1>1, <2>1, <2>3, SkipMoves DEF Moves
  <2> QED
    BY <1>3, <2>2, <2>3 DEF SelectAsk
<1>4. ASSUME SelectAskDefault(j)
      PROVE  /\ job'[j].pc \in {"idle", "write"} /\ job[j].pc = "bootstrap"
             /\ \A k \in Jobs : k # j => job'[k] = job[k]
  <2>1. CASE Report(j, Default, Default, row[Default])
    BY <1>1, <1>4, <2>1, ReportMoves DEF SelectAskDefault, At, Heard
  <2> QED
    BY <1>2, <1>4, <2>1 DEF SelectAskDefault, At
<1>5. ASSUME SelectFlush(j)
      PROVE  /\ job'[j].pc \in {"idle", "select"} /\ job[j].pc = "write"
             /\ \A k \in Jobs : k # j => job'[k] = job[k]
  <2> DEFINE n == job[j].node
  <2>1. n \in Nodes /\ job[j].pc = "write"
    BY <1>1, <1>5 DEF SelectFlush, Shape, At
  <2>2. CASE Go(j, [job[j] EXCEPT !.pc = "select", !.todo = @ \ {n}])
    <3>1. Go(j, [job[j] EXCEPT !.pc = "select", !.todo = @ \ {n}])
      BY <2>2
    <3> HIDE DEF n
    <3> QED
      BY <1>1, <2>1, <3>1, FlushMoves DEF Moves
  <2> QED
    BY <1>2, <1>5, <2>1, <2>2 DEF SelectFlush
<1>6. ASSUME SelectPick(j)
      PROVE  /\ job'[j].pc \in {"idle", "create"} /\ job[j].pc = "select"
             /\ \A k \in Jobs : k # j => job'[k] = job[k]
  <2> DEFINE n == Best(j)
  <2>1. CASE Candidates(j) # {} /\ Go(j, [job[j] EXCEPT !.pc = "create", !.node = n])
    <3>1. n \in Nodes /\ Go(j, [job[j] EXCEPT !.pc = "create", !.node = n])
      BY <1>1, <1>6, <2>1, BestCandidate DEF SelectPick
    <3> HIDE DEF n
    <3> QED
      BY <1>1, <1>6, <3>1, PickMoves DEF Moves, SelectPick, At
  <2> QED
    BY <1>2, <1>6, <2>1 DEF SelectPick, At
<1>7. ASSUME NEW ok \in BOOLEAN, PlaceSession(j, ok)
      PROVE  /\ job'[j].pc = "idle" /\ job[j].pc = "create"
             /\ \A k \in Jobs : k # j => job'[k] = job[k]
  BY <1>2, <1>7 DEF PlaceSession, At
<1>8. ASSUME DeadlockAbort(j)
      PROVE  /\ job'[j].pc = "idle" /\ job[j].pc = "write"
             /\ \A k \in Jobs : k # j => job'[k] = job[k]
  BY <1>2, <1>8 DEF DeadlockAbort, WaitsFor, At
<1>9. UNCHANGED <<offered, drawn, held, enrolments>>
  BY DEF CreateStep, SelectAsk, SelectAskDefault, SelectFlush, DeadlockAbort, SelectPick,
         PlaceSession
<1> QED
  BY <1>3, <1>4, <1>5, <1>6, <1>7, <1>8, <1>9 DEF CreateStep

\* The poller has nothing to do with the requests.
LEMMA PollSpares ==
    ASSUME TypeInv, NEW n \in Nodes, PollTick \/ PollStep(n), use' = use, NEW k \in Requests
    PROVE  job'[k] = job[k] /\ UNCHANGED <<offered, drawn, held, enrolments, sess>>
<1>1. k \notin Nodes /\ k \in Jobs /\ n # k /\ n \in Jobs /\ job \in [Jobs -> Handlers]
  BY NodeAssumption, TypeFacts DEF Jobs
<1>2. CASE PollTick
  BY <1>1, <1>2, TickMoves DEF PollTick
<1>3. CASE PollStep(n)
  BY <1>1, <1>3 DEF PollStep, PollLoad, PollAsk, PollAskDefault, PollWrite, Report, Finish, Go
<1> QED
  BY <1>2, <1>3

LEMMA Finite ==
    ASSUME TypeInv, EnrolInv
    PROVE  /\ IsFiniteSet(Enrolling) /\ Cardinality(Enrolling) \in Nat
           /\ IsFiniteSet(offered) /\ Cardinality(offered) \in Nat
           /\ IsFiniteSet(drawn) /\ Cardinality(drawn) \in Nat
           /\ enrolments \in Nat
           /\ enrolments + Cardinality(offered) + Cardinality(Enrolling) <= Cardinality(drawn)
<1>1. Enrolling \subseteq Requests /\ offered \subseteq drawn /\ enrolments \in Nat
  BY TypeFacts DEF Enrolling
<1> QED
  BY <1>1, FiniteAssumption, FS_Subset, FS_CardinalityType DEF EnrolInv

\* Steps that neither begin nor end an enrolment.
LEMMA SameEnrolling ==
    ASSUME TypeInv, EnrolInv, UNCHANGED <<drawn, enrolments>>, offered' \subseteq offered,
           \A k \in Requests : (job'[k].pc = "enroll") => (job[k].pc = "enroll")
    PROVE  EnrolInv'
<1>1. Enrolling' \subseteq Enrolling
  BY DEF Enrolling, At
<1>2. /\ Cardinality(Enrolling') <= Cardinality(Enrolling) /\ Cardinality(Enrolling') \in Nat
      /\ Cardinality(offered') <= Cardinality(offered) /\ Cardinality(offered') \in Nat
  BY <1>1, Finite, FS_Subset, FS_CardinalityType
<1> QED
  BY <1>2, Finite DEF EnrolInv

LEMMA EnrollPostStep ==
    ASSUME TypeInv, EnrolInv, NEW j \in Requests, NEW n \in Nodes, EnrollPost(j, n)
    PROVE  EnrolInv'
<1>1. j \in Jobs /\ UNCHANGED <<drawn, enrolments>> /\ offered' = offered \ {held[n]}
  BY EnrollPostMoves DEF Jobs, EnrollPost
<1>2. CASE job' = job
  BY <1>1, <1>2, SameEnrolling
<1>3. CASE Touches(j, "enroll", "enroll", n, row[n], Enrolled(n)) /\ held[n] \in offered
  <2>1. job[j].pc = "idle"
    BY <1>1, EnrollPostMoves
  <2>2. Enrolling' = Enrolling \cup {j} /\ j \notin Enrolling
    BY <1>3, <2>1 DEF Enrolling, At, Touches, Jobs
  <2>3. /\ Cardinality(Enrolling') = Cardinality(Enrolling) + 1
        /\ Cardinality(offered') = Cardinality(offered) - 1
    BY <1>1, <1>3, <2>2, Finite, FS_AddElement, FS_RemoveElement
  <2> QED
    BY <1>1, <2>3, Finite DEF EnrolInv
<1> QED
  BY <1>1, <1>2, <1>3, EnrollPostMoves

LEMMA EnrollCommitStep ==
    ASSUME TypeInv, EnrolInv, NEW j \in Requests, NEW answered, EnrollCommit(j, answered)
    PROVE  EnrolInv'
<1>1. /\ UNCHANGED <<offered, drawn>> /\ job[j].pc = "enroll" /\ Finish(j)
      /\ enrolments' \in {enrolments, enrolments + 1}
  BY Finite DEF EnrollCommit, At
<1>2. job' = [job EXCEPT ![j] = Idle] /\ job \in [Jobs -> Handlers]
  BY <1>1, TypeFacts DEF Finish, Go
<1>3. Enrolling' = Enrolling \ {j} /\ j \in Enrolling
  BY <1>1, <1>2, IdleFields DEF Enrolling, At, Jobs
<1>4. Cardinality(Enrolling') = Cardinality(Enrolling) - 1
  BY <1>3, Finite, FS_RemoveElement
<1> QED
  BY <1>1, <1>4, Finite DEF EnrolInv

LEMMA CreateTokenStep ==
    ASSUME TypeInv, EnrolInv, NEW n, NEW t, CreateToken(n, t)
    PROVE  EnrolInv'
<1>1. /\ drawn' = drawn \cup {t} /\ offered' = offered \cup {t} /\ t \notin drawn /\ t \notin offered
      /\ job' = job /\ enrolments' = enrolments
  BY TypeFacts DEF CreateToken
<1>2. /\ Cardinality(drawn') = Cardinality(drawn) + 1 /\ IsFiniteSet(drawn')
      /\ Cardinality(offered') = Cardinality(offered) + 1
  BY <1>1, Finite, FS_AddElement
<1>3. Enrolling' = Enrolling
  BY <1>1 DEF Enrolling, At
<1> QED
  BY <1>1, <1>2, <1>3, Finite DEF EnrolInv

LEMMA EnrolStep ==
    ASSUME TypeInv, EnrolInv, [Next]_vars
    PROVE  EnrolInv'
<1>1. CASE job' = job /\ UNCHANGED <<offered, drawn, enrolments>>
  BY <1>1, SameEnrolling
<1>2. CASE UNCHANGED vars
  BY <1>1, <1>2 DEF vars, nodeVars
<1>3. CASE Next
  <2>1. use' = use /\ (AgentStep \/ FleetStep)
    BY <1>3, StepsOf
  <2>2. CASE AgentStep
    BY <1>1, <2>2 DEF AgentStep, AgentStops, AgentStarts
  <2>3. ASSUME NEW n \in Nodes, PollTick \/ PollStep(n)
        PROVE  EnrolInv'
    <3>1. Requests # {}
      BY FiniteAssumption
    <3>2. \A k \in Requests : job'[k] = job[k] /\ UNCHANGED <<offered, drawn, enrolments>>
      BY <2>1, <2>3, PollSpares
    <3> QED
      BY <3>1, <3>2, SameEnrolling
  <2>4. ASSUME NEW j \in Requests, AdminStep(j) \/ AdminBegins(j)
        PROVE  EnrolInv'
    <3>1. j \in Jobs /\ job \in [Jobs -> Handlers] /\ Requests \subseteq Jobs
      BY TypeFacts DEF Jobs
    <3>2. CASE AdminCommit(j)
      BY <3>1, <3>2, IdleFields, SameEnrolling DEF AdminCommit, Finish, Go
    <3>3. ASSUME NEW n \in Nodes, NEW op \in AdminOps, AdminLoad(j, n, op)
          PROVE  EnrolInv'
      <4>1. Touches(j, "admin", op, n, row[n], Changed(op, row[n]))
        BY <3>1, <3>3, AdminLoadMoves
      <4>2. \A k \in Requests : (job'[k].pc = "enroll") => (job[k].pc = "enroll")
        BY <3>1, <4>1 DEF Touches
      <4> QED
        BY <3>3, <4>2, SameEnrolling DEF AdminLoad
    <3> QED
      BY <2>4, <3>2, <3>3, EnrollCommitStep, EnrollPostStep DEF AdminStep, AdminBegins
  <2>5. ASSUME NEW j \in Requests, CreateStep(j)
        PROVE  EnrolInv'
    <3>1. \A k \in Requests : (job'[k].pc = "enroll") => (job[k].pc = "enroll")
      BY <2>1, <2>5, CreatePoints DEF Jobs
    <3>2. UNCHANGED <<offered, drawn, enrolments>>
      BY <2>1, <2>5, CreatePoints
    <3> QED
      BY <3>1, <3>2, SameEnrolling
  <2>6. ASSUME NEW j \in Requests, NEW s \in Sessions, SelectBegin(j, s)
        PROVE  EnrolInv'
    <3>1. \A k \in Requests : (job'[k].pc = "enroll") => (job[k].pc = "enroll")
      BY <2>6, BeginMoves DEF Jobs
    <3> QED
      BY <2>6, <3>1, SameEnrolling DEF SelectBegin
  <2>7. CASE QuietStep
    <3>1. ASSUME NEW t \in Tokens, TokenExpires(t)
          PROVE  EnrolInv'
      BY <3>1, SameEnrolling DEF TokenExpires
    <3>2. CASE \/ \E s \in Sessions : TerminateSession(s)
               \/ \E n \in Nodes : HeartbeatAges(n)
      BY <1>1, <3>2 DEF TerminateSession, HeartbeatAges
    <3> QED
      BY <2>7, <3>1, <3>2, CreateTokenStep DEF QuietStep
  <2> QED
    BY <2>1, <2>2, <2>3, <2>4, <2>5, <2>6, <2>7, NodeAssumption DEF FleetStep
<1> QED
  BY <1>2, <1>3

LEMMA EnrolInvariant == Spec => [](TypeInv /\ EnrolInv)
<1>1. Init => TypeInv /\ EnrolInv
  <2>1. ASSUME Init
        PROVE  EnrolInv
    <3>1. Enrolling = {} /\ offered = {} /\ drawn = {} /\ enrolments = 0
      BY <2>1, StartFacts, IdleFields DEF Enrolling, At, Jobs
    <3> QED
      BY <3>1, FS_EmptySet DEF EnrolInv
  <2> QED
    BY <2>1, TypeInit
<1>2. TypeInv /\ EnrolInv /\ [Next]_vars => (TypeInv /\ EnrolInv)'
  BY TypeStep, EnrolStep
<1> QED
  BY <1>1, <1>2, PTL DEF Spec

\* A token enrols one host once: GETDEL takes it before enroll_node writes,
\* whatever the agent repeats and whatever answers are lost.
THEOREM TokensEnrolOnce == Spec => []EnrolledOnce
<1>1. TypeInv /\ EnrolInv => EnrolledOnce
  BY Finite DEF EnrolledOnce
<1> QED
  BY <1>1, EnrolInvariant, PTL

-----------------------------------------------------------------------------
\* Room on a host: who has found some, and who has taken it.
LEMMA BoundFinite ==
    ASSUME NEW a
    PROVE  /\ IsFiniteSet(Bound(a)) /\ Cardinality(Bound(a)) \in Nat
           /\ Cardinality(Bound(a)) <= Cardinality(Requests)
           /\ Cardinality(Requests) \in Nat \ {0}
<1>1. Bound(a) \subseteq Requests
  BY DEF Bound
<1>2. /\ IsFiniteSet(Bound(a)) /\ Cardinality(Bound(a)) \in Nat
      /\ Cardinality(Bound(a)) <= Cardinality(Requests)
  BY <1>1, FiniteAssumption, FS_Subset, FS_CardinalityType
<1>3. Cardinality(Requests) \in Nat /\ Cardinality(Requests) # 0
  BY FiniteAssumption, FS_EmptySet, FS_CardinalityType
<1> QED
  BY <1>2, <1>3

\* Nobody new has found room, and nobody new runs.
LEMMA NoMore ==
    ASSUME TypeInv, NEW a \in Nodes, RoomLeft(a), use' = use,
           Bound(a)' \subseteq Bound(a), RunningOn(a)' \subseteq RunningOn(a)
    PROVE  RoomLeft(a)'
<1>1. /\ Cardinality(Bound(a)') <= Cardinality(Bound(a)) /\ Cardinality(Bound(a)') \in Nat
      /\ Cardinality(RunningOn(a)') <= Cardinality(RunningOn(a))
      /\ Cardinality(RunningOn(a)') \in Nat
  BY BoundFinite, RunningFinite, FS_Subset, FS_CardinalityType
<1>2. /\ Cardinality(Bound(a)) \in Nat /\ Cardinality(RunningOn(a)) \in Nat
      /\ use.ceiling \in Nat /\ Cardinality(Requests) \in Nat
  BY BoundFinite, RunningFinite, TypeFacts
<1> QED
  BY <1>1, <1>2 DEF RoomLeft

\* An agent that says it has room does not run as many as its ceiling.
LEMMA RoomFound ==
    ASSUME TypeInv, NEW a \in Nodes, use' = use, sess' = sess,
           Cardinality(RunningOn(a)) < use.ceiling
    PROVE  RoomLeft(a)'
<1>1. RunningOn(a)' = RunningOn(a)
  BY DEF RunningOn
<1>2. IsFiniteSet(Bound(a)') /\ Cardinality(Bound(a)') \in Nat
      /\ Cardinality(Bound(a)') <= Cardinality(Requests)
  <2>1. Bound(a)' \subseteq Requests
    BY DEF Bound
  <2> QED
    BY <2>1, FiniteAssumption, FS_Subset, FS_CardinalityType
<1>3. /\ Cardinality(RunningOn(a)) \in Nat /\ use.ceiling \in Nat
      /\ Cardinality(Requests) \in Nat
  BY BoundFinite, RunningFinite, TypeFacts
<1> QED
  BY <1>1, <1>2, <1>3 DEF RoomLeft

\* The request j holds room on agent a.
Holds(q, a) ==
    /\ q.pc \in {"write", "select", "create"}
    /\ \E n \in Nodes : q.new[n] # None /\ HasRoom(q.new[n]) /\ ConnectionForNode(n, q.new[n]) = a

LEMMA BoundBy ==
    ASSUME TypeInv, NEW a \in Nodes, \A j \in Requests : Holds(job'[j], a) => Holds(job[j], a)
    PROVE  Bound(a)' \subseteq Bound(a)
  BY DEF Bound, Holds

\* A request that has asked an agent.
LEMMA AskRoom ==
    ASSUME TypeInv, RoomInv, NEW j \in Requests, NEW a \in Nodes, NEW n \in Nodes, NEW old \in Rows,
           Report(j, a, n, old), use' = use, sess' = sess,
           ConnectionForNode(n, old) \in {a, None},
           job[j].pc = "select" \/ job[j].new = Untouched
    PROVE  RoomInv'
<1> DEFINE new == job'[j].new[n]
<1>1. j \in Jobs
  BY DEF Jobs
<1>2. Heard(j, a, n, old)
  BY <1>1, ReportMoves
<1>3. /\ new \in Rows /\ new.endpoint = old.endpoint /\ new.token = old.token
      /\ new.capacity <= use.ceiling /\ new.active = Cardinality(RunningOn(a))
  BY <1>2 DEF Heard
<1>4. ConnectionForNode(n, new) = ConnectionForNode(n, old)
  BY <1>3 DEF ConnectionForNode
<1>5. ASSUME NEW b \in Nodes
      PROVE  RoomLeft(b)'
  <2>1. RunningOn(b)' = RunningOn(b) /\ RoomLeft(b)
    BY DEF RunningOn, RoomInv
  <2>2. CASE b = a /\ HasRoom(new)
    <3>1. new.active < new.capacity
      BY <2>2 DEF HasRoom
    <3>2. new.active \in Nat /\ new.capacity \in Nat /\ use.ceiling \in Nat
      BY <1>3, RowFields, TypeFacts
    <3> HIDE DEF new
    <3>3. Cardinality(RunningOn(a)) < use.ceiling
      BY <1>3, <3>1, <3>2
    <3> QED
      BY <2>2, <3>3, RoomFound
  <2>3. CASE ~(b = a /\ HasRoom(new))
    <3>1. ASSUME NEW k \in Requests, Holds(job'[k], b)
          PROVE  Holds(job[k], b)
      <4>1. CASE k # j
        BY <1>2, <3>1, <4>1 DEF Heard, Jobs
      <4>2. CASE k = j
        <5>1. PICK m \in Nodes : /\ job'[j].new[m] # None /\ HasRoom(job'[j].new[m])
                                 /\ ConnectionForNode(m, job'[j].new[m]) = b
          BY <3>1, <4>2 DEF Holds
        <5>2. m # n
          BY <1>4, <2>3, <5>1, NodeAssumption
        <5>3. job'[j].new[m] = job[j].new[m]
          BY <1>2, <5>2 DEF Heard
        <5>4. job[j].pc = "select"
          BY <5>1, <5>3, IdleFields
        <5> QED
          BY <4>2, <5>1, <5>3, <5>4 DEF Holds
      <4> QED
        BY <4>1, <4>2
    <3>2. Bound(b)' \subseteq Bound(b)
      BY <3>1, BoundBy
    <3> QED
      BY <2>1, <3>2, NoMore
  <2> QED
    BY <2>2, <2>3
<1> QED
  BY <1>5 DEF RoomInv

\* Steps in which no request finds room and no sandbox starts.
LEMMA SameRoom ==
    ASSUME TypeInv, RoomInv, use' = use,
           \A a \in Nodes, j \in Requests : Holds(job'[j], a) => Holds(job[j], a),
           \A s \in Sessions : sess'[s].at \in {sess[s].at, None}
    PROVE  RoomInv'
<1>1. ASSUME NEW a \in Nodes
      PROVE  RoomLeft(a)'
  <2>1. RunningOn(a)' \subseteq RunningOn(a)
    BY NodeAssumption DEF RunningOn
  <2>2. Bound(a)' \subseteq Bound(a) /\ RoomLeft(a)
    BY BoundBy DEF RoomInv
  <2> QED
    BY <2>1, <2>2, NoMore
<1> QED
  BY <1>1 DEF RoomInv

LEMMA IdleHolds == \A a : ~Holds(Idle, a)
  BY IdleFields DEF Holds

\* The sandbox that starts takes the room its request held.
LEMMA PlaceRoom ==
    ASSUME TypeInv, RoomInv, NEW j \in Requests, NEW ok, PlaceSession(j, ok), use' = use
    PROVE  RoomInv'
<1> DEFINE n == job[j].node
           r == job[j].new[n]
           a == ConnectionForNode(n, r)
           runs == ok /\ Reached(n, r)
           s == job[j].sess
<1>1. j \in Jobs /\ Shape(j, job[j]) /\ job \in [Jobs -> Handlers]
  BY JobFacts, TypeFacts DEF Jobs
<1>2. /\ job[j].pc = "create" /\ n \in Nodes /\ r # None /\ HasRoom(r)
      /\ job' = [job EXCEPT ![j] = Idle]
  BY <1>1 DEF PlaceSession, At, Shape, Finish, Go
<1>3. job'[j] = Idle /\ \A k \in Requests : k # j => job'[k] = job[k]
  BY <1>1, <1>2 DEF Jobs
<1>4. \A b \in Nodes, k \in Requests : Holds(job'[k], b) => Holds(job[k], b) /\ k # j
  BY <1>3, IdleHolds
<1>5. \A x \in Sessions : x # s => sess'[x] = sess[x]
  BY TypeFacts DEF PlaceSession
<1>6. s \in Sessions => sess'[s].at = IF runs THEN a ELSE None
  BY TypeFacts DEF PlaceSession
<1>7. runs => Holds(job[j], a) /\ a # None
  BY <1>2 DEF Holds, Reached
<1> HIDE DEF n, r, a, runs, s
<1>8. ASSUME NEW b \in Nodes
      PROVE  RoomLeft(b)'
  <2>1. RoomLeft(b) /\ b # None
    BY NodeAssumption DEF RoomInv
  <2>2. Bound(b)' \subseteq Bound(b) /\ j \notin Bound(b)'
    BY <1>4 DEF Bound, Holds
  <2>3. CASE runs /\ b = a
    <3>1. RunningOn(b)' \subseteq RunningOn(b) \cup {s}
      BY <1>5 DEF RunningOn
    <3>2. j \in Bound(b)
      BY <1>7, <2>3 DEF Bound, Holds
    <3>3. Bound(b)' \subseteq Bound(b) \ {j}
      BY <2>2
    <3>4. Cardinality(Bound(b)') <= Cardinality(Bound(b)) - 1 /\ Cardinality(Bound(b)') \in Nat
      <4>1. IsFiniteSet(Bound(b)) /\ IsFiniteSet(Bound(b) \ {j})
        BY BoundFinite, FS_RemoveElement
      <4>2. Cardinality(Bound(b) \ {j}) = Cardinality(Bound(b)) - 1
        BY <3>2, <4>1, FS_RemoveElement
      <4>3. /\ Cardinality(Bound(b)') <= Cardinality(Bound(b) \ {j})
            /\ IsFiniteSet(Bound(b)')
        BY <3>3, <4>1, FS_Subset
      <4> QED
        BY <4>2, <4>3, FS_CardinalityType
    <3>5. /\ Cardinality(RunningOn(b)') <= Cardinality(RunningOn(b)) + 1
          /\ Cardinality(RunningOn(b)') \in Nat
      <4>1. IsFiniteSet(RunningOn(b)) /\ Cardinality(RunningOn(b)) \in Nat
        BY RunningFinite
      <4>2. /\ IsFiniteSet(RunningOn(b) \cup {s})
            /\ Cardinality(RunningOn(b) \cup {s}) <= Cardinality(RunningOn(b)) + 1
        BY <4>1, FS_AddElement
      <4>3. /\ Cardinality(RunningOn(b)') <= Cardinality(RunningOn(b) \cup {s})
            /\ IsFiniteSet(RunningOn(b)')
        BY <3>1, <4>2, FS_Subset
      <4>4. /\ Cardinality(RunningOn(b) \cup {s}) \in Nat /\ Cardinality(RunningOn(b)') \in Nat
        BY <4>2, <4>3, FS_CardinalityType
      <4> QED
        BY <4>1, <4>2, <4>3, <4>4
    <3>6. /\ Cardinality(Bound(b)) \in Nat /\ Cardinality(RunningOn(b)) \in Nat
          /\ use.ceiling \in Nat /\ Cardinality(Requests) \in Nat
      BY BoundFinite, RunningFinite, TypeFacts
    <3> QED
      BY <2>1, <3>4, <3>5, <3>6 DEF RoomLeft
  <2>4. CASE ~(runs /\ b = a)
    <3>1. RunningOn(b)' \subseteq RunningOn(b)
      BY <1>5, <1>6, <2>1, <2>4 DEF RunningOn
    <3> QED
      BY <2>1, <2>2, <3>1, NoMore
  <2> QED
    BY <2>3, <2>4
<1> QED
  BY <1>8 DEF RoomInv

LEMMA CreateRoom ==
    ASSUME TypeInv, RoomInv, NEW j \in Requests, CreateStep(j), use' = use
    PROVE  RoomInv'
<1>1. /\ j \in Jobs /\ Shape(j, job[j]) /\ Default \in Nodes /\ row[Default] \in Rows
      /\ job \in [Jobs -> Handlers] /\ Requests \subseteq Jobs
  BY JobFacts, TypeFacts, NodeAssumption DEF Jobs
<1>2. \A s \in Sessions : sess' = sess => sess'[s].at \in {sess[s].at, None}
  OBVIOUS
<1>3. ASSUME Finish(j), sess' = sess
      PROVE  RoomInv'
  <2>1. \A a \in Nodes, k \in Requests : Holds(job'[k], a) => Holds(job[k], a)
    BY <1>1, <1>3, IdleHolds DEF Finish, Go
  <2> QED
    BY <1>2, <1>3, <2>1, SameRoom
<1>4. ASSUME NEW pc, NEW node, NEW todo, Moves(j, pc, node, todo), sess' = sess,
             job[j].pc \in {"write", "select", "create"}
      PROVE  RoomInv'
  <2>1. \A a \in Nodes, k \in Requests : Holds(job'[k], a) => Holds(job[k], a)
    BY <1>1, <1>4 DEF Moves, Holds
  <2> QED
    BY <1>2, <1>4, <2>1, SameRoom
<1>5. ASSUME NEW n \in Nodes, SelectAsk(j, n)
      PROVE  RoomInv'
  <2> DEFINE old == Loaded(j, n)
             a == ConnectionForNode(n, old)
  <2>1. job[j].pc = "select" /\ sess' = sess /\ old \in Rows
    BY <1>1, <1>5 DEF SelectAsk, At, Shape, Loaded
  <2>2. CASE Reached(n, old) /\ Report(j, a, n, old)
    <3>1. Reached(n, old) /\ Report(j, a, n, old)
      BY <2>2
    <3> HIDE DEF old
    <3>2. a \in Nodes /\ ConnectionForNode(n, old) = a
      BY <2>1, <3>1, Connections
    <3> HIDE DEF a
    <3> QED
      BY <2>1, <3>1, <3>2, AskRoom
  <2>3. CASE Go(j, [job[j] EXCEPT !.todo = @ \ {n}])
    BY <1>1, <1>4, <2>1, <2>3, SkipMoves
  <2> QED
    BY <1>5, <2>2, <2>3 DEF SelectAsk
<1>6. CASE SelectAskDefault(j)
  <2>1. sess' = sess /\ job[j].new = Untouched
    BY <1>1, <1>6 DEF SelectAskDefault, At, Shape
  <2>2. CASE Report(j, Default, Default, row[Default])
    <3>1. ConnectionForNode(Default, row[Default]) \in {Default, None}
      BY <1>1, Connections
    <3> QED
      BY <1>1, <2>1, <2>2, <3>1, AskRoom
  <2> QED
    BY <1>3, <1>6, <2>1, <2>2 DEF SelectAskDefault
<1>7. CASE SelectFlush(j)
  <2> DEFINE n == job[j].node
  <2>1. n \in Nodes /\ job[j].pc = "write" /\ sess' = sess
    BY <1>1, <1>7 DEF SelectFlush, Shape, At
  <2>2. CASE Go(j, [job[j] EXCEPT !.pc = "select", !.todo = @ \ {n}])
    <3>1. Go(j, [job[j] EXCEPT !.pc = "select", !.todo = @ \ {n}])
      BY <2>2
    <3> HIDE DEF n
    <3> QED
      BY <1>1, <1>4, <2>1, <3>1, FlushMoves
  <2> QED
    BY <1>3, <1>7, <2>1, <2>2 DEF SelectFlush
<1>8. CASE SelectPick(j)
  <2> DEFINE n == Best(j)
  <2>1. CASE Candidates(j) # {} /\ Go(j, [job[j] EXCEPT !.pc = "create", !.node = n])
    <3>1. n \in Nodes /\ Go(j, [job[j] EXCEPT !.pc = "create", !.node = n])
          /\ job[j].pc = "select" /\ sess' = sess
      BY <1>1, <1>8, <2>1, BestCandidate DEF SelectPick, At
    <3> HIDE DEF n
    <3> QED
      BY <1>1, <1>4, <3>1, PickMoves
  <2> QED
    BY <1>3, <1>8, <2>1 DEF SelectPick
<1>9. CASE DeadlockAbort(j)
  BY <1>3, <1>9 DEF DeadlockAbort
<1> QED
  BY <1>5, <1>6, <1>7, <1>8, <1>9, PlaceRoom DEF CreateStep

\* A termination changes one placement.
LEMMA TerminateMoves ==
    ASSUME TypeInv, NEW s \in Sessions, TerminateSession(s)
    PROVE  /\ sess' \in [Sessions -> Placements]
           /\ \A x \in Sessions : x # s => sess'[x] = sess[x]
           /\ \A x \in Sessions : sess'[x].at \in {sess[x].at, None}
           /\ sess'[s].node = sess[s].node /\ sess'[s].replaced = sess[s].replaced
           /\ IF Reached(sess[s].node, row[sess[s].node])
              THEN /\ sess'[s].status = "TERMINATED"
                   /\ sess'[s].at = IF sess[s].at = ConnectionForNode(sess[s].node, row[sess[s].node])
                                    THEN None ELSE sess[s].at
              ELSE sess'[s].status = "FAILED" /\ sess'[s].at = sess[s].at
<1> DEFINE a == ConnectionForNode(sess[s].node, row[sess[s].node])
           answered == Reached(sess[s].node, row[sess[s].node])
           status == IF answered THEN "TERMINATED" ELSE "FAILED"
           at == IF answered /\ sess[s].at = a THEN None ELSE sess[s].at
           p == [sess[s] EXCEPT !.status = status, !.at = at]
<1>1. sess' = [sess EXCEPT ![s] = p]
  BY DEF TerminateSession
<1>2. sess[s] \in Placements /\ sess \in [Sessions -> Placements]
  BY TypeFacts
<1>3. /\ status \in {"TERMINATED", "FAILED"} /\ at \in Nodes \cup {None}
      /\ at \in {sess[s].at, None}
      /\ IF answered THEN status = "TERMINATED" /\ at = IF sess[s].at = a THEN None ELSE sess[s].at
                     ELSE status = "FAILED" /\ at = sess[s].at
  BY <1>2 DEF Placements
<1> HIDE DEF status, at
<1>4. /\ p \in Placements /\ p.status = status /\ p.at = at /\ p.node = sess[s].node
      /\ p.replaced = sess[s].replaced
  BY <1>2, <1>3 DEF Placements
<1> HIDE DEF p
<1>5. /\ sess' \in [Sessions -> Placements] /\ sess'[s] = p
      /\ \A x \in Sessions : x # s => sess'[x] = sess[x]
  BY <1>1, <1>2, <1>4
<1> HIDE DEF answered, a
<1>6. \A x \in Sessions : sess'[x].at \in {sess[x].at, None}
  BY <1>3, <1>4, <1>5
<1> QED
  BY <1>3, <1>4, <1>5, <1>6 DEF answered, a

LEMMA RoomStep ==
    ASSUME TypeInv, RoomInv, [Next]_vars
    PROVE  RoomInv'
<1>1. ASSUME use' = use, sess' = sess,
             \A k \in Requests : \/ job'[k] = job[k]
                                 \/ job'[k].pc \notin {"write", "select", "create"}
                                 \/ job'[k].new = Untouched
      PROVE  RoomInv'
  <2>1. \A a \in Nodes, k \in Requests : Holds(job'[k], a) => Holds(job[k], a)
    BY <1>1, IdleFields DEF Holds
  <2>2. \A s \in Sessions : sess'[s].at \in {sess[s].at, None}
    BY <1>1
  <2> QED
    BY <1>1, <2>1, <2>2, SameRoom
<1>2. CASE UNCHANGED vars
  BY <1>1, <1>2 DEF vars, nodeVars
<1>3. CASE Next
  <2>1. use' = use /\ (AgentStep \/ FleetStep)
    BY <1>3, StepsOf
  <2>2. CASE AgentStep
    BY <1>1, <2>1, <2>2 DEF AgentStep, AgentStops, AgentStarts
  <2>3. ASSUME NEW n \in Nodes, PollTick \/ PollStep(n)
        PROVE  RoomInv'
    <3>1. Requests # {}
      BY FiniteAssumption
    <3>2. \A k \in Requests : job'[k] = job[k] /\ sess' = sess
      BY <2>1, <2>3, PollSpares
    <3> QED
      BY <1>1, <2>1, <3>1, <3>2
  <2>4. ASSUME NEW j \in Requests, AdminStep(j) \/ AdminBegins(j)
        PROVE  RoomInv'
    <3>1. j \in Jobs /\ job \in [Jobs -> Handlers] /\ Requests \subseteq Jobs
      BY TypeFacts DEF Jobs
    <3>2. CASE AdminStep(j)
      <4>1. Finish(j) /\ NoteReplaced
        BY <3>2 DEF AdminStep, AdminCommit, EnrollCommit
      <4>2. \A a \in Nodes, k \in Requests : Holds(job'[k], a) => Holds(job[k], a)
        BY <3>1, <4>1, IdleHolds DEF Finish, Go
      <4>3. ASSUME NEW s \in Sessions
            PROVE  sess'[s].at \in {sess[s].at, None}
        <5>1. sess[s] \in Placements
          BY TypeFacts
        <5>2. sess'[s] = [sess[s] EXCEPT !.replaced = @ \/ Readdressed(s)]
          BY <4>1 DEF NoteReplaced
        <5> QED
          BY <5>1, <5>2 DEF Placements
      <4> QED
        BY <2>1, <4>2, <4>3, SameRoom
    <3>3. ASSUME NEW n \in Nodes, NEW op \in AdminOps, AdminLoad(j, n, op)
          PROVE  RoomInv'
      <4>1. Touches(j, "admin", op, n, row[n], Changed(op, row[n]))
        BY <3>1, <3>3, AdminLoadMoves
      <4> QED
        BY <1>1, <2>1, <3>1, <3>3, <4>1 DEF AdminLoad, Touches
    <3>4. ASSUME NEW n \in Nodes, EnrollPost(j, n)
          PROVE  RoomInv'
      <4>1. job' = job \/ Touches(j, "enroll", "enroll", n, row[n], Enrolled(n))
        BY <3>1, <3>4, EnrollPostMoves
      <4> QED
        BY <1>1, <2>1, <3>1, <3>4, <4>1 DEF EnrollPost, Touches
    <3> QED
      BY <2>4, <3>2, <3>3, <3>4 DEF AdminBegins
  <2>5. ASSUME NEW j \in Requests, NEW s \in Sessions, SelectBegin(j, s)
        PROVE  RoomInv'
    <3>1. j \in Jobs /\ Requests \subseteq Jobs
      BY DEF Jobs
    <3> QED
      BY <1>1, <2>1, <2>5, <3>1, BeginMoves DEF SelectBegin
  <2>6. CASE QuietStep
    <3>1. CASE \/ \E t \in Tokens : TokenExpires(t) \/ \E n \in Nodes : CreateToken(n, t)
               \/ \E n \in Nodes : HeartbeatAges(n)
      BY <1>1, <2>1, <3>1 DEF TokenExpires, CreateToken, HeartbeatAges
    <3>2. ASSUME NEW s \in Sessions, TerminateSession(s)
          PROVE  RoomInv'
      <4>1. \A x \in Sessions : sess'[x].at \in {sess[x].at, None}
        BY <3>2, TerminateMoves
      <4>2. \A a \in Nodes, k \in Requests : Holds(job'[k], a) => Holds(job[k], a)
        BY <3>2 DEF TerminateSession
      <4> QED
        BY <2>1, <4>1, <4>2, SameRoom
    <3> QED
      BY <2>6, <3>1, <3>2 DEF QuietStep
  <2> QED
    BY <2>1, <2>2, <2>3, <2>4, <2>5, <2>6, CreateRoom, NodeAssumption DEF FleetStep
<1> QED
  BY <1>2, <1>3

LEMMA RoomInvariant == Spec => [](TypeInv /\ RoomInv)
<1>1. Init => TypeInv /\ RoomInv
  <2>1. ASSUME Init
        PROVE  RoomInv
    <3>1. ASSUME NEW a \in Nodes
          PROVE  RunningOn(a) = {} /\ Bound(a) = {}
      <4>1. \A s \in Sessions : sess[s].at = None
        BY <2>1, StartFacts DEF Unplaced
      <4>2. \A j \in Requests : job[j] = Idle
        BY <2>1, StartFacts DEF Jobs
      <4> QED
        BY <4>1, <4>2, IdleFields, NodeAssumption DEF RunningOn, Bound
    <3>2. Cardinality(Requests) \in Nat \ {0} /\ use.ceiling \in Nat
      BY <2>1, BoundFinite, StartFacts
    <3>3. Cardinality({}) = 0
      BY FS_EmptySet
    <3>4. ASSUME NEW a \in Nodes
          PROVE  RoomLeft(a)
      <4>1. Cardinality(RunningOn(a)) = 0 /\ Cardinality(Bound(a)) = 0
        BY <3>1, <3>3
      <4> QED
        BY <3>2, <4>1 DEF RoomLeft
    <3> QED
      BY <3>4 DEF RoomInv
  <2> QED
    BY <2>1, TypeInit
<1>2. TypeInv /\ RoomInv /\ [Next]_vars => (TypeInv /\ RoomInv)'
  <2>1. ASSUME TypeInv, RoomInv, [Next]_vars
        PROVE  TypeInv' /\ RoomInv'
    BY <2>1, TypeStep, RoomStep
  <2> QED
    BY <2>1
<1> QED
  BY <1>1, <1>2, PTL DEF Spec

\* A host never runs more than its configured ceiling and the creations that
\* had asked its agent before the last one started (select_node asks, the
\* sandbox starts later, nothing is reserved in between).
THEOREM OvershootIsBounded == Spec => []CapacityOvershoot
<1>1. TypeInv /\ RoomInv => CapacityOvershoot
  <2>1. ASSUME TypeInv, RoomInv, NEW n \in Nodes
        PROVE  Cardinality(RunningOn(n)) <= use.ceiling + Cardinality(Requests) - 1
    <3>1. RoomLeft(n)
      BY <2>1 DEF RoomInv
    <3>2. /\ Cardinality(Bound(n)) \in Nat /\ Cardinality(RunningOn(n)) \in Nat
          /\ use.ceiling \in Nat /\ Cardinality(Requests) \in Nat
      BY <2>1, BoundFinite, RunningFinite, TypeFacts
    <3> QED
      BY <3>1, <3>2 DEF RoomLeft
  <2> QED
    BY <2>1 DEF CapacityOvershoot
<1> QED
  BY <1>1, RoomInvariant, PTL

-----------------------------------------------------------------------------
\* Containers run where the calls about their sessions go.
\* A heartbeat writes no address.
LEMMA AddressKept ==
    ASSUME TypeInv, NEW j \in Jobs, CommitRows(j), job[j].op = "none", NEW n \in Nodes
    PROVE  row'[n].endpoint = row[n].endpoint
<1> DEFINE old == job[j].old[n]
           new == job[j].new[n]
<1>1. \/ row'[n] = row[n]
      \/ new # None /\ new \in Rows /\ row'[n] = Merge(row[n], old, new)
  BY CommitType
<1>2. new # None => new.endpoint = old.endpoint
  BY JobFacts DEF Carries
<1>3. row[n] \in Rows
  BY TypeFacts
<1> HIDE DEF old, new
<1> QED
  BY <1>1, <1>2, <1>3, MergeType

\* A session none of whose sides has changed.
SameSession(s) ==
    /\ sess'[s] = sess[s]
    /\ sess[s].node \in Nodes => row'[sess[s].node].endpoint = row[sess[s].node].endpoint

Fine(s) ==
    /\ sess[s].status = "TERMINATED" /\ ~sess[s].replaced => sess[s].at = None
    /\ Reachable(s)

LEMMA FineStays ==
    ASSUME NEW s \in Sessions, Fine(s), SameSession(s)
    PROVE  Fine(s)'
  BY DEF Fine, SameSession, Reachable, Answers

LEMMA GoneBy ==
    /\ GoneInv <=> \A s \in Sessions : Fine(s)
    /\ (\A s \in Sessions : Fine(s)') => GoneInv'
  BY DEF GoneInv, TerminatedIsGone, Fine

LEMMA SameGone ==
    ASSUME GoneInv, sess' = sess, \A n \in Nodes : row'[n].endpoint = row[n].endpoint
    PROVE  GoneInv'
<1>1. \A s \in Sessions : Fine(s) /\ SameSession(s)
  BY GoneBy DEF SameSession
<1> QED
  BY <1>1, FineStays, GoneBy

\* A commit that gives or takes an address notes it with the sessions there.
LEMMA NotedGone ==
    ASSUME TypeInv, GoneInv, NoteReplaced
    PROVE  GoneInv'
<1>1. ASSUME NEW s \in Sessions
      PROVE  Fine(s)'
  <2> DEFINE p == sess[s]
             b == p.replaced \/ Readdressed(s)
             q == [p EXCEPT !.replaced = b]
  <2>1. sess'[s] = q /\ p \in Placements /\ Fine(s)
    BY TypeFacts, GoneBy DEF NoteReplaced
  <2>2. b \in BOOLEAN
    BY <2>1 DEF Placements, Readdressed
  <2>3. ~b => ~p.replaced /\ (p.node \in Nodes => row'[p.node].endpoint = row[p.node].endpoint)
    BY DEF Readdressed
  <2> HIDE DEF p, b
  <2>4. q.status = p.status /\ q.node = p.node /\ q.at = p.at /\ q.replaced = b
    BY <2>1, <2>2 DEF Placements
  <2> HIDE DEF q
  <2> QED
    BY <2>1, <2>3, <2>4 DEF Fine, Reachable, Answers, p
<1> QED
  BY <1>1, GoneBy

\* A new session runs on the agent its row was loaded with; if the row has
\* got or lost an address since, that is noted.
LEMMA PlaceGone ==
    ASSUME TypeInv, GoneInv, NEW j \in Requests, NEW ok, PlaceSession(j, ok)
    PROVE  GoneInv'
<1> DEFINE n == job[j].node
           r == job[j].new[n]
           old == Loaded(j, n)
           a == ConnectionForNode(n, r)
           runs == ok /\ Reached(n, r)
           moved == old.endpoint # row[n].endpoint
           status == IF runs THEN "ACTIVE" ELSE "FAILED"
           at == IF runs THEN a ELSE None
           p == [status |-> status, node |-> n, at |-> at, replaced |-> moved]
<1>1. j \in Jobs /\ Shape(j, job[j]) /\ job[j].pc = "create" /\ \A m \in Nodes : Carries(job[j], m)
  BY JobFacts DEF Jobs, PlaceSession, At
<1>2. n \in Nodes /\ r \in Rows /\ r # None /\ job[j].op = "none"
  BY <1>1 DEF Shape
<1>3. r.endpoint = old.endpoint
  BY <1>1, <1>2 DEF Carries, Loaded
<1>4. sess' = [sess EXCEPT ![job[j].sess] = p] /\ CommitRows(j)
  BY DEF PlaceSession
<1>5. \A m \in Nodes : row'[m].endpoint = row[m].endpoint
  BY <1>1, <1>2, <1>4, AddressKept
<1>6. status # "TERMINATED"
  OBVIOUS
<1> HIDE DEF n, r, old
<1>7. runs => a \in Nodes /\ a = IF r.endpoint THEN n ELSE Default
  BY <1>2, NodeAssumption, Connections
<1> HIDE DEF a, runs
<1>8. at # None => at = IF r.endpoint THEN n ELSE Default
  BY <1>7
<1>9. ~moved => old.endpoint = row[n].endpoint
  OBVIOUS
<1> HIDE DEF status, at, moved
<1>10. ASSUME NEW s \in Sessions
       PROVE  Fine(s)'
  <2>1. Fine(s)
    BY GoneBy
  <2>2. CASE s = job[j].sess
    <3>1. sess'[s] = p
      BY <1>4, <2>2, TypeFacts
    <3>2. sess'[s].status = status /\ sess'[s].node = n /\ sess'[s].at = at
          /\ sess'[s].replaced = moved
      BY <3>1
    <3> QED
      BY <1>2, <1>3, <1>5, <1>6, <1>8, <1>9, <3>2 DEF Fine, Reachable, Answers
  <2>3. CASE s # job[j].sess
    <3>1. sess'[s] = sess[s]
      BY <1>4, <2>3, TypeFacts
    <3> QED
      BY <1>5, <2>1, <3>1, FineStays DEF SameSession
  <2> QED
    BY <2>2, <2>3
<1> QED
  BY <1>10, GoneBy

LEMMA TerminateGone ==
    ASSUME TypeInv, GoneInv, NEW s \in Sessions, TerminateSession(s)
    PROVE  GoneInv'
<1> DEFINE n == sess[s].node
           a == ConnectionForNode(n, row[n])
<1>1. row' = row /\ \A x \in Sessions : x # s => sess'[x] = sess[x]
  BY TerminateMoves DEF TerminateSession
<1>2. \A x \in Sessions : Fine(x)
  BY GoneBy
<1>3. \A x \in Sessions : x # s => Fine(x)'
  BY <1>1, <1>2, FineStays DEF SameSession
<1>4. Fine(s)'
  <2>1. /\ sess'[s].node = n /\ sess'[s].replaced = sess[s].replaced
        /\ sess'[s].at \in {sess[s].at, None}
        /\ IF Reached(n, row[n])
           THEN /\ sess'[s].status = "TERMINATED"
                /\ sess'[s].at = IF sess[s].at = a THEN None ELSE sess[s].at
           ELSE sess'[s].status = "FAILED" /\ sess'[s].at = sess[s].at
    BY TerminateMoves
  <2>2. ~sess[s].replaced /\ sess[s].at # None => n \in Nodes /\ sess[s].at = Answers(n)
    BY <1>2 DEF Fine, Reachable
  <2>3. n \in Nodes /\ Reached(n, row[n]) => a = Answers(n)
    <3>1. ASSUME n \in Nodes, Reached(n, row[n])
          PROVE  a = Answers(n)
      <4>1. row[n] \in Rows
        BY <3>1, TypeFacts
      <4>2. a # None
        BY <3>1 DEF Reached
      <4> HIDE DEF n
      <4> QED
        BY <3>1, <4>1, <4>2, Connections DEF Answers
    <3> QED
      BY <3>1
  <2>4. ~sess'[s].replaced /\ sess'[s].at # None =>
           sess'[s].node \in Nodes /\ sess'[s].at = Answers(n)
    BY <2>1, <2>2
  <2>5. Answers(n)' = IF row'[sess'[s].node].endpoint THEN sess'[s].node ELSE Default
    BY DEF Answers
  <2>6. Reachable(s)'
    BY <1>1, <2>1, <2>4 DEF Reachable, Answers
  <2>7. sess'[s].status = "TERMINATED" /\ ~sess'[s].replaced => sess'[s].at = None
    BY <2>1, <2>2, <2>3
  <2> QED
    BY <2>6, <2>7 DEF Fine
<1> QED
  BY <1>3, <1>4, GoneBy

LEMMA GoneStep ==
    ASSUME TypeInv, GoneInv, [Next]_vars
    PROVE  GoneInv'
<1>1. CASE sess' = sess /\ row' = row
  BY <1>1, SameGone
<1>2. CASE UNCHANGED vars
  BY <1>1, <1>2 DEF vars, nodeVars
<1>3. CASE Next
  <2>1. AgentStep \/ FleetStep
    BY <1>3, StepsOf
  <2>2. CASE AgentStep
    BY <1>1, <2>2 DEF AgentStep, AgentStops, AgentStarts
  <2>3. CASE PollTick
    BY <1>1, <2>3 DEF PollTick
  <2>4. ASSUME NEW n \in Nodes, PollStep(n)
        PROVE  GoneInv'
    <3>1. CASE PollWrite(n)
      <4>1. n \in Jobs /\ CommitRows(n) /\ sess' = sess /\ job[n].pc = "write"
        BY <3>1 DEF PollWrite, CommitRow, Jobs, At
      <4>2. job[n].op = "none"
        BY <4>1, JobFacts DEF Shape
      <4> QED
        BY <4>1, <4>2, AddressKept, SameGone
    <3> QED
      BY <1>1, <2>4, <3>1 DEF PollStep, PollLoad, PollAsk, PollAskDefault
  <2>5. ASSUME NEW j \in Requests, AdminStep(j) \/ AdminBegins(j)
        PROVE  GoneInv'
    <3>1. CASE AdminStep(j)
      BY <3>1, NotedGone DEF AdminStep, AdminCommit, EnrollCommit
    <3>2. CASE AdminBegins(j)
      BY <1>1, <3>2 DEF AdminBegins, AdminLoad, EnrollPost
    <3> QED
      BY <2>5, <3>1, <3>2
  <2>6. ASSUME NEW j \in Requests, CreateStep(j)
        PROVE  GoneInv'
    BY <1>1, <2>6, PlaceGone DEF CreateStep, SelectAsk, SelectAskDefault, SelectFlush,
                                 DeadlockAbort, SelectPick
  <2>7. CASE \E j \in Requests, s \in Sessions : SelectBegin(j, s)
    BY <1>1, <2>7 DEF SelectBegin
  <2>8. CASE QuietStep
    <3>1. CASE \E t \in Tokens : TokenExpires(t) \/ \E n \in Nodes : CreateToken(n, t)
      BY <1>1, <3>1 DEF TokenExpires, CreateToken
    <3>2. ASSUME NEW m \in Nodes, HeartbeatAges(m)
          PROVE  GoneInv'
      <4>1. row' = [row EXCEPT ![m] = [row[m] EXCEPT !.beat = "stale"]] /\ sess' = sess
        BY <3>2, Zenon DEF HeartbeatAges
      <4>2. row[m] \in Rows /\ row \in [Nodes -> Rows]
        BY TypeFacts
      <4>3. \A n \in Nodes : row'[n].endpoint = row[n].endpoint
        BY <4>1, <4>2 DEF Rows
      <4> QED
        BY <4>1, <4>3, SameGone
    <3> QED
      BY <2>8, <3>1, <3>2, TerminateGone DEF QuietStep
  <2> QED
    BY <2>1, <2>2, <2>3, <2>4, <2>5, <2>6, <2>7, <2>8 DEF FleetStep
<1> QED
  BY <1>2, <1>3

LEMMA GoneInvariant == Spec => [](TypeInv /\ GoneInv)
<1>1. Init => TypeInv /\ GoneInv
  <2>1. ASSUME Init
        PROVE  GoneInv
    <3>1. \A s \in Sessions : sess[s].at = None
      BY <2>1, StartFacts DEF Unplaced
    <3> QED
      BY <3>1 DEF GoneInv, TerminatedIsGone, Reachable
  <2> QED
    BY <2>1, TypeInit
<1>2. TypeInv /\ GoneInv /\ [Next]_vars => (TypeInv /\ GoneInv)'
  <2>1. ASSUME TypeInv, GoneInv, [Next]_vars
        PROVE  TypeInv' /\ GoneInv'
    BY <2>1, TypeStep, GoneStep
  <2> QED
    BY <2>1
<1> QED
  BY <1>1, <1>2, PTL DEF Spec

\* A session recorded as TERMINATED has left no container behind: the agent
\* that answered is the one that ran it (connection_for_node fails for a
\* revoked node instead of turning to the default one).
THEOREM TerminatedAreGone == Spec => []TerminatedIsGone
<1>1. GoneInv => TerminatedIsGone
  BY DEF GoneInv
<1> QED
  BY <1>1, GoneInvariant, PTL
=============================================================================
