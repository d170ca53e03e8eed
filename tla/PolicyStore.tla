----------------------------- MODULE PolicyStore -----------------------------
(***************************************************************************)
(* Policies, their versions and rules, the groups they are attached to and *)
(* the groups' members, as committed in the database, and the requests of  *)
(* administrators that have loaded rows and not committed yet.             *)
(*                                                                         *)
(* A row of file_policy_rules or user_groups carries the number it was     *)
(* inserted under: a DELETE removes the rows its statement saw and no      *)
(* equal row inserted by somebody else.                                    *)
(***************************************************************************)
EXTENDS FiniteSets, Integers, Sequences

CONSTANTS
    Policies,       \* rows of policies
    KindOf,         \* the policy_type of each: "FILE", "SESSION" or "CLIPBOARD"
    Names,          \* policy names
    Templates,      \* the names of STANDARD_POLICIES
    Groups,
    Users,
    Requests,       \* requests served at a time
    Rules,          \* what a file rule says
    Contents,       \* what the content of a version says
    None

ASSUME PolicyAssumption ==
    /\ KindOf \in [Policies -> {"FILE", "SESSION", "CLIPBOARD"}]
    /\ Templates \subseteq Names
    /\ None \notin Names \cup Contents
    /\ IsFiniteSet(Requests)

VARIABLES
    policy,         \* policies; None until the row exists
    version,        \* policy_versions of each policy, by version_number
    attached,       \* group_policies
    member,         \* user_groups
    group,          \* groups
    seeded,         \* system_state.seeded_policy_templates
    req,            \* the requests
    rowId,          \* rows numbered so far
    left,           \* administrative requests still to come
    use             \* what happens in this behaviour; never changes

tableVars == <<policy, version, attached, member, group, seeded, rowId>>

policyVars == <<tableVars, req, left>>

Status == {"DRAFT", "PUBLISHED", "SUPERSEDED"}

\* cur: current_version_id as a version number, 0 for NULL.
PolicyRows == [name : Names, cur : Nat, archived : BOOLEAN]

Versions == [status : Status, rules : SUBSET [rule : Rules, id : Nat], content : Contents]

\* NULL is no row.
ASSUME NullAssumption == None \notin PolicyRows

NewPolicy(n) == [name |-> n, cur |-> 0, archived |-> FALSE]

Idle == [pc |-> "idle"]

\* The operations in use, and how many administrative requests there are.
EditOps == {"create", "rename", "draft", "save", "publish", "rollback", "archive", "restore",
            "attach", "detach", "seed", "group", "members", "set_groups"}

-----------------------------------------------------------------------------
At(r, pc) == req[r].pc = pc

Free(r) == At(r, "idle")

Go(r, q) == req' = [req EXCEPT ![r] = q]

Finish(r) == Go(r, Idle)

\* An administrative request comes in on a free slot.
Arrives(r, op) ==
    /\ op \in use.edits
    /\ Free(r)
    /\ left > 0
    /\ left' = left - 1

Exists(p) == policy[p] # None

Taken(n) == \E p \in Policies : Exists(p) /\ policy[p].name = n

VersionsOf(p) == DOMAIN version[p]

\* A save that changes content has written the version's row; the row is
\* locked until it commits.
RowLocked(r, p, v) ==
    \E q \in Requests \ {r} : /\ At(q, "saving")
                              /\ req[q].p = p
                              /\ req[q].v = v
                              /\ req[q].content # req[q].loaded

\* Inserted rows of a set of values, numbered.
Fresh(values) == {[rule |-> x, id |-> rowId + 1] : x \in values}

GroupsOf(u) == {m.group : m \in {x \in member : x.user = u}}
=============================================================================
