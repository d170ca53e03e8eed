---------------------------- MODULE PolicyEditing ----------------------------
(***************************************************************************)
(* /admin/policies: drafts, publication, rollback, archiving and attaching *)
(* of policies, and the seeding of the standard templates.  A request      *)
(* decides on the rows it loaded and writes at its commit only the columns *)
(* it changed.                                                             *)
(***************************************************************************)
EXTENDS PolicyStore

\* _build_file_rules refuses to release on a file name's extension.
Acceptable(rules) == \A x \in rules : ~(x.action = "AUTO_RELEASE" /\ x.on = "mime" /\ x.form = "ext")

Draft(rules, content) ==
    [status |-> "DRAFT", rules |-> Fresh(rules), content |-> content]

\* The unique index on the name makes check and insert one step.
CreatePolicy(r, p, n) ==
    /\ Arrives(r, "create")
    /\ ~Exists(p)
    /\ ~Taken(n)
    /\ policy' = [policy EXCEPT ![p] = NewPolicy(n)]
    /\ UNCHANGED <<version, attached, member, group, seeded, rowId, req>>

RenamePolicy(r, p, n) ==
    /\ Arrives(r, "rename")
    /\ Exists(p)
    /\ ~Taken(n)
    /\ policy' = [policy EXCEPT ![p].name = n]
    /\ UNCHANGED <<version, attached, member, group, seeded, rowId, req>>

\* Two drafts created at once get the same number and the second insert
\* fails on uq_policy_version_number, so the append is one step.
CreateDraftVersion(r, p, rules, content) ==
    /\ Arrives(r, "draft")
    /\ Exists(p)
    /\ Acceptable(rules)
    /\ version' = [version EXCEPT ![p] = Append(@, Draft(rules, content))]
    /\ rowId' = rowId + 1
    /\ UNCHANGED <<policy, attached, member, group, seeded, req>>

-----------------------------------------------------------------------------
Editable(row) == row.status = "DRAFT"

\* update_draft_version: the status is checked on the version as loaded.
SaveLoad(r, p, v, rules, content) ==
    /\ Arrives(r, "save")
    /\ v \in VersionsOf(p)
    /\ Editable(version[p][v])
    /\ Acceptable(rules)
    /\ Go(r, [pc |-> "save", p |-> p, v |-> v, rules |-> rules, content |-> content,
              loaded |-> version[p][v].content])
    /\ UNCHANGED tableVars

\* The flush: an UPDATE if content changed, then the DELETE of the rules.
SaveFlush(r) ==
    LET q == req[r] IN
    /\ At(r, "save")
    /\ q.content # q.loaded => ~RowLocked(r, q.p, q.v)
    /\ Go(r, [pc |-> "saving", p |-> q.p, v |-> q.v, rules |-> q.rules, content |-> q.content,
              loaded |-> q.loaded, gone |-> version[q.p][q.v].rules])
    /\ UNCHANGED <<tableVars, left>>

\* A content equal to the one loaded is not written.
Saved(q, v) ==
    [v EXCEPT !.rules = (@ \ q.gone) \cup Fresh(q.rules),
              !.content = IF q.content = q.loaded THEN @ ELSE q.content]

SaveCommit(r) ==
    LET q == req[r] IN
    /\ At(r, "saving")
    /\ version' = [version EXCEPT ![q.p][q.v] = Saved(q, @)]
    /\ rowId' = rowId + 1
    /\ Finish(r)
    /\ UNCHANGED <<policy, attached, member, group, seeded, left>>

-----------------------------------------------------------------------------
\* What a request has loaded that makes version v current: the version, the
\* policy's current version, and that version's status.
Activation(op, p, v) ==
    LET cur == policy[p].cur
    IN  [pc |-> "activate", op |-> op, p |-> p, v |-> v, cur |-> cur,
         was |-> version[p][v].status,
         prev |-> IF cur = 0 THEN "DRAFT" ELSE version[p][cur].status]

PublishLoad(r, p, v) ==
    /\ Arrives(r, "publish")
    /\ Exists(p)
    /\ v \in VersionsOf(p)
    /\ version[p][v].status = "DRAFT"
    /\ Go(r, Activation("publish", p, v))
    /\ UNCHANGED tableVars

RollbackLoad(r, p, v) ==
    /\ Arrives(r, "rollback")
    /\ Exists(p)
    /\ v \in VersionsOf(p)
    /\ version[p][v].status \in {"PUBLISHED", "SUPERSEDED"}
    /\ policy[p].cur # v
    /\ Go(r, Activation("rollback", p, v))
    /\ UNCHANGED tableVars

\* Variant: the version that was current stays as it is.
RetireNothing(q, vs) == vs

\* The version that was current when the request loaded the policy.
Retire(q, vs) ==
    IF q.cur = 0 \/ q.prev = "SUPERSEDED" THEN vs
    ELSE [vs EXCEPT ![q.cur].status = "SUPERSEDED"]

\* A status equal to the one loaded is not written.
Enact(q, vs) ==
    IF q.was = "PUBLISHED" THEN vs ELSE [vs EXCEPT ![q.v].status = "PUBLISHED"]

ActivateCommit(r) ==
    LET q == req[r] IN
    /\ At(r, "activate")
    /\ ~RowLocked(r, q.p, q.v) /\ ~RowLocked(r, q.p, q.cur)
    /\ version' = [version EXCEPT ![q.p] = Enact(q, Retire(q, @))]
    /\ policy' = [policy EXCEPT ![q.p].cur = q.v]
    /\ Finish(r)
    /\ UNCHANGED <<attached, member, group, seeded, rowId, left>>

-----------------------------------------------------------------------------
ArchiveLoad(r, p) ==
    /\ Arrives(r, "archive")
    /\ Exists(p)
    /\ ~policy[p].archived
    /\ \A g \in Groups : <<g, p>> \notin attached
    /\ Go(r, [pc |-> "archive", p |-> p, to |-> TRUE])
    /\ UNCHANGED tableVars

RestoreLoad(r, p) ==
    /\ Arrives(r, "restore")
    /\ Exists(p)
    /\ policy[p].archived
    /\ Go(r, [pc |-> "archive", p |-> p, to |-> FALSE])
    /\ UNCHANGED tableVars

ArchiveCommit(r) ==
    /\ At(r, "archive")
    /\ policy' = [policy EXCEPT ![req[r].p].archived = req[r].to]
    /\ Finish(r)
    /\ UNCHANGED <<version, attached, member, group, seeded, rowId, left>>

AttachLoad(r, g, p) ==
    /\ Arrives(r, "attach")
    /\ Exists(p)
    /\ ~policy[p].archived
    /\ <<g, p>> \notin attached
    /\ Go(r, [pc |-> "attach", g |-> g, p |-> p])
    /\ UNCHANGED tableVars

\* The insert fails when the group is gone or the row is there already.
AttachCommit(r) ==
    LET q == req[r] IN
    /\ At(r, "attach")
    /\ attached' = IF q.g \in group THEN attached \cup {<<q.g, q.p>>} ELSE attached
    /\ Finish(r)
    /\ UNCHANGED <<policy, version, member, group, seeded, rowId, left>>

Detach(r, g, p) ==
    /\ Arrives(r, "detach")
    /\ <<g, p>> \in attached
    /\ attached' = attached \ {<<g, p>>}
    /\ UNCHANGED <<policy, version, member, group, seeded, rowId, req>>

-----------------------------------------------------------------------------
Unseeded == Templates \ seeded

\* seed_standard_policies, at the end of first-run setup and on every
\* deployment.  system_state is locked, so seedings come one after the other;
\* one that meets a policy created meanwhile fails as a whole.
SeedStandardPolicies(rules, content) ==
    /\ "seed" \in use.edits
    /\ left > 0
    /\ left' = left - 1
    /\ \E at \in [Unseeded \ {n \in Names : Taken(n)} -> {p \in Policies : ~Exists(p)}] :
          LET new == {at[n] : n \in DOMAIN at}
              plant(p) == CHOOSE n \in DOMAIN at : at[n] = p
          IN  /\ Cardinality(new) = Cardinality(DOMAIN at)
              /\ policy' = [p \in Policies |->
                               IF p \in new THEN [NewPolicy(plant(p)) EXCEPT !.cur = 1]
                               ELSE policy[p]]
              /\ version' = [p \in Policies |->
                                IF p \in new
                                THEN <<[Draft(rules, content) EXCEPT !.status = "PUBLISHED"]>>
                                ELSE version[p]]
    /\ seeded' = seeded \cup Templates
    /\ rowId' = rowId + 1
    /\ UNCHANGED <<attached, member, group, req>>

-----------------------------------------------------------------------------
EditStep(r) ==
    \/ \E p \in Policies, n \in Names : CreatePolicy(r, p, n) \/ RenamePolicy(r, p, n)
    \/ \E p \in Policies, rules \in use.rules, c \in use.contents :
          CreateDraftVersion(r, p, rules, c)
    \/ \E p \in Policies : \E v \in VersionsOf(p) :
          \/ \E rules \in use.rules, c \in use.contents : SaveLoad(r, p, v, rules, c)
          \/ PublishLoad(r, p, v) \/ RollbackLoad(r, p, v)
    \/ SaveFlush(r) \/ SaveCommit(r) \/ ActivateCommit(r)
    \/ \E p \in Policies : ArchiveLoad(r, p) \/ RestoreLoad(r, p)
    \/ \E p \in Policies, g \in group : AttachLoad(r, g, p) \/ Detach(r, g, p)
    \/ ArchiveCommit(r) \/ AttachCommit(r)
=============================================================================
