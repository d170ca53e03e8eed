----------------------------- MODULE GroupAdmin -----------------------------
(***************************************************************************)
(* /admin/groups and a user's group set.  Single memberships and groups    *)
(* are written in one statement behind a unique index and foreign keys;    *)
(* replacing a user's groups deletes the rows it sees and inserts its own. *)
(***************************************************************************)
EXTENDS PolicyEditing

\* A flushed insert holds the group's row until its transaction ends.
Referenced(g) == \E q \in Requests : At(q, "regroup") /\ g \in req[q].groups

CreateGroup(r, g) ==
    /\ Arrives(r, "group")
    /\ g \notin group
    /\ group' = group \cup {g}
    /\ UNCHANGED <<policy, version, attached, member, seeded, rowId, req>>

AttachmentsWithout(g) == {x \in attached : x[1] # g}

DeleteGroup(r, g) ==
    /\ Arrives(r, "group")
    /\ g \in group
    /\ ~Referenced(g)
    /\ member' = {m \in member : m.group # g}
    /\ attached' = AttachmentsWithout(g)
    /\ group' = group \ {g}
    /\ UNCHANGED <<policy, version, seeded, rowId, req>>

AddMember(r, u, g) ==
    /\ Arrives(r, "members")
    /\ g \in group
    /\ g \notin GroupsOf(u)
    /\ member' = member \cup {[user |-> u, group |-> g, id |-> rowId + 1]}
    /\ rowId' = rowId + 1
    /\ UNCHANGED <<policy, version, attached, group, seeded, req>>

RemoveMember(r, u, g) ==
    /\ Arrives(r, "members")
    /\ g \in GroupsOf(u)
    /\ member' = {m \in member : m.user # u \/ m.group # g}
    /\ UNCHANGED <<policy, version, attached, group, seeded, rowId, req>>

\* set_groups: validation, the DELETE and the inserts, up to the commit.
SetGroupsFlush(r, u, gs) ==
    /\ Arrives(r, "set_groups")
    /\ gs \subseteq group
    /\ Go(r, [pc |-> "regroup", u |-> u, groups |-> gs,
              gone |-> {m \in member : m.user = u}])
    /\ UNCHANGED tableVars

\* uq_user_group refuses a row that somebody else inserted meanwhile.
SetGroupsCommit(r) ==
    LET q    == req[r]
        kept == member \ q.gone
        ok   == \A m \in kept : ~(m.user = q.u /\ m.group \in q.groups)
        mine == {[user |-> q.u, group |-> g, id |-> rowId + 1] : g \in q.groups}
    IN
    /\ At(r, "regroup")
    /\ member' = IF ok THEN kept \cup mine ELSE member
    /\ rowId' = rowId + 1
    /\ Finish(r)
    /\ UNCHANGED <<policy, version, attached, group, seeded, left>>

-----------------------------------------------------------------------------
GroupStep(r) ==
    \/ \E g \in Groups : CreateGroup(r, g) \/ DeleteGroup(r, g)
    \/ \E u \in Users, g \in Groups : AddMember(r, u, g) \/ RemoveMember(r, u, g)
    \/ \E u \in Users, gs \in SUBSET Groups : SetGroupsFlush(r, u, gs)
    \/ SetGroupsCommit(r)
=============================================================================
