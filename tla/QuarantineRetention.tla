------------------------- MODULE QuarantineRetention -------------------------
(***************************************************************************)
(* The retention job (backend/app/core/quarantine_retention.py).  A cycle  *)
(* loads the expired files, removes their bytes unless another live row    *)
(* has the same hash, marks the rows DELETED, and commits once at its end. *)
(* Removing bytes is not part of the transaction.                          *)
(***************************************************************************)
EXTENDS QuarantineReview

VARIABLE ret            \* the cycle under way

\* todo is left to do; file is being deleted; remove: no other live row has
\* its hash; gone are the rows already marked in the cycle's transaction.
RetIdle == [pc |-> "idle", todo |-> {}, file |-> Nothing, remove |-> FALSE, gone |-> {}]

RetTypeOK ==
    ret \in [pc : {"idle", "next", "share", "remove"}, todo : SUBSET Files,
             file : Files \cup {Nothing}, remove : BOOLEAN, gone : SUBSET Files]

RetInit == ret = RetIdle

\* Variant: quarantined files are kept for good.
ExpiredReleased(r) == r.status \in {"RELEASED", "REJECTED"} /\ r.age >= 1

Expired(r) ==
    \/ r.status = "RELEASED" /\ r.age >= 1
    \/ r.status \in {"QUARANTINED", "REJECTED"} /\ r.age >= 2

\* Variant: only an incident nobody has looked at holds its file.
HasNewIncident(f) == incident[f] = "NEW"

HasOpenIncident(f) == incident[f] \in OpenIncidentStatuses

OtherLiveRowsShareHash(f) ==
    \E g \in Files \ (ret.gone \cup {f}) : Live(file[g]) /\ SameHash(file[g], file[f])

-----------------------------------------------------------------------------
RetLists ==
    LET expired == {f \in Files : Expired(file[f])}
    IN  /\ ret.pc = "idle"
        /\ expired # {}
        /\ ret' = [RetIdle EXCEPT !.pc = "next", !.todo = expired]
        /\ UNCHANGED <<quarantineVars, intakeVars, reviewVars>>

RetSkips(f) ==
    /\ ret.pc = "next" /\ f \in ret.todo
    /\ HasOpenIncident(f)
    /\ ret' = [ret EXCEPT !.todo = @ \ {f}]
    /\ UNCHANGED <<quarantineVars, intakeVars, reviewVars>>

RetTakes(f) ==
    /\ ret.pc = "next" /\ f \in ret.todo
    /\ ~HasOpenIncident(f)
    /\ ret' = [ret EXCEPT !.pc = "share", !.file = f, !.todo = @ \ {f}]
    /\ UNCHANGED <<quarantineVars, intakeVars, reviewVars>>

RetAsksHash ==
    /\ ret.pc = "share"
    /\ ret' = [ret EXCEPT !.pc = "remove",
                 !.remove = file[ret.file].stored /\ ~OtherLiveRowsShareHash(ret.file)]
    /\ UNCHANGED <<quarantineVars, intakeVars, reviewVars>>

\* os.remove (a missing file is as good), and the row is marked.
RetRemoves ==
    /\ ret.pc = "remove"
    /\ disk' = IF ret.remove THEN disk \ {Content[file[ret.file].item]} ELSE disk
    /\ ret' = [ret EXCEPT !.pc = "next", !.file = Nothing, !.remove = FALSE,
                          !.gone = @ \cup {ret.file}]
    /\ UNCHANGED <<file, incident, downloads, intakeVars, reviewVars>>

\* os.remove fails: the row keeps its status and is tried again next cycle.
RetCannotRemove ==
    /\ ret.pc = "remove"
    /\ ret.remove
    /\ ret' = [ret EXCEPT !.pc = "next", !.file = Nothing, !.remove = FALSE]
    /\ UNCHANGED <<quarantineVars, intakeVars, reviewVars>>

RetCommits ==
    /\ ret.pc = "next" /\ ret.todo = {}
    /\ file' = [f \in Files |->
                  IF f \in ret.gone
                  THEN [file[f] EXCEPT !.status = "DELETED", !.stored = FALSE]
                  ELSE file[f]]
    /\ ret' = RetIdle
    /\ UNCHANGED <<incident, disk, downloads, intakeVars, reviewVars>>

RetStep ==
    \/ \E f \in Files : RetSkips(f) \/ RetTakes(f)
    \/ RetAsksHash
    \/ RetRemoves
    \/ RetCommits
=============================================================================
