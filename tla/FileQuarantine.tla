---------------------------- MODULE FileQuarantine ----------------------------
(***************************************************************************)
(* The download pipeline as a whole: the pollers of all sessions, the      *)
(* reviewers and owners, and the retention job, on shared rows and a       *)
(* shared staging directory.                                               *)
(***************************************************************************)
EXTENDS QuarantineRetention

CONSTANTS
    MayEnd,             \* sessions that may be terminated
    MaxCrashes          \* bound: failures of a process or of a job

ASSUME EndAssumption == MayEnd \subseteq Sessions

ASSUME CrashAssumption == MaxCrashes \in Nat

VARIABLE crashes

vars == <<quarantineVars, intakeVars, reviewVars, ret, crashes>>

TypeOK ==
    /\ QuarantineTypeOK
    /\ IntakeTypeOK
    /\ ReviewTypeOK
    /\ RetTypeOK
    /\ crashes \in 0..MaxCrashes

Init ==
    /\ QuarantineInit
    /\ IntakeInit
    /\ ReviewInit
    /\ RetInit
    /\ crashes = 0

-----------------------------------------------------------------------------
Downloading ==
    /\ \E d \in Items : BrowserDownloads(d)
    /\ UNCHANGED <<reviewVars, ret, crashes>>

Polling(s) ==
    /\ PollLists(s) \/ IntakeStep(s)
    /\ UNCHANGED <<reviewVars, ret, crashes>>

Ending ==
    /\ \E s \in MayEnd : SessionEnds(s)
    /\ UNCHANGED <<reviewVars, ret, crashes>>

People ==
    /\ ReviewStep
    /\ UNCHANGED <<ret, crashes>>

\* The retention job holds the row locks of what it marked until it commits.
Reviewing(r) ==
    /\ review[r].file \notin ret.gone
    /\ ReviewCommits(r)
    /\ UNCHANGED <<ret, crashes>>

Ageing ==
    /\ \E f \in Files : FileAges(f)
    /\ UNCHANGED <<intakeVars, reviewVars, ret, crashes>>

Retaining ==
    /\ RetLists \/ RetStep \/ RetCannotRemove
    /\ UNCHANGED crashes

\* An exception ends a session's poll task.
PollerFails ==
    /\ crashes < MaxCrashes
    /\ \E s \in Sessions : PollDies(s)
    /\ crashes' = crashes + 1
    /\ UNCHANGED <<reviewVars, ret>>

\* An exception ends a retention cycle, which is rolled back.
RetentionFails ==
    /\ crashes < MaxCrashes
    /\ ret.pc # "idle"
    /\ ret' = RetIdle
    /\ crashes' = crashes + 1
    /\ UNCHANGED <<quarantineVars, intakeVars, reviewVars>>

\* The backend restarts: every open transaction is rolled back, and no poll
\* task is started again.  Redis keeps the tokens.
BackendRestarts ==
    /\ crashes < MaxCrashes
    /\ poll' = [s \in Sessions |-> PollOff]
    /\ draft' = [f \in Files |-> NoFile]
    /\ review' = [r \in Reviewers |-> NoReview]
    /\ get' = [g \in Gets |-> NoGet]
    /\ ret' = RetIdle
    /\ crashes' = crashes + 1
    /\ UNCHANGED <<quarantineVars, reopened, token, served>>

Next ==
    \/ Downloading
    \/ \E s \in Sessions : Polling(s)
    \/ Ending
    \/ People
    \/ \E r \in Reviewers : Reviewing(r)
    \/ Ageing
    \/ Retaining
    \/ PollerFails
    \/ RetentionFails
    \/ BackendRestarts

Spec == Init /\ [][Next]_vars

\* Fairness.  Every await of the pollers and of the retention job ends: agent
\* calls and scans time out.  The jobs repeat forever, and time passes.  The
\* agent is not down for good, so among fetches and deletes repeated forever
\* some succeed, and so do removals from the staging directory.
Fairness ==
    /\ \A s \in Sessions : WF_vars(Polling(s))
    /\ \A s \in Sessions, d \in Items :
          SF_vars(IntakeFetches(s, d) /\ UNCHANGED <<reviewVars, ret, crashes>>)
    /\ \A f \in Files : WF_vars(FileAges(f) /\ UNCHANGED <<intakeVars, reviewVars, ret, crashes>>)
    /\ WF_vars((RetLists \/ RetStep) /\ UNCHANGED crashes)
    /\ SF_vars(RetRemoves /\ UNCHANGED crashes)

FairSpec == Spec /\ Fairness

-----------------------------------------------------------------------------
\* Safety.

\* Fail closed (docs/adr/0008-fail-closed.md): a file is released only if the
\* scanner found it clean and the policy says so, or a reviewer released it.
ReleasedWasCleared ==
    \A f \in Files :
        file[f].status = "RELEASED" =>
            \/ file[f].reviewed
            \/ file[f].scanner = "CLEAN" /\ file[f].policy = "AUTO_RELEASE"

\* However often a delete fails or an item comes back under another name, a
\* session has one row per fetched content; process_new_downloads' query for
\* it raises if there are two.
OneRowPerContent ==
    \A f, g \in Files : \A r \in {file[f], draft[f]}, q \in {file[g], draft[g]} :
        (/\ Exists(r) /\ Exists(q) /\ f # g
         /\ Home[r.item] = Home[q.item] /\ Content[r.item] = Content[q.item])
            => Content[r.item] \in Oversized

\* Retention never deletes a file whose incident has been open all along
\* (quarantine_retention.py's _has_open_incident).
OpenIncidentHoldsFile ==
    \A f \in Files :
        (file[f].status = "DELETED" /\ incident[f] \in OpenIncidentStatuses)
            => f \in reopened

\* Concurrent retrievals with the same token get the file at most once
\* (release_tokens.py's GETDEL).
TokenServesOnce == \A t \in Tokens : served[t] <= 1

-----------------------------------------------------------------------------
\* Liveness.

\* A download in the sandbox is recorded, unless its poll task ends.
DownloadsAreRecorded ==
    \A d \in Items :
        d \in downloads ~> \/ KnownCommitted(Home[d], d)
                           \/ poll[Home[d]].pc = "off"

\* Every recorded file is deleted in the end, also when the job dies between
\* removing its bytes and its commit, unless an incident holds it.
FilesExpire ==
    \A f \in Files :
        Exists(file[f]) ~> file[f].status = "DELETED" \/ HasOpenIncident(f)
=============================================================================
