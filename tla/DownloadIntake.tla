---------------------------- MODULE DownloadIntake ----------------------------
(***************************************************************************)
(* The download poller of a session (backend/app/core/download_poller.py)  *)
(* and the pipeline it runs on every file it finds: fetch, deduplicate,    *)
(* stage, scan, decide, delete from the sandbox                            *)
(* (backend/app/services/downloads.py, scanning.py).  One cycle is one     *)
(* transaction: its rows become visible with the commit at its end, while  *)
(* staging and deleting take effect at once.                               *)
(***************************************************************************)
EXTENDS QuarantineStore

VARIABLES
    poll,               \* the poll task of a session
    draft               \* rows inserted by cycles that have not committed

intakeVars == <<poll, draft>>

PollIdle == [pc |-> "idle", todo |-> {}, item |-> Nothing, file |-> Nothing]

\* The task ended: it was cancelled, raised, or died with the process.
PollOff == [PollIdle EXCEPT !.pc = "off"]

Polls == [pc : {"idle", "next", "fetched", "scan", "delete", "off"},
          todo : SUBSET Items, item : Items \cup {Nothing},
          file : Files \cup {Nothing}]

IntakeTypeOK ==
    /\ poll \in [Sessions -> Polls]
    /\ draft \in [Files -> Records]

IntakeInit ==
    /\ poll = [s \in Sessions |-> PollIdle]
    /\ draft = [f \in Files |-> NoFile]

\* The rows of the transaction of session s.
Drafted(s) == {f \in Files : Exists(draft[f]) /\ Home[draft[f].item] = s}

Unused(f) == ~Exists(file[f]) /\ ~Exists(draft[f])

\* Variant: the query does not see the rows of its own transaction.
KnownCommitted(s, d) ==
    \E f \in Files : /\ Exists(file[f]) /\ Home[file[f].item] = s
                     /\ Sha256(file[f].item) = Sha256(d)

\* The session has a row with this hash, whatever its status.
Known(s, d) ==
    \E f \in Files : \E r \in {file[f], draft[f]} :
        /\ Exists(r) /\ Home[r.item] = s
        /\ Sha256(r.item) = Sha256(d)

-----------------------------------------------------------------------------
\* Firefox completes a download.
BrowserDownloads(d) ==
    /\ d \notin downloads
    /\ \A f \in Files : file[f].item # d /\ draft[f].item # d
    /\ poll[Home[d]].pc # "off"
    /\ downloads' = downloads \cup {d}
    /\ UNCHANGED <<file, incident, disk, intakeVars>>

\* The agent lists what is in the sandbox.  A failed or empty listing ends the
\* cycle.
PollLists(s) ==
    /\ poll[s].pc = "idle"
    /\ \E d \in downloads : Home[d] = s
    /\ poll' = [poll EXCEPT ![s] = [@ EXCEPT
                    !.pc = "next", !.todo = {d \in downloads : Home[d] = s}]]
    /\ UNCHANGED <<quarantineVars, draft>>

\* An oversized file is recorded without being fetched.
Refused(d) ==
    [status |-> "QUARANTINED", item |-> d, scanner |-> "ERROR",
     policy |-> Nothing, stored |-> FALSE, reviewed |-> FALSE, age |-> 0]

IntakeRefuses(s, d) ==
    /\ poll[s].pc = "next" /\ d \in poll[s].todo
    /\ Content[d] \in Oversized
    /\ \E f \in Files : Unused(f) /\ draft' = [draft EXCEPT ![f] = Refused(d)]
    /\ poll' = [poll EXCEPT ![s] = [@ EXCEPT !.pc = "delete", !.item = d]]
    /\ UNCHANGED quarantineVars

IntakeFetches(s, d) ==
    /\ poll[s].pc = "next" /\ d \in poll[s].todo
    /\ Content[d] \notin Oversized
    /\ poll' = [poll EXCEPT ![s] = [@ EXCEPT !.pc = "fetched", !.item = d]]
    /\ UNCHANGED <<quarantineVars, draft>>

\* The fetch fails; the file stays in the sandbox for the next poll.
IntakeCannotFetch(s, d) ==
    /\ poll[s].pc = "next" /\ d \in poll[s].todo
    /\ Content[d] \notin Oversized
    /\ poll' = [poll EXCEPT ![s].todo = @ \ {d}]
    /\ UNCHANGED <<quarantineVars, draft>>

\* Content an earlier poll took in is only deleted.
IntakeDedupes(s) ==
    /\ poll[s].pc = "fetched"
    /\ Known(s, poll[s].item)
    /\ poll' = [poll EXCEPT ![s].pc = "delete"]
    /\ UNCHANGED <<quarantineVars, draft>>

Staged(d, action) ==
    [status |-> "PENDING_SCAN", item |-> d, scanner |-> "PENDING",
     policy |-> action, stored |-> TRUE, reviewed |-> FALSE, age |-> 0]

\* Staged bytes are named by their hash, and written once.
StageFile(d) == disk' = disk \cup {Content[d]}

\* The policy is evaluated, the bytes are staged, and the row is inserted.
IntakeStages(s) ==
    /\ poll[s].pc = "fetched"
    /\ ~Known(s, poll[s].item)
    /\ \E f \in Files, action \in FileAction :
          /\ Unused(f)
          /\ draft' = [draft EXCEPT ![f] = Staged(poll[s].item, action)]
          /\ poll' = [poll EXCEPT ![s] = [@ EXCEPT !.pc = "scan", !.file = f]]
    /\ StageFile(poll[s].item)
    /\ UNCHANGED <<file, incident, downloads>>

\* Variant: a failed scan leaves the decision to the policy.
DecideOpen(r, result) ==
    [r EXCEPT !.scanner = result,
              !.status = IF result = "INFECTED" THEN "QUARANTINED"
                         ELSE CASE r.policy = "DENY" -> "REJECTED"
                                [] r.policy = "AUTO_RELEASE" -> "RELEASED"
                                [] OTHER -> "QUARANTINED"]

\* The final decision: only a clean file goes by the policy.
Decide(r, result) ==
    [r EXCEPT !.scanner = result,
              !.status = IF result # "CLEAN" THEN "QUARANTINED"
                         ELSE CASE r.policy = "DENY" -> "REJECTED"
                                [] r.policy = "AUTO_RELEASE" -> "RELEASED"
                                [] OTHER -> "QUARANTINED"]

\* The staged bytes are read back and scanned.
IntakeScans(s) ==
    LET f == poll[s].file
        content == Content[poll[s].item]
    IN  /\ poll[s].pc = "scan"
        /\ \E result \in {"CLEAN", "INFECTED", "ERROR"} :
              /\ content \notin disk => result = "ERROR"
              /\ result = "INFECTED" => content \in Infected
              /\ draft' = [draft EXCEPT ![f] = Decide(@, result)]
        /\ poll' = [poll EXCEPT ![s] = [@ EXCEPT !.pc = "delete", !.file = Nothing]]
        /\ UNCHANGED quarantineVars

\* Best effort: if the agent fails, the item stays in the sandbox.
IntakeDeletes(s) ==
    /\ poll[s].pc = "delete"
    /\ \/ downloads' = downloads \ {poll[s].item}
       \/ UNCHANGED downloads
    /\ poll' = [poll EXCEPT ![s] = [@ EXCEPT
                    !.pc = "next", !.item = Nothing,
                    !.todo = poll[s].todo \ {poll[s].item}]]
    /\ UNCHANGED <<file, incident, disk, draft>>

\* Variant: the cycle ends without its commit.
IntakeForgets(s) ==
    /\ poll[s].pc = "next" /\ poll[s].todo = {}
    /\ draft' = [f \in Files |-> IF f \in Drafted(s) THEN NoFile ELSE draft[f]]
    /\ poll' = [poll EXCEPT ![s] = PollIdle]
    /\ UNCHANGED quarantineVars

\* The cycle's one commit.  An infected file comes with its incident.
IntakeCommits(s) ==
    /\ poll[s].pc = "next" /\ poll[s].todo = {}
    /\ file' = [f \in Files |-> IF f \in Drafted(s) THEN draft[f] ELSE file[f]]
    /\ incident' = [f \in Files |->
                      IF f \in Drafted(s) /\ draft[f].scanner = "INFECTED"
                      THEN "NEW" ELSE incident[f]]
    /\ draft' = [f \in Files |-> IF f \in Drafted(s) THEN NoFile ELSE draft[f]]
    /\ poll' = [poll EXCEPT ![s] = PollIdle]
    /\ UNCHANGED <<disk, downloads>>

\* An exception ends the task (a full staging directory, a database error), or,
\* between two cycles, a session that is isolated; its transaction is rolled
\* back.  Nothing starts it again.
PollDies(s) ==
    /\ poll[s].pc # "off"
    /\ draft' = [f \in Files |-> IF f \in Drafted(s) THEN NoFile ELSE draft[f]]
    /\ poll' = [poll EXCEPT ![s] = PollOff]
    /\ UNCHANGED quarantineVars

\* The session is terminated: stop_polling cancels the task, and the sandbox
\* is removed with its download directory.
SessionEnds(s) ==
    /\ poll[s].pc # "off"
    /\ draft' = [f \in Files |-> IF f \in Drafted(s) THEN NoFile ELSE draft[f]]
    /\ poll' = [poll EXCEPT ![s] = PollOff]
    /\ downloads' = {d \in downloads : Home[d] # s}
    /\ UNCHANGED <<file, incident, disk>>

IntakeStep(s) ==
    \/ \E d \in Items : IntakeRefuses(s, d) \/ IntakeFetches(s, d) \/ IntakeCannotFetch(s, d)
    \/ IntakeDedupes(s)
    \/ IntakeStages(s)
    \/ IntakeScans(s)
    \/ IntakeDeletes(s)
    \/ IntakeCommits(s)
=============================================================================
