------------------------------ MODULE UploadGate ------------------------------
(***************************************************************************)
(* Uploads into a user's browser session: the decision of the policies,    *)
(* the scan, the write into the sandbox, and the incident that repeated    *)
(* blocked transfers open.  Each runs on a request slot of its own; what   *)
(* it inserts is visible to others when it commits.                        *)
(***************************************************************************)
EXTENDS PolicyEngine

CONSTANTS
    Files,          \* what a file is: its types, extension and source
    Threshold       \* _REPEATED_VIOLATION_THRESHOLD

\* It counts repetitions: the code's is 3.
ASSUME ThresholdAssumption == Threshold \in Nat \ {0, 1}

\* A host name is a sequence of labels.
ASSUME FileAssumption ==
    \A f \in Files : f.source # None => f.source.labels \in Seq(Range(f.source.labels))

VARIABLES
    active,         \* the users whose browser session is ACTIVE
    blocked,        \* DOWNLOAD_BLOCKED and UPLOAD_BLOCKED events within the window
    open,           \* "Repeated policy violations" incidents, NEW or INVESTIGATING
    malware,        \* incidents of infected uploads
    sandbox,        \* files written into a user's sandbox
    logged,         \* files with an UPLOAD_REQUESTED event
    noted           \* of the blocked events, policy blocks since an incident's closing

uploadVars == <<active, blocked, open, malware, sandbox, logged, noted>>

\* upload_file and process_upload up to the decision.
UploadBegins(r, u, f, rows) ==
    /\ Arrives(r, "upload")
    /\ u \in active
    /\ Go(r, [pc |-> IF EvaluateInOrder(rows, f) = "AUTO_RELEASE" THEN "scan" ELSE "blocked",
              u |-> u, f |-> f])
    /\ UNCHANGED <<tableVars, uploadVars>>

\* Variant: the incident is opened past the threshold.
ReachesLate(count) == count > Threshold

Reaches(count) == count >= Threshold

\* check_repeated_policy_violations: the request sees its own event and what
\* is committed.  A second open incident makes scalar_one_or_none raise: the
\* request fails and its event is rolled back.
UploadCount(r) ==
    LET u == req[r].u IN
    /\ At(r, "blocked")
    /\ IF Reaches(blocked[u] + 1) /\ open[u] > 1
       THEN Finish(r)
       ELSE Go(r, [pc |-> "report", u |-> u,
                   opens |-> Reaches(blocked[u] + 1) /\ open[u] = 0])
    /\ UNCHANGED <<tableVars, left, uploadVars>>

UploadReport(r) ==
    LET u == req[r].u IN
    /\ At(r, "report")
    /\ blocked' = [blocked EXCEPT ![u] = @ + 1]
    /\ noted' = [noted EXCEPT ![u] = @ + 1]
    /\ open' = [open EXCEPT ![u] = @ + IF req[r].opens THEN 1 ELSE 0]
    /\ Finish(r)
    /\ UNCHANGED <<tableVars, left, active, malware, sandbox, logged>>

\* The scanner fails: blocked, without a look at the violations.
ScannerDown(r) ==
    LET u == req[r].u IN
    /\ At(r, "scan")
    /\ use.outages
    /\ blocked' = [blocked EXCEPT ![u] = @ + 1]
    /\ Finish(r)
    /\ UNCHANGED <<tableVars, left, active, open, malware, sandbox, logged, noted>>

ScanInfected(r) ==
    /\ At(r, "scan")
    /\ req[r].f.infected
    /\ malware' = [malware EXCEPT ![req[r].u] = @ + 1]
    /\ Finish(r)
    /\ UNCHANGED <<tableVars, left, active, blocked, open, sandbox, logged, noted>>

Place(q) == sandbox' = [sandbox EXCEPT ![q.u] = @ \cup {q.f}]

\* write_upload reaches the sandbox while it runs.  When the call fails, the
\* file may be there all the same, and nothing is recorded.
WriteUpload(r) ==
    LET q == req[r] IN
    /\ At(r, "scan")
    /\ ~q.f.infected
    /\ \/ /\ q.u \in active
          /\ Place(q)
          /\ Go(r, [pc |-> "written", u |-> q.u, f |-> q.f])
       \/ /\ q.u \notin active \/ use.outages
          /\ UNCHANGED sandbox \/ (q.u \in active /\ Place(q))
          /\ Finish(r)
    /\ UNCHANGED <<tableVars, left, active, blocked, open, malware, logged, noted>>

UploadCommit(r) ==
    LET q == req[r] IN
    /\ At(r, "written")
    /\ logged' = [logged EXCEPT ![q.u] = @ \cup {q.f}]
    /\ Finish(r)
    /\ UNCHANGED <<tableVars, left, active, blocked, open, malware, sandbox, noted>>

-----------------------------------------------------------------------------
\* One of the blocked transfers leaves the window, counted in noted or not.
WindowPasses(u) ==
    /\ use.ageing
    /\ blocked[u] > 0
    /\ blocked' = [blocked EXCEPT ![u] = @ - 1]
    /\ \E n \in {noted[u], noted[u] - 1} \cap 0..(blocked[u] - 1) :
          noted' = [noted EXCEPT ![u] = n]
    /\ UNCHANGED <<policyVars, active, open, malware, sandbox, logged>>

\* update_incident resolves one of the open incidents.
CloseIncident(u) ==
    /\ use.ageing
    /\ open[u] > 0
    /\ open' = [open EXCEPT ![u] = @ - 1]
    /\ noted' = [noted EXCEPT ![u] = 0]
    /\ UNCHANGED <<policyVars, active, blocked, malware, sandbox, logged>>

\* The session ends and its sandbox with it.
SessionEnds(u) ==
    /\ use.ageing
    /\ u \in active
    /\ active' = active \ {u}
    /\ sandbox' = [sandbox EXCEPT ![u] = {}]
    /\ UNCHANGED <<policyVars, blocked, open, malware, logged, noted>>

UploadStep(r) ==
    \/ \E u \in Users, f \in use.files : \E rows \in Orders(u) : UploadBegins(r, u, f, rows)
    \/ UploadCount(r) \/ UploadReport(r)
    \/ ScannerDown(r) \/ ScanInfected(r) \/ WriteUpload(r) \/ UploadCommit(r)
=============================================================================
