--------------------------- MODULE QuarantineReview ---------------------------
(***************************************************************************)
(* What people do about quarantined files: a reviewer releases or rejects  *)
(* one (backend/app/services/quarantine.py), an administrator updates the  *)
(* incident about one (services/incidents.py), and its owner retrieves a   *)
(* released one with a single-use token (api/files.py,                     *)
(* core/release_tokens.py).                                                *)
(***************************************************************************)
EXTENDS DownloadIntake

CONSTANTS
    Reviewers,          \* review requests served at a time
    IncidentUpdates,    \* the statuses administrators set
    Users,
    Owner,              \* the user a session belongs to
    Tokens,             \* release tokens (random)
    Gets                \* retrieval requests served at a time

ASSUME PeopleAssumption ==
    /\ Owner \in [Sessions -> Users]
    /\ IncidentUpdates \subseteq IncidentStatus
    /\ Nothing \notin Tokens

VARIABLES
    review,             \* the decision a review request is about to write
    reopened,           \* files whose incident was opened again (history)
    token,              \* the release tokens in Redis
    get,                \* retrieval requests past their token
    served              \* how often a token has served its file (history)

tokenVars == <<token, get, served>>

reviewVars == <<review, reopened, tokenVars>>

NoReview == [verdict |-> Nothing, file |-> Nothing]

Reviews == {NoReview} \cup [verdict : {"RELEASED", "REJECTED"}, file : Files]

NoGet == [token |-> Nothing, file |-> Nothing]

Retrievals == {NoGet} \cup [token : Tokens, file : Files]

ReviewTypeOK ==
    /\ review \in [Reviewers -> Reviews]
    /\ reopened \in SUBSET Files
    /\ token \in [Tokens -> [file : Files \cup {Nothing}, drawn : BOOLEAN]]
    /\ get \in [Gets -> Retrievals]
    /\ served \in [Tokens -> 0..2]

ReviewInit ==
    /\ review = [r \in Reviewers |-> NoReview]
    /\ reopened = {}
    /\ token = [t \in Tokens |-> [file |-> Nothing, drawn |-> FALSE]]
    /\ get = [g \in Gets |-> NoGet]
    /\ served = [t \in Tokens |-> 0]

OpenIncidentStatuses == {"NEW", "INVESTIGATING"}

FileOwner(f) == Owner[Home[file[f].item]]

-----------------------------------------------------------------------------
\* The request loads the file and finds it awaiting review; otherwise it is
\* answered with a 409 and changes nothing.
ReviewLoads(r, f, verdict) ==
    /\ review[r] = NoReview
    /\ file[f].status = "QUARANTINED"
    /\ review' = [review EXCEPT ![r] = [verdict |-> verdict, file |-> f]]
    /\ UNCHANGED <<quarantineVars, intakeVars, reopened, tokenVars>>

\* status, reviewed_at and reviewed_by are written over the committed row.
Reviewed(q, verdict) == [q EXCEPT !.status = verdict, !.reviewed = TRUE, !.age = 0]

ReviewCommits(r) ==
    LET f == review[r].file
    IN  /\ review[r] # NoReview
        /\ file' = [file EXCEPT ![f] = Reviewed(@, review[r].verdict)]
        /\ review' = [review EXCEPT ![r] = NoReview]
        /\ UNCHANGED <<incident, disk, downloads, intakeVars, reopened, tokenVars>>

\* Any status may follow any other.
UpdateIncident(f, status) ==
    /\ incident[f] # "NONE"
    /\ incident' = [incident EXCEPT ![f] = status]
    /\ reopened' = IF incident[f] \notin OpenIncidentStatuses
                      /\ status \in OpenIncidentStatuses
                   THEN reopened \cup {f} ELSE reopened
    /\ UNCHANGED <<file, disk, downloads, intakeVars, review, tokenVars>>

-----------------------------------------------------------------------------
\* The owner asks for a token of a released file.
RequestToken(t, f) ==
    /\ ~token[t].drawn
    /\ file[f].status = "RELEASED"
    /\ token' = [token EXCEPT ![t] = [file |-> f, drawn |-> TRUE]]
    /\ UNCHANGED <<quarantineVars, intakeVars, review, reopened, get, served>>

TokenExpires(t) ==
    /\ token[t].file # Nothing
    /\ token' = [token EXCEPT ![t].file = Nothing]
    /\ UNCHANGED <<quarantineVars, intakeVars, review, reopened, get, served>>

\* Variant: the token is read, and deleted only once the file was served.
ReadToken(g, t, u) ==
    /\ get[g] = NoGet
    /\ token[t].file # Nothing
    /\ u = FileOwner(token[t].file)
    /\ get' = [get EXCEPT ![g] = [token |-> t, file |-> token[t].file]]
    /\ UNCHANGED <<quarantineVars, intakeVars, review, reopened, token, served>>

\* GETDEL: a token presented by anyone is gone; only its user goes on.
ConsumeToken(g, t, u) ==
    /\ get[g] = NoGet
    /\ token[t].file # Nothing
    /\ token' = [token EXCEPT ![t].file = Nothing]
    /\ get' = IF u = FileOwner(token[t].file)
              THEN [get EXCEPT ![g] = [token |-> t, file |-> token[t].file]]
              ELSE get
    /\ UNCHANGED <<quarantineVars, intakeVars, review, reopened, served>>

\* The file is released, its row names stored bytes, and they are there.
Available(f) ==
    /\ file[f].status = "RELEASED"
    /\ file[f].stored
    /\ Content[file[f].item] \in disk

GetServes(g) ==
    /\ get[g] # NoGet
    /\ Available(get[g].file)
    /\ served' = [served EXCEPT ![get[g].token] = IF @ < 2 THEN @ + 1 ELSE @]
    /\ get' = [get EXCEPT ![g] = NoGet]
    /\ UNCHANGED <<quarantineVars, intakeVars, review, reopened, token>>

\* 410: the file is no longer available.
GetGone(g) ==
    /\ get[g] # NoGet
    /\ ~Available(get[g].file)
    /\ get' = [get EXCEPT ![g] = NoGet]
    /\ UNCHANGED <<quarantineVars, intakeVars, review, reopened, token, served>>

ReviewStep ==
    \/ \E r \in Reviewers, f \in Files, v \in {"RELEASED", "REJECTED"} : ReviewLoads(r, f, v)
    \/ \E f \in Files, status \in IncidentUpdates : UpdateIncident(f, status)
    \/ \E t \in Tokens, f \in Files : RequestToken(t, f)
    \/ \E t \in Tokens : TokenExpires(t)
    \/ \E g \in Gets, t \in Tokens, u \in Users : ConsumeToken(g, t, u)
    \/ \E g \in Gets : GetServes(g) \/ GetGone(g)
=============================================================================
