--------------------------- MODULE QuarantineStore ---------------------------
(***************************************************************************)
(* What the download pipeline, the reviewers, the retention job and the    *)
(* users' retrievals share: the quarantine_files and incidents rows in     *)
(* PostgreSQL, the staging directory, and the download directories of the  *)
(* sandboxes.                                                              *)
(*                                                                         *)
(* Readers see committed rows only and take no lock.  A writer stores the  *)
(* columns it changed over whatever is committed by then.                  *)
(***************************************************************************)
EXTENDS FiniteSets, Naturals

CONSTANTS
    Sessions,
    Items,              \* completed downloads: one file name in one sandbox
    Home,               \* the session whose sandbox an item is in
    Contents,           \* file contents, up to their SHA-256
    Content,            \* the content of an item
    Oversized,          \* contents larger than download_max_size_bytes
    Infected,           \* contents the signatures, as they are updated, may match
    Files,              \* ids of quarantine_files rows (fresh UUIDs)
    Nothing,            \* NULL
    MaxAge              \* bound: how far a row may age

ASSUME ItemAssumption ==
    /\ Home \in [Items -> Sessions]
    /\ Content \in [Items -> Contents]
    /\ Items \cap Contents = {}
    /\ Nothing \notin Items \cup Files

ASSUME ContentAssumption == Oversized \subseteq Contents /\ Infected \subseteq Contents

ASSUME AgeAssumption == MaxAge \in 0..2

VARIABLES
    file,               \* the committed quarantine_files rows
    incident,           \* status of the incident that references a file
    disk,               \* contents in download_staging_dir, named by SHA-256
    downloads           \* items in the download directory of their sandbox

quarantineVars == <<file, incident, disk, downloads>>

QuarantineStatus == {"PENDING_SCAN", "QUARANTINED", "RELEASED", "REJECTED", "DELETED"}

ScannerStatus == {"PENDING", "CLEAN", "INFECTED", "ERROR"}

FileAction == {"DENY", "QUARANTINE", "AUTO_RELEASE"}

IncidentStatus == {"NEW", "INVESTIGATING", "RESOLVED", "FALSE_POSITIVE"}

\* stored: storage_object_id is set.  reviewed: reviewed_by is set.  age counts
\* the retention windows that have passed since the review, or else the
\* creation: 1 is the released window, 2 the quarantined window.
Records ==
    [status : QuarantineStatus \cup {"NONE"}, item : Items \cup {Nothing},
     scanner : ScannerStatus, policy : FileAction \cup {Nothing},
     stored : BOOLEAN, reviewed : BOOLEAN, age : 0..2]

NoFile == [status |-> "NONE", item |-> Nothing, scanner |-> "PENDING",
           policy |-> Nothing, stored |-> FALSE, reviewed |-> FALSE, age |-> 0]

Exists(r) == r.status # "NONE"

Live(r) == r.status \notin {"NONE", "DELETED"}

\* The sha256 column.  The bytes of an oversized item are never fetched: its
\* value is made from the session, the name and the size.
Sha256(d) == IF Content[d] \in Oversized THEN d ELSE Content[d]

SameHash(r, q) == Sha256(r.item) = Sha256(q.item)

QuarantineTypeOK ==
    /\ file \in [Files -> Records]
    /\ incident \in [Files -> IncidentStatus \cup {"NONE"}]
    /\ disk \in SUBSET Contents
    /\ downloads \in SUBSET Items

QuarantineInit ==
    /\ file = [f \in Files |-> NoFile]
    /\ incident = [f \in Files |-> "NONE"]
    /\ disk = {}
    /\ downloads = {}

-----------------------------------------------------------------------------
\* Another retention window passes without a review of the file.
FileAges(f) ==
    /\ Live(file[f])
    /\ file[f].age < MaxAge
    /\ file' = [file EXCEPT ![f].age = @ + 1]
    /\ UNCHANGED <<incident, disk, downloads>>
=============================================================================
