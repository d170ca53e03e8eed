--------------------------- MODULE QuarantineProofs ---------------------------
(***************************************************************************)
(* Type correctness and the safety properties of the download pipeline,    *)
(* for every number of sessions, files, reviewers and requests.            *)
(***************************************************************************)
EXTENDS FileQuarantine, TLAPS

\* A busy poll task knows what it is working on.
PollPoints ==
    \A s \in Sessions :
        /\ poll[s].pc \in {"fetched", "scan", "delete"} => poll[s].item \in Items
        /\ poll[s].pc \in {"fetched", "scan"} => Home[poll[s].item] = s
        /\ poll[s].pc = "scan" => poll[s].file \in Files
        /\ \A d \in poll[s].todo : Home[d] = s

\* A row that exists has an item.
RowsHaveItems ==
    \A f \in Files :
        /\ Exists(file[f]) => file[f].item \in Items
        /\ Exists(draft[f]) => draft[f].item \in Items

\* The retention job works on rows that exist.
RetPoints ==
    /\ ret.pc \in {"share", "remove"} => ret.file \in Files /\ Exists(file[ret.file])
    /\ \A f \in ret.todo \cup ret.gone : Exists(file[f])

\* Requests and tokens refer to rows that exist.
RequestPoints ==
    /\ \A r \in Reviewers : review[r] # NoReview => Exists(file[review[r].file])
    /\ \A t \in Tokens : token[t].file # Nothing => Exists(file[token[t].file])
    /\ \A g \in Gets : get[g] # NoGet => Exists(file[get[g].file])

\* A row being scanned is in its session's transaction, and no uncommitted row
\* has the id of a committed one.
DraftPoints ==
    /\ \A s \in Sessions :
          poll[s].pc = "scan" => /\ Exists(draft[poll[s].file])
                                 /\ draft[poll[s].file].item = poll[s].item
    /\ \A f \in Files : Exists(draft[f]) => ~Exists(file[f])

TypeInv == TypeOK /\ PollPoints /\ RowsHaveItems /\ RetPoints /\ RequestPoints /\ DraftPoints

LEMMA NoFileType == NoFile \in Records /\ ~Exists(NoFile)
  BY DEF NoFile, Records, QuarantineStatus, ScannerStatus, FileAction, Exists

LEMMA DecideType ==
    ASSUME NEW r \in Records, NEW result \in {"CLEAN", "INFECTED", "ERROR"}
    PROVE  /\ Decide(r, result) \in Records
           /\ Exists(Decide(r, result))
           /\ Decide(r, result).item = r.item
           /\ Decide(r, result).status \in {"QUARANTINED", "RELEASED", "REJECTED"}
  BY DEF Decide, Records, QuarantineStatus, ScannerStatus, Exists

LEMMA RefusedType ==
    ASSUME NEW d \in Items
    PROVE  /\ Refused(d) \in Records
           /\ Exists(Refused(d)) /\ Refused(d).item = d
           /\ Refused(d).status = "QUARANTINED"
  BY DEF Refused, Records, QuarantineStatus, ScannerStatus, Exists

LEMMA StagedType ==
    ASSUME NEW d \in Items, NEW action \in FileAction
    PROVE  /\ Staged(d, action) \in Records
           /\ Exists(Staged(d, action)) /\ Staged(d, action).item = d
           /\ Staged(d, action).status = "PENDING_SCAN"
  BY DEF Staged, Records, QuarantineStatus, ScannerStatus, Exists

LEMMA ReviewedType ==
    ASSUME NEW q \in Records, NEW verdict \in {"RELEASED", "REJECTED"}
    PROVE  /\ Reviewed(q, verdict) \in Records
           /\ Exists(Reviewed(q, verdict)) /\ Reviewed(q, verdict).item = q.item
           /\ Reviewed(q, verdict).status = verdict
           /\ Reviewed(q, verdict).reviewed = TRUE
<1> DEFINE q1 == [q EXCEPT !.status = verdict]
           q2 == [q1 EXCEPT !.reviewed = TRUE]
           q3 == [q2 EXCEPT !.age = 0]
<1>1. q1 \in Records /\ q1.item = q.item /\ q1.status = verdict
  BY DEF Records, QuarantineStatus
<1>2. q2 \in Records /\ q2.item = q.item /\ q2.status = verdict /\ q2.reviewed = TRUE
  <2> HIDE DEF q1
  <2> QED
    BY <1>1 DEF Records
<1>3. q3 \in Records /\ q3.item = q.item /\ q3.status = verdict /\ q3.reviewed = TRUE
  <2> HIDE DEF q2
  <2> QED
    BY <1>2 DEF Records
<1>4. Reviewed(q, verdict) = q3
  BY DEF Reviewed
<1> QED
  BY <1>3, <1>4 DEF Exists

LEMMA InitType == Init => TypeInv
<1>1. SUFFICES ASSUME Init PROVE TypeInv
  OBVIOUS
<1> USE DEF Init, QuarantineInit, IntakeInit, ReviewInit, RetInit
<1>2. QuarantineTypeOK /\ IntakeTypeOK
  BY <1>1, NoFileType DEF QuarantineTypeOK, IntakeTypeOK, PollIdle, Polls
<1>3. ReviewTypeOK /\ RetTypeOK /\ crashes \in 0..MaxCrashes
  BY <1>1, CrashAssumption
  DEF ReviewTypeOK, RetTypeOK, RetIdle, NoReview, Reviews, NoGet, Retrievals
<1>4. PollPoints /\ RowsHaveItems /\ DraftPoints
  BY <1>1, NoFileType DEF PollPoints, RowsHaveItems, DraftPoints, PollIdle
<1>5. RetPoints /\ RequestPoints
  BY <1>1 DEF RetPoints, RequestPoints, RetIdle
<1> QED
  BY <1>2, <1>3, <1>4, <1>5 DEF TypeInv, TypeOK

LEMMA DownloadingType ==
    ASSUME TypeInv, Downloading
    PROVE  TypeInv'
<1> USE DEF Downloading, BrowserDownloads, intakeVars, reviewVars, tokenVars
<1> USE DEF TypeInv
<1>1. TypeOK'
  BY NoFileType DEF TypeOK, QuarantineTypeOK, IntakeTypeOK, ReviewTypeOK, RetTypeOK
<1>2. PollPoints'
  BY ItemAssumption DEF TypeOK, IntakeTypeOK, PollPoints, Polls
<1>3. RowsHaveItems'
  BY NoFileType DEF TypeOK, QuarantineTypeOK, IntakeTypeOK, RowsHaveItems, PollPoints, Polls, Records, Exists
<1>4. RetPoints'
  BY NoFileType DEF TypeOK, QuarantineTypeOK, RetTypeOK, RetPoints, Exists
<1>5. RequestPoints'
  BY NoFileType DEF TypeOK, QuarantineTypeOK, ReviewTypeOK, RequestPoints, Exists
<1>6. DraftPoints'
  BY NoFileType DEF TypeOK, QuarantineTypeOK, IntakeTypeOK, Polls, PollPoints, DraftPoints, Exists
<1> QED
  BY <1>1, <1>2, <1>3, <1>4, <1>5, <1>6

LEMMA PollListsType ==
    ASSUME TypeInv, NEW s \in Sessions, PollLists(s), UNCHANGED <<reviewVars, ret, crashes>>
    PROVE  TypeInv'
<1> USE DEF PollLists, quarantineVars, reviewVars, tokenVars
<1> USE DEF TypeInv
<1>1. TypeOK'
  <2>1. poll' \in [Sessions -> Polls]
    <3>1. [poll[s] EXCEPT !.pc = "next", !.todo = {d \in downloads : Home[d] = s}] \in Polls
      BY DEF TypeOK, IntakeTypeOK, QuarantineTypeOK, Polls
    <3> QED
      BY <3>1 DEF TypeOK, IntakeTypeOK
  <2>2. draft' \in [Files -> Records]
    BY DEF TypeOK, IntakeTypeOK
  <2>3. QuarantineTypeOK' /\ ReviewTypeOK' /\ RetTypeOK' /\ crashes' \in 0..MaxCrashes
    BY DEF TypeOK, QuarantineTypeOK, ReviewTypeOK, RetTypeOK
  <2> QED
    BY <2>1, <2>2, <2>3 DEF TypeOK, IntakeTypeOK
<1>2. PollPoints'
  BY ItemAssumption DEF TypeOK, IntakeTypeOK, PollPoints, Polls, QuarantineTypeOK
<1>3. RowsHaveItems'
  BY NoFileType DEF TypeOK, QuarantineTypeOK, IntakeTypeOK, RowsHaveItems, PollPoints, Polls, Records, Exists
<1>4. RetPoints'
  BY NoFileType DEF TypeOK, QuarantineTypeOK, RetTypeOK, RetPoints, Exists
<1>5. RequestPoints'
  BY NoFileType DEF TypeOK, QuarantineTypeOK, ReviewTypeOK, RequestPoints, Exists
<1>6. DraftPoints'
  BY NoFileType DEF TypeOK, QuarantineTypeOK, IntakeTypeOK, Polls, PollPoints, DraftPoints, Exists
<1> QED
  BY <1>1, <1>2, <1>3, <1>4, <1>5, <1>6

LEMMA IntakeRefusesType ==
    ASSUME TypeInv, NEW s \in Sessions, NEW d \in Items, IntakeRefuses(s, d), UNCHANGED <<reviewVars, ret, crashes>>
    PROVE  TypeInv'
<1> USE DEF IntakeRefuses, Unused, quarantineVars, reviewVars, tokenVars
<1> USE DEF TypeInv
<1>1. TypeOK'
  <2>1. poll' \in [Sessions -> Polls]
    BY DEF TypeOK, IntakeTypeOK, Polls
  <2>2. draft' \in [Files -> Records]
    BY RefusedType DEF TypeOK, IntakeTypeOK
  <2>3. QuarantineTypeOK' /\ ReviewTypeOK' /\ RetTypeOK' /\ crashes' \in 0..MaxCrashes
    BY DEF TypeOK, QuarantineTypeOK, ReviewTypeOK, RetTypeOK
  <2> QED
    BY <2>1, <2>2, <2>3 DEF TypeOK, IntakeTypeOK
<1>2. PollPoints'
  BY ItemAssumption DEF TypeOK, IntakeTypeOK, PollPoints, Polls
<1>3. RowsHaveItems'
  BY RefusedType DEF TypeOK, IntakeTypeOK, RowsHaveItems
<1>4. RetPoints'
  BY NoFileType DEF TypeOK, QuarantineTypeOK, RetTypeOK, RetPoints, Exists
<1>5. RequestPoints'
  BY NoFileType DEF TypeOK, QuarantineTypeOK, ReviewTypeOK, RequestPoints, Exists
<1>6. DraftPoints'
  BY RefusedType, NoFileType DEF TypeOK, QuarantineTypeOK, IntakeTypeOK, Polls, PollPoints, DraftPoints, Exists
<1> QED
  BY <1>1, <1>2, <1>3, <1>4, <1>5, <1>6

LEMMA IntakeFetchesType ==
    ASSUME TypeInv, NEW s \in Sessions, NEW d \in Items, IntakeFetches(s, d), UNCHANGED <<reviewVars, ret, crashes>>
    PROVE  TypeInv'
<1> USE DEF IntakeFetches, quarantineVars, reviewVars, tokenVars
<1> USE DEF TypeInv
<1>1. TypeOK'
  <2>1. poll' \in [Sessions -> Polls]
    BY DEF TypeOK, IntakeTypeOK, Polls
  <2>2. draft' \in [Files -> Records]
    BY DEF TypeOK, IntakeTypeOK
  <2>3. QuarantineTypeOK' /\ ReviewTypeOK' /\ RetTypeOK' /\ crashes' \in 0..MaxCrashes
    BY DEF TypeOK, QuarantineTypeOK, ReviewTypeOK, RetTypeOK
  <2> QED
    BY <2>1, <2>2, <2>3 DEF TypeOK, IntakeTypeOK
<1>2. PollPoints'
  BY ItemAssumption DEF TypeOK, IntakeTypeOK, PollPoints, Polls
<1>3. RowsHaveItems'
  BY NoFileType DEF TypeOK, QuarantineTypeOK, IntakeTypeOK, RowsHaveItems, PollPoints, Polls, Records, Exists
<1>4. RetPoints'
  BY NoFileType DEF TypeOK, QuarantineTypeOK, RetTypeOK, RetPoints, Exists
<1>5. RequestPoints'
  BY NoFileType DEF TypeOK, QuarantineTypeOK, ReviewTypeOK, RequestPoints, Exists
<1>6. DraftPoints'
  BY NoFileType DEF TypeOK, QuarantineTypeOK, IntakeTypeOK, Polls, PollPoints, DraftPoints, Exists
<1> QED
  BY <1>1, <1>2, <1>3, <1>4, <1>5, <1>6

LEMMA IntakeCannotFetchType ==
    ASSUME TypeInv, NEW s \in Sessions, NEW d \in Items, IntakeCannotFetch(s, d), UNCHANGED <<reviewVars, ret, crashes>>
    PROVE  TypeInv'
<1> USE DEF IntakeCannotFetch, quarantineVars, reviewVars, tokenVars
<1> USE DEF TypeInv
<1>1. TypeOK'
  <2>1. poll' \in [Sessions -> Polls]
    BY DEF TypeOK, IntakeTypeOK, Polls
  <2>2. draft' \in [Files -> Records]
    BY DEF TypeOK, IntakeTypeOK
  <2>3. QuarantineTypeOK' /\ ReviewTypeOK' /\ RetTypeOK' /\ crashes' \in 0..MaxCrashes
    BY DEF TypeOK, QuarantineTypeOK, ReviewTypeOK, RetTypeOK
  <2> QED
    BY <2>1, <2>2, <2>3 DEF TypeOK, IntakeTypeOK
<1>2. PollPoints'
  BY ItemAssumption DEF TypeOK, IntakeTypeOK, PollPoints, Polls
<1>3. RowsHaveItems'
  BY NoFileType DEF TypeOK, QuarantineTypeOK, IntakeTypeOK, RowsHaveItems, PollPoints, Polls, Records, Exists
<1>4. RetPoints'
  BY NoFileType DEF TypeOK, QuarantineTypeOK, RetTypeOK, RetPoints, Exists
<1>5. RequestPoints'
  BY NoFileType DEF TypeOK, QuarantineTypeOK, ReviewTypeOK, RequestPoints, Exists
<1>6. DraftPoints'
  BY NoFileType DEF TypeOK, QuarantineTypeOK, IntakeTypeOK, Polls, PollPoints, DraftPoints, Exists
<1> QED
  BY <1>1, <1>2, <1>3, <1>4, <1>5, <1>6

LEMMA IntakeDedupesType ==
    ASSUME TypeInv, NEW s \in Sessions, IntakeDedupes(s), UNCHANGED <<reviewVars, ret, crashes>>
    PROVE  TypeInv'
<1> USE DEF IntakeDedupes, quarantineVars, reviewVars, tokenVars
<1> USE DEF TypeInv
<1>1. TypeOK'
  <2>1. poll' \in [Sessions -> Polls]
    BY DEF TypeOK, IntakeTypeOK, Polls
  <2>2. draft' \in [Files -> Records]
    BY DEF TypeOK, IntakeTypeOK
  <2>3. QuarantineTypeOK' /\ ReviewTypeOK' /\ RetTypeOK' /\ crashes' \in 0..MaxCrashes
    BY DEF TypeOK, QuarantineTypeOK, ReviewTypeOK, RetTypeOK
  <2> QED
    BY <2>1, <2>2, <2>3 DEF TypeOK, IntakeTypeOK
<1>2. PollPoints'
  BY ItemAssumption DEF TypeOK, IntakeTypeOK, PollPoints, Polls
<1>3. RowsHaveItems'
  BY NoFileType DEF TypeOK, QuarantineTypeOK, IntakeTypeOK, RowsHaveItems, PollPoints, Polls, Records, Exists
<1>4. RetPoints'
  BY NoFileType DEF TypeOK, QuarantineTypeOK, RetTypeOK, RetPoints, Exists
<1>5. RequestPoints'
  BY NoFileType DEF TypeOK, QuarantineTypeOK, ReviewTypeOK, RequestPoints, Exists
<1>6. DraftPoints'
  BY NoFileType DEF TypeOK, QuarantineTypeOK, IntakeTypeOK, Polls, PollPoints, DraftPoints, Exists
<1> QED
  BY <1>1, <1>2, <1>3, <1>4, <1>5, <1>6

LEMMA IntakeStagesType ==
    ASSUME TypeInv, NEW s \in Sessions, IntakeStages(s), UNCHANGED <<reviewVars, ret, crashes>>
    PROVE  TypeInv'
<1> USE DEF IntakeStages, StageFile, Unused, reviewVars, tokenVars
<1> USE DEF TypeInv
<1>0. PICK f \in Files, action \in FileAction :
            /\ Unused(f)
            /\ draft' = [draft EXCEPT ![f] = Staged(poll[s].item, action)]
            /\ poll' = [poll EXCEPT ![s] = [@ EXCEPT !.pc = "scan", !.file = f]]
  OBVIOUS
<1>a. poll[s].item \in Items
  BY DEF PollPoints
<1>1. TypeOK'
  <2>1. poll' \in [Sessions -> Polls]
    <3>1. [poll[s] EXCEPT !.pc = "scan", !.file = f] \in Polls
      BY DEF TypeOK, IntakeTypeOK, Polls
    <3> QED
      BY <1>0, <3>1 DEF TypeOK, IntakeTypeOK
  <2>2. draft' \in [Files -> Records]
    BY <1>0, <1>a, StagedType DEF TypeOK, IntakeTypeOK
  <2>3. QuarantineTypeOK' /\ ReviewTypeOK' /\ RetTypeOK' /\ crashes' \in 0..MaxCrashes
    BY <1>a, ItemAssumption DEF TypeOK, QuarantineTypeOK, ReviewTypeOK, RetTypeOK
  <2> QED
    BY <2>1, <2>2, <2>3 DEF TypeOK, IntakeTypeOK
<1>2. PollPoints'
  BY <1>0 DEF TypeOK, IntakeTypeOK, PollPoints, Polls
<1>3. RowsHaveItems'
  BY <1>0, <1>a, StagedType DEF TypeOK, IntakeTypeOK, RowsHaveItems
<1>4. RetPoints'
  BY NoFileType DEF TypeOK, QuarantineTypeOK, RetTypeOK, RetPoints, Exists
<1>5. RequestPoints'
  BY NoFileType DEF TypeOK, QuarantineTypeOK, ReviewTypeOK, RequestPoints, Exists
<1>6. DraftPoints'
  BY <1>0, <1>a, StagedType, NoFileType DEF TypeOK, QuarantineTypeOK, IntakeTypeOK, Polls, PollPoints, DraftPoints, Exists
<1> QED
  BY <1>1, <1>2, <1>3, <1>4, <1>5, <1>6

LEMMA IntakeScansType ==
    ASSUME TypeInv, NEW s \in Sessions, IntakeScans(s), UNCHANGED <<reviewVars, ret, crashes>>
    PROVE  TypeInv'
<1> USE DEF IntakeScans, quarantineVars, reviewVars, tokenVars
<1> USE DEF TypeInv
<1>1. TypeOK'
  <2>1. poll' \in [Sessions -> Polls]
    <3>1. [poll[s] EXCEPT !.pc = "delete", !.file = Nothing] \in Polls
      BY DEF TypeOK, IntakeTypeOK, Polls
    <3> QED
      BY <3>1 DEF TypeOK, IntakeTypeOK
  <2>2. draft' \in [Files -> Records]
    BY DecideType DEF TypeOK, IntakeTypeOK, PollPoints
  <2>3. QuarantineTypeOK' /\ ReviewTypeOK' /\ RetTypeOK' /\ crashes' \in 0..MaxCrashes
    BY DEF TypeOK, QuarantineTypeOK, ReviewTypeOK, RetTypeOK
  <2> QED
    BY <2>1, <2>2, <2>3 DEF TypeOK, IntakeTypeOK
<1>2. PollPoints'
  BY DecideType, ItemAssumption DEF TypeOK, IntakeTypeOK, PollPoints, Polls
<1>3. RowsHaveItems'
  <2>1. PICK result \in {"CLEAN", "INFECTED", "ERROR"} :
            draft' = [draft EXCEPT ![poll[s].file] = Decide(@, result)]
    OBVIOUS
  <2>2. poll[s].file \in Files /\ draft[poll[s].file] \in Records
    BY DEF PollPoints, TypeOK, IntakeTypeOK
  <2>3. Decide(draft[poll[s].file], result).item = draft[poll[s].file].item
    BY <2>2, DecideType
  <2> QED
    BY <2>1, <2>2, <2>3, DecideType DEF TypeOK, IntakeTypeOK, RowsHaveItems, DraftPoints, PollPoints
<1>4. RetPoints'
  BY DecideType, NoFileType DEF TypeOK, QuarantineTypeOK, RetTypeOK, RetPoints, Exists
<1>5. RequestPoints'
  BY DecideType, NoFileType DEF TypeOK, QuarantineTypeOK, ReviewTypeOK, RequestPoints, Exists
<1>6. DraftPoints'
  BY NoFileType DEF TypeOK, QuarantineTypeOK, IntakeTypeOK, Polls, PollPoints, DraftPoints, Exists
<1> QED
  BY <1>1, <1>2, <1>3, <1>4, <1>5, <1>6

LEMMA IntakeDeletesType ==
    ASSUME TypeInv, NEW s \in Sessions, IntakeDeletes(s), UNCHANGED <<reviewVars, ret, crashes>>
    PROVE  TypeInv'
<1> USE DEF IntakeDeletes, reviewVars, tokenVars
<1> USE DEF TypeInv
<1>1. TypeOK'
  <2>1. poll' \in [Sessions -> Polls]
    <3>1. [poll[s] EXCEPT !.pc = "next", !.item = Nothing,
                                    !.todo = poll[s].todo \ {poll[s].item}] \in Polls
      BY DEF TypeOK, IntakeTypeOK, Polls
    <3> QED
      BY <3>1 DEF TypeOK, IntakeTypeOK
  <2>2. draft' \in [Files -> Records]
    BY DEF TypeOK, IntakeTypeOK
  <2>3. QuarantineTypeOK' /\ ReviewTypeOK' /\ RetTypeOK' /\ crashes' \in 0..MaxCrashes
    BY DEF TypeOK, QuarantineTypeOK, ReviewTypeOK, RetTypeOK
  <2> QED
    BY <2>1, <2>2, <2>3 DEF TypeOK, IntakeTypeOK
<1>2. PollPoints'
  <2>1. poll'[s] = [poll[s] EXCEPT !.pc = "next", !.item = Nothing,
                                    !.todo = poll[s].todo \ {poll[s].item}]
    BY DEF TypeOK, IntakeTypeOK
  <2>2. \A q \in Sessions \ {s} : poll'[q] = poll[q]
    BY DEF TypeOK, IntakeTypeOK
  <2>3. poll'[s].pc = "next" /\ poll'[s].todo = poll[s].todo \ {poll[s].item}
    BY <2>1 DEF TypeOK, IntakeTypeOK, Polls
  <2> QED
    BY <2>2, <2>3 DEF PollPoints
<1>3. RowsHaveItems'
  BY NoFileType DEF TypeOK, QuarantineTypeOK, IntakeTypeOK, RowsHaveItems, PollPoints, Polls, Records, Exists
<1>4. RetPoints'
  BY NoFileType DEF TypeOK, QuarantineTypeOK, RetTypeOK, RetPoints, Exists
<1>5. RequestPoints'
  BY NoFileType DEF TypeOK, QuarantineTypeOK, ReviewTypeOK, RequestPoints, Exists
<1>6. DraftPoints'
  BY NoFileType DEF TypeOK, QuarantineTypeOK, IntakeTypeOK, Polls, PollPoints, DraftPoints, Exists
<1> QED
  BY <1>1, <1>2, <1>3, <1>4, <1>5, <1>6

LEMMA IntakeCommitsType ==
    ASSUME TypeInv, NEW s \in Sessions, IntakeCommits(s), UNCHANGED <<reviewVars, ret, crashes>>
    PROVE  TypeInv'
<1> USE DEF IntakeCommits, Drafted, PollIdle, reviewVars, tokenVars
<1> USE DEF TypeInv
<1>1. TypeOK'
  BY NoFileType DEF TypeOK, QuarantineTypeOK, IntakeTypeOK, ReviewTypeOK, RetTypeOK, Polls, IncidentStatus
<1>2. PollPoints'
  BY ItemAssumption DEF TypeOK, IntakeTypeOK, PollPoints, Polls
<1>3. RowsHaveItems'
  BY NoFileType DEF TypeOK, QuarantineTypeOK, IntakeTypeOK, RowsHaveItems, PollPoints, Polls, Records, Exists
<1>4. RetPoints'
  BY NoFileType DEF TypeOK, QuarantineTypeOK, RetTypeOK, RetPoints, Exists, IntakeTypeOK
<1>5. RequestPoints'
  <2>1. \A f \in Files : Exists(file[f]) => Exists(file'[f])
    BY DEF Drafted
  <2> QED
    BY <2>1 DEF TypeOK, ReviewTypeOK, RequestPoints, Reviews, Retrievals
<1>6. DraftPoints'
  BY NoFileType DEF TypeOK, QuarantineTypeOK, IntakeTypeOK, Polls, PollPoints, DraftPoints, Exists
<1> QED
  BY <1>1, <1>2, <1>3, <1>4, <1>5, <1>6

LEMMA PollDiesType ==
    ASSUME TypeInv, NEW s \in Sessions, PollDies(s), UNCHANGED <<reviewVars, ret>>, crashes' \in 0..MaxCrashes
    PROVE  TypeInv'
<1> USE DEF PollDies, Drafted, PollOff, PollIdle, quarantineVars, reviewVars, tokenVars
<1> USE DEF TypeInv
<1>1. TypeOK'
  BY NoFileType DEF TypeOK, QuarantineTypeOK, IntakeTypeOK, ReviewTypeOK, RetTypeOK, Polls
<1>2. PollPoints'
  BY ItemAssumption DEF TypeOK, IntakeTypeOK, PollPoints, Polls
<1>3. RowsHaveItems'
  BY NoFileType DEF TypeOK, QuarantineTypeOK, IntakeTypeOK, RowsHaveItems, PollPoints, Polls, Records, Exists
<1>4. RetPoints'
  BY NoFileType DEF TypeOK, QuarantineTypeOK, RetTypeOK, RetPoints, Exists
<1>5. RequestPoints'
  BY NoFileType DEF TypeOK, QuarantineTypeOK, ReviewTypeOK, RequestPoints, Exists
<1>6. DraftPoints'
  BY NoFileType DEF TypeOK, QuarantineTypeOK, IntakeTypeOK, Polls, PollPoints, DraftPoints, Exists
<1> QED
  BY <1>1, <1>2, <1>3, <1>4, <1>5, <1>6

LEMMA SessionEndsType ==
    ASSUME TypeInv, NEW s \in Sessions, SessionEnds(s), UNCHANGED <<reviewVars, ret, crashes>>
    PROVE  TypeInv'
<1> USE DEF SessionEnds, Drafted, PollOff, PollIdle, reviewVars, tokenVars
<1> USE DEF TypeInv
<1>1. TypeOK'
  BY NoFileType DEF TypeOK, QuarantineTypeOK, IntakeTypeOK, ReviewTypeOK, RetTypeOK, Polls
<1>2. PollPoints'
  BY ItemAssumption DEF TypeOK, IntakeTypeOK, PollPoints, Polls
<1>3. RowsHaveItems'
  BY NoFileType DEF TypeOK, QuarantineTypeOK, IntakeTypeOK, RowsHaveItems, PollPoints, Polls, Records, Exists
<1>4. RetPoints'
  BY NoFileType DEF TypeOK, QuarantineTypeOK, RetTypeOK, RetPoints, Exists
<1>5. RequestPoints'
  BY NoFileType DEF TypeOK, QuarantineTypeOK, ReviewTypeOK, RequestPoints, Exists
<1>6. DraftPoints'
  BY NoFileType DEF TypeOK, QuarantineTypeOK, IntakeTypeOK, Polls, PollPoints, DraftPoints, Exists
<1> QED
  BY <1>1, <1>2, <1>3, <1>4, <1>5, <1>6

LEMMA ReviewLoadsType ==
    ASSUME TypeInv, NEW r \in Reviewers, NEW f \in Files, NEW v \in {"RELEASED", "REJECTED"}, ReviewLoads(r, f, v), UNCHANGED <<ret, crashes>>
    PROVE  TypeInv'
<1> USE DEF ReviewLoads, quarantineVars, intakeVars, tokenVars
<1> USE DEF TypeInv
<1>1. TypeOK'
  BY NoFileType DEF TypeOK, QuarantineTypeOK, IntakeTypeOK, ReviewTypeOK, RetTypeOK, Reviews
<1>2. PollPoints'
  BY ItemAssumption DEF TypeOK, IntakeTypeOK, PollPoints, Polls
<1>3. RowsHaveItems'
  BY NoFileType DEF TypeOK, QuarantineTypeOK, IntakeTypeOK, RowsHaveItems, PollPoints, Polls, Records, Exists
<1>4. RetPoints'
  BY NoFileType DEF TypeOK, QuarantineTypeOK, RetTypeOK, RetPoints, Exists
<1>5. RequestPoints'
  BY NoFileType DEF TypeOK, QuarantineTypeOK, ReviewTypeOK, RequestPoints, Exists, Reviews
<1>6. DraftPoints'
  BY NoFileType DEF TypeOK, QuarantineTypeOK, IntakeTypeOK, Polls, PollPoints, DraftPoints, Exists
<1> QED
  BY <1>1, <1>2, <1>3, <1>4, <1>5, <1>6

LEMMA ReviewingType ==
    ASSUME TypeInv, NEW r \in Reviewers, Reviewing(r)
    PROVE  TypeInv'
<1> USE DEF Reviewing, ReviewCommits, intakeVars, tokenVars
<1> USE DEF TypeInv
<1>a. review[r].file \in Files /\ review[r].verdict \in {"RELEASED", "REJECTED"}
  BY DEF TypeOK, ReviewTypeOK, Reviews
<1>b. /\ file' \in [Files -> Records]
      /\ \A f \in Files : file'[f].item = file[f].item
      /\ \A f \in Files : Exists(file[f]) => Exists(file'[f])
  <2>1. file[review[r].file] \in Records
    BY <1>a DEF TypeOK, QuarantineTypeOK
  <2> QED
    BY <1>a, <2>1, ReviewedType DEF TypeOK, QuarantineTypeOK
<1>c. Exists(file[review[r].file])
  BY DEF RequestPoints
<1>1. TypeOK'
  BY <1>b DEF TypeOK, QuarantineTypeOK, IntakeTypeOK, ReviewTypeOK, RetTypeOK, Reviews
<1>2. PollPoints'
  BY ItemAssumption DEF TypeOK, IntakeTypeOK, PollPoints, Polls
<1>d. \A f \in Files : Exists(file'[f]) <=> Exists(file[f])
  <2>1. \A f \in Files : Exists(file'[f]) => Exists(file[f])
    BY <1>a, <1>c DEF TypeOK, QuarantineTypeOK
  <2> QED
    BY <1>b, <2>1
<1>e. /\ UNCHANGED <<draft, poll, ret, token, get>>
      /\ \A q \in Reviewers : review'[q] # NoReview => review'[q] = review[q]
  BY DEF TypeOK, ReviewTypeOK
<1> HIDE DEF Reviewing, ReviewCommits
<1>3. RowsHaveItems'
  <2> SUFFICES ASSUME NEW f \in Files
               PROVE  /\ Exists(file'[f]) => file'[f].item \in Items
                      /\ Exists(draft'[f]) => draft'[f].item \in Items
    BY DEF RowsHaveItems
  <2>1. file'[f].item = file[f].item
    BY <1>b
  <2> QED
    BY <1>d, <1>e, <2>1 DEF RowsHaveItems
<1>4. RetPoints'
  BY <1>d, <1>e DEF TypeOK, RetTypeOK, RetPoints
<1>5. RequestPoints'
  BY <1>d, <1>e DEF TypeOK, ReviewTypeOK, RequestPoints, Reviews, Retrievals
<1>6. DraftPoints'
  BY <1>d, <1>e DEF DraftPoints
<1> QED
  BY <1>1, <1>2, <1>3, <1>4, <1>5, <1>6

LEMMA UpdateIncidentType ==
    ASSUME TypeInv, NEW f \in Files, NEW status \in IncidentUpdates, UpdateIncident(f, status), UNCHANGED <<ret, crashes>>
    PROVE  TypeInv'
<1> USE DEF UpdateIncident, intakeVars, tokenVars
<1> USE DEF TypeInv
<1>1. TypeOK'
  BY PeopleAssumption, NoFileType DEF TypeOK, QuarantineTypeOK, IntakeTypeOK, ReviewTypeOK, RetTypeOK
<1>2. PollPoints'
  BY PeopleAssumption, ItemAssumption DEF TypeOK, IntakeTypeOK, PollPoints, Polls
<1>3. RowsHaveItems'
  BY PeopleAssumption, NoFileType DEF TypeOK, QuarantineTypeOK, IntakeTypeOK, RowsHaveItems, PollPoints, Polls, Records, Exists
<1>4. RetPoints'
  BY PeopleAssumption, NoFileType DEF TypeOK, QuarantineTypeOK, RetTypeOK, RetPoints, Exists
<1>5. RequestPoints'
  BY PeopleAssumption, NoFileType DEF TypeOK, QuarantineTypeOK, ReviewTypeOK, RequestPoints, Exists
<1>6. DraftPoints'
  BY NoFileType DEF TypeOK, QuarantineTypeOK, IntakeTypeOK, Polls, PollPoints, DraftPoints, Exists
<1> QED
  BY <1>1, <1>2, <1>3, <1>4, <1>5, <1>6

LEMMA RequestTokenType ==
    ASSUME TypeInv, NEW t \in Tokens, NEW f \in Files, RequestToken(t, f), UNCHANGED <<ret, crashes>>
    PROVE  TypeInv'
<1> USE DEF RequestToken, quarantineVars, intakeVars
<1> USE DEF TypeInv
<1>1. TypeOK'
  BY NoFileType DEF TypeOK, QuarantineTypeOK, IntakeTypeOK, ReviewTypeOK, RetTypeOK
<1>2. PollPoints'
  BY ItemAssumption DEF TypeOK, IntakeTypeOK, PollPoints, Polls
<1>3. RowsHaveItems'
  BY NoFileType DEF TypeOK, QuarantineTypeOK, IntakeTypeOK, RowsHaveItems, PollPoints, Polls, Records, Exists
<1>4. RetPoints'
  BY NoFileType DEF TypeOK, QuarantineTypeOK, RetTypeOK, RetPoints, Exists
<1>5. RequestPoints'
  BY NoFileType DEF TypeOK, QuarantineTypeOK, ReviewTypeOK, RequestPoints, Exists
<1>6. DraftPoints'
  BY NoFileType DEF TypeOK, QuarantineTypeOK, IntakeTypeOK, Polls, PollPoints, DraftPoints, Exists
<1> QED
  BY <1>1, <1>2, <1>3, <1>4, <1>5, <1>6

LEMMA TokenExpiresType ==
    ASSUME TypeInv, NEW t \in Tokens, TokenExpires(t), UNCHANGED <<ret, crashes>>
    PROVE  TypeInv'
<1> USE DEF TokenExpires, quarantineVars, intakeVars
<1> USE DEF TypeInv
<1>1. TypeOK'
  BY NoFileType DEF TypeOK, QuarantineTypeOK, IntakeTypeOK, ReviewTypeOK, RetTypeOK
<1>2. PollPoints'
  BY ItemAssumption DEF TypeOK, IntakeTypeOK, PollPoints, Polls
<1>3. RowsHaveItems'
  BY NoFileType DEF TypeOK, QuarantineTypeOK, IntakeTypeOK, RowsHaveItems, PollPoints, Polls, Records, Exists
<1>4. RetPoints'
  BY NoFileType DEF TypeOK, QuarantineTypeOK, RetTypeOK, RetPoints, Exists
<1>5. RequestPoints'
  BY NoFileType DEF TypeOK, QuarantineTypeOK, ReviewTypeOK, RequestPoints, Exists
<1>6. DraftPoints'
  BY NoFileType DEF TypeOK, QuarantineTypeOK, IntakeTypeOK, Polls, PollPoints, DraftPoints, Exists
<1> QED
  BY <1>1, <1>2, <1>3, <1>4, <1>5, <1>6

LEMMA ConsumeTokenType ==
    ASSUME TypeInv, NEW g \in Gets, NEW t \in Tokens, NEW u \in Users, ConsumeToken(g, t, u), UNCHANGED <<ret, crashes>>
    PROVE  TypeInv'
<1> USE DEF ConsumeToken, quarantineVars, intakeVars
<1> USE DEF TypeInv
<1>1. TypeOK'
  BY NoFileType DEF TypeOK, QuarantineTypeOK, IntakeTypeOK, ReviewTypeOK, RetTypeOK, Retrievals
<1>2. PollPoints'
  BY ItemAssumption DEF TypeOK, IntakeTypeOK, PollPoints, Polls
<1>3. RowsHaveItems'
  BY NoFileType DEF TypeOK, QuarantineTypeOK, IntakeTypeOK, RowsHaveItems, PollPoints, Polls, Records, Exists
<1>4. RetPoints'
  BY NoFileType DEF TypeOK, QuarantineTypeOK, RetTypeOK, RetPoints, Exists
<1>5. RequestPoints'
  BY NoFileType DEF TypeOK, QuarantineTypeOK, ReviewTypeOK, RequestPoints, Exists, Retrievals
<1>6. DraftPoints'
  BY NoFileType DEF TypeOK, QuarantineTypeOK, IntakeTypeOK, Polls, PollPoints, DraftPoints, Exists
<1> QED
  BY <1>1, <1>2, <1>3, <1>4, <1>5, <1>6

LEMMA GetServesType ==
    ASSUME TypeInv, NEW g \in Gets, GetServes(g), UNCHANGED <<ret, crashes>>
    PROVE  TypeInv'
<1> USE DEF GetServes, quarantineVars, intakeVars
<1> USE DEF TypeInv
<1>1. TypeOK'
  BY NoFileType DEF TypeOK, QuarantineTypeOK, IntakeTypeOK, ReviewTypeOK, RetTypeOK, Retrievals
<1>2. PollPoints'
  BY ItemAssumption DEF TypeOK, IntakeTypeOK, PollPoints, Polls
<1>3. RowsHaveItems'
  BY NoFileType DEF TypeOK, QuarantineTypeOK, IntakeTypeOK, RowsHaveItems, PollPoints, Polls, Records, Exists
<1>4. RetPoints'
  BY NoFileType DEF TypeOK, QuarantineTypeOK, RetTypeOK, RetPoints, Exists
<1>5. RequestPoints'
  BY NoFileType DEF TypeOK, QuarantineTypeOK, ReviewTypeOK, RequestPoints, Exists, Retrievals
<1>6. DraftPoints'
  BY NoFileType DEF TypeOK, QuarantineTypeOK, IntakeTypeOK, Polls, PollPoints, DraftPoints, Exists
<1> QED
  BY <1>1, <1>2, <1>3, <1>4, <1>5, <1>6

LEMMA GetGoneType ==
    ASSUME TypeInv, NEW g \in Gets, GetGone(g), UNCHANGED <<ret, crashes>>
    PROVE  TypeInv'
<1> USE DEF GetGone, quarantineVars, intakeVars
<1> USE DEF TypeInv
<1>1. TypeOK'
  BY NoFileType DEF TypeOK, QuarantineTypeOK, IntakeTypeOK, ReviewTypeOK, RetTypeOK, Retrievals
<1>2. PollPoints'
  BY ItemAssumption DEF TypeOK, IntakeTypeOK, PollPoints, Polls
<1>3. RowsHaveItems'
  BY NoFileType DEF TypeOK, QuarantineTypeOK, IntakeTypeOK, RowsHaveItems, PollPoints, Polls, Records, Exists
<1>4. RetPoints'
  BY NoFileType DEF TypeOK, QuarantineTypeOK, RetTypeOK, RetPoints, Exists
<1>5. RequestPoints'
  BY NoFileType DEF TypeOK, QuarantineTypeOK, ReviewTypeOK, RequestPoints, Exists, Retrievals
<1>6. DraftPoints'
  BY NoFileType DEF TypeOK, QuarantineTypeOK, IntakeTypeOK, Polls, PollPoints, DraftPoints, Exists
<1> QED
  BY <1>1, <1>2, <1>3, <1>4, <1>5, <1>6

\* A row that is not at the bound may age.
LEMMA RecordAges ==
    ASSUME NEW r \in Records, r.age < MaxAge
    PROVE  [r EXCEPT !.age = @ + 1] \in Records
<1>1. r.age \in 0..2
  BY DEF Records
<1>2. r.age + 1 \in 0..2
  BY <1>1, AgeAssumption
<1> QED
  BY <1>2 DEF Records

LEMMA AgeingType ==
    ASSUME TypeInv, Ageing
    PROVE  TypeInv'
<1> USE DEF Ageing, FileAges, intakeVars, reviewVars, tokenVars
<1> USE DEF TypeInv
<1>1. TypeOK'
  <2>1. PICK f \in Files : file[f].age < MaxAge /\ file' = [file EXCEPT ![f].age = @ + 1]
    OBVIOUS
  <2>2. [file[f] EXCEPT !.age = @ + 1] \in Records
    <3>1. file[f] \in Records
      BY DEF TypeOK, QuarantineTypeOK
    <3> QED
      BY <2>1, <3>1, RecordAges
  <2>3. file' \in [Files -> Records]
    BY <2>1, <2>2 DEF TypeOK, QuarantineTypeOK
  <2> QED
    BY <2>3 DEF TypeOK, QuarantineTypeOK, IntakeTypeOK, ReviewTypeOK, RetTypeOK
<1>2. PollPoints'
  BY AgeAssumption, ItemAssumption DEF TypeOK, IntakeTypeOK, PollPoints, Polls
<1>3. RowsHaveItems'
  BY AgeAssumption, NoFileType DEF TypeOK, QuarantineTypeOK, IntakeTypeOK, RowsHaveItems, PollPoints, Polls, Records, Exists
<1>4. RetPoints'
  BY AgeAssumption, NoFileType DEF TypeOK, QuarantineTypeOK, RetTypeOK, RetPoints, Exists, Records
<1>5. RequestPoints'
  BY AgeAssumption, NoFileType DEF TypeOK, QuarantineTypeOK, ReviewTypeOK, RequestPoints, Exists, Records
<1>6. DraftPoints'
  BY NoFileType DEF TypeOK, QuarantineTypeOK, IntakeTypeOK, Polls, PollPoints, DraftPoints, Exists, Records
<1> QED
  BY <1>1, <1>2, <1>3, <1>4, <1>5, <1>6

LEMMA RetListsType ==
    ASSUME TypeInv, RetLists, UNCHANGED crashes
    PROVE  TypeInv'
<1> USE DEF RetLists, RetIdle, Expired, quarantineVars, intakeVars, reviewVars, tokenVars
<1> USE DEF TypeInv
<1>1. TypeOK'
  BY NoFileType DEF TypeOK, QuarantineTypeOK, IntakeTypeOK, ReviewTypeOK, RetTypeOK
<1>2. PollPoints'
  BY ItemAssumption DEF TypeOK, IntakeTypeOK, PollPoints, Polls
<1>3. RowsHaveItems'
  BY NoFileType DEF TypeOK, QuarantineTypeOK, IntakeTypeOK, RowsHaveItems, PollPoints, Polls, Records, Exists
<1>4. RetPoints'
  BY NoFileType DEF TypeOK, QuarantineTypeOK, RetTypeOK, RetPoints, Exists
<1>5. RequestPoints'
  BY NoFileType DEF TypeOK, QuarantineTypeOK, ReviewTypeOK, RequestPoints, Exists
<1>6. DraftPoints'
  BY NoFileType DEF TypeOK, QuarantineTypeOK, IntakeTypeOK, Polls, PollPoints, DraftPoints, Exists
<1> QED
  BY <1>1, <1>2, <1>3, <1>4, <1>5, <1>6

LEMMA RetSkipsType ==
    ASSUME TypeInv, NEW f \in Files, RetSkips(f), UNCHANGED crashes
    PROVE  TypeInv'
<1> USE DEF RetSkips, quarantineVars, intakeVars, reviewVars, tokenVars
<1> USE DEF TypeInv
<1>1. TypeOK'
  BY NoFileType DEF TypeOK, QuarantineTypeOK, IntakeTypeOK, ReviewTypeOK, RetTypeOK
<1>2. PollPoints'
  BY ItemAssumption DEF TypeOK, IntakeTypeOK, PollPoints, Polls
<1>3. RowsHaveItems'
  BY NoFileType DEF TypeOK, QuarantineTypeOK, IntakeTypeOK, RowsHaveItems, PollPoints, Polls, Records, Exists
<1>4. RetPoints'
  BY NoFileType DEF TypeOK, QuarantineTypeOK, RetTypeOK, RetPoints, Exists
<1>5. RequestPoints'
  BY NoFileType DEF TypeOK, QuarantineTypeOK, ReviewTypeOK, RequestPoints, Exists
<1>6. DraftPoints'
  BY NoFileType DEF TypeOK, QuarantineTypeOK, IntakeTypeOK, Polls, PollPoints, DraftPoints, Exists
<1> QED
  BY <1>1, <1>2, <1>3, <1>4, <1>5, <1>6

LEMMA RetTakesType ==
    ASSUME TypeInv, NEW f \in Files, RetTakes(f), UNCHANGED crashes
    PROVE  TypeInv'
<1> USE DEF RetTakes, quarantineVars, intakeVars, reviewVars, tokenVars
<1> USE DEF TypeInv
<1>1. TypeOK'
  BY NoFileType DEF TypeOK, QuarantineTypeOK, IntakeTypeOK, ReviewTypeOK, RetTypeOK
<1>2. PollPoints'
  BY ItemAssumption DEF TypeOK, IntakeTypeOK, PollPoints, Polls
<1>3. RowsHaveItems'
  BY NoFileType DEF TypeOK, QuarantineTypeOK, IntakeTypeOK, RowsHaveItems, PollPoints, Polls, Records, Exists
<1>4. RetPoints'
  BY NoFileType DEF TypeOK, QuarantineTypeOK, RetTypeOK, RetPoints, Exists
<1>5. RequestPoints'
  BY NoFileType DEF TypeOK, QuarantineTypeOK, ReviewTypeOK, RequestPoints, Exists
<1>6. DraftPoints'
  BY NoFileType DEF TypeOK, QuarantineTypeOK, IntakeTypeOK, Polls, PollPoints, DraftPoints, Exists
<1> QED
  BY <1>1, <1>2, <1>3, <1>4, <1>5, <1>6

LEMMA RetAsksHashType ==
    ASSUME TypeInv, RetAsksHash, UNCHANGED crashes
    PROVE  TypeInv'
<1> USE DEF RetAsksHash, quarantineVars, intakeVars, reviewVars, tokenVars
<1> USE DEF TypeInv
<1>1. TypeOK'
  BY NoFileType DEF TypeOK, QuarantineTypeOK, IntakeTypeOK, ReviewTypeOK, RetTypeOK, Records, RetPoints
<1>2. PollPoints'
  BY ItemAssumption DEF TypeOK, IntakeTypeOK, PollPoints, Polls
<1>3. RowsHaveItems'
  BY NoFileType DEF TypeOK, QuarantineTypeOK, IntakeTypeOK, RowsHaveItems, PollPoints, Polls, Records, Exists
<1>4. RetPoints'
  BY NoFileType DEF TypeOK, QuarantineTypeOK, RetTypeOK, RetPoints, Exists
<1>5. RequestPoints'
  BY NoFileType DEF TypeOK, QuarantineTypeOK, ReviewTypeOK, RequestPoints, Exists
<1>6. DraftPoints'
  BY NoFileType DEF TypeOK, QuarantineTypeOK, IntakeTypeOK, Polls, PollPoints, DraftPoints, Exists
<1> QED
  BY <1>1, <1>2, <1>3, <1>4, <1>5, <1>6

LEMMA RetRemovesType ==
    ASSUME TypeInv, RetRemoves, UNCHANGED crashes
    PROVE  TypeInv'
<1> USE DEF RetRemoves, quarantineVars, intakeVars, reviewVars, tokenVars
<1> USE DEF TypeInv
<1>1. TypeOK'
  BY NoFileType DEF TypeOK, QuarantineTypeOK, IntakeTypeOK, ReviewTypeOK, RetTypeOK, RetPoints
<1>2. PollPoints'
  BY ItemAssumption DEF TypeOK, IntakeTypeOK, PollPoints, Polls
<1>3. RowsHaveItems'
  BY NoFileType DEF TypeOK, QuarantineTypeOK, IntakeTypeOK, RowsHaveItems, PollPoints, Polls, Records, Exists
<1>4. RetPoints'
  BY NoFileType DEF TypeOK, QuarantineTypeOK, RetTypeOK, RetPoints, Exists
<1>5. RequestPoints'
  BY NoFileType DEF TypeOK, QuarantineTypeOK, ReviewTypeOK, RequestPoints, Exists
<1>6. DraftPoints'
  BY NoFileType DEF TypeOK, QuarantineTypeOK, IntakeTypeOK, Polls, PollPoints, DraftPoints, Exists
<1> QED
  BY <1>1, <1>2, <1>3, <1>4, <1>5, <1>6

LEMMA RetCannotRemoveType ==
    ASSUME TypeInv, RetCannotRemove, UNCHANGED crashes
    PROVE  TypeInv'
<1> USE DEF RetCannotRemove, quarantineVars, intakeVars, reviewVars, tokenVars
<1> USE DEF TypeInv
<1>1. TypeOK'
  BY NoFileType DEF TypeOK, QuarantineTypeOK, IntakeTypeOK, ReviewTypeOK, RetTypeOK
<1>2. PollPoints'
  BY ItemAssumption DEF TypeOK, IntakeTypeOK, PollPoints, Polls
<1>3. RowsHaveItems'
  BY NoFileType DEF TypeOK, QuarantineTypeOK, IntakeTypeOK, RowsHaveItems, PollPoints, Polls, Records, Exists
<1>4. RetPoints'
  BY NoFileType DEF TypeOK, QuarantineTypeOK, RetTypeOK, RetPoints, Exists
<1>5. RequestPoints'
  BY NoFileType DEF TypeOK, QuarantineTypeOK, ReviewTypeOK, RequestPoints, Exists
<1>6. DraftPoints'
  BY NoFileType DEF TypeOK, QuarantineTypeOK, IntakeTypeOK, Polls, PollPoints, DraftPoints, Exists
<1> QED
  BY <1>1, <1>2, <1>3, <1>4, <1>5, <1>6

LEMMA RetCommitsType ==
    ASSUME TypeInv, RetCommits, UNCHANGED crashes
    PROVE  TypeInv'
<1> USE DEF RetCommits, RetIdle, intakeVars, reviewVars, tokenVars
<1> USE DEF TypeInv
<1>1. TypeOK'
  BY NoFileType DEF TypeOK, QuarantineTypeOK, IntakeTypeOK, ReviewTypeOK, RetTypeOK, Records, QuarantineStatus
<1>2. PollPoints'
  BY ItemAssumption DEF TypeOK, IntakeTypeOK, PollPoints, Polls
<1>a. \A f \in Files : /\ file'[f].item = file[f].item
                       /\ Exists(file'[f]) <=> Exists(file[f])
  BY DEF TypeOK, QuarantineTypeOK, RetPoints, Records, Exists
<1>3. RowsHaveItems'
  BY <1>a DEF RowsHaveItems
<1>4. RetPoints'
  BY DEF RetPoints
<1>5. RequestPoints'
  BY <1>a DEF TypeOK, ReviewTypeOK, RequestPoints, Reviews, Retrievals
<1>6. DraftPoints'
  BY <1>a DEF DraftPoints
<1> QED
  BY <1>1, <1>2, <1>3, <1>4, <1>5, <1>6

LEMMA RetentionFailsType ==
    ASSUME TypeInv, RetentionFails
    PROVE  TypeInv'
<1> USE DEF RetentionFails, RetIdle, quarantineVars, intakeVars, reviewVars, tokenVars
<1> USE DEF TypeInv
<1>1. TypeOK'
  BY CrashAssumption, NoFileType DEF TypeOK, QuarantineTypeOK, IntakeTypeOK, ReviewTypeOK, RetTypeOK
<1>2. PollPoints'
  BY CrashAssumption, ItemAssumption DEF TypeOK, IntakeTypeOK, PollPoints, Polls
<1>3. RowsHaveItems'
  BY CrashAssumption, NoFileType DEF TypeOK, QuarantineTypeOK, IntakeTypeOK, RowsHaveItems, PollPoints, Polls, Records, Exists
<1>4. RetPoints'
  BY CrashAssumption, NoFileType DEF TypeOK, QuarantineTypeOK, RetTypeOK, RetPoints, Exists
<1>5. RequestPoints'
  BY CrashAssumption, NoFileType DEF TypeOK, QuarantineTypeOK, ReviewTypeOK, RequestPoints, Exists
<1>6. DraftPoints'
  BY NoFileType DEF TypeOK, QuarantineTypeOK, IntakeTypeOK, Polls, PollPoints, DraftPoints, Exists
<1> QED
  BY <1>1, <1>2, <1>3, <1>4, <1>5, <1>6

LEMMA BackendRestartsType ==
    ASSUME TypeInv, BackendRestarts
    PROVE  TypeInv'
<1> USE DEF BackendRestarts, PollOff, PollIdle, NoReview, NoGet, RetIdle, quarantineVars
<1> USE DEF TypeInv
<1>1. TypeOK'
  BY CrashAssumption, NoFileType DEF TypeOK, QuarantineTypeOK, IntakeTypeOK, ReviewTypeOK, RetTypeOK, Polls, Reviews, Retrievals
<1>2. PollPoints'
  BY CrashAssumption, ItemAssumption DEF TypeOK, IntakeTypeOK, PollPoints, Polls
<1>3. RowsHaveItems'
  BY CrashAssumption, NoFileType DEF TypeOK, QuarantineTypeOK, IntakeTypeOK, RowsHaveItems, PollPoints, Polls, Records, Exists
<1>4. RetPoints'
  BY CrashAssumption, NoFileType DEF TypeOK, QuarantineTypeOK, RetTypeOK, RetPoints, Exists
<1>5. RequestPoints'
  BY CrashAssumption, NoFileType DEF TypeOK, QuarantineTypeOK, ReviewTypeOK, RequestPoints, Exists
<1>6. DraftPoints'
  BY NoFileType DEF TypeOK, QuarantineTypeOK, IntakeTypeOK, Polls, PollPoints, DraftPoints, Exists
<1> QED
  BY <1>1, <1>2, <1>3, <1>4, <1>5, <1>6

LEMMA StutterType ==
    ASSUME TypeInv, UNCHANGED vars
    PROVE  TypeInv'
<1> USE DEF vars, quarantineVars, intakeVars, reviewVars, tokenVars
<1> USE DEF TypeInv
<1>1. TypeOK'
  BY NoFileType DEF TypeOK, QuarantineTypeOK, IntakeTypeOK, ReviewTypeOK, RetTypeOK
<1>2. PollPoints'
  BY ItemAssumption DEF TypeOK, IntakeTypeOK, PollPoints, Polls
<1>3. RowsHaveItems'
  BY NoFileType DEF TypeOK, QuarantineTypeOK, IntakeTypeOK, RowsHaveItems, PollPoints, Polls, Records, Exists
<1>4. RetPoints'
  BY NoFileType DEF TypeOK, QuarantineTypeOK, RetTypeOK, RetPoints, Exists
<1>5. RequestPoints'
  BY NoFileType DEF TypeOK, QuarantineTypeOK, ReviewTypeOK, RequestPoints, Exists
<1>6. DraftPoints'
  BY NoFileType DEF TypeOK, QuarantineTypeOK, IntakeTypeOK, Polls, PollPoints, DraftPoints, Exists
<1> QED
  BY <1>1, <1>2, <1>3, <1>4, <1>5, <1>6

\* One step per action of Next.
LEMMA StepType == TypeInv /\ [Next]_vars => TypeInv'
<1> SUFFICES ASSUME TypeInv, [Next]_vars PROVE TypeInv'
  OBVIOUS
<1>1. CASE Downloading
  BY <1>1, DownloadingType
<1>2. ASSUME NEW s \in Sessions, Polling(s) PROVE TypeInv'
  <2>1. CASE PollLists(s)
    BY <1>2, <2>1, PollListsType DEF Polling
  <2>2. ASSUME NEW d \in Items, IntakeRefuses(s, d) PROVE TypeInv'
    BY <1>2, <2>2, IntakeRefusesType DEF Polling
  <2>3. ASSUME NEW d \in Items, IntakeFetches(s, d) PROVE TypeInv'
    BY <1>2, <2>3, IntakeFetchesType DEF Polling
  <2>4. ASSUME NEW d \in Items, IntakeCannotFetch(s, d) PROVE TypeInv'
    BY <1>2, <2>4, IntakeCannotFetchType DEF Polling
  <2>5. CASE IntakeDedupes(s)
    BY <1>2, <2>5, IntakeDedupesType DEF Polling
  <2>6. CASE IntakeStages(s)
    BY <1>2, <2>6, IntakeStagesType DEF Polling
  <2>7. CASE IntakeScans(s)
    BY <1>2, <2>7, IntakeScansType DEF Polling
  <2>8. CASE IntakeDeletes(s)
    BY <1>2, <2>8, IntakeDeletesType DEF Polling
  <2>9. CASE IntakeCommits(s)
    BY <1>2, <2>9, IntakeCommitsType DEF Polling
  <2> QED
    BY <1>2, <2>1, <2>2, <2>3, <2>4, <2>5, <2>6, <2>7, <2>8, <2>9 DEF Polling, IntakeStep
<1>3. ASSUME NEW s \in MayEnd \cap Sessions, SessionEnds(s), UNCHANGED <<reviewVars, ret, crashes>>
      PROVE  TypeInv'
  BY <1>3, SessionEndsType
<1>4. CASE People
  <2>1. ASSUME NEW r \in Reviewers, NEW f \in Files, NEW v \in {"RELEASED", "REJECTED"},
               ReviewLoads(r, f, v)
        PROVE  TypeInv'
    BY <1>4, <2>1, ReviewLoadsType DEF People
  <2>2. ASSUME NEW f \in Files, NEW status \in IncidentUpdates, UpdateIncident(f, status)
        PROVE  TypeInv'
    BY <1>4, <2>2, UpdateIncidentType DEF People
  <2>3. ASSUME NEW t \in Tokens, NEW f \in Files, RequestToken(t, f) PROVE TypeInv'
    BY <1>4, <2>3, RequestTokenType DEF People
  <2>4. ASSUME NEW t \in Tokens, TokenExpires(t) PROVE TypeInv'
    BY <1>4, <2>4, TokenExpiresType DEF People
  <2>5. ASSUME NEW g \in Gets, NEW t \in Tokens, NEW u \in Users, ConsumeToken(g, t, u)
        PROVE  TypeInv'
    BY <1>4, <2>5, ConsumeTokenType DEF People
  <2>6. ASSUME NEW g \in Gets, GetServes(g) PROVE TypeInv'
    BY <1>4, <2>6, GetServesType DEF People
  <2>7. ASSUME NEW g \in Gets, GetGone(g) PROVE TypeInv'
    BY <1>4, <2>7, GetGoneType DEF People
  <2> QED
    BY <1>4, <2>1, <2>2, <2>3, <2>4, <2>5, <2>6, <2>7 DEF People, ReviewStep
<1>5. ASSUME NEW r \in Reviewers, Reviewing(r) PROVE TypeInv'
  BY <1>5, ReviewingType
<1>6. CASE Ageing
  BY <1>6, AgeingType
<1>7. CASE Retaining
  <2>1. CASE RetLists
    BY <1>7, <2>1, RetListsType DEF Retaining
  <2>2. ASSUME NEW f \in Files, RetSkips(f) PROVE TypeInv'
    BY <1>7, <2>2, RetSkipsType DEF Retaining
  <2>3. ASSUME NEW f \in Files, RetTakes(f) PROVE TypeInv'
    BY <1>7, <2>3, RetTakesType DEF Retaining
  <2>4. CASE RetAsksHash
    BY <1>7, <2>4, RetAsksHashType DEF Retaining
  <2>5. CASE RetRemoves
    BY <1>7, <2>5, RetRemovesType DEF Retaining
  <2>6. CASE RetCannotRemove
    BY <1>7, <2>6, RetCannotRemoveType DEF Retaining
  <2>7. CASE RetCommits
    BY <1>7, <2>7, RetCommitsType DEF Retaining
  <2> QED
    BY <1>7, <2>1, <2>2, <2>3, <2>4, <2>5, <2>6, <2>7 DEF Retaining, RetStep
<1>8. CASE PollerFails
  <2>1. PICK s \in Sessions : PollDies(s)
    BY <1>8 DEF PollerFails
  <2>2. crashes' \in 0..MaxCrashes
    BY <1>8, CrashAssumption DEF PollerFails, TypeInv, TypeOK
  <2> QED
    BY <1>8, <2>1, <2>2, PollDiesType DEF PollerFails
<1>9. CASE RetentionFails
  BY <1>9, RetentionFailsType
<1>10. CASE BackendRestarts
  BY <1>10, BackendRestartsType
<1>11. CASE UNCHANGED vars
  BY <1>11, StutterType
<1> QED
  BY <1>1, <1>2, <1>3, <1>4, <1>5, <1>6, <1>7, <1>8, <1>9, <1>10, <1>11, EndAssumption
  DEF Next, Ending

\* The rows, transactions, requests and jobs of the download pipeline keep
\* their types, and what a step is about to work on exists.
THEOREM PipelineTypes == Spec => []TypeInv
  BY InitType, StepType, PTL DEF Spec

-----------------------------------------------------------------------------
\* Fail closed.

Cleared(r) ==
    r.status = "RELEASED" =>
        r.reviewed \/ (r.scanner = "CLEAN" /\ r.policy = "AUTO_RELEASE")

\* Uncommitted rows are cleared like committed ones.
ClearedInv == \A f \in Files : Cleared(file[f]) /\ Cleared(draft[f])

LEMMA DecideCleared ==
    ASSUME NEW r \in Records, NEW result \in {"CLEAN", "INFECTED", "ERROR"}
    PROVE  Cleared(Decide(r, result))
  BY DEF Decide, Cleared, Records

LEMMA NoFileCleared == Cleared(NoFile)
  BY DEF NoFile, Cleared

\* The ways a row, committed or not, can change in a step.
LEMMA ClearedStep == TypeInv /\ ClearedInv /\ [Next]_vars => ClearedInv'
<1> SUFFICES ASSUME TypeInv, ClearedInv, [Next]_vars PROVE ClearedInv'
  OBVIOUS
<1> USE DEF ClearedInv
<1>a. file \in [Files -> Records] /\ draft \in [Files -> Records]
  BY DEF TypeInv, TypeOK, QuarantineTypeOK, IntakeTypeOK
<1>b. ASSUME UNCHANGED <<file, draft>> PROVE ClearedInv'
  BY <1>b
<1>1. ASSUME NEW s \in Sessions, Polling(s) PROVE ClearedInv'
  <2>1. ASSUME NEW d \in Items, IntakeRefuses(s, d) PROVE ClearedInv'
    <3>1. Cleared(Refused(d))
      BY DEF Refused, Cleared
    <3> QED
      BY <1>a, <2>1, <3>1 DEF IntakeRefuses, quarantineVars
  <2>2. CASE IntakeStages(s)
    <3>1. \A action \in FileAction : Cleared(Staged(poll[s].item, action))
      BY DEF Staged, Cleared
    <3> QED
      BY <1>a, <2>2, <3>1 DEF IntakeStages
  <2>3. CASE IntakeScans(s)
    <3>1. poll[s].file \in Files
      BY <2>3 DEF IntakeScans, TypeInv, PollPoints
    <3> QED
      BY <1>a, <2>3, <3>1, DecideCleared DEF IntakeScans, quarantineVars
  <2>4. CASE IntakeCommits(s)
    BY <2>4, NoFileCleared DEF IntakeCommits
  <2> QED
    BY <1>1, <1>b, <2>1, <2>2, <2>3, <2>4
    DEF Polling, PollLists, IntakeStep, IntakeFetches, IntakeCannotFetch,
        IntakeDedupes, IntakeDeletes, quarantineVars
<1>2. CASE Ending
  BY <1>2, NoFileCleared DEF Ending, SessionEnds
<1>3. ASSUME NEW r \in Reviewers, Reviewing(r) PROVE ClearedInv'
  <2>1. review[r].file \in Files /\ review[r].verdict \in {"RELEASED", "REJECTED"}
    BY <1>3 DEF Reviewing, ReviewCommits, TypeInv, TypeOK, ReviewTypeOK, Reviews
  <2>2. Cleared(Reviewed(file[review[r].file], review[r].verdict))
    BY <1>a, <2>1, ReviewedType DEF Cleared
  <2> QED
    BY <1>a, <1>3, <2>1, <2>2 DEF Reviewing, ReviewCommits, intakeVars
<1>4. CASE Ageing
  BY <1>a, <1>4 DEF Ageing, FileAges, intakeVars, Cleared, Records
<1>5. CASE RetCommits /\ UNCHANGED crashes
  BY <1>a, <1>5 DEF RetCommits, intakeVars, Cleared, Records
<1>6. CASE PollerFails
  BY <1>6, NoFileCleared DEF PollerFails, PollDies, quarantineVars
<1>7. CASE BackendRestarts
  BY <1>7, NoFileCleared DEF BackendRestarts, quarantineVars
<1>8. CASE Downloading \/ People \/ RetentionFails \/ UNCHANGED vars
  BY <1>8, <1>b
  DEF Downloading, BrowserDownloads, People, ReviewStep, ReviewLoads, UpdateIncident,
      RequestToken, TokenExpires, ConsumeToken, GetServes, GetGone, RetentionFails,
      vars, quarantineVars, intakeVars
<1>9. CASE Retaining /\ ~RetCommits
  BY <1>9, <1>b
  DEF Retaining, RetLists, RetStep, RetSkips, RetTakes, RetAsksHash, RetRemoves,
      RetCannotRemove, quarantineVars, intakeVars
<1> QED
  BY <1>1, <1>2, <1>3, <1>4, <1>5, <1>6, <1>7, <1>8, <1>9 DEF Next, Retaining

\* A file is released only if it was scanned clean and the policy releases it,
\* or a reviewer released it (docs/adr/0008-fail-closed.md).
THEOREM FailClosed == Spec => []ReleasedWasCleared
<1>1. Init => ClearedInv
  BY NoFileCleared DEF Init, QuarantineInit, IntakeInit, ClearedInv
<1>2. ClearedInv => ReleasedWasCleared
  BY DEF ClearedInv, ReleasedWasCleared, Cleared
<1> QED
  BY <1>1, <1>2, PipelineTypes, ClearedStep, PTL DEF Spec

-----------------------------------------------------------------------------
\* Incidents hold their files.

\* The incident about f, if open, was closed in between.
NotHeld(f) == incident[f] \in OpenIncidentStatuses => f \in reopened

\* What the retention job has taken up or marked was not held when it asked,
\* and no transaction inserts a deleted row.
HoldInv ==
    \A f \in Files :
        /\ file[f].status = "DELETED" => NotHeld(f)
        /\ f \in ret.gone => NotHeld(f)
        /\ ret.pc \in {"share", "remove"} /\ f = ret.file => NotHeld(f)
        /\ draft[f].status # "DELETED"

LEMMA HoldStep == TypeInv /\ HoldInv /\ [Next]_vars => HoldInv'
<1> SUFFICES ASSUME TypeInv, HoldInv, [Next]_vars PROVE HoldInv'
  OBVIOUS
<1> USE DEF HoldInv, NotHeld
<1>a. file \in [Files -> Records] /\ draft \in [Files -> Records]
  BY DEF TypeInv, TypeOK, QuarantineTypeOK, IntakeTypeOK
<1>b. ASSUME UNCHANGED <<file, draft, incident, reopened, ret>> PROVE HoldInv'
  BY <1>b
<1>c. NoFile.status # "DELETED"
  BY DEF NoFile
<1>1. ASSUME NEW s \in Sessions, Polling(s) PROVE HoldInv'
  <2>1. ASSUME NEW d \in Items, IntakeRefuses(s, d) PROVE HoldInv'
    BY <1>a, <1>1, <2>1, RefusedType DEF IntakeRefuses, Polling, quarantineVars, reviewVars
  <2>2. CASE IntakeStages(s)
    <3>1. \A action \in FileAction : Staged(poll[s].item, action).status # "DELETED"
      BY DEF Staged
    <3> QED
      BY <1>a, <1>1, <2>2, <3>1 DEF IntakeStages, Polling, reviewVars
  <2>3. CASE IntakeScans(s)
    <3>1. poll[s].file \in Files
      BY <2>3 DEF IntakeScans, TypeInv, PollPoints
    <3>2. \A result \in {"CLEAN", "INFECTED", "ERROR"} :
              Decide(draft[poll[s].file], result).status # "DELETED"
      BY <1>a, <3>1, DecideType
    <3> QED
      BY <1>a, <1>1, <2>3, <3>1, <3>2 DEF IntakeScans, Polling, quarantineVars, reviewVars
  <2>4. CASE IntakeCommits(s)
    <3>1. \A f \in Drafted(s) : /\ ~Exists(file[f]) /\ f \notin ret.gone
                               /\ ~(ret.pc \in {"share", "remove"} /\ f = ret.file)
      BY DEF Drafted, TypeInv, DraftPoints, RetPoints
    <3> QED
      BY <1>1, <1>c, <2>4, <3>1 DEF IntakeCommits, Polling, reviewVars, Drafted
  <2> QED
    BY <1>1, <1>b, <2>1, <2>2, <2>3, <2>4
    DEF Polling, PollLists, IntakeStep, IntakeFetches, IntakeCannotFetch,
        IntakeDedupes, IntakeDeletes, quarantineVars, reviewVars
<1>2. CASE Ending
  BY <1>2, <1>c DEF Ending, SessionEnds, reviewVars
<1>3. ASSUME NEW r \in Reviewers, Reviewing(r) PROVE HoldInv'
  <2>1. review[r].file \in Files /\ review[r].verdict \in {"RELEASED", "REJECTED"}
    BY <1>3 DEF Reviewing, ReviewCommits, TypeInv, TypeOK, ReviewTypeOK, Reviews
  <2>2. Reviewed(file[review[r].file], review[r].verdict).status # "DELETED"
    BY <1>a, <2>1, ReviewedType
  <2> QED
    BY <1>a, <1>3, <2>1, <2>2 DEF Reviewing, ReviewCommits, intakeVars
<1>4. CASE Ageing
  BY <1>a, <1>4 DEF Ageing, FileAges, intakeVars, reviewVars, Records
<1>5. CASE People
  <2>1. ASSUME NEW f \in Files, NEW status \in IncidentUpdates, UpdateIncident(f, status)
        PROVE  HoldInv'
    BY <1>5, <2>1 DEF People, UpdateIncident, intakeVars, TypeInv, TypeOK, QuarantineTypeOK
  <2> QED
    BY <1>5, <1>b, <2>1
    DEF People, ReviewStep, ReviewLoads, RequestToken, TokenExpires, ConsumeToken,
        GetServes, GetGone, quarantineVars, intakeVars
<1>6. CASE Retaining
  <2>1. ASSUME NEW f \in Files, RetTakes(f) PROVE HoldInv'
    BY <2>1 DEF RetTakes, HasOpenIncident, quarantineVars, intakeVars, reviewVars,
                TypeInv, TypeOK, RetTypeOK
  <2>2. CASE RetRemoves
    BY <2>2 DEF RetRemoves, intakeVars, reviewVars, TypeInv, TypeOK, RetTypeOK
  <2>3. CASE RetCommits
    BY <1>a, <2>3 DEF RetCommits, RetIdle, intakeVars, reviewVars, Records
  <2>4. CASE RetLists
    BY <2>4 DEF RetLists, RetIdle, quarantineVars, intakeVars, reviewVars
  <2>5. CASE RetAsksHash
    BY <2>5 DEF RetAsksHash, quarantineVars, intakeVars, reviewVars,
                TypeInv, TypeOK, RetTypeOK
  <2>6. CASE RetCannotRemove
    BY <2>6 DEF RetCannotRemove, quarantineVars, intakeVars, reviewVars,
                TypeInv, TypeOK, RetTypeOK
  <2>7. ASSUME NEW f \in Files, RetSkips(f) PROVE HoldInv'
    BY <2>7 DEF RetSkips, quarantineVars, intakeVars, reviewVars,
                TypeInv, TypeOK, RetTypeOK
  <2> QED
    BY <1>6, <2>1, <2>2, <2>3, <2>4, <2>5, <2>6, <2>7 DEF Retaining, RetStep
<1>7. CASE PollerFails
  BY <1>7, <1>c DEF PollerFails, PollDies, quarantineVars, reviewVars
<1>8. CASE BackendRestarts \/ RetentionFails
  BY <1>8, <1>c DEF BackendRestarts, RetentionFails, RetIdle, quarantineVars,
                    intakeVars, reviewVars
<1>9. CASE Downloading \/ UNCHANGED vars
  BY <1>9, <1>b DEF Downloading, BrowserDownloads, vars, quarantineVars, intakeVars, reviewVars
<1> QED
  BY <1>1, <1>2, <1>3, <1>4, <1>5, <1>6, <1>7, <1>8, <1>9 DEF Next

\* Retention never deletes a file whose incident has been open all along,
\* whatever else happens between its question and its commit.
THEOREM IncidentHolds == Spec => []OpenIncidentHoldsFile
<1>1. Init => HoldInv
  BY DEF Init, QuarantineInit, IntakeInit, RetInit, RetIdle, NoFile, HoldInv, NotHeld,
         OpenIncidentStatuses
<1>2. HoldInv => OpenIncidentHoldsFile
  BY DEF HoldInv, NotHeld, OpenIncidentHoldsFile
<1> QED
  BY <1>1, <1>2, PipelineTypes, HoldStep, PTL DEF Spec

-----------------------------------------------------------------------------
\* Tokens.

\* A token is undrawn, waiting in Redis, in the hands of one request, or spent;
\* it has served at most once, and only when spent.
TokenInv ==
    \A t \in Tokens :
        /\ served[t] \in {0, 1}
        /\ ~token[t].drawn => token[t].file = Nothing
        /\ (~token[t].drawn \/ token[t].file # Nothing) =>
              served[t] = 0 /\ \A g \in Gets : get[g].token # t
        /\ \A g \in Gets : get[g].token = t =>
              /\ served[t] = 0
              /\ \A h \in Gets : get[h].token = t => h = g

LEMMA TokenStep == TypeInv /\ TokenInv /\ [Next]_vars => TokenInv'
<1> SUFFICES ASSUME TypeInv, TokenInv, [Next]_vars PROVE TokenInv'
  OBVIOUS
<1> USE DEF TokenInv
<1>a. /\ token \in [Tokens -> [file : Files \cup {Nothing}, drawn : BOOLEAN]]
      /\ get \in [Gets -> Retrievals]
      /\ served \in [Tokens -> 0..2]
  BY DEF TypeInv, TypeOK, ReviewTypeOK
<1>b. NoGet.token \notin Tokens
  BY PeopleAssumption DEF NoGet
<1>c. Nothing \notin Files
  BY ItemAssumption
<1>d. ASSUME UNCHANGED tokenVars PROVE TokenInv'
  BY <1>d DEF tokenVars
<1>1. CASE People
  <2>1. ASSUME NEW t \in Tokens, NEW f \in Files, RequestToken(t, f) PROVE TokenInv'
    BY <1>a, <2>1 DEF RequestToken
  <2>2. ASSUME NEW t \in Tokens, TokenExpires(t) PROVE TokenInv'
    BY <1>a, <2>2 DEF TokenExpires
  <2>3. ASSUME NEW g \in Gets, NEW t \in Tokens, NEW u \in Users, ConsumeToken(g, t, u)
        PROVE  TokenInv'
    BY <1>a, <1>b, <2>3 DEF ConsumeToken
  <2>4. ASSUME NEW g \in Gets, GetServes(g) PROVE TokenInv'
    <3>1. get[g].token \in Tokens /\ served[get[g].token] = 0
      BY <1>a, <2>4 DEF GetServes, Retrievals
    <3> QED
      BY <1>a, <1>b, <2>4, <3>1 DEF GetServes
  <2>5. ASSUME NEW g \in Gets, GetGone(g) PROVE TokenInv'
    BY <1>a, <1>b, <2>5 DEF GetGone
  <2> QED
    BY <1>1, <1>d, <2>1, <2>2, <2>3, <2>4, <2>5
    DEF People, ReviewStep, ReviewLoads, UpdateIncident
<1>2. CASE BackendRestarts
  BY <1>a, <1>b, <1>2 DEF BackendRestarts
<1>3. CASE Retaining \/ RetentionFails
  BY <1>3, <1>d
  DEF Retaining, RetLists, RetStep, RetSkips, RetTakes, RetAsksHash, RetRemoves,
      RetCannotRemove, RetCommits, RetentionFails, reviewVars
<1>4. ASSUME NEW r \in Reviewers, Reviewing(r) PROVE TokenInv'
  BY <1>4, <1>d DEF Reviewing, ReviewCommits
<1> QED
  BY <1>1, <1>2, <1>3, <1>4, <1>d
  DEF Next, Downloading, Polling, Ending, Ageing, PollerFails, vars, reviewVars

\* However many requests present a token at once, and whatever restarts in
\* between, its file is served at most once (release_tokens.py's GETDEL).
THEOREM TokensAreSingleUse == Spec => []TokenServesOnce
<1>1. Init => TokenInv
  BY PeopleAssumption DEF Init, ReviewInit, NoGet, TokenInv
<1>2. TokenInv => TokenServesOnce
  BY DEF TokenInv, TokenServesOnce
<1> QED
  BY <1>1, <1>2, PipelineTypes, TokenStep, PTL DEF Spec

-----------------------------------------------------------------------------
\* One row per content.  The deduplication query and the insertion are one step
\* of a session's only poll task, and what reaches the query was fetched.

FetchedIsSmall ==
    \A s \in Sessions : poll[s].pc = "fetched" => Content[poll[s].item] \notin Oversized

\* Row f, committed or not, exists and is about item d.
About(f, d) == \/ Exists(file[f]) /\ file[f].item = d
               \/ Exists(draft[f]) /\ draft[f].item = d

SameDownload(d, e) == Home[d] = Home[e] /\ Content[d] = Content[e]

OneAbout ==
    \A f, g \in Files : \A d, e \in Items :
        (About(f, d) /\ About(g, e) /\ f # g /\ SameDownload(d, e)) => Content[d] \in Oversized

\* A step that makes no row about another item.
LEMMA KeepsOneAbout ==
    ASSUME OneAbout, \A f \in Files, d \in Items : About(f, d)' => About(f, d)
    PROVE  OneAbout'
  BY DEF OneAbout

\* A step that inserts row f about item d.
LEMMA AddsOneAbout ==
    ASSUME OneAbout, NEW f \in Files, NEW d \in Items,
           \A g \in Files, e \in Items : About(g, e)' => About(g, e) \/ (g = f /\ e = d),
           \/ Content[d] \in Oversized
           \/ \A g \in Files, e \in Items : About(g, e) => ~SameDownload(d, e)
    PROVE  OneAbout'
  BY DEF OneAbout, SameDownload

LEMMA FetchedStep == TypeInv /\ FetchedIsSmall /\ [Next]_vars => FetchedIsSmall'
<1> SUFFICES ASSUME TypeInv, FetchedIsSmall, [Next]_vars PROVE FetchedIsSmall'
  OBVIOUS
<1> USE DEF FetchedIsSmall
<1>a. poll \in [Sessions -> Polls]
  BY DEF TypeInv, TypeOK, IntakeTypeOK
<1>b. ASSUME UNCHANGED poll PROVE FetchedIsSmall'
  BY <1>b
<1>c. ASSUME NEW s \in Sessions, NEW p, p.pc # "fetched",
             poll' = [poll EXCEPT ![s] = p]
      PROVE  FetchedIsSmall'
  BY <1>a, <1>c
<1>1. ASSUME NEW s \in Sessions, Polling(s) PROVE FetchedIsSmall'
  <2>a. poll[s] \in Polls
    BY <1>a
  <2>1. CASE PollLists(s)
    BY <1>c, <2>1, <2>a DEF PollLists, Polls
  <2>2. ASSUME NEW d \in Items, IntakeRefuses(s, d) PROVE FetchedIsSmall'
    BY <1>c, <2>2, <2>a DEF IntakeRefuses, Polls
  <2>3. ASSUME NEW d \in Items, IntakeFetches(s, d) PROVE FetchedIsSmall'
    BY <1>a, <2>3, <2>a DEF IntakeFetches, Polls
  <2>4. ASSUME NEW d \in Items, IntakeCannotFetch(s, d) PROVE FetchedIsSmall'
    BY <1>a, <2>4, <2>a DEF IntakeCannotFetch, Polls
  <2>5. CASE IntakeDedupes(s)
    BY <1>a, <2>5, <2>a DEF IntakeDedupes, Polls
  <2>6. CASE IntakeStages(s)
    BY <1>c, <2>6, <2>a DEF IntakeStages, Polls
  <2>7. CASE IntakeScans(s)
    BY <1>c, <2>7, <2>a DEF IntakeScans, Polls
  <2>8. CASE IntakeDeletes(s)
    BY <1>c, <2>8, <2>a DEF IntakeDeletes, Polls
  <2>9. CASE IntakeCommits(s)
    BY <1>c, <2>9 DEF IntakeCommits, PollIdle
  <2> QED
    BY <1>1, <2>1, <2>2, <2>3, <2>4, <2>5, <2>6, <2>7, <2>8, <2>9 DEF Polling, IntakeStep
<1>2. CASE Ending
  BY <1>2, <1>c, EndAssumption DEF Ending, SessionEnds, PollOff, PollIdle
<1>3. CASE PollerFails
  BY <1>3, <1>c DEF PollerFails, PollDies, PollOff, PollIdle
<1>4. CASE BackendRestarts
  BY <1>4 DEF BackendRestarts, PollOff, PollIdle
<1>5. ASSUME NEW r \in Reviewers, Reviewing(r) PROVE FetchedIsSmall'
  BY <1>5, <1>b DEF Reviewing, ReviewCommits, intakeVars
<1>6. CASE Downloading \/ People \/ Ageing \/ RetentionFails \/ UNCHANGED vars
  BY <1>6, <1>b
  DEF Downloading, BrowserDownloads, People, ReviewStep, ReviewLoads, UpdateIncident,
      RequestToken, TokenExpires, ConsumeToken, GetServes, GetGone, Ageing, FileAges,
      RetentionFails, vars, intakeVars
<1>7. CASE Retaining
  BY <1>7, <1>b
  DEF Retaining, RetLists, RetStep, RetSkips, RetTakes, RetAsksHash, RetRemoves,
      RetCannotRemove, RetCommits, intakeVars
<1> QED
  BY <1>1, <1>2, <1>3, <1>4, <1>5, <1>6, <1>7 DEF Next

LEMMA OneAboutStep ==
    TypeInv /\ FetchedIsSmall /\ OneAbout /\ [Next]_vars => OneAbout'
<1> SUFFICES ASSUME TypeInv, FetchedIsSmall, OneAbout, [Next]_vars PROVE OneAbout'
  OBVIOUS
<1>a. file \in [Files -> Records] /\ draft \in [Files -> Records]
  BY DEF TypeInv, TypeOK, QuarantineTypeOK, IntakeTypeOK
<1>b. ASSUME UNCHANGED <<file, draft>> PROVE OneAbout'
  BY <1>b, KeepsOneAbout DEF About
<1>1. ASSUME NEW s \in Sessions, Polling(s) PROVE OneAbout'
  <2>1. ASSUME NEW d \in Items, IntakeRefuses(s, d) PROVE OneAbout'
    <3>1. PICK f \in Files : Unused(f) /\ draft' = [draft EXCEPT ![f] = Refused(d)]
      BY <2>1 DEF IntakeRefuses
    <3>2. \A g \in Files, e \in Items : About(g, e)' => About(g, e) \/ (g = f /\ e = d)
      BY <1>a, <2>1, <3>1, RefusedType DEF About, IntakeRefuses, quarantineVars
    <3>3. Content[d] \in Oversized
      BY <2>1 DEF IntakeRefuses
    <3> QED
      BY <3>2, <3>3, AddsOneAbout
  <2>2. CASE IntakeStages(s)
    <3> DEFINE d == poll[s].item
    <3>1. d \in Items /\ Home[d] = s /\ Content[d] \notin Oversized
      BY <2>2 DEF IntakeStages, TypeInv, PollPoints, FetchedIsSmall
    <3>2. PICK f \in Files, action \in FileAction :
              Unused(f) /\ draft' = [draft EXCEPT ![f] = Staged(d, action)]
      BY <2>2 DEF IntakeStages
    <3>3. \A g \in Files, e \in Items : About(g, e)' => About(g, e) \/ (g = f /\ e = d)
      BY <1>a, <2>2, <3>1, <3>2, StagedType DEF About, IntakeStages
    <3>4. ASSUME NEW g \in Files, NEW e \in Items, About(g, e), SameDownload(d, e)
          PROVE  FALSE
      <4>1. Sha256(e) = Sha256(d) /\ Home[e] = s
        BY <3>1, <3>4 DEF Sha256, SameDownload
      <4>2. Known(s, d)
        BY <3>4, <4>1 DEF Known, About
      <4> QED
        BY <2>2, <4>2 DEF IntakeStages
    <3> QED
      BY <3>1, <3>2, <3>3, <3>4, AddsOneAbout
  <2>3. CASE IntakeScans(s)
    <3>1. poll[s].file \in Files /\ Exists(draft[poll[s].file])
      BY <2>3 DEF IntakeScans, TypeInv, PollPoints, DraftPoints
    <3> QED
      BY <1>a, <2>3, <3>1, DecideType, KeepsOneAbout DEF IntakeScans, About, quarantineVars
  <2>4. CASE IntakeCommits(s)
    BY <2>4, NoFileType, KeepsOneAbout DEF IntakeCommits, About, Drafted
  <2> QED
    BY <1>1, <1>b, <2>1, <2>2, <2>3, <2>4
    DEF Polling, PollLists, IntakeStep, IntakeFetches, IntakeCannotFetch,
        IntakeDedupes, IntakeDeletes, quarantineVars
<1>2. CASE Ending
  BY <1>2, NoFileType, KeepsOneAbout DEF Ending, SessionEnds, About
<1>3. ASSUME NEW r \in Reviewers, Reviewing(r) PROVE OneAbout'
  <2>1. /\ review[r].file \in Files /\ review[r].verdict \in {"RELEASED", "REJECTED"}
        /\ Exists(file[review[r].file])
    BY <1>3 DEF Reviewing, ReviewCommits, TypeInv, TypeOK, ReviewTypeOK, Reviews, RequestPoints
  <2> DEFINE h == review[r].file
             new == Reviewed(file[h], review[r].verdict)
  <2>a. file' = [file EXCEPT ![h] = new]
    BY <1>3 DEF Reviewing, ReviewCommits
  <2>b. new.item = file[h].item
    BY <1>a, <2>1, ReviewedType
  <2>2. \A f \in Files : /\ file'[f].item = file[f].item
                         /\ Exists(file'[f]) => Exists(file[f])
    <3> HIDE DEF new, h
    <3> QED
      BY <1>a, <2>1, <2>a, <2>b DEF h
  <2>3. UNCHANGED draft
    BY <1>3 DEF Reviewing, ReviewCommits, intakeVars
  <2>4. \A f \in Files, d \in Items : About(f, d)' => About(f, d)
    BY <2>2, <2>3 DEF About
  <2> QED
    BY <2>4, KeepsOneAbout
<1>4. CASE Ageing
  <2>1. \A f \in Files : file'[f].item = file[f].item /\ file'[f].status = file[f].status
    BY <1>a, <1>4 DEF Ageing, FileAges, Records
  <2> QED
    BY <1>4, <2>1, KeepsOneAbout DEF Ageing, FileAges, intakeVars, About, Exists
<1>5. CASE RetCommits /\ UNCHANGED crashes
  <2>1. \A f \in Files : file'[f].item = file[f].item
    BY <1>a, <1>5 DEF RetCommits, Records
  <2>2. \A f \in Files : Exists(file'[f]) => Exists(file[f])
    BY <1>a, <1>5 DEF RetCommits, TypeInv, RetPoints
  <2> QED
    BY <1>5, <2>1, <2>2, KeepsOneAbout DEF RetCommits, intakeVars, About
<1>6. CASE PollerFails
  BY <1>6, NoFileType, KeepsOneAbout DEF PollerFails, PollDies, quarantineVars, About
<1>7. CASE BackendRestarts
  BY <1>7, NoFileType, KeepsOneAbout DEF BackendRestarts, quarantineVars, About
<1>8. CASE Downloading \/ People \/ RetentionFails \/ UNCHANGED vars
  BY <1>8, <1>b
  DEF Downloading, BrowserDownloads, People, ReviewStep, ReviewLoads, UpdateIncident,
      RequestToken, TokenExpires, ConsumeToken, GetServes, GetGone, RetentionFails,
      vars, quarantineVars, intakeVars
<1>9. CASE Retaining /\ ~RetCommits
  BY <1>9, <1>b
  DEF Retaining, RetLists, RetStep, RetSkips, RetTakes, RetAsksHash, RetRemoves,
      RetCannotRemove, quarantineVars, intakeVars
<1> QED
  BY <1>1, <1>2, <1>3, <1>4, <1>5, <1>6, <1>7, <1>8, <1>9 DEF Next, Retaining

\* A session never has two rows for the same fetched content, so the
\* deduplication query of process_new_downloads finds at most one.
THEOREM OneRow == Spec => []OneRowPerContent
<1>1. Init => FetchedIsSmall /\ OneAbout
  <2>1. Init => FetchedIsSmall
    BY DEF Init, IntakeInit, PollIdle, FetchedIsSmall
  <2>2. Init => OneAbout
    BY NoFileType DEF Init, QuarantineInit, IntakeInit, OneAbout, About
  <2> QED
    BY <2>1, <2>2
<1>2. TypeInv /\ OneAbout => OneRowPerContent
  <2> SUFFICES ASSUME TypeInv, OneAbout, NEW f \in Files, NEW g \in Files,
                      NEW r \in {file[f], draft[f]}, NEW q \in {file[g], draft[g]},
                      Exists(r), Exists(q), f # g,
                      Home[r.item] = Home[q.item], Content[r.item] = Content[q.item]
               PROVE  Content[r.item] \in Oversized
    BY DEF OneRowPerContent
  <2>1. r.item \in Items /\ q.item \in Items
    BY DEF TypeInv, RowsHaveItems
  <2>2. About(f, r.item) /\ About(g, q.item)
    BY DEF About
  <2> QED
    BY <2>1, <2>2 DEF OneAbout, SameDownload
<1> QED
  BY <1>1, <1>2, PipelineTypes, FetchedStep, OneAboutStep, PTL DEF Spec
=============================================================================
