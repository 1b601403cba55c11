------------------------------- MODULE Sweeper ------------------------------
(***************************************************************************)
(* The sweeper of the pictures' card (src/card/pictures/image-sweeper.py), *)
(* beside ComfyUI and the gateway: ComfyUI writes a picture to its temp    *)
(* directory and, a moment later, the job's record, which names it; the    *)
(* gateway reads the picture and deletes the record, or never does; its    *)
(* uploads lie in the same directory.  No one else deletes a file there.   *)
(*                                                                         *)
(* A pass takes the time, reads the records, deletes the old ones, and     *)
(* walks over the files; time goes on meanwhile.  Time is kept as ages,    *)
(* and the time a pass took at its start as what has gone by since.        *)
(***************************************************************************)
EXTENDS Integers, FiniteSets

CONSTANTS
  Job,         \* ids of ComfyUI's jobs, each with the one file that its record names
  Reference,   \* names of the gateway's uploads
  GRACE, FILE_CAP, HISTORY_CAP,
  RecordGap,   \* bound: how long after a picture ComfyUI writes the record
  PassTime     \* bound: how long a pass takes

File == Job \cup Reference

ASSUME SweeperAssumption ==
  /\ Job \cap Reference = {}
  /\ {GRACE, FILE_CAP, HISTORY_CAP, RecordGap, PassTime} \subseteq Nat
  /\ RecordGap < GRACE /\ GRACE <= FILE_CAP

VARIABLES
  server,      \* ComfyUI's process is "up" or "gone"
  age,         \* of a file, or NoFile
  record,      \* a job's record: "none", "due" or "kept"
  ended,       \* how long ago the job ended
  stamped,     \* its record tells so
  wanted,      \* the gateway waits for the job, or reads its picture
  late,        \* a send of an upload that timed out may yet be written
  pc,          \* where the sweeper is in its pass
  since,       \* the time since it took `now`
  history,     \* the records it has read
  readable,    \* it could read them
  first_seen,  \* how long ago a record without a stamp was first seen, or NoFile
  stale,       \* the records it deletes
  todo         \* the files it still comes to

jobVars  == <<record, ended, stamped, wanted>>
passVars == <<pc, since, history, readable, first_seen, stale, todo>>
sweeperVars     == <<server, age, jobVars, late, passVars>>

NoFile == -1

Present == {f \in File : age[f] # NoFile}

(* Ages are told apart up to the caps.                                   *)
Longest == (IF FILE_CAP > HISTORY_CAP THEN FILE_CAP ELSE HISTORY_CAP) + PassTime

Older(a) == IF a = NoFile \/ a = Longest THEN a ELSE a + 1

SweeperInit ==
  /\ server = "up" /\ age = [f \in File |-> NoFile]
  /\ record = [j \in Job |-> "none"] /\ ended = [j \in Job |-> 0]
  /\ stamped = [j \in Job |-> FALSE] /\ wanted = [j \in Job |-> FALSE]
  /\ late = [f \in Reference |-> FALSE]
  /\ pc = "asleep" /\ since = 0 /\ history = {} /\ readable = FALSE
  /\ first_seen = [j \in Job |-> NoFile] /\ stale = {} /\ todo = {}

InPass == pc \notin {"asleep", "stopped"}

(* Time goes on, though not past the bounds of a pass and of a record.   *)
Tick ==
  /\ InPass => since < PassTime
  /\ \A j \in Job : record[j] = "due" => age[j] < RecordGap
  /\ age' = [f \in File |-> Older(age[f])]
  /\ ended' = [j \in Job |-> IF record[j] = "due" \/ ended[j] = Longest THEN ended[j] ELSE ended[j] + 1]
  /\ first_seen' = [j \in Job |-> Older(first_seen[j])]
  /\ since' = IF InPass THEN since + 1 ELSE since
  /\ UNCHANGED <<server, record, stamped, wanted, late, pc, history, readable, stale, todo>>

-----------------------------------------------------------------------------
(* ComfyUI and the gateway                                               *)

(* A preview node writes the picture of a job; a job's id is not used    *)
(* twice, which is as if nothing were left of the earlier one.           *)
Draws(j) ==
  /\ server = "up" /\ record[j] = "none" /\ age[j] = NoFile /\ ~wanted[j]
  /\ j \notin history \cup todo /\ first_seen[j] = NoFile
  /\ age' = [age EXCEPT ![j] = 0] /\ record' = [record EXCEPT ![j] = "due"]
  /\ ended' = [ended EXCEPT ![j] = 0] /\ wanted' = [wanted EXCEPT ![j] = TRUE]
  /\ \E known \in BOOLEAN : stamped' = [stamped EXCEPT ![j] = known]
  /\ UNCHANGED <<server, late, passVars>>

Records(j) ==
  /\ record[j] = "due" /\ record' = [record EXCEPT ![j] = "kept"]
  /\ UNCHANGED <<server, age, ended, stamped, wanted, late, passVars>>

(* The picture is read, or the gateway gives it up.                      *)
LetGo(j) ==
  /\ wanted[j] /\ wanted' = [wanted EXCEPT ![j] = FALSE]
  /\ UNCHANGED <<server, age, record, ended, stamped, late, passVars>>

(* comfy.forget: the gateway's delete of the record arrives.             *)
Forgotten(j) ==
  /\ record[j] = "kept" /\ ~wanted[j] /\ record' = [record EXCEPT ![j] = "none"]
  /\ UNCHANGED <<server, age, ended, stamped, wanted, late, passVars>>

(* comfy.upload of a reference, or the blank of its erasure; a send that *)
(* failed may be written later, once.                                    *)
Uploads(f) ==
  /\ server = "up" /\ age[f] = NoFile /\ ~late[f]
  /\ \/ age' = [age EXCEPT ![f] = 0] /\ UNCHANGED late
     \/ late' = [late EXCEPT ![f] = TRUE] /\ UNCHANGED age
  /\ UNCHANGED <<server, jobVars, passVars>>

WrittenLate(f) ==
  /\ server = "up" /\ late[f] /\ late' = [late EXCEPT ![f] = FALSE]
  /\ age' = [age EXCEPT ![f] = 0]
  /\ UNCHANGED <<server, jobVars, passVars>>

ServerGoes ==
  /\ server = "up" /\ server' = "gone"
  /\ record' = [j \in Job |-> "none"] /\ wanted' = [j \in Job |-> FALSE]
  /\ late' = [f \in Reference |-> FALSE]
  /\ UNCHANGED <<age, ended, stamped, passVars>>

(* image-serve.sh: a new server, which empties the directory, and a new  *)
(* sweeper beside it.                                                    *)
ServerStarts ==
  /\ server = "gone" /\ pc = "stopped"
  /\ server' = "up" /\ age' = [f \in File |-> NoFile]
  /\ pc' = "asleep" /\ first_seen' = [j \in Job |-> NoFile]
  /\ since' = 0 /\ history' = {} /\ readable' = FALSE /\ stale' = {} /\ todo' = {}
  /\ UNCHANGED <<jobVars, late>>

-----------------------------------------------------------------------------
(* The sweeper                                                           *)

SweeperFrame == UNCHANGED <<server, ended, stamped, wanted, late>>

(* alive, and the time of the pass                                       *)
PassStarts ==
  /\ pc = "asleep" /\ pc' = IF server = "up" THEN "reading" ELSE "stopped"
  /\ since' = 0
  /\ SweeperFrame /\ UNCHANGED <<age, record, history, readable, first_seen, stale, todo>>

(* ComfyUI answers with the records there are.                           *)
HistoryAnswered ==
  /\ pc = "reading" /\ server = "up" /\ pc' = "judging"
  /\ history' = {j \in Job : record[j] = "kept"}
  /\ SweeperFrame /\ UNCHANGED <<age, record, since, readable, first_seen, stale, todo>>

Walks == pc' = "walking" /\ todo' = Present

HistoryUnreadable ==
  /\ pc \in {"reading", "judging"} /\ Walks /\ readable' = FALSE /\ history' = {}
  /\ SweeperFrame /\ UNCHANGED <<age, record, since, first_seen, stale>>

FirstSeen ==
  [j \in Job |-> IF j \notin history \/ stamped[j] THEN NoFile
                 ELSE IF first_seen[j] = NoFile THEN since ELSE first_seen[j]]

(* Fault: a record that does not say when its job ended stays.           *)
StaleRecords_Unstamped ==
  {j \in history : stamped[j] /\ ended[j] - since >= HISTORY_CAP}

(* stale_records                                                         *)
StaleRecords ==
  {j \in history : (IF stamped[j] THEN ended[j] ELSE FirstSeen[j]) - since >= HISTORY_CAP}

HistoryRead ==
  /\ pc = "judging" /\ readable' = TRUE
  /\ first_seen' = FirstSeen /\ stale' = StaleRecords
  /\ IF stale' = {} THEN Walks ELSE pc' = "deleting" /\ UNCHANGED todo
  /\ SweeperFrame /\ UNCHANGED <<age, record, since, history>>

Deleted == [j \in Job |-> IF j \in stale /\ record[j] = "kept" THEN "none" ELSE record[j]]

(* The files of the deleted records are named by nothing now.            *)
DeletesRecords ==
  /\ pc = "deleting" /\ server = "up" /\ Walks
  /\ record' = Deleted /\ history' = history \ stale /\ stale' = {}
  /\ SweeperFrame /\ UNCHANGED <<age, since, readable, first_seen>>

(* The delete fails: it has arrived, or not.                             *)
RecordsUndeleted ==
  /\ pc = "deleting" /\ Walks /\ stale' = {}
  /\ record' \in {record, Deleted}
  /\ SweeperFrame /\ UNCHANGED <<age, since, history, readable, first_seen>>

(* Fault: the time is taken as the walk comes to the file.               *)
AgeNow_AfterRead(f) == age[f]

(* The age of a file at the pass's `now`, which a file may be younger than. *)
AgeNow(f) == age[f] - since

(* named_files: a record that was read names the file of its job.        *)
Named(f) == f \in history

(* Fault: without the records nothing is due.                            *)
Due_ReadableOnly(f) ==
  /\ readable
  /\ \/ AgeNow(f) >= FILE_CAP
     \/ f \notin Reference /\ ~Named(f) /\ AgeNow(f) >= GRACE

(* What sweep deletes: a file that no record names once past the grace,  *)
(* and any file at the cap.                                              *)
Due(f) ==
  \/ AgeNow(f) >= FILE_CAP
  \/ f \notin Reference /\ readable /\ ~Named(f) /\ AgeNow(f) >= GRACE

Comes(f) ==
  /\ pc = "walking" /\ f \in todo /\ todo' = todo \ {f}
  /\ SweeperFrame /\ UNCHANGED <<record, pc, since, history, readable, first_seen, stale>>

SweepsFile(f) ==
  /\ Comes(f) /\ age[f] # NoFile /\ Due(f)
  /\ age' = [age EXCEPT ![f] = NoFile]

(* It is not due, already gone, or cannot be deleted.                    *)
LeavesFile(f) == Comes(f) /\ UNCHANGED age

PassEnds ==
  /\ pc = "walking" /\ todo = {} /\ pc' = "asleep" /\ history' = {}
  /\ SweeperFrame /\ UNCHANGED <<age, record, since, readable, first_seen, stale, todo>>

-----------------------------------------------------------------------------
Sweeps ==
  \/ PassStarts \/ HistoryAnswered \/ HistoryUnreadable \/ HistoryRead
  \/ DeletesRecords \/ RecordsUndeleted \/ PassEnds
  \/ \E f \in File : SweepsFile(f) \/ LeavesFile(f)

Others ==
  \/ \E j \in Job : Draws(j) \/ Records(j) \/ LetGo(j) \/ Forgotten(j)
  \/ \E f \in Reference : Uploads(f) \/ WrittenLate(f)
  \/ ServerGoes \/ ServerStarts

SweeperNext == Tick \/ Sweeps \/ Others

SweeperSpec == SweeperInit /\ [][SweeperNext]_sweeperVars

(**************************************************************************)
(* Time goes on, the sweeper goes on, and ComfyUI, once gone, is started  *)
(* again.  A file that is due again and again is deleted in the end.  The *)
(* gateway deletes no record, and no read of the records need succeed.    *)
(**************************************************************************)
SweeperFairness ==
  /\ WF_sweeperVars(Tick) /\ WF_sweeperVars(Sweeps) /\ WF_sweeperVars(ServerStarts)
  /\ WF_sweeperVars(\E j \in Job : Records(j))
  /\ \A f \in File : SF_sweeperVars(SweepsFile(f))

SweeperFairSpec == SweeperSpec /\ SweeperFairness

-----------------------------------------------------------------------------
SweeperTypeOK ==
  /\ server \in {"up", "gone"} /\ age \in [File -> NoFile..Longest]
  /\ record \in [Job -> {"none", "due", "kept"}] /\ ended \in [Job -> 0..Longest]
  /\ stamped \in [Job -> BOOLEAN] /\ wanted \in [Job -> BOOLEAN] /\ late \in [Reference -> BOOLEAN]
  /\ pc \in {"asleep", "reading", "judging", "deleting", "walking", "stopped"}
  /\ since \in 0..PassTime /\ history \subseteq Job /\ readable \in BOOLEAN
  /\ first_seen \in [Job -> NoFile..Longest] /\ stale \subseteq Job /\ todo \subseteq File

(* A picture that the gateway still waits for or reads is not swept before *)
(* it, or its record, has reached a cap: not while ComfyUI is about to     *)
(* write the record, however long a pass takes.  (A record without a stamp *)
(* is timed from the start of the pass that first saw it.)                 *)
WantedStays ==
  [][\A j \in Job :
       wanted[j] /\ age[j] # NoFile /\ age'[j] = NoFile
         => \/ age[j] >= FILE_CAP
            \/ ended[j] + (IF stamped[j] THEN 0 ELSE PassTime) >= HISTORY_CAP]_sweeperVars

(* No picture and no upload stays, though the records cannot be read, the *)
(* gateway is gone, or a send is written after the blank of its erasure.  *)
NoFileStays == \A f \in File : age[f] # NoFile ~> age[f] = NoFile

(* If reads and deletes succeed now and then, no record stays that the   *)
(* gateway never deletes.                                                *)
NoRecordStays ==
  SF_sweeperVars(HistoryAnswered) /\ SF_sweeperVars(HistoryRead) /\ SF_sweeperVars(DeletesRecords)
    => \A j \in Job : record[j] = "kept" ~> record[j] = "none"
=============================================================================
