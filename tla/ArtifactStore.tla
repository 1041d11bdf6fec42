--------------------------- MODULE ArtifactStore ---------------------------
(***************************************************************************)
(* LocalArtifactStore of src/agentkernel/evidence/artifacts.py: processes  *)
(* that put and get blobs of one directory.  A step is one call of the     *)
(* file system; between two of them other processes work, the process may  *)
(* be killed, and a write may fail.  A blob is named by its content, so    *)
(* the file of a content is indexed by it.                                 *)
(***************************************************************************)
EXTENDS Naturals, FiniteSets

CONSTANTS
  Processes, Contents,
  Absent, Partial,   \* no file; a file that holds a part of its content
  Rotten,            \* what a damaged file holds
  MaxFaults          \* bound: failed writes, kills and damaged files
ASSUME BlobsAreContents == {Absent, Partial, Rotten} \cap Contents = {} /\ Absent # Rotten

VARIABLES
  file,      \* what is under the path of each content
  temp,      \* what is in the temporary file of each process
  proc,      \* where its call is, and of which content
  stored,    \* contents some put has returned for
  damaged,   \* contents whose file was damaged
  faults
storeVars == <<file, temp, proc, stored, damaged, faults>>

Goto(p, pc) == proc' = [proc EXCEPT ![p].pc = pc]
At(p, pc) == proc[p].pc = pc
Mine(p) == proc[p].content
Fault == faults < MaxFaults /\ faults' = faults + 1

-----------------------------------------------------------------------------
(* put                                                                      *)

PutBegins(p, c) ==
  /\ At(p, "idle")
  /\ proc' = [proc EXCEPT ![p] = [pc |-> IF file[c] = Absent THEN "create" ELSE "compare", content |-> c]]
  /\ UNCHANGED <<file, temp, stored, damaged, faults>>

(* path.exists() was true: whatever is there now must be the content        *)
Compare(p) ==
  /\ At(p, "compare")
  /\ IF file[Mine(p)] = Mine(p)
     THEN Goto(p, "idle") /\ stored' = stored \cup {Mine(p)}
     ELSE Goto(p, "integrity_error") /\ UNCHANGED stored
  /\ UNCHANGED <<file, temp, damaged, faults>>

CreateTemporary(p) ==
  /\ At(p, "create")
  /\ temp' = [temp EXCEPT ![p] = Partial]
  /\ Goto(p, "write")
  /\ UNCHANGED <<file, stored, damaged, faults>>

Bug_AcknowledgedEarly(p) ==
  /\ At(p, "write")
  /\ temp' = [temp EXCEPT ![p] = Mine(p)]
  /\ stored' = stored \cup {Mine(p)}
  /\ Goto(p, "replace")
  /\ UNCHANGED <<file, damaged, faults>>
WriteAndSync(p) ==
  /\ At(p, "write")
  /\ temp' = [temp EXCEPT ![p] = Mine(p)]
  /\ Goto(p, "replace")
  /\ UNCHANGED <<file, stored, damaged, faults>>

Replace(p) ==
  /\ At(p, "replace")
  /\ file' = [file EXCEPT ![Mine(p)] = temp[p]]
  /\ temp' = [temp EXCEPT ![p] = Absent]
  /\ stored' = stored \cup {Mine(p)}
  /\ Goto(p, "idle")
  /\ UNCHANGED <<damaged, faults>>

(* an OSError on the way; `finally' unlinks the temporary file              *)
PutFails(p) ==
  /\ Fault
  /\ proc[p].pc \in {"write", "replace"}
  /\ temp' = [temp EXCEPT ![p] = Absent]
  /\ Goto(p, "idle")
  /\ UNCHANGED <<file, stored, damaged>>

-----------------------------------------------------------------------------
(* get: one read, and what it answers                                       *)

Answer(c) ==
  CASE file[c] = Absent -> "EVIDENCE_UNAVAILABLE"
    [] file[c] = c -> "content"
    [] OTHER -> "INTEGRITY_ERROR"

Reported(p) ==
  /\ At(p, "integrity_error")
  /\ Goto(p, "idle")
  /\ UNCHANGED <<file, temp, stored, damaged, faults>>

(* external: the process is killed and leaves its temporary file behind;    *)
(* a medium or a person damages a file                                      *)
Kill(p) ==
  /\ Fault
  /\ proc[p].pc # "idle"
  /\ temp' = [temp EXCEPT ![p] = Absent]
  /\ Goto(p, "idle")
  /\ UNCHANGED <<file, stored, damaged>>

Damage(c) ==
  /\ Fault
  /\ file[c] # Absent
  /\ file' = [file EXCEPT ![c] = Rotten]
  /\ damaged' = damaged \cup {c}
  /\ UNCHANGED <<temp, proc, stored>>

-----------------------------------------------------------------------------
StoreInit ==
  /\ file = [c \in Contents |-> Absent]
  /\ temp = [p \in Processes |-> Absent]
  /\ \E c \in Contents : proc = [p \in Processes |-> [pc |-> "idle", content |-> c]]
  /\ stored = {} /\ damaged = {} /\ faults = 0

Work(p) ==
  Compare(p) \/ CreateTemporary(p) \/ WriteAndSync(p) \/ Replace(p) \/ Reported(p)
StoreNext ==
  \/ \E p \in Processes : Work(p) \/ PutFails(p) \/ Kill(p) \/ \E c \in Contents : PutBegins(p, c)
  \/ \E c \in Contents : Damage(c)
StoreSpec == StoreInit /\ [][StoreNext]_storeVars

-----------------------------------------------------------------------------
(* Properties                                                               *)

(* What a put has returned for stays available to every get.                *)
StoredIsAvailable == \A c \in stored \ damaged : Answer(c) = "content"
=============================================================================
