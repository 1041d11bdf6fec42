--------------------------- MODULE EvidenceLedger ---------------------------
(***************************************************************************)
(* The hash chain of src/agentkernel/evidence/ledger.py over one run's     *)
(* events: make_event as the journal calls it, whatever happens to the     *)
(* stored list afterwards, and validate_chain, one event per step, over a  *)
(* copy of the list that was loaded while events were still recorded.      *)
(* SHA-256 over the canonical form is the term of what it was taken of:    *)
(* equal digests, equal content.                                           *)
(***************************************************************************)
EXTENDS Naturals, Sequences

CONSTANTS
  Payloads,     \* everything of an event but its place in the chain
  Signatures,   \* values of signature_ref
  NONE,
  MaxEvents,    \* bound: events in the list
  MaxEdits      \* bound: edits of the list

Reasons == {"sequence", "previous_event_hash", "event_hash"}
ASSUME LedgerConstants == MaxEvents \in Nat /\ MaxEdits \in Nat /\ NONE \notin Reasons

VARIABLES
  store,      \* the list as it is stored
  recorded,   \* history: the events recorded before the first edit
  edits,
  events,     \* the list that validate_chain was given
  scan        \* its loop
vars == <<store, recorded, edits, events, scan>>

-----------------------------------------------------------------------------
event_hash_material(e) ==
  [sequence |-> e.sequence, payload |-> e.payload, previous_event_hash |-> e.previous_event_hash]
Digest(material) == <<"sha256", material>>
Hashed(e) == [e EXCEPT !.event_hash = Digest(event_hash_material(e))]

make_event(sequence, previous, payload) ==
  [sequence |-> sequence, payload |-> payload, previous_event_hash |-> previous,
   event_hash |-> Digest([sequence |-> sequence, payload |-> payload, previous_event_hash |-> previous]),
   signature_ref |-> NONE]

HashBefore == IF store = <<>> THEN NONE ELSE store[Len(store)].event_hash
NextSequence == IF store = <<>> THEN 0 ELSE store[Len(store)].sequence + 1

Record(payload) ==
  /\ Len(store) < MaxEvents
  /\ store' = Append(store, make_event(NextSequence, HashBefore, payload))
  /\ recorded' = IF edits = 0 THEN store' ELSE recorded
  /\ UNCHANGED <<edits, events, scan>>

-----------------------------------------------------------------------------
(* external: what may become of a stored list                               *)

Replaced(s, n, e) == [s EXCEPT ![n] = e]
WithPayload(e, p) == [e EXCEPT !.payload = p]
Without(s, n) == [m \in 1 .. Len(s) - 1 |-> IF m < n THEN s[m] ELSE s[m + 1]]
Twice(s, n) == [m \in 1 .. Len(s) + 1 |-> IF m <= n THEN s[m] ELSE s[m - 1]]
Exchanged(s, m, n) == [s EXCEPT ![m] = s[n], ![n] = s[m]]
\* the event after a gap, made to follow the event before it
Relinked(s, n) ==
  Hashed([s[n] EXCEPT !.sequence = IF n = 1 THEN 0 ELSE s[n - 1].sequence + 1,
                      !.previous_event_hash = IF n = 1 THEN NONE ELSE s[n - 1].event_hash])

Edited(s) ==
  UNION { LET n == k IN
     {Replaced(s, n, WithPayload(s[n], p)) : p \in Payloads}
       \cup {Replaced(s, n, Hashed(WithPayload(s[n], p))) : p \in Payloads}
       \cup {Replaced(s, n, Relinked(s, n))}
       \cup {Without(s, n), Twice(s, n), SubSeq(s, 1, n - 1)}
       \cup {Exchanged(s, m, n) : m \in DOMAIN s} : k \in DOMAIN s }

Edit ==
  /\ edits < MaxEdits
  /\ \E s \in Edited(store) : Len(s) <= MaxEvents /\ s # store /\ store' = s
  /\ edits' = edits + 1
  /\ UNCHANGED <<recorded, events, scan>>

(* signature_ref is attached after hashing                                  *)
Sign(n, signature) ==
  /\ n \in DOMAIN store
  /\ store' = [store EXCEPT ![n].signature_ref = signature]
  /\ recorded' = IF edits = 0 THEN store' ELSE recorded
  /\ UNCHANGED <<edits, events, scan>>

-----------------------------------------------------------------------------
(* validate_chain                                                           *)

AtStart(pc) == [pc |-> pc, position |-> 0, previous_hash |-> NONE, reason |-> NONE]

Load ==
  /\ scan.pc # "scanning"
  /\ events' = store
  /\ scan' = AtStart("scanning")
  /\ UNCHANGED <<store, recorded, edits>>

Current == events[scan.position + 1]

Bug_LinkNotCompared ==
  CASE Current.sequence # scan.position -> "sequence"
    [] Current.event_hash # Digest(event_hash_material(Current)) -> "event_hash"
    [] OTHER -> NONE
Reason ==
  CASE Current.sequence # scan.position -> "sequence"
    [] Current.previous_event_hash # scan.previous_hash -> "previous_event_hash"
    [] Current.event_hash # Digest(event_hash_material(Current)) -> "event_hash"
    [] OTHER -> NONE

Broken ==
  /\ scan.pc = "scanning" /\ scan.position < Len(events)
  /\ Reason # NONE
  /\ scan' = [scan EXCEPT !.pc = "done", !.reason = Reason]
  /\ UNCHANGED <<store, recorded, edits, events>>

Accepted ==
  /\ scan.pc = "scanning" /\ scan.position < Len(events)
  /\ Reason = NONE
  /\ scan' = [scan EXCEPT !.position = scan.position + 1, !.previous_hash = Current.event_hash]
  /\ UNCHANGED <<store, recorded, edits, events>>

Valid ==
  /\ scan.pc = "scanning" /\ scan.position = Len(events)
  /\ scan' = [scan EXCEPT !.pc = "done"]
  /\ UNCHANGED <<store, recorded, edits, events>>

-----------------------------------------------------------------------------
Init ==
  /\ store = <<>> /\ recorded = <<>> /\ edits = 0
  /\ events = <<>> /\ scan = AtStart("idle")

Next ==
  \/ \E p \in Payloads : Record(p)
  \/ Edit
  \/ \E n \in 1 .. MaxEvents, s \in Signatures : Sign(n, s)
  \/ Load \/ Broken \/ Accepted \/ Valid
Spec == Init /\ [][Next]_vars

-----------------------------------------------------------------------------
(* Properties                                                               *)

IsValid == scan.pc = "done" /\ scan.reason = NONE
Same(e, f) == event_hash_material(e) = event_hash_material(f)

(* Counters and lists stay in range, and a scan that found no break has     *)
(* looked at every event.                                                   *)
TypeOK ==
  /\ Len(store) <= MaxEvents /\ Len(recorded) <= MaxEvents /\ edits \in 0 .. MaxEdits
  /\ scan.pc \in {"idle", "scanning", "done"}
  /\ scan.position \in 0 .. Len(events)
  /\ scan.reason \in Reasons \cup {NONE}
  /\ IsValid => scan.position = Len(events)

(* What the journal recorded and nobody edited is never reported broken,    *)
(* at whatever moment between two records it was loaded.                    *)
IntactIsValid == edits = 0 => scan.reason = NONE

(* Whoever kept the hash of a recorded event (a checkpoint) and gets it as  *)
(* final_hash, has exactly the recorded events up to it, whatever was done  *)
(* to the list (ledger.py:80), and whether or not the chain breaks later.   *)
FinalHashPinsHistory ==
  scan.position > 0 =>
    \A c \in DOMAIN recorded : scan.previous_hash = recorded[c].event_hash =>
      /\ scan.position = c
      /\ \A n \in 1 .. c : Same(events[n], recorded[n])
=============================================================================
