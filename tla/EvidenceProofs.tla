--------------------------- MODULE EvidenceProofs ---------------------------
(***************************************************************************)
(* Proofs about what keeps the evidence: the hash chain, for lists of any  *)
(* length, any payloads and any edits; the artifact store, for any number  *)
(* of processes, contents and faults; and the migrations of the journal,   *)
(* for any releases, connections and interleavings of them.                *)
(***************************************************************************)
EXTENDS EvidenceLedger, ArtifactStore, Migrations, SequenceTheorems, TLAPS

-----------------------------------------------------------------------------
(* The hash chain.  The induction over the chain is the one over the loop   *)
(* of validate_chain: Pinned says of every event accepted so far, that if   *)
(* it has the hash of a recorded event then all before it are recorded.     *)


Fields == {"sequence", "payload", "previous_event_hash", "event_hash", "signature_ref"}
HashAt(s, n) == IF n = 0 THEN NONE ELSE s[n].event_hash
InPlace(s, n) ==
  /\ s[n].sequence = n - 1
  /\ s[n].previous_event_hash = HashAt(s, n - 1)
  /\ s[n].event_hash = Digest(event_hash_material(s[n]))

IsList(s) == \E S : s \in Seq(S)
Recorded ==
  /\ IsList(recorded)
  /\ \A n \in 1 .. Len(recorded) : InPlace(recorded, n) /\ DOMAIN recorded[n] = Fields
Counted == edits \in Nat /\ (edits = 0 => store = recorded)

ScanFields == {"pc", "position", "previous_hash", "reason"}
Scanned ==
  /\ DOMAIN scan = ScanFields /\ scan.position \in Nat
  /\ scan.previous_hash = HashAt(events, scan.position)
  /\ \A n \in 1 .. scan.position : InPlace(events, n)

PinnedTo(s, r, n, c) ==
  s[n].event_hash = r[c].event_hash => n = c /\ \A j \in 1 .. n : Same(s[j], r[j])
Pinned ==
  \A n \in 1 .. scan.position, c \in 1 .. Len(recorded) : PinnedTo(events, recorded, n, c)

Loaded ==
  edits = 0 =>
    /\ Len(events) \in Nat /\ Len(events) <= Len(recorded)
    /\ \A n \in 1 .. Len(events) : InPlace(events, n)

Inv == Recorded /\ Counted /\ Scanned /\ Pinned
IntactInv == Inv /\ Loaded /\ IntactIsValid

-----------------------------------------------------------------------------
(* Equal digests are digests of equal content.                              *)
LEMMA DigestIsInjective ==
  ASSUME NEW x, NEW y, Digest(x) = Digest(y)
  PROVE  x = y
PROOF BY DEF Digest

LEMMA SameFields ==
  ASSUME NEW e, NEW f, Same(e, f)
  PROVE  e.sequence = f.sequence /\ e.payload = f.payload /\ e.previous_event_hash = f.previous_event_hash
<1> DEFINE a == event_hash_material(e)
           b == event_hash_material(f)
<1>1. a = b BY DEF Same
<1>2. a.sequence = b.sequence /\ a.payload = b.payload /\ a.previous_event_hash = b.previous_event_hash
  BY <1>1
<1> QED BY <1>2 DEF event_hash_material

(* The step of the induction: an event in place with a recorded hash is     *)
(* that event, and its predecessor has the predecessor's hash.              *)
LEMMA OneStepBack ==
  ASSUME NEW s, NEW r, NEW n \in Nat \ {0}, NEW c \in Nat \ {0},
         InPlace(s, n), InPlace(r, c), s[n].event_hash = r[c].event_hash
  PROVE  n = c /\ Same(s[n], r[c]) /\ HashAt(s, n - 1) = HashAt(r, c - 1)
<1>1. Digest(event_hash_material(s[n])) = Digest(event_hash_material(r[c])) BY DEF InPlace
<1>2. Same(s[n], r[c]) BY <1>1, DigestIsInjective DEF Same
<1>3. /\ s[n].sequence = r[c].sequence
      /\ s[n].previous_event_hash = r[c].previous_event_hash
  BY <1>2, SameFields
<1> QED BY <1>2, <1>3 DEF InPlace

(* A longer prefix is pinned if the prefix one shorter is.                  *)
LEMMA PinnedOneMore ==
  ASSUME NEW s, NEW r, NEW n \in Nat \ {0}, NEW c \in Nat \ {0},
         InPlace(s, n), InPlace(r, c),
         n > 1 /\ c > 1 => PinnedTo(s, r, n - 1, c - 1)
  PROVE  PinnedTo(s, r, n, c)
<1> SUFFICES ASSUME s[n].event_hash = r[c].event_hash
             PROVE  n = c /\ \A j \in 1 .. n : Same(s[j], r[j])
  BY DEF PinnedTo
<1>1. n = c /\ Same(s[n], r[n]) /\ HashAt(s, n - 1) = HashAt(r, c - 1)
  BY OneStepBack
<1>2. CASE n = 1 BY <1>1, <1>2
<1>3. CASE n > 1
  <2>1. s[n - 1].event_hash = r[c - 1].event_hash BY <1>1, <1>3 DEF HashAt
  <2>2. \A j \in 1 .. n - 1 : Same(s[j], r[j]) BY <1>1, <1>3, <2>1 DEF PinnedTo
  <2> QED BY <1>1, <2>2
<1> QED BY <1>2, <1>3

-----------------------------------------------------------------------------
(* Lists                                                                    *)

LEMMA Appended ==
  ASSUME NEW s, NEW e, IsList(s)
  PROVE  /\ Len(s) \in Nat
         /\ IsList(Append(s, e)) /\ Len(Append(s, e)) = Len(s) + 1
         /\ \A n \in 1 .. Len(s) : Append(s, e)[n] = s[n]
         /\ Append(s, e)[Len(s) + 1] = e
<1>1. PICK S : s \in Seq(S) BY DEF IsList
<1> DEFINE T == S \cup {e}
<1>2. s \in Seq(T) BY <1>1
<1>3. e \in T OBVIOUS
<1> HIDE DEF T
<1>4. Append(s, e) \in Seq(T) BY <1>2, <1>3
<1> QED BY <1>2, <1>3, <1>4, AppendProperties DEF IsList

LEMMA Overwritten ==
  ASSUME NEW s, NEW e, IsList(s), NEW k \in 1 .. Len(s)
  PROVE  /\ IsList([s EXCEPT ![k] = e]) /\ Len([s EXCEPT ![k] = e]) = Len(s) /\ Len(s) \in Nat
         /\ \A n \in 1 .. Len(s) : [s EXCEPT ![k] = e][n] = IF n = k THEN e ELSE s[n]
<1>1. PICK S : s \in Seq(S) BY DEF IsList
<1> DEFINE T == S \cup {e}
<1>2. s \in Seq(T) BY <1>1
<1>3. e \in T OBVIOUS
<1> HIDE DEF T
<1>4. /\ [s EXCEPT ![k] = e] \in Seq(T) /\ Len([s EXCEPT ![k] = e]) = Len(s)
      /\ \A n \in 1 .. Len(s) : [s EXCEPT ![k] = e][n] = IF n = k THEN e ELSE s[n]
  BY <1>2, <1>3, ExceptSeq
<1> QED BY <1>2, <1>4 DEF IsList

-----------------------------------------------------------------------------
(* The invariant                                                            *)

LEMMA InitInv == Init => IntactInv
<1> SUFFICES ASSUME Init PROVE IntactInv OBVIOUS
<1>1. recorded = <<>> /\ store = <<>> /\ edits = 0 /\ events = <<>> /\ scan = AtStart("idle") BY DEF Init
<1>2. recorded \in Seq({}) /\ Len(recorded) = 0 /\ Len(events) = 0 BY <1>1
<1>3. Recorded BY <1>2 DEF Recorded, IsList
<1>4. Counted BY <1>1 DEF Counted
<1>5. Scanned BY <1>1 DEF Scanned, ScanFields, AtStart, HashAt
<1>6. Pinned BY <1>1, <1>2 DEF Pinned
<1>7. Loaded BY <1>2 DEF Loaded
<1>8. IntactIsValid BY <1>1 DEF IntactIsValid, AtStart
<1> QED BY <1>3, <1>4, <1>5, <1>6, <1>7, <1>8 DEF IntactInv, Inv

(* What the journal appends is in place.                                    *)
LEMMA MadeInPlace ==
  ASSUME NEW p, Recorded, store = recorded
  PROVE  LET e == make_event(NextSequence, HashBefore, p) IN
           InPlace(Append(store, e), Len(store) + 1) /\ DOMAIN e = Fields
<1> DEFINE e == make_event(NextSequence, HashBefore, p)
           s == Append(store, e)
           k == Len(store)
<1>1. /\ k \in Nat /\ s[k + 1] = e
      /\ \A n \in 1 .. k : s[n] = store[n]
  BY Appended DEF Recorded
<1>2. /\ DOMAIN e = Fields
      /\ e.sequence = NextSequence /\ e.previous_event_hash = HashBefore
      /\ e.event_hash = Digest(event_hash_material(e))
  BY DEF make_event, Hashed, Fields, event_hash_material
<1>3. store = <<>> <=> k = 0
  <2>1. PICK S : store \in Seq(S) BY DEF Recorded, IsList
  <2> QED BY <2>1, EmptySeq
<1>4. NextSequence = k
  <2>1. CASE k = 0 BY <1>3, <2>1 DEF NextSequence
  <2>2. CASE k > 0
    <3>1. store[k].sequence = k - 1 BY <1>1, <2>2 DEF Recorded, InPlace
    <3> QED BY <1>1, <1>3, <2>2, <3>1 DEF NextSequence
  <2> QED BY <1>1, <2>1, <2>2
<1>5. HashBefore = HashAt(s, k)
  BY <1>1, <1>3 DEF HashBefore, HashAt
<1> HIDE DEF e, s, k
<1>6. InPlace(s, k + 1) BY <1>1, <1>2, <1>4, <1>5 DEF InPlace
<1> QED BY <1>2, <1>6 DEF e, s, k

LEMMA RecordInv == ASSUME NEW p, Inv, Record(p) PROVE Inv'
<1> USE DEF Inv
<1>1. CASE edits # 0
  <2>1. recorded' = recorded /\ UNCHANGED <<edits, events, scan>> BY <1>1 DEF Record
  <2> QED BY <1>1, <2>1 DEF Recorded, Counted, Scanned, Pinned, PinnedTo, InPlace, HashAt
<1>2. CASE edits = 0
  <2> DEFINE e == make_event(NextSequence, HashBefore, p)
             k == Len(recorded)
  <2>1. /\ store = recorded /\ recorded' = Append(recorded, e) /\ store' = recorded'
        /\ UNCHANGED <<edits, events, scan>>
    BY <1>2 DEF Record, Counted
  <2>2. /\ k \in Nat /\ IsList(recorded') /\ Len(recorded') = k + 1
        /\ \A n \in 1 .. k : recorded'[n] = recorded[n]
        /\ recorded'[k + 1] = e
    BY <2>1, Appended DEF Recorded
  <2>3. InPlace(recorded', k + 1) /\ DOMAIN e = Fields BY <2>1, MadeInPlace
  <2> HIDE DEF e, k
  <2>4. \A n \in 1 .. k : InPlace(recorded', n) /\ DOMAIN recorded'[n] = Fields
    BY <2>2 DEF k, Recorded, InPlace, HashAt
  <2>5. Recorded'
    <3>1. \A n \in 1 .. k + 1 : InPlace(recorded', n) /\ DOMAIN recorded'[n] = Fields
      BY <2>2, <2>3, <2>4
    <3>2. \A n \in 1 .. Len(recorded') : InPlace(recorded', n) /\ DOMAIN recorded'[n] = Fields
      BY <2>2, <3>1
    <3> QED BY <2>2, <3>2 DEF Recorded, InPlace, HashAt, event_hash_material, Digest
  <2>6. Counted' BY <2>1 DEF Counted
  <2>7. Scanned' BY <2>1 DEF Scanned, InPlace, HashAt
  <2>8. \A n \in 1 .. scan.position, c \in 1 .. k : PinnedTo(events, recorded', n, c)
    BY <2>2 DEF Pinned, PinnedTo, Scanned, k
  <2>9. \A n \in 1 .. scan.position : PinnedTo(events, recorded', n, k + 1)
    <3> TAKE n \in 1 .. scan.position
    <3>1. n \in Nat \ {0} /\ InPlace(events, n) BY DEF Scanned
    <3>2. n > 1 /\ k + 1 > 1 => PinnedTo(events, recorded', n - 1, (k + 1) - 1)
      BY <2>2, <2>8, <3>1 DEF Scanned
    <3>3. k + 1 \in Nat \ {0} BY <2>2
    <3> QED BY <2>3, <3>1, <3>2, <3>3, PinnedOneMore
  <2>10. Pinned'
    <3>1. \A n \in 1 .. scan.position, c \in 1 .. k + 1 : PinnedTo(events, recorded', n, c)
      BY <2>2, <2>8, <2>9
    <3> QED BY <2>1, <2>2, <3>1 DEF Pinned, PinnedTo
  <2> QED BY <2>5, <2>6, <2>7, <2>10
<1> QED BY <1>1, <1>2

LEMMA SignInv == ASSUME NEW k \in 1 .. MaxEvents, NEW g, Inv, Sign(k, g) PROVE Inv'
<1> USE DEF Inv
<1>1. CASE edits # 0
  <2>1. recorded' = recorded /\ UNCHANGED <<edits, events, scan>> BY <1>1 DEF Sign
  <2> QED BY <1>1, <2>1 DEF Recorded, Counted, Scanned, Pinned, PinnedTo, InPlace, HashAt
<1>2. CASE edits = 0
  <2> DEFINE e == [recorded[k] EXCEPT !.signature_ref = g]
  <2>1. /\ store = recorded /\ recorded' = [recorded EXCEPT ![k] = e] /\ store' = recorded'
        /\ UNCHANGED <<edits, events, scan>> /\ k \in DOMAIN recorded
    BY <1>2 DEF Sign, Counted
  <2>2. k \in 1 .. Len(recorded)
    <3>1. PICK S : recorded \in Seq(S) BY DEF Recorded, IsList
    <3> QED BY <2>1, <3>1
  <2>3. /\ IsList(recorded') /\ Len(recorded') = Len(recorded)
        /\ \A n \in 1 .. Len(recorded) : recorded'[n] = IF n = k THEN e ELSE recorded[n]
    <3> HIDE DEF e
    <3>1. IsList(recorded) BY DEF Recorded
    <3> DEFINE r == [recorded EXCEPT ![k] = e]
    <3>2. /\ IsList(r) /\ Len(r) = Len(recorded)
          /\ \A n \in 1 .. Len(recorded) : r[n] = IF n = k THEN e ELSE recorded[n]
      BY <2>2, <3>1, Overwritten
    <3>3. recorded' = r BY <2>1
    <3> HIDE DEF r
    <3> QED BY <3>2, <3>3
  <2>4. \A n \in 1 .. Len(recorded) :
          /\ DOMAIN recorded'[n] = Fields
          /\ recorded'[n].sequence = recorded[n].sequence
          /\ recorded'[n].payload = recorded[n].payload
          /\ recorded'[n].previous_event_hash = recorded[n].previous_event_hash
          /\ recorded'[n].event_hash = recorded[n].event_hash
    <3> TAKE n \in 1 .. Len(recorded)
    <3>1. DOMAIN recorded[n] = Fields BY DEF Recorded
    <3>2. CASE n # k BY <2>3, <3>1, <3>2
    <3>3. CASE n = k
      <4>1. recorded'[n] = e BY <2>3, <3>3
      <4> QED BY <3>1, <3>3, <4>1 DEF Fields
    <3> QED BY <3>2, <3>3
  <2>5. \A n \in 1 .. Len(recorded) :
          event_hash_material(recorded'[n]) = event_hash_material(recorded[n])
    BY <2>4 DEF event_hash_material
  <2>6. \A n \in 1 .. Len(recorded) : InPlace(recorded', n)
    BY <2>4, <2>5 DEF Recorded, InPlace, HashAt
  <2>7. Recorded' BY <2>3, <2>4, <2>6 DEF Recorded, InPlace, HashAt, event_hash_material, Digest
  <2>8. Counted' /\ Scanned' BY <2>1 DEF Counted, Scanned, InPlace, HashAt
  <2>9. Pinned' BY <2>1, <2>3, <2>4, <2>5 DEF Pinned, PinnedTo, Same
  <2> QED BY <2>7, <2>8, <2>9
<1> QED BY <1>1, <1>2

LEMMA EditInv == ASSUME Inv, Edit PROVE Inv'
<1>1. edits' = edits + 1 /\ UNCHANGED <<recorded, events, scan>> BY DEF Edit
<1>2. Counted' BY <1>1 DEF Inv, Counted
<1> QED BY <1>1, <1>2 DEF Inv, Recorded, Scanned, Pinned, PinnedTo, InPlace, HashAt

LEMMA LoadInv == ASSUME Inv, Load PROVE Inv'
<1>1. UNCHANGED <<store, recorded, edits>> /\ scan' = AtStart("scanning") BY DEF Load
<1>2. Recorded' /\ Counted' BY <1>1 DEF Inv, Recorded, Counted, InPlace, HashAt
<1>3. Scanned' BY <1>1 DEF Scanned, ScanFields, AtStart, HashAt
<1>4. Pinned' BY <1>1 DEF Pinned, AtStart
<1> QED BY <1>2, <1>3, <1>4 DEF Inv

(* An event for which no reason is found is in its place.                   *)
LEMMA NoReasonMeansInPlace ==
  ASSUME Scanned, Reason = NONE
  PROVE  InPlace(events, scan.position + 1)
<1>1. /\ Current.sequence = scan.position
      /\ Current.previous_event_hash = scan.previous_hash
      /\ Current.event_hash = Digest(event_hash_material(Current))
  BY LedgerConstants DEF Reason, Reasons
<1> QED BY <1>1 DEF Scanned, Current, InPlace

LEMMA AcceptedInv == ASSUME Inv, Accepted PROVE Inv'
<1> DEFINE k == scan.position + 1
<1>1. /\ scan' = [scan EXCEPT !.position = k, !.previous_hash = Current.event_hash]
      /\ UNCHANGED <<store, recorded, edits, events>> /\ Reason = NONE
  BY DEF Accepted
<1>2. Recorded' /\ Counted' BY <1>1 DEF Inv, Recorded, Counted, InPlace, HashAt
<1>3. InPlace(events, k) BY <1>1, NoReasonMeansInPlace DEF Inv
<1>4. /\ DOMAIN scan' = ScanFields /\ scan'.position = k /\ k \in Nat \ {0}
      /\ scan'.previous_hash = events[k].event_hash
  BY <1>1 DEF Inv, Scanned, ScanFields, Current
<1>5. Scanned' BY <1>1, <1>3, <1>4 DEF Inv, Scanned, InPlace, HashAt
<1>6. \A c \in 1 .. Len(recorded) : PinnedTo(events, recorded, k, c)
  <2> TAKE c \in 1 .. Len(recorded)
  <2>1. c \in Nat \ {0} /\ InPlace(recorded, c) BY DEF Inv, Recorded
  <2>2. k > 1 /\ c > 1 => PinnedTo(events, recorded, k - 1, c - 1)
    <3>1. Len(recorded) \in Nat BY Appended DEF Inv, Recorded
    <3> QED BY <2>1, <3>1 DEF Inv, Pinned, Scanned
  <2> QED BY <1>3, <1>4, <2>1, <2>2, PinnedOneMore
<1>7. Pinned'
  <2>1. \A n \in 1 .. k, c \in 1 .. Len(recorded) : PinnedTo(events, recorded, n, c)
    BY <1>6 DEF Inv, Pinned, Scanned
  <2> HIDE DEF k
  <2> QED BY <1>1, <1>4, <2>1 DEF Pinned, PinnedTo
<1> QED BY <1>2, <1>5, <1>7 DEF Inv

LEMMA EndInv == ASSUME Inv, Broken \/ Valid PROVE Inv'
<1>1. /\ UNCHANGED <<store, recorded, edits, events>>
      /\ scan'.position = scan.position /\ scan'.previous_hash = scan.previous_hash
      /\ DOMAIN scan' = DOMAIN scan
  BY DEF Broken, Valid, Inv, Scanned, ScanFields
<1> QED BY <1>1 DEF Inv, Recorded, Counted, Scanned, Pinned, PinnedTo, InPlace, HashAt

LEMMA StepInv == Inv /\ [Next]_vars => Inv'
<1> SUFFICES ASSUME Inv, [Next]_vars PROVE Inv' OBVIOUS
<1>1. CASE \E p \in Payloads : Record(p) BY <1>1, RecordInv
<1>2. CASE Edit BY <1>2, EditInv
<1>3. CASE \E n \in 1 .. MaxEvents, g \in Signatures : Sign(n, g) BY <1>3, SignInv
<1>4. CASE Load BY <1>4, LoadInv
<1>5. CASE Accepted BY <1>5, AcceptedInv
<1>6. CASE Broken \/ Valid BY <1>6, EndInv
<1>7. CASE UNCHANGED vars
  BY <1>7 DEF vars, Inv, Recorded, Counted, Scanned, Pinned, PinnedTo, InPlace, HashAt
<1> QED BY <1>1, <1>2, <1>3, <1>4, <1>5, <1>6, <1>7 DEF Next

(* Whatever is done to a list of any length: whoever kept the hash of a     *)
(* recorded event and gets it as final_hash from validate_chain has exactly *)
(* the recorded events up to it.                                            *)
THEOREM HistoryIsPinned == Spec => []FinalHashPinsHistory
<1>1. Init => Inv BY InitInv DEF IntactInv
<1>2. Inv => FinalHashPinsHistory
  <2> SUFFICES ASSUME Inv, scan.position > 0, NEW c \in DOMAIN recorded,
                      scan.previous_hash = recorded[c].event_hash
               PROVE  scan.position = c /\ \A n \in 1 .. c : Same(events[n], recorded[n])
    BY DEF FinalHashPinsHistory
  <2>1. c \in 1 .. Len(recorded)
    <3>1. PICK S : recorded \in Seq(S) BY DEF Inv, Recorded, IsList
    <3> QED BY <3>1
  <2>2. scan.position \in 1 .. scan.position /\ events[scan.position].event_hash = recorded[c].event_hash
    BY DEF Inv, Scanned, HashAt
  <2>3. PinnedTo(events, recorded, scan.position, c) BY <2>1, <2>2 DEF Inv, Pinned
  <2> QED BY <2>2, <2>3 DEF PinnedTo
<1> QED BY <1>1, <1>2, StepInv, PTL DEF Spec

-----------------------------------------------------------------------------
(* Lists nobody edited                                                      *)

LEMMA StepIntact == IntactInv /\ [Next]_vars => (Loaded /\ IntactIsValid)'
<1> SUFFICES ASSUME IntactInv, [Next]_vars PROVE (Loaded /\ IntactIsValid)' OBVIOUS
<1>1. Inv' BY StepInv DEF IntactInv
<1>2. CASE edits' # 0 BY <1>2 DEF Loaded, IntactIsValid
<1>3. CASE edits' = 0
  <2>1. edits = 0 /\ ~Edit
    BY <1>3 DEF IntactInv, Inv, Counted, Next, vars, Record, Edit, Sign, Load, Broken, Accepted, Valid
  <2>2. Len(recorded) \in Nat /\ Len(recorded') \in Nat BY <1>1, Appended DEF IntactInv, Inv, Recorded
  <2>3. CASE Load
    <3>1. events' = recorded /\ recorded' = recorded /\ scan'.reason = NONE
      BY <2>1, <2>3 DEF Load, IntactInv, Inv, Counted, AtStart
    <3> QED BY <2>2, <3>1 DEF IntactInv, Inv, Recorded, Loaded, IntactIsValid, InPlace, HashAt
  <2>4. CASE Broken
    <3>1. scan.position \in Nat /\ scan.position + 1 \in 1 .. Len(events)
      BY <2>1, <2>4 DEF Broken, IntactInv, Inv, Scanned, Loaded
    <3>2. InPlace(events, scan.position + 1) BY <2>1, <3>1 DEF IntactInv, Loaded
    <3>3. Reason = NONE
      BY <3>1, <3>2 DEF Reason, Current, InPlace, IntactInv, Inv, Scanned
    <3> QED BY <2>4, <3>3 DEF Broken
  <2>5. CASE ~Load /\ ~Broken
    <3>1. events' = events /\ scan'.reason = scan.reason
      BY <2>1, <2>5 DEF Next, vars, Record, Sign, Accepted, Valid, IntactInv, Inv, Scanned, ScanFields
    <3>2. Len(recorded) <= Len(recorded')
      <4>1. CASE \E p \in Payloads : Record(p)
        <5>1. PICK p \in Payloads : Record(p) BY <4>1
        <5>2. recorded' = Append(recorded, make_event(NextSequence, HashBefore, p))
          BY <2>1, <5>1 DEF Record, IntactInv, Inv, Counted
        <5> QED BY <2>2, <5>2, Appended DEF IntactInv, Inv, Recorded
      <4>2. CASE \E n \in 1 .. MaxEvents, g \in Signatures : Sign(n, g)
        <5>1. PICK n \in 1 .. MaxEvents, g \in Signatures : Sign(n, g) BY <4>2
        <5>2. recorded' = [recorded EXCEPT ![n].signature_ref = g] /\ n \in DOMAIN recorded
          BY <2>1, <5>1 DEF Sign, IntactInv, Inv, Counted
        <5>3. PICK S : recorded \in Seq(S) BY DEF IntactInv, Inv, Recorded, IsList
        <5> DEFINE e == [recorded[n] EXCEPT !.signature_ref = g]
        <5>4. recorded' = [recorded EXCEPT ![n] = e] BY <5>2
        <5> HIDE DEF e
        <5>5. IsList(recorded) /\ n \in 1 .. Len(recorded) BY <5>2, <5>3 DEF IsList
        <5> QED BY <2>2, <5>4, <5>5, Overwritten
      <4>3. CASE recorded' = recorded BY <2>2, <4>3
      <4> QED BY <2>1, <2>5, <4>1, <4>2, <4>3 DEF Next, vars, Accepted, Valid
    <3> QED BY <2>1, <2>2, <3>1, <3>2 DEF IntactInv, Loaded, IntactIsValid, InPlace, HashAt
  <2> QED BY <2>3, <2>4, <2>5
<1> QED BY <1>2, <1>3

(* A list that nobody edited is never reported broken, at whatever moment   *)
(* between two records it was loaded.                                       *)
THEOREM IntactListsAreValid == Spec => []IntactIsValid
<1>1. IntactInv /\ [Next]_vars => IntactInv' BY StepInv, StepIntact DEF IntactInv
<1>2. IntactInv => IntactIsValid BY DEF IntactInv
<1> QED BY <1>1, <1>2, InitInv, PTL DEF Spec

-----------------------------------------------------------------------------
(* The artifact store                                                       *)

IsRecord(r, fields) == r = [f \in fields |-> r[f]]
\* s is r with x for its field f
Becomes(r, s, D, f, x) ==
  /\ IsRecord(s, D)
  /\ f \in D => s[f] = x
  /\ \A g \in D : g # f => s[g] = r[g]

CallFields == {"pc", "content"}
Calls ==
  /\ IsRecord(file, Contents) /\ IsRecord(temp, Processes) /\ IsRecord(proc, Processes)
  /\ \A p \in Processes : IsRecord(proc[p], CallFields) /\ proc[p].content \in Contents
  /\ stored \subseteq Contents
\* only a whole blob gets a name, and a name is never taken away
BlobsAreWhole == \A c \in Contents \ damaged : file[c] \in {Absent, c}
WrittenBeforeNamed == \A p \in Processes : proc[p].pc = "replace" => temp[p] = proc[p].content
ComparedIsThere == \A p \in Processes : proc[p].pc = "compare" => file[proc[p].content] # Absent
StoredIsThere == \A c \in stored \ damaged : file[c] = c
(* A put reports INTEGRITY_ERROR only for a content whose file was damaged: *)
(* it never takes the work of another writer for corruption                 *)
(* (artifacts.py:41).                                                       *)
AlarmsAreTrue == \A p \in Processes : At(p, "integrity_error") => Mine(p) \in damaged
StoreInv ==
  /\ Calls /\ BlobsAreWhole /\ WrittenBeforeNamed /\ ComparedIsThere /\ StoredIsThere /\ AlarmsAreTrue

LEMMA OneField ==
  ASSUME NEW r, NEW D, IsRecord(r, D), NEW f, NEW x
  PROVE  Becomes(r, [r EXCEPT ![f] = x], D, f, x)
BY DEF IsRecord, Becomes

LEMMA OnlyItsPlace ==
  ASSUME Calls, NEW p \in Processes, NEW pc, Goto(p, pc)
  PROVE  /\ IsRecord(proc', Processes)
         /\ \A q \in Processes : IsRecord(proc'[q], CallFields) /\ proc'[q].content = proc[q].content
         /\ proc'[p].pc = pc
         /\ \A q \in Processes : q # p => proc'[q] = proc[q]
<1> DEFINE x == [proc[p] EXCEPT !["pc"] = pc]
<1>1. proc' = [proc EXCEPT ![p] = x] BY DEF Goto
<1>2. IsRecord(proc, Processes) /\ \A q \in Processes : IsRecord(proc[q], CallFields) BY DEF Calls
<1>3. Becomes(proc[p], x, CallFields, "pc", pc) BY <1>2, OneField
<1>4. IsRecord(x, CallFields) /\ x["pc"] = pc /\ x["content"] = proc[p]["content"] BY <1>3 DEF Becomes, CallFields
<1> HIDE DEF x
<1>5. Becomes(proc, [proc EXCEPT ![p] = x], Processes, p, x) BY <1>2, OneField
<1>6. Becomes(proc, proc', Processes, p, x) BY <1>1, <1>5
<1>7. IsRecord(proc', Processes) /\ proc'[p] = x /\ \A q \in Processes : q # p => proc'[q] = proc[q]
  BY <1>6 DEF Becomes
<1> QED BY <1>2, <1>4, <1>7

Changes(r, s, d, x) == s = [r EXCEPT ![d] = x]
LEMMA OnlyOneEntry ==
  ASSUME NEW r, NEW s, NEW D, NEW d \in D, NEW x, IsRecord(r, D), Changes(r, s, d, x)
  PROVE  IsRecord(s, D) /\ s[d] = x /\ \A e \in D : e # d => s[e] = r[e]
<1>1. Becomes(r, [r EXCEPT ![d] = x], D, d, x) BY OneField
<1>2. Becomes(r, s, D, d, x) BY <1>1 DEF Changes
<1> QED BY <1>2 DEF Becomes

LEMMA StoreStarts == StoreInit => StoreInv
<1> SUFFICES ASSUME StoreInit PROVE StoreInv OBVIOUS
<1>1. PICK c \in Contents : proc = [p \in Processes |-> [pc |-> "idle", content |-> c]] BY DEF StoreInit
<1>2. \A p \in Processes : IsRecord(proc[p], CallFields) /\ proc[p].content = c /\ proc[p].pc = "idle"
  BY <1>1 DEF IsRecord, CallFields
<1>3. IsRecord(file, Contents) /\ IsRecord(temp, Processes) /\ IsRecord(proc, Processes)
  BY <1>1 DEF StoreInit, IsRecord
<1> QED BY <1>2, <1>3 DEF StoreInit, StoreInv, Calls, BlobsAreWhole, WrittenBeforeNamed, ComparedIsThere,
       StoredIsThere, AlarmsAreTrue, At

LEMMA StoreSteps == StoreInv /\ [StoreNext]_storeVars => StoreInv'
<1> SUFFICES ASSUME StoreInv, [StoreNext]_storeVars PROVE StoreInv' OBVIOUS
<1> USE DEF StoreInv
<1> DEFINE Parts == BlobsAreWhole /\ WrittenBeforeNamed /\ ComparedIsThere /\ StoredIsThere /\ AlarmsAreTrue
<1> USE DEF BlobsAreWhole, WrittenBeforeNamed, ComparedIsThere, StoredIsThere, AlarmsAreTrue, At, Mine
<1>0. Calls OBVIOUS
<1>1. ASSUME NEW p \in Processes, NEW c \in Contents, PutBegins(p, c) PROVE StoreInv'
  <2> DEFINE x == [pc |-> IF file[c] = Absent THEN "create" ELSE "compare", content |-> c]
  <2>1. Changes(proc, proc', p, x) /\ UNCHANGED <<file, temp, stored, damaged>> BY <1>1 DEF PutBegins, Changes
  <2>2. IsRecord(x, CallFields) /\ x.content = c /\ (x.pc = "create" \/ (x.pc = "compare" /\ file[c] # Absent))
    BY DEF IsRecord, CallFields
  <2> HIDE DEF x
  <2>3. IsRecord(proc', Processes) /\ proc'[p] = x /\ \A q \in Processes : q # p => proc'[q] = proc[q]
    BY <1>0, <2>1, OnlyOneEntry DEF Calls
  <2>4. Calls' BY <1>0, <2>1, <2>2, <2>3 DEF Calls
  <2>5. Parts' BY <2>1, <2>2, <2>3
  <2> QED BY <2>4, <2>5
<1>2. ASSUME NEW p \in Processes, Compare(p) PROVE StoreInv'
  <2> DEFINE c == proc[p].content
  <2>1. UNCHANGED <<file, temp, damaged>> /\ proc[p].pc = "compare" BY <1>2 DEF Compare
  <2>2. CASE file[c] = c
    <3>1. Goto(p, "idle") /\ stored' = stored \cup {c} BY <1>2, <2>2 DEF Compare
    <3>2. Calls' /\ Parts' BY <1>0, <2>1, <2>2, <3>1, OnlyItsPlace DEF Calls
    <3> QED BY <3>2
  <2>3. CASE file[c] # c
    <3>1. Goto(p, "integrity_error") /\ stored' = stored BY <1>2, <2>3 DEF Compare
    <3>2. c \in Contents /\ c \in damaged BY <1>0, <2>1, <2>3 DEF Calls
    <3>3. Calls' /\ Parts' BY <1>0, <2>1, <3>1, <3>2, OnlyItsPlace DEF Calls
    <3> QED BY <3>3
  <2> QED BY <2>2, <2>3
<1>3. ASSUME NEW p \in Processes, CreateTemporary(p) PROVE StoreInv'
  <2>1. Goto(p, "write") /\ Changes(temp, temp', p, Partial) /\ UNCHANGED <<file, stored, damaged>>
    BY <1>3 DEF CreateTemporary, Changes
  <2>2. IsRecord(temp', Processes) /\ \A q \in Processes : q # p => temp'[q] = temp[q]
    BY <1>0, <2>1, OnlyOneEntry DEF Calls
  <2>3. Calls' /\ Parts' BY <1>0, <2>1, <2>2, OnlyItsPlace DEF Calls
  <2> QED BY <2>3
<1>4. ASSUME NEW p \in Processes, WriteAndSync(p) PROVE StoreInv'
  <2> DEFINE c == proc[p].content
  <2>1. Goto(p, "replace") /\ Changes(temp, temp', p, c) /\ UNCHANGED <<file, stored, damaged>>
    BY <1>4 DEF WriteAndSync, Changes
  <2>2. IsRecord(temp', Processes) /\ temp'[p] = c /\ \A q \in Processes : q # p => temp'[q] = temp[q]
    BY <1>0, <2>1, OnlyOneEntry DEF Calls
  <2>3. Calls' /\ Parts' BY <1>0, <2>1, <2>2, OnlyItsPlace DEF Calls
  <2> QED BY <2>3
<1>5. ASSUME NEW p \in Processes, Replace(p) PROVE StoreInv'
  <2> DEFINE c == proc[p].content
  <2>1. /\ Goto(p, "idle") /\ Changes(temp, temp', p, Absent)
        /\ Changes(file, file', c, temp[p]) /\ stored' = stored \cup {c} /\ damaged' = damaged
        /\ proc[p].pc = "replace"
    BY <1>5 DEF Replace, Changes
  <2>2. IsRecord(temp', Processes) /\ \A q \in Processes : q # p => temp'[q] = temp[q]
    BY <1>0, <2>1, OnlyOneEntry DEF Calls
  <2>3. c \in Contents /\ temp[p] = c /\ c # Absent BY <1>0, <2>1, BlobsAreContents DEF Calls
  <2>4. IsRecord(file', Contents) /\ file'[c] = c /\ \A d \in Contents : d # c => file'[d] = file[d]
    <3> HIDE DEF c
    <3>1. Changes(file, file', c, c) BY <2>1, <2>3
    <3> QED BY <1>0, <2>3, <3>1, OnlyOneEntry DEF Calls
  <2>5. Calls' BY <1>0, <2>1, <2>2, <2>3, <2>4, OnlyItsPlace DEF Calls
  <2>6. Parts' BY <1>0, <2>1, <2>2, <2>3, <2>4, OnlyItsPlace DEF Calls
  <2> QED BY <2>5, <2>6
<1>6. ASSUME NEW p \in Processes, PutFails(p) \/ Kill(p) PROVE StoreInv'
  <2>1. Goto(p, "idle") /\ Changes(temp, temp', p, Absent) /\ UNCHANGED <<file, stored, damaged>>
    BY <1>6 DEF PutFails, Kill, Changes
  <2>2. IsRecord(temp', Processes) /\ \A q \in Processes : q # p => temp'[q] = temp[q]
    BY <1>0, <2>1, OnlyOneEntry DEF Calls
  <2>3. Calls' /\ Parts' BY <1>0, <2>1, <2>2, OnlyItsPlace DEF Calls
  <2> QED BY <2>3
<1>7. ASSUME NEW p \in Processes, Reported(p) PROVE StoreInv'
  <2>1. Goto(p, "idle") /\ UNCHANGED <<file, temp, stored, damaged>> BY <1>7 DEF Reported
  <2>2. Calls' /\ Parts' BY <1>0, <2>1, OnlyItsPlace DEF Calls
  <2> QED BY <2>2
<1>8. ASSUME NEW c \in Contents, Damage(c) PROVE StoreInv'
  <2>1. /\ Changes(file, file', c, Rotten) /\ damaged' = damaged \cup {c}
        /\ UNCHANGED <<temp, proc, stored>>
    BY <1>8 DEF Damage, Changes
  <2>2. IsRecord(file', Contents) /\ file'[c] = Rotten /\ \A d \in Contents : d # c => file'[d] = file[d]
    BY <1>0, <2>1, OnlyOneEntry DEF Calls
  <2>3. Calls' BY <1>0, <2>1, <2>2 DEF Calls
  <2>4. Parts' BY <1>0, <2>1, <2>2, BlobsAreContents DEF Calls
  <2> QED BY <2>3, <2>4
<1>9. CASE UNCHANGED storeVars BY <1>9 DEF storeVars, Calls
<1> QED BY <1>1, <1>2, <1>3, <1>4, <1>5, <1>6, <1>7, <1>8, <1>9 DEF StoreNext, Work

(* What a put has returned for is there, whole, for every get: whatever     *)
(* other writers do and wherever they fail or are killed, unless the file   *)
(* itself was damaged (artifacts.py:50).                                    *)
THEOREM AcknowledgedIsAvailable == StoreSpec => []StoredIsAvailable
<1>1. StoreInv => StoredIsAvailable
  <2> SUFFICES ASSUME StoreInv, NEW c \in stored \ damaged PROVE Answer(c) = "content"
    BY DEF StoredIsAvailable
  <2>1. file[c] = c /\ c # Absent BY BlobsAreContents DEF StoreInv, StoredIsThere, Calls
  <2> QED BY <2>1 DEF Answer
<1> QED BY <1>1, StoreStarts, StoreSteps, PTL DEF StoreSpec

(* Writers of one content are never taken for one another's corruption.     *)
THEOREM CorruptionIsReal == StoreSpec => []AlarmsAreTrue
<1>1. StoreInv => AlarmsAreTrue BY DEF StoreInv
<1> QED BY <1>1, StoreStarts, StoreSteps, PTL DEF StoreSpec

-----------------------------------------------------------------------------
(* The migrations of the journal                                            *)

LoopFields == {"pc", "program", "applied", "next", "statement"}
InLoop == {"next", "script"}

Rows == IsRecord(applied, Versions) /\ IsRecord(opener, Openers)
\* a connection at l; rows is what is applied, late the connections that were overtaken
\* what a connection read is what is there, but for what was recorded since, by it or by others
AsItRead(l, o, rows, late) ==
  /\ IsRecord(l, LoopFields) /\ l.next \in Nat \ {0} /\ l.program \in Programs
  /\ \A v \in Versions : l.applied[v] \in {NoRow, rows[v]}
  /\ \A v \in Versions : l.applied[v] = NoRow /\ rows[v] # NoRow =>
       o \in late \/ \E i \in DOMAIN l.program : i < l.next /\ l.program[i].version = v
\* a script runs for a migration that was not recorded when the rows were read
IsPending(l) ==
  l.next \in DOMAIN l.program /\ l.applied[l.program[l.next].version] = NoRow
Refused(l, o, rows, late) ==
  o \in late \/ \E m \in ToSet(l.program) : rows[m.version] \notin {NoRow, m.digest}
StandsAt(l, o, rows, late) ==
  /\ l.pc = "read" => l.program \in Programs
  /\ l.pc \in InLoop => AsItRead(l, o, rows, late)
  /\ l.pc = "script" => IsPending(l)
  /\ l.pc = "raised" => l.program \in Programs /\ Refused(l, o, rows, late)
OpeningInv == Rows /\ \A o \in Openers : StandsAt(opener[o], o, applied, overtaken)

LEMMA ProgramsAreOfMigrations ==
  ASSUME NEW program \in Programs
  PROVE  /\ DOMAIN program = 1 .. Len(program) /\ Len(program) \in Nat
         /\ \A i \in DOMAIN program : program[i] \in ToSet(program) /\ program[i].version \in Versions
         /\ \A m \in ToSet(program) : m.version \in Versions
<1>1. program \in Seq(Migration) BY ProgramsAreNumbered
<1>2. \A m \in ToSet(program) : m \in Migration BY DEF Migration
<1>3. \A m \in ToSet(program) : m.version \in Versions BY <1>2 DEF Versions
<1>4. \A i \in DOMAIN program : program[i] \in ToSet(program) BY DEF ToSet
<1> QED BY <1>1, <1>3, <1>4

LEMMA OpeningStarts == OpeningInit => OpeningInv
BY DEF OpeningInit, OpeningInv, Rows, IsRecord, StandsAt, Closed, InLoop

\* a step that changes only where one connection stands
LEMMA OneConnectionMoves ==
  ASSUME OpeningInv, NEW o \in Openers, NEW l, Changes(opener, opener', o, l),
         applied' = applied, \A p \in Openers \ {o} : p \in overtaken' <=> p \in overtaken,
         StandsAt(l, o, applied', overtaken')
  PROVE  OpeningInv'
<1>1. IsRecord(opener, Openers) BY DEF OpeningInv, Rows
<1>2. IsRecord(opener', Openers) /\ opener'[o] = l /\ \A p \in Openers : p # o => opener'[p] = opener[p]
  BY <1>1, OnlyOneEntry
<1>3. ASSUME NEW p \in Openers, p # o PROVE StandsAt(opener'[p], p, applied', overtaken')
  <2>1. StandsAt(opener[p], p, applied, overtaken) BY DEF OpeningInv
  <2>2. opener'[p] = opener[p] BY <1>2, <1>3
  <2>3. p \in overtaken' <=> p \in overtaken BY <1>3
  <2> QED BY <2>1, <2>2, <2>3 DEF StandsAt, AsItRead, IsPending, Refused
<1>4. StandsAt(opener'[o], o, applied', overtaken') BY <1>2
<1> QED BY <1>2, <1>3, <1>4 DEF OpeningInv, Rows

LEMMA OpenKeeps ==
  ASSUME OpeningInv, NEW o \in Openers, NEW program \in Programs, Open(o, program)
  PROVE  OpeningInv'
<1> DEFINE l == [pc |-> "read", program |-> program]
<1>1. Changes(opener, opener', o, l) /\ applied' = applied /\ overtaken' = overtaken \ {o}
  BY DEF Open, Goes, Changes
<1>2. l.pc = "read" /\ l.program = program OBVIOUS
<1> HIDE DEF l
<1>3. StandsAt(l, o, applied', overtaken') BY <1>2 DEF StandsAt, InLoop
<1> QED BY <1>1, <1>3, OneConnectionMoves

LEMMA ReadAppliedKeeps ==
  ASSUME OpeningInv, NEW o \in Openers, ReadApplied(o)
  PROVE  OpeningInv'
<1> DEFINE l == [pc |-> "next", program |-> opener[o].program, applied |-> applied, next |-> 1, statement |-> 1]
<1>1. Changes(opener, opener', o, l) /\ applied' = applied /\ overtaken' = overtaken
  BY DEF ReadApplied, Goes, Changes
<1>2. /\ l.pc = "next" /\ l.program = opener[o].program /\ l.applied = applied /\ l.next = 1
      /\ IsRecord(l, LoopFields)
  BY DEF IsRecord, LoopFields
<1> HIDE DEF l
<1>3. opener[o].program \in Programs BY DEF ReadApplied, Stands, OpeningInv, StandsAt
<1>4. StandsAt(l, o, applied', overtaken') BY <1>1, <1>2, <1>3 DEF StandsAt, AsItRead
<1> QED BY <1>1, <1>4, OneConnectionMoves

\* a turn of the loop leaves everything but the place in it
LEMMA NextMigrationKeeps ==
  ASSUME OpeningInv, NEW o \in Openers, NextMigration(o)
  PROVE  OpeningInv'
<1> DEFINE l == opener[o]
           m == Pending(o)
           known == l.applied[m.version]
<1>1. applied' = applied /\ overtaken' = overtaken /\ l.pc = "next" BY DEF NextMigration, Stands
<1>2. AsItRead(l, o, applied, overtaken) BY <1>1 DEF OpeningInv, StandsAt, InLoop
<1>3. IsRecord(l, LoopFields) /\ l.program \in Programs /\ l.next \in Nat \ {0} BY <1>2 DEF AsItRead
<1>4. m = l.program[l.next] BY DEF Pending
<1>5. CASE l.next > Len(l.program)
  <2> DEFINE x == [l EXCEPT !["pc"] = "open"]
  <2>1. Changes(opener, opener', o, x) BY <1>5 DEF NextMigration, Goes, Changes
  <2> HIDE DEF l
  <2>2. Becomes(l, x, LoopFields, "pc", "open") BY <1>3, OneField
  <2> HIDE DEF x
  <2>3. StandsAt(x, o, applied', overtaken') BY <2>2 DEF StandsAt, InLoop, Becomes, LoopFields
  <2> QED BY <1>1, <2>1, <2>3, OneConnectionMoves
<1> SUFFICES ASSUME ~(l.next > Len(l.program)) PROVE OpeningInv' BY <1>5
<1>6. l.next \in DOMAIN l.program /\ m \in ToSet(l.program) /\ m.version \in Versions
  <2>1. l.next \in DOMAIN l.program BY <1>3, ProgramsAreOfMigrations
  <2> QED BY <1>3, <1>4, <2>1, ProgramsAreOfMigrations
<1>7. CASE known = NoRow
  <2> DEFINE x == [l EXCEPT !["pc"] = "script"]
             y == [x EXCEPT !["statement"] = 1]
  <2>1. Changes(opener, opener', o, y) BY <1>7 DEF NextMigration, Goes, Changes
  <2> HIDE DEF l
  <2>2. Becomes(l, x, LoopFields, "pc", "script") BY <1>3, OneField
  <2> HIDE DEF x
  <2>3. Becomes(x, y, LoopFields, "statement", 1)
    <3>1. IsRecord(x, LoopFields) BY <2>2 DEF Becomes
    <3> QED BY <3>1, OneField
  <2> HIDE DEF y
  <2>4. /\ IsRecord(y, LoopFields) /\ y["pc"] = "script" /\ y["program"] = l["program"]
        /\ y["applied"] = l["applied"] /\ y["next"] = l["next"]
    BY <2>2, <2>3 DEF Becomes, LoopFields
  <2>5. AsItRead(y, o, applied', overtaken') BY <1>1, <1>2, <2>4 DEF AsItRead
  <2>6. IsPending(y) BY <1>4, <1>6, <1>7, <2>4 DEF IsPending
  <2>7. StandsAt(y, o, applied', overtaken') BY <2>4, <2>5, <2>6 DEF StandsAt
  <2> QED BY <1>1, <2>1, <2>7, OneConnectionMoves
<1>8. CASE known # NoRow /\ known # m.digest
  <2> DEFINE x == [l EXCEPT !["pc"] = "raised"]
  <2>1. Changes(opener, opener', o, x) BY <1>8 DEF NextMigration, Goes, Changes
  <2> HIDE DEF l
  <2>2. Becomes(l, x, LoopFields, "pc", "raised") BY <1>3, OneField
  <2> HIDE DEF x
  <2>3. x["pc"] = "raised" /\ x["program"] = l["program"] BY <2>2 DEF Becomes, LoopFields
  <2>4. known = applied[m.version] BY <1>2, <1>6, <1>8 DEF AsItRead
  <2>5. Refused(l, o, applied, overtaken) BY <1>6, <1>8, <2>4 DEF Refused
  <2>6. StandsAt(x, o, applied', overtaken') BY <1>1, <1>3, <2>3, <2>5 DEF StandsAt, Refused, InLoop
  <2> QED BY <1>1, <2>1, <2>6, OneConnectionMoves
<1>9. CASE known # NoRow /\ known = m.digest
  <2> DEFINE x == [l EXCEPT !["next"] = l.next + 1]
  <2>1. Changes(opener, opener', o, x) BY <1>9 DEF NextMigration, Goes, Changes
  <2> HIDE DEF l
  <2>2. Becomes(l, x, LoopFields, "next", l.next + 1) BY <1>3, OneField
  <2> HIDE DEF x
  <2>3. /\ IsRecord(x, LoopFields) /\ x["pc"] = "next" /\ x["program"] = l["program"]
        /\ x["applied"] = l["applied"] /\ x["next"] = l["next"] + 1
    BY <1>1, <2>2 DEF Becomes, LoopFields
  <2>4. AsItRead(x, o, applied', overtaken')
    <3>1. \A i \in DOMAIN l.program : i \in Nat BY <1>3, ProgramsAreOfMigrations
    <3>2. \A i \in DOMAIN l.program : i < l.next => i < x.next BY <1>3, <2>3, <3>1
    <3> QED BY <1>1, <1>2, <1>3, <2>3, <3>2 DEF AsItRead
  <2>5. StandsAt(x, o, applied', overtaken') BY <2>3, <2>4 DEF StandsAt
  <2> QED BY <1>1, <2>1, <2>5, OneConnectionMoves
<1> QED BY <1>7, <1>8, <1>9

LEMMA CreateTableKeeps ==
  ASSUME OpeningInv, NEW o \in Openers, CreateTable(o)
  PROVE  OpeningInv'
<1> DEFINE l == opener[o]
           x == [l EXCEPT !["statement"] = l.statement + 1]
<1>1. /\ Changes(opener, opener', o, x) /\ applied' = applied /\ overtaken' = overtaken
      /\ l.pc = "script"
  BY DEF CreateTable, Goes, Changes, Stands
<1>2. AsItRead(l, o, applied, overtaken) /\ IsPending(l) BY <1>1 DEF OpeningInv, StandsAt, InLoop
<1> HIDE DEF l
<1>3. Becomes(l, x, LoopFields, "statement", l.statement + 1) BY <1>2, OneField DEF AsItRead
<1> HIDE DEF x
<1>4. /\ IsRecord(x, LoopFields) /\ x["pc"] = "script" /\ x["program"] = l["program"]
      /\ x["applied"] = l["applied"] /\ x["next"] = l["next"]
  BY <1>1, <1>3 DEF Becomes, LoopFields
<1>5. AsItRead(x, o, applied', overtaken') /\ IsPending(x) BY <1>1, <1>2, <1>4 DEF AsItRead, IsPending
<1>6. StandsAt(x, o, applied', overtaken') BY <1>4, <1>5 DEF StandsAt
<1> QED BY <1>1, <1>6, OneConnectionMoves

LEMMA RecordMigrationKeeps ==
  ASSUME OpeningInv, NEW o \in Openers, RecordMigration(o)
  PROVE  OpeningInv'
<1> DEFINE l == opener[o]
           m == Pending(o)
           v == m.version
<1>1. l.pc = "script" BY DEF RecordMigration, Stands
<1>2. AsItRead(l, o, applied, overtaken) /\ IsPending(l) BY <1>1 DEF OpeningInv, StandsAt, InLoop
<1>3. IsRecord(l, LoopFields) /\ l.program \in Programs /\ l.next \in Nat \ {0} BY <1>2 DEF AsItRead
<1>4. m = l.program[l.next] BY DEF Pending
<1>5. l.next \in DOMAIN l.program /\ l.applied[v] = NoRow BY <1>2, <1>4 DEF IsPending
<1>6. v \in Versions BY <1>3, <1>4, <1>5, ProgramsAreOfMigrations
<1>7. CASE applied[v] # NoRow
  <2> DEFINE x == [l EXCEPT !["pc"] = "raised"]
  <2>1. Changes(opener, opener', o, x) /\ applied' = applied /\ overtaken' = overtaken
    BY <1>7 DEF RecordMigration, Goes, Changes
  <2> HIDE DEF l
  <2>2. Becomes(l, x, LoopFields, "pc", "raised") BY <1>3, OneField
  <2> HIDE DEF x
  <2>3. x["pc"] = "raised" /\ x["program"] = l["program"] BY <2>2 DEF Becomes, LoopFields
  <2>4. o \in overtaken
    <3> SUFFICES ASSUME o \notin overtaken PROVE FALSE OBVIOUS
    <3>1. PICK i \in DOMAIN l.program : i < l.next /\ l.program[i].version = v
      BY <1>2, <1>5, <1>6, <1>7 DEF AsItRead
    <3>2. i = l.next BY <1>3, <1>4, <1>5, <3>1, ProgramsAreNumbered
    <3> QED BY <1>3, <3>1, <3>2
  <2>5. StandsAt(x, o, applied', overtaken') BY <1>3, <2>1, <2>3, <2>4 DEF StandsAt, Refused, InLoop
  <2> QED BY <2>1, <2>5, OneConnectionMoves
<1>8. CASE applied[v] = NoRow
  <2> DEFINE x == [l EXCEPT !["pc"] = "next"]
             y == [x EXCEPT !["next"] = l.next + 1]
  <2>1. /\ Changes(opener, opener', o, y) /\ Changes(applied, applied', v, m.digest)
        /\ overtaken' = overtaken \cup {p \in Openers \ {o} : opener[p].pc \in {"read", "next", "script"}}
    BY <1>8 DEF RecordMigration, Goes, Changes
  <2> HIDE DEF l
  <2>2. Becomes(l, x, LoopFields, "pc", "next") BY <1>3, OneField
  <2> HIDE DEF x
  <2>3. Becomes(x, y, LoopFields, "next", l.next + 1)
    <3>1. IsRecord(x, LoopFields) BY <2>2 DEF Becomes
    <3> QED BY <3>1, OneField
  <2> HIDE DEF y
  <2>4. /\ IsRecord(y, LoopFields) /\ y["pc"] = "next" /\ y["program"] = l["program"]
        /\ y["applied"] = l["applied"] /\ y["next"] = l.next + 1
    BY <2>2, <2>3 DEF Becomes, LoopFields
  <2>5. /\ IsRecord(applied', Versions) /\ applied'[v] = m.digest
        /\ \A w \in Versions : w # v => applied'[w] = applied[w]
    BY <1>6, <2>1, OnlyOneEntry DEF OpeningInv, Rows
  <2>6. /\ IsRecord(opener', Openers) /\ opener'[o] = y
        /\ \A p \in Openers : p # o => opener'[p] = opener[p]
    BY <2>1, OnlyOneEntry DEF OpeningInv, Rows
  <2>7. StandsAt(y, o, applied', overtaken')
    <3>1. \A w \in Versions : y.applied[w] \in {NoRow, applied'[w]}
      BY <1>2, <1>5, <2>4, <2>5 DEF AsItRead
    <3>2. ASSUME NEW w \in Versions, y.applied[w] = NoRow, applied'[w] # NoRow
          PROVE  o \in overtaken' \/ \E i \in DOMAIN y.program : i < y.next /\ y.program[i].version = w
      <4>1. CASE w = v BY <1>3, <1>4, <1>5, <2>4, <4>1
      <4>2. CASE w # v
        <5>1. applied[w] # NoRow /\ l.applied[w] = NoRow BY <2>4, <2>5, <3>2, <4>2
        <5>2. o \in overtaken \/ \E i \in DOMAIN l.program : i < l.next /\ l.program[i].version = w
          BY <1>2, <5>1 DEF AsItRead
        <5>3. CASE o \in overtaken BY <2>1, <5>3
        <5>4. CASE \E i \in DOMAIN l.program : i < l.next /\ l.program[i].version = w
          <6>1. PICK i \in DOMAIN l.program : i < l.next /\ l.program[i].version = w BY <5>4
          <6>2. i \in Nat BY <1>3, ProgramsAreOfMigrations
          <6>3. i < y.next BY <1>3, <2>4, <6>1, <6>2
          <6> QED BY <2>4, <6>1, <6>3
        <5> QED BY <5>2, <5>3, <5>4
      <4> QED BY <4>1, <4>2
    <3>3. AsItRead(y, o, applied', overtaken') BY <1>3, <2>4, <3>1, <3>2 DEF AsItRead
    <3> QED BY <2>4, <3>3 DEF StandsAt
  <2>8. ASSUME NEW p \in Openers, p # o PROVE StandsAt(opener'[p], p, applied', overtaken')
    <3> DEFINE k == opener[p]
    <3>1. opener'[p] = k /\ StandsAt(k, p, applied, overtaken) BY <2>6, <2>8 DEF OpeningInv
    <3>2. k.pc \in {"read", "next", "script"} => p \in overtaken' BY <2>1, <2>8
    <3>3. p \in overtaken => p \in overtaken' BY <2>1
    <3> HIDE DEF k
    <3>4. k.pc \in InLoop => AsItRead(k, p, applied', overtaken')
      <4> SUFFICES ASSUME k.pc \in InLoop PROVE AsItRead(k, p, applied', overtaken') OBVIOUS
      <4>1. AsItRead(k, p, applied, overtaken) /\ p \in overtaken' BY <3>1, <3>2 DEF StandsAt, InLoop
      <4>2. \A w \in Versions : k.applied[w] \in {NoRow, applied'[w]} BY <1>8, <2>5, <4>1 DEF AsItRead
      <4> QED BY <4>1, <4>2 DEF AsItRead
    <3>5. k.pc = "raised" => Refused(k, p, applied', overtaken')
      <4> SUFFICES ASSUME k.pc = "raised" PROVE Refused(k, p, applied', overtaken') OBVIOUS
      <4>1. Refused(k, p, applied, overtaken) /\ k.program \in Programs BY <3>1 DEF StandsAt
      <4>2. CASE p \in overtaken BY <3>3, <4>2 DEF Refused
      <4>3. CASE \E n \in ToSet(k.program) : applied[n.version] \notin {NoRow, n.digest}
        <5>1. PICK n \in ToSet(k.program) : applied[n.version] \notin {NoRow, n.digest} BY <4>3
        <5>2. n.version \in Versions BY <4>1, ProgramsAreOfMigrations
        <5>3. n.version # v BY <1>8, <5>1
        <5>4. applied'[n.version] = applied[n.version] BY <2>5, <5>2, <5>3
        <5> QED BY <5>1, <5>4 DEF Refused
      <4> QED BY <4>1, <4>2, <4>3 DEF Refused
    <3>6. StandsAt(k, p, applied', overtaken') BY <3>1, <3>4, <3>5 DEF StandsAt, IsPending
    <3> QED BY <3>1, <3>6
  <2>9. \A p \in Openers : StandsAt(opener'[p], p, applied', overtaken') BY <2>6, <2>7, <2>8
  <2> QED BY <2>5, <2>6, <2>9 DEF OpeningInv, Rows
<1> QED BY <1>7, <1>8

LEMMA LeavingKeeps ==
  ASSUME OpeningInv, NEW o \in Openers, Locked(o) \/ Close(o)
  PROVE  OpeningInv'
<1>1. /\ Changes(opener, opener', o, [pc |-> "locked"]) \/ Changes(opener, opener', o, [pc |-> "closed"])
      /\ applied' = applied /\ overtaken' = overtaken
  BY DEF Locked, Close, Goes, Changes, Closed
<1>2. StandsAt([pc |-> "locked"], o, applied', overtaken') /\ StandsAt([pc |-> "closed"], o, applied', overtaken') BY DEF StandsAt, InLoop
<1> QED BY <1>1, <1>2, OneConnectionMoves

LEMMA OpeningSteps == OpeningInv /\ [OpeningNext]_openingVars => OpeningInv'
<1> SUFFICES ASSUME OpeningInv, [OpeningNext]_openingVars PROVE OpeningInv' OBVIOUS
<1>1. ASSUME NEW o \in Openers, NEW program \in Programs, Open(o, program) PROVE OpeningInv'
  BY <1>1, OpenKeeps
<1>2. ASSUME NEW o \in Openers, ReadApplied(o) PROVE OpeningInv' BY <1>2, ReadAppliedKeeps
<1>3. ASSUME NEW o \in Openers, NextMigration(o) PROVE OpeningInv' BY <1>3, NextMigrationKeeps
<1>4. ASSUME NEW o \in Openers, CreateTable(o) PROVE OpeningInv' BY <1>4, CreateTableKeeps
<1>5. ASSUME NEW o \in Openers, RecordMigration(o) PROVE OpeningInv' BY <1>5, RecordMigrationKeeps
<1>6. ASSUME NEW o \in Openers, Locked(o) \/ Close(o) PROVE OpeningInv' BY <1>6, LeavingKeeps
<1>7. CASE UNCHANGED openingVars
  BY <1>7 DEF openingVars, OpeningInv, Rows, StandsAt, AsItRead, IsPending, Refused
<1> QED BY <1>1, <1>2, <1>3, <1>4, <1>5, <1>6, <1>7 DEF OpeningNext

(* Opening the journal is refused for a cause: another connection recorded  *)
(* a migration meanwhile, or the file has one with another text.  What a    *)
(* crash left between two statements of a migration is completed by the     *)
(* next connection (sqlite.py:125, :139).                                   *)
THEOREM RefusalsHaveACause == OpeningSpec => []RefusalHasACause
<1>1. OpeningInv => RefusalHasACause BY DEF OpeningInv, StandsAt, Refused, RefusalHasACause, Stands
<1> QED BY <1>1, OpeningStarts, OpeningSteps, PTL DEF OpeningSpec
=============================================================================
