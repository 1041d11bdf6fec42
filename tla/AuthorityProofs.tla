-------------------------- MODULE AuthorityProofs --------------------------
(***************************************************************************)
(* Theorems about the two guards of an action: the authority service, for  *)
(* any services, grants, requests and bounds, and the policy engine, for   *)
(* any rules, conditions and contexts.                                     *)
(***************************************************************************)
EXTENDS Authority, PolicyEngine, TLAPS

(* The counter behind a capability never passes a budget of it. *)
WithinBudget(n, c) == n > 0 => \E g \in AllGrants : g.capability = c /\ n <= g.maxUses

(* What makes BudgetHolds inductive: the durable counter is within budget   *)
(* and has counted every allowance, and so has the memory of a lone service.*)
LedgerInv ==
  Durable => \A c \in Capabilities :
               /\ WithinBudget(ledger[c], c)
               /\ allowed[c] <= ledger[c]
               /\ failures = 0 => allowed[c] = ledger[c]
MemoryInv ==
  ~Durable /\ failures = 0 =>
    \A s \in Services : Services = {s} =>
      \A c \in Capabilities : WithinBudget(memory[s][c], c) /\ allowed[c] = memory[s][c]
Inv == TypeOK /\ LedgerInv /\ MemoryInv

-----------------------------------------------------------------------------
(* The grant a running check looks at is one of the service's grants. *)
LEMMA GrantIsGranted ==
  ASSUME TypeOK, NEW s \in Services, HasNext(s)
  PROVE  /\ Grant(s) \in AllGrants
         /\ Grant(s).capability \in Capabilities
         /\ Grant(s).maxUses \in Nat
<1>1. check[s] \in RunningChecks
  BY DEF TypeOK, HasNext, Running, RunningChecks, NoCheck
<1>2. check[s].next \in 1 .. Len(GrantsOf[s])
  BY <1>1, GrantsAreTyped DEF HasNext, RunningChecks
<1>3. Grant(s) \in GrantsIn(s)
  BY <1>2 DEF Grant, GrantsIn
<1>4. Grant(s) \in AllGrants
  BY <1>3 DEF AllGrants
<1> QED BY <1>4, GrantsAreTyped

(* An answer ends the check with a decision about its request. *)
LEMMA AnswerKeepsTypes ==
  ASSUME TypeOK, NEW s \in Services, Running(s),
         NEW v \in {"ALLOW", "DENY", "raised"},
         NEW why \in {"AUTHORITY_GRANTED", "AUTHORITY_EXPIRED", "AUTHORITY_MISSING",
                      "VALIDATION_ERROR", "STORAGE"},
         NEW c \in Capabilities \cup {"none"}, Answer(s, v, why, c)
  PROVE  /\ check' \in [Services -> {NoCheck} \cup RunningChecks]
         /\ decision' \in [Services -> {NoDecision} \cup Decisions]
<1>1. check \in [Services -> {NoCheck} \cup RunningChecks]
  BY DEF TypeOK
<1>2. check[s] \in RunningChecks
  BY <1>1 DEF Running
<1>3. [verdict |-> v, reason |-> why, capability |-> c,
       request |-> check[s].request, at |-> check[s].at] \in Decisions
  BY <1>2 DEF RunningChecks, Decisions
<1>4. decision \in [Services -> {NoDecision} \cup Decisions]
  BY DEF TypeOK
<1> QED BY <1>1, <1>3, <1>4 DEF Answer

(* Counting a use keeps both counters natural. *)
LEMMA CountKeepsTypes ==
  ASSUME TypeOK, NEW s \in Services, NEW c \in Capabilities, CountUse(s, c)
  PROVE  ledger' \in [Capabilities -> Nat] /\ memory' \in [Services -> [Capabilities -> Nat]]
<1>1. CASE Durable
  BY <1>1 DEF CountUse, TypeOK
<1>2. CASE ~Durable
  <2>1. memory' = [memory EXCEPT ![s][c] = memory[s][c] + 1] /\ ledger' = ledger
    BY <1>2 DEF CountUse
  <2>2. memory[s] \in [Capabilities -> Nat] /\ memory[s][c] + 1 \in Nat
    BY DEF TypeOK
  <2>3. [memory[s] EXCEPT ![c] = memory[s][c] + 1] \in [Capabilities -> Nat]
    BY <2>2
  <2> QED BY <2>1, <2>3 DEF TypeOK
<1> QED BY <1>1, <1>2

(* Going on to the next grant keeps a check a running one. *)
LEMMA GoOnKeepsTypes ==
  ASSUME TypeOK, NEW s \in Services, Running(s), NEW b \in BOOLEAN, GoOn(s, b)
  PROVE  check' \in [Services -> {NoCheck} \cup RunningChecks]
<1>1. check \in [Services -> {NoCheck} \cup RunningChecks]
  BY DEF TypeOK
<1>2. check[s] \in RunningChecks
  BY <1>1 DEF Running
<1>3. [check[s] EXCEPT !.next = check[s].next + 1, !.exhausted = check[s].exhausted \/ b] \in RunningChecks
  <2>1. check[s].next + 1 \in Nat \ {0}
    BY <1>2 DEF RunningChecks
  <2>2. (check[s].exhausted \/ b) \in BOOLEAN
    OBVIOUS
  <2> QED BY <1>2, <2>1, <2>2 DEF RunningChecks
<1> QED BY <1>1, <1>3 DEF GoOn

-----------------------------------------------------------------------------
(* Initially no check runs and nothing is counted. *)
LEMMA InitInv == Init => Inv
<1> SUFFICES ASSUME Init PROVE Inv
  OBVIOUS
<1>1. TypeOK
  BY DEF Init, TypeOK
<1>2. LedgerInv
  BY DEF Init, LedgerInv, WithinBudget
<1>3. MemoryInv
  BY DEF Init, MemoryInv, WithinBudget
<1> QED BY <1>1, <1>2, <1>3 DEF Inv

(* Every step keeps the types. *)
LEMMA TypeStep == TypeOK /\ [Next]_vars => TypeOK'
<1> SUFFICES ASSUME TypeOK, [Next]_vars PROVE TypeOK'
  OBVIOUS
<1>1. CASE UNCHANGED vars
  BY <1>1 DEF TypeOK, vars
<1>2. CASE Tick
  BY <1>2 DEF TypeOK, Tick
<1>3. ASSUME NEW s \in Services, Consume(s) PROVE TypeOK'
  <2>1. HasNext(s) /\ Running(s)
    BY <1>3 DEF Consume, HasNext
  <2>2. Grant(s).capability \in Capabilities
    BY <2>1, GrantIsGranted
  <2>3. /\ check' \in [Services -> {NoCheck} \cup RunningChecks]
        /\ decision' \in [Services -> {NoDecision} \cup Decisions]
    BY <1>3, <2>1, <2>2, AnswerKeepsTypes DEF Consume
  <2>4. ledger' \in [Capabilities -> Nat] /\ memory' \in [Services -> [Capabilities -> Nat]]
    BY <1>3, <2>2, CountKeepsTypes DEF Consume
  <2>5. allowed' \in [Capabilities -> Nat]
    BY <1>3, <2>2 DEF Consume, TypeOK
  <2> QED BY <1>3, <2>3, <2>4, <2>5 DEF Consume, TypeOK
<1>4. ASSUME NEW s \in Services, PassOver(s) \/ PassExhausted(s) PROVE TypeOK'
  <2>1. Running(s)
    BY <1>4 DEF PassOver, PassExhausted, Exhausted, HasNext
  <2>2. check' \in [Services -> {NoCheck} \cup RunningChecks]
    BY <1>4, <2>1, GoOnKeepsTypes DEF PassOver, PassExhausted
  <2> QED BY <1>4, <2>2 DEF PassOver, PassExhausted, TypeOK
<1>5. ASSUME NEW s \in Services, Raises(s) \/ Deny(s) \/ JournalRaises(s) PROVE TypeOK'
  <2>1. Running(s)
    BY <1>5 DEF Raises, Deny, JournalRaises, HasNext
  <2>2. /\ check' \in [Services -> {NoCheck} \cup RunningChecks]
        /\ decision' \in [Services -> {NoDecision} \cup Decisions]
    <3>1. CASE Raises(s)
      BY <3>1, <2>1, AnswerKeepsTypes DEF Raises
    <3>2. CASE Deny(s)
      BY <3>2, <2>1, AnswerKeepsTypes DEF Deny
    <3>3. CASE JournalRaises(s)
      BY <3>3, <2>1, AnswerKeepsTypes DEF JournalRaises
    <3> QED BY <1>5, <3>1, <3>2, <3>3
  <2>3. UNCHANGED <<now, ledger, memory, allowed, checks>> /\ failures' \in Nat
    BY <1>5 DEF Raises, Deny, JournalRaises, Failure, TypeOK
  <2> QED BY <2>2, <2>3 DEF TypeOK
<1>6. ASSUME NEW s \in Services, Crash(s) PROVE TypeOK'
  <2>1. ledger' \in [Capabilities -> Nat]
    <3>1. CASE UNCHANGED ledger
      BY <3>1 DEF TypeOK
    <3>2. CASE HasNext(s) /\ ledger' = [ledger EXCEPT ![Grant(s).capability] = @ + 1]
      BY <3>2, GrantIsGranted DEF TypeOK
    <3> QED BY <1>6, <3>1, <3>2 DEF Crash
  <2>2. memory' \in [Services -> [Capabilities -> Nat]]
    BY <1>6 DEF Crash, TypeOK
  <2>3. /\ check' \in [Services -> {NoCheck} \cup RunningChecks]
        /\ decision' \in [Services -> {NoDecision} \cup Decisions]
    BY <1>6 DEF Crash, TypeOK
  <2> QED BY <1>6, <2>1, <2>2, <2>3 DEF Crash, Failure, TypeOK
<1>7. ASSUME NEW s \in Services, NEW r \in Requests, CheckBegins(s, r) PROVE TypeOK'
  <2>1. [status |-> "running", request |-> r, at |-> now, next |-> 1, exhausted |-> FALSE] \in RunningChecks
    BY DEF RunningChecks, TypeOK
  <2>2. check' \in [Services -> {NoCheck} \cup RunningChecks]
    BY <1>7, <2>1 DEF CheckBegins, TypeOK
  <2> QED BY <1>7, <2>2 DEF CheckBegins, TypeOK
<1> QED BY <1>1, <1>2, <1>3, <1>4, <1>5, <1>6, <1>7 DEF Next, Step

-----------------------------------------------------------------------------
(* One more use of a counter below its budget stays within it. *)
LEMMA OneMoreUse ==
  ASSUME NEW g \in AllGrants, NEW n \in Nat, n < g.maxUses, g.maxUses \in Nat
  PROVE  WithinBudget(n + 1, g.capability)
BY DEF WithinBudget

(* The durable counter stays within budget and counts every allowance. *)
LEMMA LedgerStep == TypeOK /\ LedgerInv /\ [Next]_vars => LedgerInv'
<1> SUFFICES ASSUME TypeOK, LedgerInv, [Next]_vars, Durable PROVE LedgerInv'
  BY DEF LedgerInv
<1>1. ASSUME UNCHANGED <<ledger, allowed>>, failures' = failures \/ failures' = failures + 1
      PROVE LedgerInv'
  BY <1>1 DEF LedgerInv, WithinBudget, TypeOK
<1>2. ASSUME NEW s \in Services, Consume(s) PROVE LedgerInv'
  <2> DEFINE g == Grant(s)
  <2>1. g \in AllGrants /\ g.capability \in Capabilities /\ g.maxUses \in Nat
    BY <1>2, GrantIsGranted DEF Consume
  <2>2. ledger[g.capability] \in Nat /\ ledger[g.capability] < g.maxUses
    BY <1>2, <2>1 DEF Consume, Uses, TypeOK
  <2>3. WithinBudget(ledger[g.capability] + 1, g.capability)
    BY <2>1, <2>2, OneMoreUse
  <2>4. /\ ledger' = [ledger EXCEPT ![g.capability] = @ + 1]
        /\ allowed' = [allowed EXCEPT ![g.capability] = @ + 1]
        /\ failures' = failures
    BY <1>2 DEF Consume, CountUse
  <2>5. ASSUME NEW c \in Capabilities
        PROVE /\ WithinBudget(ledger'[c], c)
              /\ allowed'[c] <= ledger'[c]
              /\ failures' = 0 => allowed'[c] = ledger'[c]
    <3>1. CASE c = g.capability
      <4>1. ledger'[c] = ledger[g.capability] + 1 /\ allowed'[c] = allowed[c] + 1
        BY <2>1, <2>4, <3>1 DEF TypeOK
      <4> QED BY <2>3, <2>4, <3>1, <4>1 DEF LedgerInv, TypeOK
    <3>2. CASE c # g.capability
      BY <2>4, <3>2 DEF LedgerInv, TypeOK
    <3> QED BY <3>1, <3>2
  <2> QED BY <2>5 DEF LedgerInv, WithinBudget
<1>3. ASSUME NEW s \in Services, Crash(s) PROVE LedgerInv'
  <2>1. CASE UNCHANGED ledger
    BY <1>1, <1>3, <2>1 DEF Crash, Failure
  <2>2. CASE ledger' # ledger
    <3> DEFINE g == Grant(s)
    <3>1. HasNext(s) /\ ledger[g.capability] < g.maxUses
          /\ ledger' = [ledger EXCEPT ![g.capability] = @ + 1]
      BY <1>3, <2>2 DEF Crash
    <3>2. g \in AllGrants /\ g.capability \in Capabilities /\ g.maxUses \in Nat
      BY <3>1, GrantIsGranted
    <3>3. WithinBudget(ledger[g.capability] + 1, g.capability)
      BY <3>1, <3>2, OneMoreUse DEF TypeOK
    <3>4. allowed' = allowed /\ failures' = failures + 1
      BY <1>3 DEF Crash, Failure
    <3>5. ASSUME NEW c \in Capabilities
          PROVE /\ WithinBudget(ledger'[c], c)
                /\ allowed'[c] <= ledger'[c]
                /\ failures' = 0 => allowed'[c] = ledger'[c]
      <4>0. failures' # 0
        BY <3>4 DEF TypeOK
      <4>1. CASE c = g.capability
        <5>1. ledger'[c] = ledger[g.capability] + 1 /\ allowed'[c] = allowed[c]
          BY <3>1, <3>2, <3>4, <4>1 DEF TypeOK
        <5> QED BY <3>3, <4>0, <4>1, <5>1 DEF LedgerInv, TypeOK
      <4>2. CASE c # g.capability
        BY <3>1, <3>4, <4>0, <4>2 DEF LedgerInv, TypeOK
      <4> QED BY <4>1, <4>2
    <3> QED BY <3>5 DEF LedgerInv, WithinBudget
  <2> QED BY <2>1, <2>2
<1>4. CASE UNCHANGED vars
  BY <1>1, <1>4 DEF vars
<1>5. CASE Tick
  BY <1>1, <1>5 DEF Tick
<1>6. ASSUME NEW s \in Services,
             PassOver(s) \/ PassExhausted(s) \/ Raises(s) \/ Deny(s) \/ JournalRaises(s)
      PROVE LedgerInv'
  BY <1>1, <1>6 DEF PassOver, PassExhausted, Raises, Deny, JournalRaises, Failure
<1>7. ASSUME NEW s \in Services, NEW r \in Requests, CheckBegins(s, r) PROVE LedgerInv'
  BY <1>1, <1>7 DEF CheckBegins
<1> QED BY <1>2, <1>3, <1>4, <1>5, <1>6, <1>7 DEF Next, Step

(* So does the memory of a lone service, while nothing has failed. *)
LEMMA MemoryStep == TypeOK /\ MemoryInv /\ [Next]_vars => MemoryInv'
<1> SUFFICES ASSUME TypeOK, MemoryInv, [Next]_vars, ~Durable, failures' = 0,
                    NEW s \in Services, Services = {s}, NEW c \in Capabilities
             PROVE  WithinBudget(memory'[s][c], c) /\ allowed'[c] = memory'[s][c]
  BY DEF MemoryInv, WithinBudget
<1>0. ASSUME failures = 0 PROVE WithinBudget(memory[s][c], c) /\ allowed[c] = memory[s][c]
  BY <1>0 DEF MemoryInv
<1>1. ASSUME UNCHANGED <<memory, allowed, failures>>
      PROVE WithinBudget(memory'[s][c], c) /\ allowed'[c] = memory'[s][c]
  BY <1>0, <1>1 DEF WithinBudget
<1>2. ASSUME Failure PROVE FALSE
  BY <1>2 DEF Failure, TypeOK
<1>3. ASSUME NEW u \in Services, Consume(u)
      PROVE WithinBudget(memory'[s][c], c) /\ allowed'[c] = memory'[s][c]
  <2> DEFINE g == Grant(s)
  <2>1. u = s /\ failures = 0
    BY <1>3 DEF Consume
  <2>2. g \in AllGrants /\ g.capability \in Capabilities /\ g.maxUses \in Nat
    BY <1>3, <2>1, GrantIsGranted DEF Consume
  <2>3. memory[s] \in [Capabilities -> Nat] /\ allowed \in [Capabilities -> Nat]
    BY DEF TypeOK
  <2>4. memory[s][g.capability] < g.maxUses
    BY <1>3, <2>1 DEF Consume, Uses
  <2>5. WithinBudget(memory[s][g.capability] + 1, g.capability)
    BY <2>2, <2>3, <2>4, OneMoreUse
  <2>6. /\ memory' = [memory EXCEPT ![s][g.capability] = memory[s][g.capability] + 1]
        /\ allowed' = [allowed EXCEPT ![g.capability] = allowed[g.capability] + 1]
    BY <1>3, <2>1 DEF Consume, CountUse
  <2>7. memory'[s] = [memory[s] EXCEPT ![g.capability] = memory[s][g.capability] + 1]
    BY <2>6 DEF TypeOK
  <2>8. CASE c = g.capability
    <3>1. memory'[s][c] = memory[s][c] + 1 /\ allowed'[c] = allowed[c] + 1
      BY <2>2, <2>3, <2>6, <2>7, <2>8
    <3> QED BY <1>0, <2>1, <2>5, <2>8, <3>1
  <2>9. CASE c # g.capability
    <3>1. memory'[s][c] = memory[s][c] /\ allowed'[c] = allowed[c]
      BY <2>2, <2>3, <2>6, <2>7, <2>9
    <3> QED BY <1>0, <2>1, <3>1
  <2> QED BY <2>8, <2>9
<1>4. CASE UNCHANGED vars
  BY <1>1, <1>4 DEF vars
<1>5. CASE Tick
  BY <1>1, <1>5 DEF Tick
<1>6. ASSUME NEW u \in Services, PassOver(u) \/ PassExhausted(u) \/ Raises(u) \/ Deny(u)
      PROVE WithinBudget(memory'[s][c], c) /\ allowed'[c] = memory'[s][c]
  BY <1>1, <1>6 DEF PassOver, PassExhausted, Raises, Deny
<1>7. ASSUME NEW u \in Services, JournalRaises(u) \/ Crash(u) PROVE FALSE
  BY <1>2, <1>7 DEF JournalRaises, Crash
<1>8. ASSUME NEW u \in Services, NEW r \in Requests, CheckBegins(u, r)
      PROVE WithinBudget(memory'[s][c], c) /\ allowed'[c] = memory'[s][c]
  BY <1>1, <1>8 DEF CheckBegins
<1> QED BY <1>3, <1>4, <1>5, <1>6, <1>7, <1>8 DEF Next, Step

-----------------------------------------------------------------------------
(* The invariant holds throughout. *)
LEMMA Invariance == Spec => []Inv
<1>1. Inv /\ [Next]_vars => Inv'
  BY TypeStep, LedgerStep, MemoryStep DEF Inv
<1> QED BY InitInv, <1>1, PTL DEF Spec

(* What the counters have counted bounds what was allowed. *)
LEMMA CountersBoundAllowances == Inv => BudgetHolds
<1> SUFFICES ASSUME Inv, CountersSuffice, NEW c \in Capabilities, allowed[c] > 0
             PROVE  \E g \in AllGrants : g.capability = c /\ allowed[c] <= g.maxUses
  BY DEF BudgetHolds
<1>0. allowed[c] \in Nat /\ ledger[c] \in Nat
  BY DEF Inv, TypeOK
<1>1. CASE Durable
  <2>1. WithinBudget(ledger[c], c) /\ allowed[c] <= ledger[c]
    BY <1>1 DEF Inv, LedgerInv
  <2>2. PICK g \in AllGrants : g.capability = c /\ ledger[c] <= g.maxUses
    BY <1>0, <2>1 DEF WithinBudget
  <2>3. g.maxUses \in Nat
    BY GrantsAreTyped
  <2> QED BY <1>0, <2>1, <2>2, <2>3
<1>2. CASE ~Durable
  <2>1. PICK s \in Services : Services = {s} /\ failures = 0
    BY <1>2 DEF CountersSuffice
  <2>2. WithinBudget(memory[s][c], c) /\ allowed[c] = memory[s][c]
    BY <1>2, <2>1 DEF Inv, MemoryInv
  <2> QED BY <2>2 DEF WithinBudget
<1> QED BY <1>1, <1>2

(* The variables of the service keep their types. *)
THEOREM TypeCorrect == Spec => []TypeOK
<1>1. Inv => TypeOK
  BY DEF Inv
<1> QED BY Invariance, <1>1, PTL

(* However many services, crashes and failing journal calls: allowances of  *)
(* a capability never exceed the largest budget it was granted with.        *)
THEOREM BudgetsHold == Spec => []BudgetHolds
BY Invariance, CountersBoundAllowances, PTL

(* And the durable counter misses no allowance, nor counts anything else    *)
(* while nothing fails.                                                     *)
THEOREM NoUsesAreLost == Spec => []NoUseIsLost
<1>1. Inv => NoUseIsLost
  BY DEF Inv, LedgerInv, NoUseIsLost
<1> QED BY Invariance, <1>1, PTL

-----------------------------------------------------------------------------
(* The loop: what a running check has left behind, every applicable grant   *)
(* of it without a use left, and what the last decision says about it.      *)

Passed(s) ==
  check[s] # NoCheck =>
    /\ \A i \in 1 .. check[s].next - 1 :
         Applies(GrantsOf[s][i], check[s].request, check[s].at) =>
           Uses(s, GrantsOf[s][i].capability) >= GrantsOf[s][i].maxUses
    /\ check[s].exhausted <=>
         (\E i \in 1 .. check[s].next - 1 :
            Applies(GrantsOf[s][i], check[s].request, check[s].at))
    /\ check[s].next <= Len(GrantsOf[s]) + 1
Denied(s) ==
  decision[s].verdict = "DENY" =>
    LET applied == {g \in GrantsIn(s) : Applies(g, decision[s].request, decision[s].at)} IN
      /\ \A g \in applied : Uses(s, g.capability) >= g.maxUses
      /\ (decision[s].reason = "AUTHORITY_EXPIRED") <=> (applied # {})
Covered(s) ==
  decision[s].verdict = "ALLOW" =>
    \E g \in GrantsIn(s) :
      /\ g.capability = decision[s].capability
      /\ Applies(g, decision[s].request, decision[s].at)
      /\ ValidAt(g, decision[s].at)
LoopInv == \A s \in Services : Passed(s) /\ Denied(s) /\ Covered(s)

(* A counter never goes back, but for the memory of a process that dies. *)
LEMMA UsesGrow ==
  ASSUME TypeOK, [Next]_vars, NEW s \in Services, ~Crash(s), NEW c \in Capabilities
  PROVE  Uses(s, c) \in Nat /\ Uses(s, c)' \in Nat /\ Uses(s, c)' >= Uses(s, c)
<1>0. TypeOK'
  BY TypeStep
<1>1. Uses(s, c) \in Nat /\ Uses(s, c)' \in Nat
  BY <1>0 DEF TypeOK, Uses
<1>2. ASSUME UNCHANGED <<ledger, memory>> PROVE Uses(s, c)' >= Uses(s, c)
  BY <1>1, <1>2 DEF Uses
<1>3. ASSUME NEW u \in Services, Consume(u) PROVE Uses(s, c)' >= Uses(s, c)
  <2>1. CountUse(u, Grant(u).capability)
    BY <1>3 DEF Consume
  <2>2. CASE Durable
    <3>1. ledger' = [ledger EXCEPT ![Grant(u).capability] = ledger[Grant(u).capability] + 1]
      BY <2>1, <2>2 DEF CountUse
    <3> QED BY <2>2, <3>1 DEF TypeOK, Uses
  <2>3. CASE ~Durable
    <3>1. memory' = [memory EXCEPT ![u][Grant(u).capability] = memory[u][Grant(u).capability] + 1]
      BY <2>1, <2>3 DEF CountUse
    <3>2. memory \in [Services -> [Capabilities -> Nat]]
      BY DEF TypeOK
    <3>3. memory'[s][c] >= memory[s][c]
      <4>1. CASE u = s
        <5>1. memory'[s] = [memory[s] EXCEPT ![Grant(u).capability] = memory[s][Grant(u).capability] + 1]
          BY <3>1, <3>2, <4>1
        <5> QED BY <3>2, <5>1
      <4>2. CASE u # s
        BY <3>1, <3>2, <4>2
      <4> QED BY <4>1, <4>2
    <3> QED BY <2>3, <3>3 DEF Uses
  <2> QED BY <2>2, <2>3
<1>4. ASSUME NEW u \in Services, Crash(u) PROVE Uses(s, c)' >= Uses(s, c)
  <2>1. u # s
    BY <1>4
  <2>2. memory'[s] = memory[s]
    BY <1>4, <2>1 DEF Crash, TypeOK
  <2>3. ledger'[c] >= ledger[c]
    BY <1>4 DEF Crash, TypeOK
  <2> QED BY <2>2, <2>3, <1>1 DEF Uses
<1>5. CASE UNCHANGED vars
  BY <1>1, <1>2, <1>5 DEF vars
<1>6. CASE Tick
  BY <1>1, <1>2, <1>6 DEF Tick
<1>7. ASSUME NEW u \in Services,
             PassOver(u) \/ PassExhausted(u) \/ Raises(u) \/ Deny(u) \/ JournalRaises(u)
      PROVE Uses(s, c)' >= Uses(s, c)
  BY <1>2, <1>7 DEF PassOver, PassExhausted, Raises, Deny, JournalRaises
<1>8. ASSUME NEW u \in Services, NEW r \in Requests, CheckBegins(u, r) PROVE Uses(s, c)' >= Uses(s, c)
  BY <1>2, <1>8 DEF CheckBegins
<1> QED BY <1>1, <1>3, <1>4, <1>5, <1>6, <1>7, <1>8 DEF Next, Step

(* The grants of a service are those of its sequence. *)
LEMMA GrantsByPosition ==
  ASSUME NEW s \in Services
  PROVE  /\ Len(GrantsOf[s]) \in Nat
         /\ \A i \in 1 .. Len(GrantsOf[s]) :
              /\ GrantsOf[s][i] \in GrantsIn(s)
              /\ GrantsOf[s][i].capability \in Capabilities /\ GrantsOf[s][i].maxUses \in Nat
         /\ \A g \in GrantsIn(s) : g.capability \in Capabilities /\ g.maxUses \in Nat
BY GrantsAreTyped DEF GrantsIn, AllGrants

(* What a check has passed, and what a decision says, stays true. *)
LEMMA PassedStays ==
  ASSUME TypeOK, [Next]_vars, NEW s \in Services, ~Crash(s), check'[s] = check[s], Passed(s)
  PROVE  Passed(s)'
<1> SUFFICES ASSUME check[s] # NoCheck PROVE Passed(s)'
  BY DEF Passed
<1>1. check[s] \in RunningChecks
  BY DEF TypeOK
<1>2. ASSUME NEW i \in 1 .. check[s].next - 1, Applies(GrantsOf[s][i], check[s].request, check[s].at)
      PROVE  Uses(s, GrantsOf[s][i].capability)' >= GrantsOf[s][i].maxUses
  <2>1. i \in 1 .. Len(GrantsOf[s])
    BY <1>1, GrantsByPosition DEF Passed, RunningChecks
  <2>2. Uses(s, GrantsOf[s][i].capability) >= GrantsOf[s][i].maxUses
    BY <1>2 DEF Passed
  <2>3. GrantsOf[s][i].capability \in Capabilities /\ GrantsOf[s][i].maxUses \in Nat
    BY <2>1, GrantsByPosition
  <2>4. PICK c \in Capabilities : c = GrantsOf[s][i].capability
    BY <2>3
  <2>5. Uses(s, c) \in Nat /\ Uses(s, c)' \in Nat /\ Uses(s, c)' >= Uses(s, c)
    BY UsesGrow
  <2> QED BY <2>2, <2>3, <2>4, <2>5
<1> QED BY <1>2 DEF Passed

LEMMA DeniedStays ==
  ASSUME TypeOK, [Next]_vars, NEW s \in Services, ~Crash(s), decision'[s] = decision[s], Denied(s)
  PROVE  Denied(s)'
<1> SUFFICES ASSUME decision[s].verdict = "DENY" PROVE Denied(s)'
  BY DEF Denied
<1>1. ASSUME NEW g \in GrantsIn(s), Applies(g, decision[s].request, decision[s].at)
      PROVE  Uses(s, g.capability)' >= g.maxUses
  <2>1. Uses(s, g.capability) >= g.maxUses
    BY <1>1 DEF Denied
  <2>2. g.capability \in Capabilities /\ g.maxUses \in Nat
    BY GrantsByPosition
  <2>3. PICK c \in Capabilities : c = g.capability
    BY <2>2
  <2>4. Uses(s, c) \in Nat /\ Uses(s, c)' \in Nat /\ Uses(s, c)' >= Uses(s, c)
    BY UsesGrow
  <2> QED BY <2>1, <2>2, <2>3, <2>4
<1> QED BY <1>1 DEF Denied

(* Every step keeps what is said about the loop. *)
LEMMA LoopStep == TypeOK /\ LoopInv /\ [Next]_vars => LoopInv'
<1> SUFFICES ASSUME TypeOK, LoopInv, [Next]_vars, NEW s \in Services
             PROVE  Passed(s)' /\ Denied(s)' /\ Covered(s)'
  BY DEF LoopInv
<1>0. Passed(s) /\ Denied(s) /\ Covered(s)
  BY DEF LoopInv
<1>a. ASSUME ~Crash(s), check'[s] = check[s], decision'[s] = decision[s]
      PROVE Passed(s)' /\ Denied(s)' /\ Covered(s)'
  BY <1>0, <1>a, PassedStays, DeniedStays DEF Covered
<1>b. ASSUME check'[s] = NoCheck PROVE Passed(s)'
  BY <1>b DEF Passed
<1>1. CASE Crash(s)
  <2>1. check'[s] = NoCheck /\ decision'[s] = NoDecision
    BY <1>1 DEF Crash, TypeOK
  <2> QED BY <1>b, <2>1 DEF Denied, Covered, NoDecision
<1>2. CASE ~Crash(s) /\ (UNCHANGED vars \/ Tick)
  BY <1>a, <1>2 DEF vars, Tick
<1>3. ASSUME ~Crash(s), NEW u \in Services, u # s,
             Step(u) \/ JournalRaises(u) \/ Crash(u) \/ (\E r \in Requests : CheckBegins(u, r))
      PROVE Passed(s)' /\ Denied(s)' /\ Covered(s)'
  <2>1. check'[s] = check[s] /\ decision'[s] = decision[s]
    BY <1>3 DEF Step, Consume, PassOver, PassExhausted, Raises, Deny, JournalRaises, Crash,
               CheckBegins, Answer, GoOn, TypeOK
  <2> QED BY <1>3, <1>a, <2>1
<1>4. ASSUME NEW r \in Requests, CheckBegins(s, r), ~Crash(s)
      PROVE Passed(s)' /\ Denied(s)' /\ Covered(s)'
  <2>1. decision'[s] = decision[s]
    BY <1>4 DEF CheckBegins
  <2>2. check'[s] = [status |-> "running", request |-> r, at |-> now, next |-> 1, exhausted |-> FALSE]
    BY <1>4 DEF CheckBegins, TypeOK
  <2>3. Passed(s)'
    BY <2>2, GrantsByPosition DEF Passed
  <2> QED BY <1>0, <1>4, <2>1, <2>3, DeniedStays DEF Covered
<1>5. ASSUME Consume(s), ~Crash(s) PROVE Passed(s)' /\ Denied(s)' /\ Covered(s)'
  <2>1. check'[s] = NoCheck
        /\ decision'[s] = [verdict |-> "ALLOW", reason |-> "AUTHORITY_GRANTED",
                           capability |-> Grant(s).capability,
                           request |-> check[s].request, at |-> check[s].at]
    BY <1>5 DEF Consume, Answer, TypeOK
  <2>2. Grant(s) \in GrantsIn(s)
    <3>1. check[s] \in RunningChecks
      BY <1>5 DEF TypeOK, Consume, HasNext, Running
    <3> QED BY <1>5, <3>1, GrantsByPosition DEF Grant, Consume, HasNext, RunningChecks
  <2>3. Applies(Grant(s), check[s].request, check[s].at)
        /\ ValidAt(Grant(s), check[s].at)
    BY <1>5 DEF Consume, Matches, Applies, Reaches
  <2>4. Covered(s)'
    BY <2>1, <2>2, <2>3 DEF Covered
  <2> QED BY <1>b, <2>1, <2>4 DEF Denied
<1>6. ASSUME Raises(s) \/ JournalRaises(s), ~Crash(s)
      PROVE Passed(s)' /\ Denied(s)' /\ Covered(s)'
  <2>1. check'[s] = NoCheck /\ decision'[s].verdict = "raised"
    BY <1>6 DEF Raises, JournalRaises, Answer, TypeOK
  <2> QED BY <1>b, <2>1 DEF Denied, Covered
<1>7. ASSUME Deny(s), ~Crash(s) PROVE Passed(s)' /\ Denied(s)' /\ Covered(s)'
  <2> DEFINE n == check[s].next - 1
             r == check[s].request
             t == check[s].at
  <2>1. check'[s] = NoCheck
        /\ decision'[s].verdict = "DENY" /\ decision'[s].request = r /\ decision'[s].at = t
        /\ (decision'[s].reason = "AUTHORITY_EXPIRED" <=> check[s].exhausted)
    BY <1>7 DEF Deny, Answer, TypeOK
  <2>2. check[s] \in RunningChecks /\ n = Len(GrantsOf[s])
    <3>1. check[s] \in RunningChecks
      BY <1>7 DEF Deny, Running, TypeOK
    <3>2. check[s].next > Len(GrantsOf[s])
      BY <1>7, <3>1, GrantsByPosition DEF Deny, HasNext, RunningChecks
    <3>3. check[s].next <= Len(GrantsOf[s]) + 1
      BY <1>0, <1>7 DEF Passed, Deny, Running
    <3> QED BY <3>1, <3>2, <3>3, GrantsByPosition DEF RunningChecks
  <2>3. \A c \in Capabilities : Uses(s, c)' = Uses(s, c)
    BY <1>7 DEF Deny, Uses
  <2>4. ASSUME NEW g \in GrantsIn(s), Applies(g, r, t)
        PROVE Uses(s, g.capability)' >= g.maxUses /\ check[s].exhausted
    <3>1. PICK i \in 1 .. n : g = GrantsOf[s][i]
      BY <2>2, <2>4 DEF GrantsIn
    <3>2. Uses(s, g.capability) >= g.maxUses /\ check[s].exhausted
      BY <1>0, <1>7, <2>4, <3>1 DEF Passed, Deny, Running
    <3> QED BY <2>3, <3>2, GrantsByPosition
  <2>5. ASSUME check[s].exhausted PROVE \E g \in GrantsIn(s) : Applies(g, r, t)
    <3>1. PICK i \in 1 .. n : Applies(GrantsOf[s][i], r, t)
      BY <1>0, <1>7, <2>5 DEF Passed, Deny, Running
    <3> QED BY <2>2, <3>1, GrantsByPosition
  <2>6. Denied(s)'
    BY <2>1, <2>4, <2>5 DEF Denied
  <2> QED BY <1>b, <2>1, <2>6 DEF Covered
<1>8. ASSUME PassOver(s) \/ PassExhausted(s), ~Crash(s)
      PROVE Passed(s)' /\ Denied(s)' /\ Covered(s)'
  <2> DEFINE n == check[s].next
             r == check[s].request
             t == check[s].at
  <2>1. decision'[s] = decision[s]
    BY <1>8 DEF PassOver, PassExhausted
  <2>2. check[s] \in RunningChecks /\ n \in 1 .. Len(GrantsOf[s]) /\ check[s] # NoCheck
    <3>1. HasNext(s)
      BY <1>8 DEF PassOver, PassExhausted, Exhausted
    <3>2. check[s] \in RunningChecks
      BY <3>1 DEF HasNext, Running, TypeOK
    <3> QED BY <3>1, <3>2, GrantsByPosition DEF HasNext, Running, RunningChecks
  <2>3. PICK b \in BOOLEAN : GoOn(s, b) /\ (b <=> PassExhausted(s))
    BY <1>8 DEF PassOver, PassExhausted, Exhausted
  <2>4. check'[s] = [check[s] EXCEPT !.next = n + 1, !.exhausted = check[s].exhausted \/ b]
    BY <2>3 DEF GoOn, TypeOK
  <2>5. /\ check'[s].next = n + 1 /\ check'[s].request = r /\ check'[s].at = t
        /\ check'[s].exhausted <=> (check[s].exhausted \/ b)
    BY <2>2, <2>4 DEF RunningChecks
  <2>6. b <=> Applies(GrantsOf[s][n], r, t)
    BY <1>8, <2>3 DEF PassOver, PassExhausted, Exhausted, Matches, Grant
  <2>7. b => Uses(s, GrantsOf[s][n].capability) >= GrantsOf[s][n].maxUses
    BY <2>3 DEF PassExhausted, Exhausted, Grant
  <2>8. UNCHANGED <<ledger, memory>>
    BY <1>8 DEF PassOver, PassExhausted
  <2>9. Passed(s)'
    <3>1. 1 .. check'[s].next - 1 = (1 .. n - 1) \cup {n}
      BY <2>2, <2>5
    <3>2. \A i \in 1 .. n - 1 : Applies(GrantsOf[s][i], r, t) =>
                                 Uses(s, GrantsOf[s][i].capability) >= GrantsOf[s][i].maxUses
      BY <1>0, <2>2 DEF Passed
    <3>3. check[s].exhausted <=> (\E i \in 1 .. n - 1 : Applies(GrantsOf[s][i], r, t))
      BY <1>0, <2>2 DEF Passed
    <3>4. \A i \in 1 .. check'[s].next - 1 :
            Applies(GrantsOf[s][i], r, t) =>
              Uses(s, GrantsOf[s][i].capability)' >= GrantsOf[s][i].maxUses
      BY <2>6, <2>7, <2>8, <3>1, <3>2 DEF Uses
    <3>5. check'[s].exhausted <=>
            (\E i \in 1 .. check'[s].next - 1 : Applies(GrantsOf[s][i], r, t))
      BY <2>5, <2>6, <3>1, <3>3
    <3>6. check'[s].next <= Len(GrantsOf[s]) + 1
      BY <2>2, <2>5, GrantsByPosition
    <3> QED BY <2>5, <3>4, <3>5, <3>6 DEF Passed
  <2> QED BY <1>0, <1>8, <2>1, <2>9, DeniedStays DEF Covered
<1> QED BY <1>1, <1>2, <1>3, <1>4, <1>5, <1>6, <1>7, <1>8 DEF Next, Step

(* It holds from the start on. *)
LEMMA LoopInvariance == Spec => []LoopInv
<1>1. Init => LoopInv
  BY DEF Init, LoopInv, Passed, Denied, Covered, NoDecision, NoCheck
<1>2. TypeOK /\ LoopInv /\ [Next]_vars => LoopInv'
  BY LoopStep
<1> QED BY TypeCorrect, <1>1, <1>2, PTL DEF Spec

(* Whatever is granted, to whomever and for how long: ALLOW is covered by a *)
(* grant to that identity within its window.                                *)
THEOREM AllowancesAreCovered == Spec => []AllowanceIsCovered
<1>1. LoopInv => AllowanceIsCovered
  BY DEF LoopInv, Covered, AllowanceIsCovered
<1> QED BY LoopInvariance, <1>1, PTL

(* A denial is about all grants, and its reason tells whether one applied. *)
THEOREM DenialsAreExhaustive == Spec => []DenialIsExhaustive
<1>1. LoopInv => DenialIsExhaustive
  BY DEF LoopInv, Denied, DenialIsExhaustive
<1> QED BY LoopInvariance, <1>1, PTL

-----------------------------------------------------------------------------
(* The policy engine                                                        *)

RuleIds == {r.rule_id : r \in Rules}
Found == [read : Nat, grants : Seq(RuleIds), denials : Seq(RuleIds),
          obligations : SUBSET {"approval", "shadow"}, mode_sets : Seq(SUBSET ALLOWED_MODES)]
PolicyTyped ==
  /\ bundle \in Seq(Rules) /\ Compiles(bundle)
  /\ found \in Found /\ found.read <= Len(bundle)

(* The rules of an effect that match, among those the loop has read: its    *)
(* lists are empty, or not, as this set is, and its modes are theirs.       *)
MatchedSoFar(effect) == {i \in Matching(effect) : i <= found.read}
LoopCollects ==
  /\ (found.grants = <<>>) <=> (MatchedSoFar("GRANT") = {})
  /\ (found.denials = <<>>) <=> (MatchedSoFar("DENY") = {})
  /\ ("approval" \in found.obligations) <=> (MatchedSoFar("REQUIRE_APPROVAL") # {})
  /\ ("shadow" \in found.obligations) <=> (MatchedSoFar("REQUIRE_SHADOW") # {})
  /\ ToSet(found.mode_sets) = {bundle[i].modes : i \in MatchedSoFar("GRANT")}
RulingFollows ==
  \/ ruling = NoRuling
  \/ ruling.verdict = "raised"
  \/ found.read = Len(bundle) /\ ruling = Conclusion
PolicyInv == PolicyTyped /\ LoopCollects /\ RulingFollows

(* What appending adds to a list.                                           *)
LEMMA AppendAdds ==
  ASSUME NEW S, NEW s \in Seq(S), NEW x \in S
  PROVE  /\ Append(s, x) \in Seq(S) /\ Append(s, x) # <<>>
         /\ ToSet(Append(s, x)) = ToSet(s) \cup {x}
<1>1. /\ Append(s, x) \in Seq(S) /\ Len(Append(s, x)) = Len(s) + 1 /\ Len(s) \in Nat
      /\ \A i \in 1 .. Len(s) : Append(s, x)[i] = s[i]
      /\ Append(s, x)[Len(s) + 1] = x
  OBVIOUS
<1>2. Append(s, x) # <<>>
  BY <1>1
<1>3. ToSet(Append(s, x)) = ToSet(s) \cup {x}
  BY <1>1 DEF ToSet
<1> QED
  BY <1>1, <1>2, <1>3

(* The record the loop holds, from its parts.                               *)
LEMMA MakesFound ==
  ASSUME NEW n \in Nat, NEW g \in Seq(RuleIds), NEW d \in Seq(RuleIds),
         NEW o \in SUBSET {"approval", "shadow"}, NEW m \in Seq(SUBSET ALLOWED_MODES)
  PROVE  [read |-> n, grants |-> g, denials |-> d, obligations |-> o, mode_sets |-> m] \in Found
BY DEF Found

(* One more rule is read.                                                   *)
LEMMA OneMoreIsRead ==
  ASSUME PolicyTyped, found.read < Len(bundle), found'.read = found.read + 1,
         UNCHANGED <<bundle, context>>, NEW effect
  PROVE  MatchedSoFar(effect)' =
           MatchedSoFar(effect) \cup
             {i \in {found.read + 1} : bundle[i].effect = effect /\ Outcome(i) = Yes}
<1>1. /\ found.read \in Nat /\ Len(bundle) \in Nat /\ DOMAIN bundle = 1 .. Len(bundle)
  BY DEF PolicyTyped, Found
<1>2. Matching(effect)' = Matching(effect) /\ \A i \in DOMAIN bundle : Outcome(i)' = Outcome(i)
  BY DEF Matching, Outcome
<1>3. Matching(effect) = {i \in 1 .. Len(bundle) : bundle[i].effect = effect /\ Outcome(i) = Yes}
  BY <1>1 DEF Matching
<1> QED
  BY <1>1, <1>2, <1>3 DEF MatchedSoFar

(* Nothing read, nothing found.                                             *)
LEMMA PolicyStarts == PolicyInit => PolicyInv
<1> SUFFICES ASSUME PolicyInit PROVE PolicyInv
  OBVIOUS
<1>1. bundle = <<>> /\ found = NothingFound /\ ruling = NoRuling
  BY DEF PolicyInit
<1>2. PolicyTyped
  BY <1>1 DEF PolicyTyped, NothingFound, Found, Compiles
<1>3. \A effect : MatchedSoFar(effect) = {}
  BY <1>1 DEF MatchedSoFar, Matching
<1>4. ToSet(<<>>) = {}
  BY DEF ToSet
<1> QED
  BY <1>1, <1>2, <1>3, <1>4 DEF PolicyInv, LoopCollects, RulingFollows, NothingFound

(* Rules are only written before the first one is read.                     *)
LEMMA AddRuleKeeps ==
  ASSUME PolicyInv, NEW r \in Rules, AddRule(r)
  PROVE  PolicyInv'
<1>1. /\ found.read = 0 /\ ruling = NoRuling /\ UNCHANGED <<found, ruling, context>>
      /\ bundle' = Append(bundle, r) /\ Compiles(bundle')
  BY DEF AddRule
<1>2. bundle \in Seq(Rules) /\ bundle' \in Seq(Rules) /\ Len(bundle') \in Nat /\ found \in Found
  BY <1>1 DEF PolicyInv, PolicyTyped
<1>3. PolicyTyped'
  BY <1>1, <1>2 DEF PolicyTyped
<1>4. \A effect : MatchedSoFar(effect) = {} /\ MatchedSoFar(effect)' = {}
  <2>1. DOMAIN bundle = 1 .. Len(bundle) /\ DOMAIN bundle' = 1 .. Len(bundle')
    BY <1>2
  <2> QED
    BY <1>1, <2>1 DEF MatchedSoFar, Matching
<1>5. LoopCollects'
  <2>1. /\ ToSet(found.mode_sets) = {} /\ found.grants = <<>> /\ found.denials = <<>>
        /\ "approval" \notin found.obligations /\ "shadow" \notin found.obligations
    BY <1>4 DEF PolicyInv, LoopCollects
  <2> QED
    BY <1>1, <1>4, <2>1 DEF LoopCollects
<1> QED
  BY <1>1, <1>3, <1>5 DEF PolicyInv, RulingFollows

(* A rule that does not match adds nothing.                                 *)
LEMMA RulePassesKeeps ==
  ASSUME PolicyInv, RulePasses
  PROVE  PolicyInv'
<1>1. /\ found.read < Len(bundle) /\ ruling = NoRuling /\ UNCHANGED <<bundle, context, ruling>>
      /\ Outcome(found.read + 1) = No /\ found' = [found EXCEPT !.read = @ + 1]
  BY DEF RulePasses, ReadsOn, Outcome
<1>2. found \in Found /\ found.read \in Nat /\ Len(bundle) \in Nat
  BY DEF PolicyInv, PolicyTyped, Found
<1>3. /\ found' \in Found /\ found'.read = found.read + 1
      /\ found'.grants = found.grants /\ found'.denials = found.denials
      /\ found'.obligations = found.obligations /\ found'.mode_sets = found.mode_sets
  <2>1. /\ found.read \in Nat /\ found.grants \in Seq(RuleIds) /\ found.denials \in Seq(RuleIds)
        /\ found.obligations \in SUBSET {"approval", "shadow"} /\ found.mode_sets \in Seq(SUBSET ALLOWED_MODES)
    BY <1>2 DEF Found
  <2>2. found' = [read |-> found.read + 1, grants |-> found.grants, denials |-> found.denials,
                  obligations |-> found.obligations, mode_sets |-> found.mode_sets]
    BY <1>1, <1>2 DEF Found
  <2>3. found.read + 1 \in Nat
    BY <2>1
  <2>4. found' \in Found
    BY <2>1, <2>2, <2>3, MakesFound
  <2> QED
    BY <2>2, <2>4
<1>4. PolicyTyped'
  BY <1>1, <1>2, <1>3 DEF PolicyInv, PolicyTyped
<1>5. \A effect : MatchedSoFar(effect)' = MatchedSoFar(effect)
  <2> TAKE effect
  <2>1. No # Yes
    BY DEF No, Yes
  <2> QED
    BY <1>1, <1>3, <2>1, OneMoreIsRead DEF PolicyInv
<1>6. LoopCollects'
  BY <1>1, <1>3, <1>5 DEF PolicyInv, LoopCollects
<1> QED
  BY <1>1, <1>4, <1>6 DEF PolicyInv, RulingFollows

(* A rule that matches adds itself to the lists of its effect.              *)
LEMMA RuleMatchesKeeps ==
  ASSUME PolicyInv, RuleMatches
  PROVE  PolicyInv'
<1> DEFINE n == found.read + 1
           r == bundle[n]
<1>1. /\ found.read < Len(bundle) /\ ruling = NoRuling /\ UNCHANGED <<bundle, context, ruling>>
      /\ Outcome(n) = Yes /\ found' = Collected(r)
  BY DEF RuleMatches, ReadsOn, Outcome
<1>2. found \in Found /\ found.read \in Nat /\ Len(bundle) \in Nat /\ n \in DOMAIN bundle
  BY <1>1 DEF PolicyInv, PolicyTyped, Found
<1>3. r \in Rules /\ r.rule_id \in RuleIds /\ RuleCompiles(r) /\ r.effect \in Effects
  BY <1>2, RulesAreTyped DEF PolicyInv, PolicyTyped, Compiles, RuleIds
<1> HIDE DEF r
<1>4. r.effect = "GRANT" => r.modes \in SUBSET ALLOWED_MODES
  BY <1>3 DEF RuleCompiles
<1>5. /\ found'.read = n
      /\ found'.grants = IF r.effect = "GRANT" THEN Append(found.grants, r.rule_id) ELSE found.grants
      /\ found'.denials = IF r.effect = "DENY" THEN Append(found.denials, r.rule_id) ELSE found.denials
      /\ found'.mode_sets = IF r.effect = "GRANT" THEN Append(found.mode_sets, r.modes) ELSE found.mode_sets
      /\ found'.obligations = found.obligations \cup {ObligationOf[e] : e \in {r.effect} \cap DOMAIN ObligationOf}
      /\ found' = [read |-> found'.read, grants |-> found'.grants, denials |-> found'.denials,
                   obligations |-> found'.obligations, mode_sets |-> found'.mode_sets]
  BY <1>1 DEF Collected, AppendIf
<1>6. /\ found.grants \in Seq(RuleIds) /\ found.denials \in Seq(RuleIds)
      /\ found.mode_sets \in Seq(SUBSET ALLOWED_MODES) /\ found.obligations \in SUBSET {"approval", "shadow"}
  BY <1>2 DEF Found
<1>7. /\ found'.grants \in Seq(RuleIds)
      /\ (found'.grants = <<>>) <=> (found.grants = <<>> /\ r.effect # "GRANT")
  BY <1>3, <1>5, <1>6, AppendAdds
<1>8. /\ found'.denials \in Seq(RuleIds)
      /\ (found'.denials = <<>>) <=> (found.denials = <<>> /\ r.effect # "DENY")
  BY <1>3, <1>5, <1>6, AppendAdds
<1>9. /\ found'.mode_sets \in Seq(SUBSET ALLOWED_MODES)
      /\ ToSet(found'.mode_sets) = ToSet(found.mode_sets) \cup {y \in {r.modes} : r.effect = "GRANT"}
  BY <1>4, <1>5, <1>6, AppendAdds
<1>10. {ObligationOf[e] : e \in {r.effect} \cap DOMAIN ObligationOf} =
         {o \in {"approval"} : r.effect = "REQUIRE_APPROVAL"} \cup {o \in {"shadow"} : r.effect = "REQUIRE_SHADOW"}
  <2>1. /\ DOMAIN ObligationOf = {"REQUIRE_APPROVAL", "REQUIRE_SHADOW"}
        /\ ObligationOf["REQUIRE_APPROVAL"] = "approval" /\ ObligationOf["REQUIRE_SHADOW"] = "shadow"
    BY DEF ObligationOf
  <2> QED
    BY <2>1
<1>11. found'.obligations \in SUBSET {"approval", "shadow"}
       /\ ("approval" \in found'.obligations <=> "approval" \in found.obligations \/ r.effect = "REQUIRE_APPROVAL")
       /\ ("shadow" \in found'.obligations <=> "shadow" \in found.obligations \/ r.effect = "REQUIRE_SHADOW")
  BY <1>5, <1>6, <1>10
<1>12. found' \in Found
  <2>1. found'.read \in Nat
    BY <1>2, <1>5
  <2>2. [read |-> found'.read, grants |-> found'.grants, denials |-> found'.denials,
         obligations |-> found'.obligations, mode_sets |-> found'.mode_sets] \in Found
    BY <1>7, <1>8, <1>9, <1>11, <2>1, MakesFound, Zenon
  <2>3. found' = [read |-> found'.read, grants |-> found'.grants, denials |-> found'.denials,
                  obligations |-> found'.obligations, mode_sets |-> found'.mode_sets]
    BY <1>5
  <2> QED
    BY <2>2, <2>3, Zenon
<1>13. PolicyTyped'
  BY <1>1, <1>2, <1>5, <1>12 DEF PolicyInv, PolicyTyped
<1>14. \A effect : MatchedSoFar(effect)' = MatchedSoFar(effect) \cup {i \in {n} : r.effect = effect}
  <2> TAKE effect
  <2>1. MatchedSoFar(effect)' =
          MatchedSoFar(effect) \cup {i \in {n} : bundle[i].effect = effect /\ Outcome(i) = Yes}
    BY <1>1, <1>5, OneMoreIsRead DEF PolicyInv
  <2> QED
    BY <1>1, <2>1 DEF r
<1>15. {bundle'[i].modes : i \in MatchedSoFar("GRANT")'} =
         {bundle[i].modes : i \in MatchedSoFar("GRANT")} \cup {y \in {r.modes} : r.effect = "GRANT"}
  <2>1. bundle' = bundle /\ r = bundle[n]
    BY <1>1 DEF r
  <2> HIDE DEF n
  <2> QED
    BY <1>14, <2>1
<1>16. LoopCollects'
  BY <1>7, <1>8, <1>9, <1>11, <1>14, <1>15 DEF PolicyInv, LoopCollects
<1> QED
  BY <1>1, <1>13, <1>16 DEF PolicyInv, RulingFollows

(* Every step keeps what the loop has collected.                            *)
LEMMA PolicySteps == PolicyInv /\ [PolicyNext]_policyVars => PolicyInv'
<1> SUFFICES ASSUME PolicyInv, [PolicyNext]_policyVars PROVE PolicyInv'
  OBVIOUS
<1>1. CASE RuleRaises \/ Concludes \/ UNCHANGED policyVars
  <2>1. UNCHANGED <<bundle, default, context, found>>
    BY <1>1 DEF RuleRaises, Concludes, ReadsOn, policyVars
  <2>2. PolicyTyped' /\ LoopCollects'
    BY <2>1 DEF PolicyInv, PolicyTyped, LoopCollects, MatchedSoFar, Matching, Outcome
  <2>3. UNCHANGED Conclusion
    BY <2>1 DEF Conclusion, Ruling
  <2>4. \/ UNCHANGED ruling
        \/ ruling'.verdict = "raised"
        \/ found.read = Len(bundle) /\ ruling' = Conclusion
    BY <1>1 DEF RuleRaises, Concludes, ReadsOn, policyVars, Ruling
  <2>5. RulingFollows'
    BY <2>1, <2>3, <2>4 DEF PolicyInv, RulingFollows
  <2> QED
    BY <2>2, <2>5 DEF PolicyInv
<1> QED
  BY <1>1, AddRuleKeeps, RulePassesKeeps, RuleMatchesKeeps DEF PolicyNext

(* For any rules, conditions and contexts, and bundles of any length: what  *)
(* the loop with its lists decides is what the set of matching rules says,  *)
(* denials first, each grant narrowing (policy/engine.py:128).              *)
THEOREM DecisionsAreDenyDominant == PolicySpec => []DecisionIsDenyDominant
<1>1. ASSUME PolicyInv
      PROVE  DecisionIsDenyDominant
  <2> SUFFICES ASSUME ruling.verdict \in {"ELIGIBLE", "DENY"}
               PROVE  DecisionIsDenyDominant
    BY DEF DecisionIsDenyDominant
  <2>1. found.read = Len(bundle) /\ ruling = Conclusion
    BY <1>1 DEF PolicyInv, RulingFollows, NoRuling
  <2>2. \A effect : MatchedSoFar(effect) = Matching(effect)
    <3>1. bundle \in Seq(Rules)
      BY <1>1 DEF PolicyInv, PolicyTyped
    <3>2. DOMAIN bundle = 1 .. Len(bundle) /\ Len(bundle) \in Nat
      BY <3>1
    <3> QED
      BY <2>1, <3>2 DEF MatchedSoFar, Matching
  <2>3. /\ (found.grants = <<>>) <=> (Matching("GRANT") = {})
        /\ (found.denials = <<>>) <=> (Matching("DENY") = {})
        /\ ("approval" \in found.obligations) <=> (Matching("REQUIRE_APPROVAL") # {})
        /\ ("shadow" \in found.obligations) <=> (Matching("REQUIRE_SHADOW") # {})
        /\ ToSet(found.mode_sets) = {bundle[i].modes : i \in Matching("GRANT")}
    BY <1>1, <2>2 DEF PolicyInv, LoopCollects
  <2>4. found.grants # <<>> => Intersection(found.mode_sets) = CommonModes
    <3>1. \A i \in Matching("GRANT") : bundle[i].modes \subseteq ALLOWED_MODES
      BY <1>1 DEF PolicyInv, PolicyTyped, Compiles, RuleCompiles, Matching
    <3> QED
      BY <2>3, <3>1 DEF Intersection, CommonModes
  <2>5. ruling.obligations = found.obligations
    BY <2>1 DEF Conclusion, Ruling
  <2>6. (ruling.verdict = "ELIGIBLE") <=>
          (found.denials = <<>> /\ found.grants # <<>> /\ Intersection(found.mode_sets) # {})
    BY <2>1 DEF Conclusion, Ruling
  <2>7. ruling.verdict = "ELIGIBLE" => ruling.modes = Intersection(found.mode_sets)
    BY <2>1 DEF Conclusion, Ruling
  <2> QED
    BY <2>3, <2>4, <2>5, <2>6, <2>7 DEF DecisionIsDenyDominant
<1>2. PolicyInv => DecisionIsDenyDominant
  BY <1>1
<1> QED
  BY <1>2, PolicyStarts, PolicySteps, PTL DEF PolicySpec
=============================================================================
