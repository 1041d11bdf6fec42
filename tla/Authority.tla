----------------------------- MODULE Authority -----------------------------
(***************************************************************************)
(* Grants and their use budgets: AuthorityService.check of                 *)
(* src/agentkernel/authority/service.py, with the durable counter of       *)
(* SQLiteJournal.try_consume_capability_use or the service's own one.      *)
(*                                                                         *)
(* Several services (threads with an own connection, or processes) share   *)
(* one journal.  A check reads the clock once and then asks the counter of *)
(* one grant after another; between two of these calls the other services, *)
(* the clock and crashes may interleave, and a call to the journal may     *)
(* raise, with its transaction rolled back.                                *)
(***************************************************************************)
EXTENDS Resources, FiniteSets

CONSTANTS
  Services,
  GrantsOf,      \* the grants of a service, in the order it was given them
  Capabilities,  \* capability ids: several grants may name the same one
  Requests,      \* what callers may ask: identity, action, resource, trust
  Durable,       \* BOOLEAN: the services have a use ledger
  MaxTime,       \* bound of the clock
  MaxChecks,     \* bound: checks begun
  MaxFailures    \* bound: journal calls that raise, and crashes

GrantsIn(s) == {GrantsOf[s][i] : i \in 1 .. Len(GrantsOf[s])}
AllGrants == UNION {GrantsIn(s) : s \in Services}

ASSUME GrantsAreTyped ==
  /\ \A s \in Services : GrantsOf[s] \in Seq(AllGrants)
  /\ \A g \in AllGrants : g.capability \in Capabilities /\ g.maxUses \in Nat
  /\ Durable \in BOOLEAN

ASSUME LimitsAreNaturals == {MaxTime, MaxChecks, MaxFailures} \subseteq Nat

VARIABLES
  now,       \* the clock
  ledger,    \* capability_uses: durable uses of a capability
  memory,    \* _uses of each service
  check,     \* the check in progress at a service
  decision,  \* the last decision of a service
  allowed,   \* history: ALLOW decisions by capability
  checks,    \* checks begun so far
  failures   \* failures so far

vars == <<now, ledger, memory, check, decision, allowed, checks, failures>>

NoCheck == [status |-> "none"]
NoDecision == [verdict |-> "none"]

-----------------------------------------------------------------------------
(* The loop over the grants                                                 *)

ValidAt(g, t) == g.notBefore <= t /\ t < g.expiresAt

(* the scopes are tried in order: the first that matches ends the search,   *)
(* a malformed one before it raises                                         *)
FirstScope(g, r, P(_)) ==
  \E i \in 1 .. Len(g.resources) :
    /\ P(g.resources[i])
    /\ \A j \in 1 .. i - 1 : WellFormed(g.resources[j]) /\ ~ResourceMatches(g.resources[j], r.resource)
Covers(g, r) == FirstScope(g, r, LAMBDA scope : ResourceMatches(scope, r.resource))
Malformed(g, r) == FirstScope(g, r, LAMBDA scope : ~WellFormed(scope))

Reaches(g, r, t) == g.identity = r.identity /\ ValidAt(g, t) /\ r.action \in g.actions
Applies(g, r, t) == Reaches(g, r, t) /\ Covers(g, r)

CheckBegins(s, r) ==
  /\ check[s] = NoCheck /\ checks < MaxChecks
  /\ check' = [check EXCEPT ![s] = [status |-> "running", request |-> r, at |-> now,
                                    next |-> 1, exhausted |-> FALSE]]
  /\ checks' = checks + 1
  /\ UNCHANGED <<now, ledger, memory, decision, allowed, failures>>

Running(s) == check[s] # NoCheck
HasNext(s) == Running(s) /\ check[s].next <= Len(GrantsOf[s])
Grant(s) == GrantsOf[s][check[s].next]
ScopesRaise(s) == Reaches(Grant(s), check[s].request, check[s].at) /\ Malformed(Grant(s), check[s].request)
Matches(s) == Applies(Grant(s), check[s].request, check[s].at)

Uses(s, c) == IF Durable THEN ledger[c] ELSE memory[s][c]
CountUse(s, c) ==
  IF Durable THEN ledger' = [ledger EXCEPT ![c] = @ + 1] /\ UNCHANGED memory
             ELSE memory' = [memory EXCEPT ![s][c] = @ + 1] /\ UNCHANGED ledger

Answer(s, verdict, reason, capability) ==
  /\ check' = [check EXCEPT ![s] = NoCheck]
  /\ decision' = [decision EXCEPT ![s] =
       [verdict |-> verdict, reason |-> reason, capability |-> capability,
        request |-> check[s].request, at |-> check[s].at]]

GoOn(s, exhausted) ==
  check' = [check EXCEPT ![s] =
              [@ EXCEPT !.next = check[s].next + 1, !.exhausted = check[s].exhausted \/ exhausted]]

(* another identity, another time, action or resource *)
PassOver(s) ==
  /\ HasNext(s) /\ ~Matches(s) /\ ~ScopesRaise(s)
  /\ GoOn(s, FALSE)
  /\ UNCHANGED <<now, ledger, memory, decision, allowed, checks, failures>>

Bug_LastUseTwice(s) ==
  /\ HasNext(s) /\ Matches(s)
  /\ Uses(s, Grant(s).capability) <= Grant(s).maxUses
  /\ CountUse(s, Grant(s).capability)
  /\ allowed' = [allowed EXCEPT ![Grant(s).capability] = @ + 1]
  /\ Answer(s, "ALLOW", "AUTHORITY_GRANTED", Grant(s).capability)
  /\ UNCHANGED <<now, checks, failures>>

(* one BEGIN IMMEDIATE transaction, or one step of the event loop *)
Consume(s) ==
  /\ HasNext(s) /\ Matches(s)
  /\ Uses(s, Grant(s).capability) < Grant(s).maxUses
  /\ CountUse(s, Grant(s).capability)
  /\ allowed' = [allowed EXCEPT ![Grant(s).capability] = @ + 1]
  /\ Answer(s, "ALLOW", "AUTHORITY_GRANTED", Grant(s).capability)
  /\ UNCHANGED <<now, checks, failures>>

Exhausted(s) ==
  /\ HasNext(s) /\ Matches(s)
  /\ Uses(s, Grant(s).capability) >= Grant(s).maxUses
  /\ Durable => Grant(s).maxUses >= 1

Bug_FirstExhaustedEnds(s) ==
  /\ Exhausted(s)
  /\ Answer(s, "DENY", "AUTHORITY_EXPIRED", "none")
  /\ UNCHANGED <<now, ledger, memory, allowed, checks, failures>>

Bug_CountedBeforeCompared(s) ==
  /\ Exhausted(s)
  /\ GoOn(s, TRUE)
  /\ CountUse(s, Grant(s).capability)
  /\ UNCHANGED <<now, decision, allowed, checks, failures>>

PassExhausted(s) ==
  /\ Exhausted(s)
  /\ GoOn(s, TRUE)
  /\ UNCHANGED <<now, ledger, memory, decision, allowed, checks, failures>>

(* an unsupported wildcard; a durable budget below one *)
Raises(s) ==
  /\ HasNext(s)
  /\ ScopesRaise(s) \/ (Matches(s) /\ Durable /\ Grant(s).maxUses < 1)
  /\ Answer(s, "raised", "VALIDATION_ERROR", "none")
  /\ UNCHANGED <<now, ledger, memory, allowed, checks, failures>>

Deny(s) ==
  /\ Running(s) /\ ~HasNext(s)
  /\ Answer(s, "DENY", IF check[s].exhausted THEN "AUTHORITY_EXPIRED" ELSE "AUTHORITY_MISSING", "none")
  /\ UNCHANGED <<now, ledger, memory, allowed, checks, failures>>

-----------------------------------------------------------------------------
(* The environment                                                          *)

Tick == now < MaxTime /\ now' = now + 1
        /\ UNCHANGED <<ledger, memory, check, decision, allowed, checks, failures>>

Failure == failures < MaxFailures /\ failures' = failures + 1

(* the database is locked, or the statement fails: rolled back and raised *)
JournalRaises(s) ==
  /\ Durable /\ HasNext(s) /\ Matches(s) /\ Failure
  /\ Answer(s, "raised", "STORAGE", "none")
  /\ UNCHANGED <<now, ledger, memory, allowed, checks>>

(* the process dies; after the commit of a use, nobody learns of it *)
Crash(s) ==
  /\ Failure
  /\ memory' = [memory EXCEPT ![s] = [c \in Capabilities |-> 0]]
  /\ check' = [check EXCEPT ![s] = NoCheck]
  /\ decision' = [decision EXCEPT ![s] = NoDecision]
  /\ \/ UNCHANGED ledger
     \/ /\ Durable /\ HasNext(s) /\ Matches(s)
        /\ ledger[Grant(s).capability] < Grant(s).maxUses
        /\ ledger' = [ledger EXCEPT ![Grant(s).capability] = @ + 1]
  /\ UNCHANGED <<now, allowed, checks>>

Init ==
  /\ now = 0
  /\ ledger = [c \in Capabilities |-> 0]
  /\ memory = [s \in Services |-> [c \in Capabilities |-> 0]]
  /\ check = [s \in Services |-> NoCheck]
  /\ decision = [s \in Services |-> NoDecision]
  /\ allowed = [c \in Capabilities |-> 0]
  /\ checks = 0 /\ failures = 0

Step(s) == PassOver(s) \/ Consume(s) \/ PassExhausted(s) \/ Raises(s) \/ Deny(s)
Next ==
  \/ Tick
  \/ \E s \in Services :
       \/ Step(s) \/ JournalRaises(s) \/ Crash(s)
       \/ \E r \in Requests : CheckBegins(s, r)

Spec == Init /\ [][Next]_vars

-----------------------------------------------------------------------------
(* Properties                                                               *)

RunningChecks ==
  [status : {"running"}, request : Requests, at : Nat, next : Nat \ {0}, exhausted : BOOLEAN]
Decisions ==
  [verdict : {"ALLOW", "DENY", "raised"},
   reason : {"AUTHORITY_GRANTED", "AUTHORITY_EXPIRED", "AUTHORITY_MISSING", "VALIDATION_ERROR", "STORAGE"},
   capability : Capabilities \cup {"none"}, request : Requests, at : Nat]

(* Counters are naturals, and checks and decisions are complete records. *)
TypeOK ==
  /\ now \in Nat /\ checks \in Nat /\ failures \in Nat
  /\ ledger \in [Capabilities -> Nat]
  /\ memory \in [Services -> [Capabilities -> Nat]]
  /\ allowed \in [Capabilities -> Nat]
  /\ check \in [Services -> {NoCheck} \cup RunningChecks]
  /\ decision \in [Services -> {NoDecision} \cup Decisions]

(* The allowances of a capability, at all services and over all restarts,   *)
(* never exceed the largest budget it was granted with.  The counters of a  *)
(* service's memory promise that only to the one service, until it dies.    *)
CountersSuffice == Durable \/ (failures = 0 /\ \E s \in Services : Services = {s})
BudgetHolds ==
  CountersSuffice =>
    \A c \in Capabilities :
      allowed[c] > 0 => \E g \in AllGrants : g.capability = c /\ allowed[c] <= g.maxUses

(* An allowance was covered by a grant to that identity, for that action    *)
(* and resource, and within its window when the check read the clock.       *)
AllowanceIsCovered ==
  \A s \in Services :
    decision[s].verdict = "ALLOW" =>
      \E g \in GrantsIn(s) :
        /\ g.capability = decision[s].capability
        /\ Applies(g, decision[s].request, decision[s].at)
        /\ ValidAt(g, decision[s].at)

(* No use is lost but by a failure: ALLOW consumed one, everything else     *)
(* none, however the services interleaved.                                  *)
NoUseIsLost ==
  Durable => \A c \in Capabilities :
               /\ allowed[c] <= ledger[c]
               /\ failures = 0 => allowed[c] = ledger[c]

(* A DENY is an answer about all grants: none that applied when the check   *)
(* began still has a use left, and the reason says whether one had.         *)
DenialIsExhaustive ==
  \A s \in Services :
    decision[s].verdict = "DENY" =>
      LET applied == {g \in GrantsIn(s) : Applies(g, decision[s].request, decision[s].at)} IN
        /\ \A g \in applied : Uses(s, g.capability) >= g.maxUses
        /\ (decision[s].reason = "AUTHORITY_EXPIRED") <=> (applied # {})
=============================================================================
