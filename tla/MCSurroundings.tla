--------------------------- MODULE MCSurroundings ---------------------------
(***************************************************************************)
(* Small instances of what surrounds the kernel: the demo, with the grant  *)
(* of run_demo or a wider one; two runs in the Docker sandbox, under three *)
(* controls and with every kind of fault; and the requirements ledger, with *)
(* a frozen epoch of one source row and one catalog row, a row appended to *)
(* it since and one to come, and a retired row with a good reason, with one *)
(* too short for the validator, with a date that only has the form of one, *)
(* and with nothing the builder takes.  They share no state, so a behaviour *)
(* is about one of them, and the others stay as they start.                *)
(***************************************************************************)
EXTENDS Demo, DockerSandbox, Traceability

CONSTANTS network_none, read_only_root, memory_limited

VARIABLE about
mcvars == <<about, vars, sandboxVars, traceVars>>

ThreeControls == {network_none, read_only_root, memory_limited}
EveryFault == {"profile", "create", "inspect", "start", "rm", "kill"}
TwoGrants == {{"write"}, {"read", "send", "write"}}
TwoPolicies == {{"write"}, {"read", "write"}}

TwoRows == <<Row("AK-001", TRUE, TRUE, "open"), Row("TRACE-01", FALSE, TRUE, "open")>>
Retired(reason, date, replacement) ==
  [id |-> "AK-001", reason |-> reason, date |-> date, replacement |-> replacement]
OneAppended == <<Row("USR-01", FALSE, TRUE, "open")>>
FourTombstones ==
  {Retired("meaningful", "a day", NoId), Retired("short", "a day", "USR-01"),
   Retired("meaningful", "no such day", NoId), Retired("empty", "not a date", "AK-001")}

MCInit ==
  /\ about \in {"demo", "sandbox", "traceability"}
  /\ Init
  /\ SandboxInit
  /\ TraceInit
  /\ about # "demo" => granted = {"write"} /\ eligible = {"write"}
DemoStep == about = "demo" /\ Next /\ UNCHANGED <<about, sandboxVars, traceVars>>
SandboxStep == about = "sandbox" /\ SandboxNext /\ UNCHANGED <<about, vars, traceVars>>
TraceStep == about = "traceability" /\ TraceNext /\ UNCHANGED <<about, vars, sandboxVars>>
MCNext == DemoStep \/ SandboxStep \/ TraceStep
MCSpec == MCInit /\ [][MCNext]_mcvars
=============================================================================
