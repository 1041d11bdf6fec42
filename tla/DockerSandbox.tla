--------------------------- MODULE DockerSandbox ---------------------------
(***************************************************************************)
(* DockerSandbox.run_python of src/agentkernel/sandbox/docker.py, as       *)
(* doctor_report of src/agentkernel/cli.py calls it, and the Docker engine *)
(* behind its command line.  Every `docker' call may fail, and may run     *)
(* into its timeout before or after the engine has done what was asked.    *)
(***************************************************************************)
EXTENDS Naturals

CONSTANTS
  Controls,    \* the effective controls of a DockerControlReport
  NoReport,
  Faults,      \* what may happen: the engine does not apply an option of
               \* `create' ("profile"), one of its calls fails or times out
               \* ("create", "inspect", "start", "rm"), the caller dies ("kill")
  MaxRuns      \* bound: calls of run_python
ASSUME MaxRunsIsNatural == MaxRuns \in Nat

VARIABLES
  container,  \* the engine's containers, one per run
  run,        \* number of the run in progress or last ended
  step,       \* where it is
  result,     \* what run_python returns or raises
  doctor,     \* what doctor_report has said last
  stranded    \* history: containers left by a failed or killed call
sandboxVars == <<container, run, step, result, doctor, stranded>>

Runs == 1 .. MaxRuns
NoContainer == [state |-> "none", controls |-> {}]
Container(state, controls) == [state |-> state, controls |-> controls]
Result(code, controls) == [kind |-> "result", exit_code |-> code, controls |-> controls]
Error(controls) == [kind |-> "error", exit_code |-> 1, controls |-> controls]
State == container[run].state
InState(s) == container' = [container EXCEPT ![run].state = s]
ThenRemove(o) == step' = "removing" /\ result' = o

-----------------------------------------------------------------------------
(* run_python                                                               *)

Creates ==
  /\ step = "idle" /\ run < MaxRuns
  /\ run' = run + 1
  /\ \E missing \in SUBSET Controls :
       /\ missing # {} => "profile" \in Faults
       /\ container' = [container EXCEPT ![run'] = Container("created", Controls \ missing)]
  /\ step' = "inspecting"
  /\ UNCHANGED <<result, doctor, stranded>>

\* a create that times out has made a container or not: nobody has its ID
CreateFails ==
  /\ step = "idle" /\ run < MaxRuns /\ "create" \in Faults
  /\ run' = run + 1
  /\ \/ UNCHANGED <<container, stranded>>
     \/ /\ container' = [container EXCEPT ![run'] = Container("created", Controls)]
        /\ stranded' = stranded \cup {run'}
  /\ step' = "reporting" /\ result' = Error(NoReport)
  /\ UNCHANGED doctor

Bug_StartedAnyway ==
  /\ step = "inspecting"
  /\ step' = "starting" /\ result' = Result(0, container[run].controls)
  /\ UNCHANGED <<container, run, doctor, stranded>>
InspectsControls ==
  /\ step = "inspecting"
  /\ IF container[run].controls = Controls
     THEN step' = "starting" /\ result' = Result(0, Controls)
     ELSE ThenRemove(Error(container[run].controls))
  /\ UNCHANGED <<container, run, doctor, stranded>>

InspectFails ==
  /\ step = "inspecting" /\ "inspect" \in Faults
  /\ ThenRemove(Error(NoReport))
  /\ UNCHANGED <<container, run, doctor, stranded>>

Starts ==
  /\ step = "starting" /\ State = "created"
  /\ InState("running")
  /\ step' = "attached"
  /\ UNCHANGED <<run, result, doctor, stranded>>

\* check=False: a start that fails is a result with the exit code of `docker'
StartFails ==
  /\ step = "starting" /\ "start" \in Faults
  /\ \E o \in {Result(1, Controls), Error(NoReport)} : ThenRemove(o)
  /\ UNCHANGED <<container, run, doctor, stranded>>

Returns ==
  /\ step = "attached" /\ State \in {"succeeded", "crashed"}
  /\ ThenRemove(Result(IF State = "succeeded" THEN 0 ELSE 1, Controls))
  /\ UNCHANGED <<container, run, doctor, stranded>>

\* the client is stopped, the program is not
TimesOut ==
  /\ step = "attached"
  /\ ThenRemove(Error(NoReport))
  /\ UNCHANGED <<container, run, doctor, stranded>>

Bug_RemovesOnlyResults ==
  /\ step = "removing"
  /\ container' = IF result.kind = "result" THEN [container EXCEPT ![run] = NoContainer] ELSE container
  /\ step' = "reporting"
  /\ UNCHANGED <<run, result, doctor, stranded>>
Removes ==
  /\ step = "removing"
  /\ container' = [container EXCEPT ![run] = NoContainer]
  /\ step' = "reporting"
  /\ UNCHANGED <<run, result, doctor, stranded>>

\* check=False again: a failed rm is not reported, a timeout replaces the result
RemoveFails ==
  /\ step = "removing" /\ "rm" \in Faults
  /\ \/ /\ stranded' = stranded \cup {run}
        /\ result' \in {result, Error(NoReport)}
        /\ UNCHANGED container
     \/ /\ container' = [container EXCEPT ![run] = NoContainer]
        /\ result' = Error(NoReport)
        /\ UNCHANGED stranded
  /\ step' = "reporting"
  /\ UNCHANGED <<run, doctor>>

-----------------------------------------------------------------------------
(* doctor_report                                                            *)

MissingControls ==
  IF result.controls = NoReport THEN Controls ELSE Controls \ result.controls

Reports ==
  /\ step = "reporting"
  /\ doctor' = [verified |-> result.kind = "result" /\ result.exit_code = 0 /\ MissingControls = {},
                missing |-> MissingControls]
  /\ step' = "idle"
  /\ UNCHANGED <<container, run, result, stranded>>

(* external: the program, and the death of the caller                       *)
ProgramEnds(r) ==
  /\ container[r].state = "running"
  /\ \E s \in {"succeeded", "crashed"} : container' = [container EXCEPT ![r].state = s]
  /\ UNCHANGED <<run, step, result, doctor, stranded>>

Killed ==
  /\ "kill" \in Faults /\ step # "idle"
  /\ step' = "idle"
  /\ stranded' = IF State = "none" THEN stranded ELSE stranded \cup {run}
  /\ UNCHANGED <<container, run, result, doctor>>

-----------------------------------------------------------------------------
SandboxInit ==
  /\ container = [r \in Runs |-> NoContainer]
  /\ run = 0 /\ step = "idle" /\ stranded = {}
  /\ result = Error(NoReport)
  /\ doctor = [verified |-> FALSE, missing |-> Controls]

Call ==
  \/ Creates \/ CreateFails \/ InspectsControls \/ InspectFails
  \/ Starts \/ StartFails \/ Returns \/ TimesOut
  \/ Removes \/ RemoveFails \/ Reports
SandboxNext == Call \/ Killed \/ \E r \in Runs : ProgramEnds(r)

SandboxSpec == SandboxInit /\ [][SandboxNext]_sandboxVars

-----------------------------------------------------------------------------
(* Properties                                                               *)

(* No program runs in a container one of whose controls is not effective,   *)
(* whatever the engine made of the options of create (docker.py:169).       *)
NothingRunsUncontained ==
  \A r \in Runs : container[r].state \in {"running", "succeeded", "crashed"} => container[r].controls = Controls

(* When no call is in progress no container is left, unless the answer of   *)
(* a create was lost, an rm failed, or the caller died.                     *)
LeftoversAreExplained ==
  step \in {"idle", "reporting"} => \A r \in Runs \ stranded : container[r].state = "none"
=============================================================================
