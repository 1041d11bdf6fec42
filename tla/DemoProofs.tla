----------------------------- MODULE DemoProofs -----------------------------
(***************************************************************************)
(* What surrounds the kernel: the sandbox runs nothing uncontained and     *)
(* leaves nothing behind without a cause, for any controls, any number of  *)
(* runs and any choice of faults; the demo carries nothing out unjudged,   *)
(* and its replay vouches only for the trace that the run wrote.           *)
(***************************************************************************)
EXTENDS Demo, DockerSandbox, SequenceTheorems, TLAPS

Steps == {"idle", "inspecting", "starting", "attached", "removing", "reporting"}
States == {"none", "created", "running", "succeeded", "crashed"}
Holding == {"inspecting", "starting", "attached", "removing"}

SandboxTypeOK ==
  /\ run \in 0 .. MaxRuns /\ step \in Steps
  /\ container \in [Runs -> [state : States, controls : SUBSET Controls]]
  /\ stranded \subseteq Runs

Underway == step # "idle" => run \in Runs
NotYetMade == \A r \in Runs : r > run => container[r].state = "none"
StartedAsInspected == step = "starting" => container[run].controls = Controls
OnlyOneIsHeld ==
  \A r \in Runs \ stranded : container[r].state # "none" => r = run /\ step \in Holding

SandboxInv ==
  /\ SandboxTypeOK /\ Underway /\ NotYetMade /\ StartedAsInspected
  /\ NothingRunsUncontained /\ OnlyOneIsHeld

LEMMA SandboxStarts == SandboxInit => SandboxInv
BY MaxRunsIsNatural DEF SandboxInit, SandboxInv, SandboxTypeOK, Underway, NotYetMade, StartedAsInspected,
   NothingRunsUncontained, OnlyOneIsHeld, NoContainer, Runs, Steps, States

LEMMA SandboxSteps == SandboxInv /\ [SandboxNext]_sandboxVars => SandboxInv'
<1> SUFFICES ASSUME SandboxInv, [SandboxNext]_sandboxVars PROVE SandboxInv' OBVIOUS
<1> USE MaxRunsIsNatural DEF SandboxInv, SandboxTypeOK, Underway, NotYetMade, StartedAsInspected,
      NothingRunsUncontained, OnlyOneIsHeld, Runs, Steps, States, Holding
<1>1. CASE Creates BY <1>1 DEF Creates, Container
<1>2. CASE CreateFails
  <2>1. run' = run + 1 /\ run' \in Runs /\ step = "idle" /\ step' = "reporting" BY <1>2 DEF CreateFails
  <2>2. CASE UNCHANGED <<container, stranded>> BY <1>2, <2>1, <2>2
  <2>3. CASE container' = [container EXCEPT ![run'] = Container("created", Controls)]
             /\ stranded' = stranded \cup {run'}
    BY <1>2, <2>1, <2>3 DEF Container
  <2> QED BY <1>2, <2>2, <2>3 DEF CreateFails
<1>3. CASE InspectsControls BY <1>3 DEF InspectsControls, ThenRemove
<1>4. CASE InspectFails BY <1>4 DEF InspectFails, ThenRemove
<1>5. CASE Starts
  <2>1. run \in Runs /\ container' \in [Runs -> [state : States, controls : SUBSET Controls]]
    BY <1>5 DEF Starts, InState
  <2>2. container'[run].state = "running" /\ container'[run].controls = Controls
    BY <1>5 DEF Starts, InState
  <2>3. \A r \in Runs : r # run => container'[r] = container[r] BY <1>5 DEF Starts, InState
  <2> QED BY <1>5, <2>1, <2>2, <2>3 DEF Starts
<1>6. CASE StartFails BY <1>6 DEF StartFails, ThenRemove
<1>7. CASE Returns BY <1>7 DEF Returns, ThenRemove
<1>8. CASE TimesOut BY <1>8 DEF TimesOut, ThenRemove
<1>9. CASE Removes BY <1>9 DEF Removes, NoContainer
<1>10. CASE RemoveFails
  <2>1. run' = run /\ run \in Runs /\ step' = "reporting" BY <1>10 DEF RemoveFails
  <2>2. CASE stranded' = stranded \cup {run} /\ UNCHANGED container BY <2>1, <2>2
  <2>3. CASE container' = [container EXCEPT ![run] = NoContainer] /\ UNCHANGED stranded
    BY <2>1, <2>3 DEF NoContainer
  <2> QED BY <1>10, <2>2, <2>3 DEF RemoveFails
<1>11. CASE Reports BY <1>11 DEF Reports
<1>12. CASE Killed BY <1>12 DEF Killed, State
<1>13. CASE \E r \in Runs : ProgramEnds(r)
  <2>1. PICK r \in Runs : ProgramEnds(r) BY <1>13
  <2>2. PICK s \in {"succeeded", "crashed"} : container' = [container EXCEPT ![r].state = s]
    BY <2>1 DEF ProgramEnds
  <2>3. container' \in [Runs -> [state : States, controls : SUBSET Controls]] BY <2>2
  <2>4. container'[r].state = s /\ container'[r].controls = container[r].controls BY <2>2
  <2>5. \A q \in Runs : q # r => container'[q] = container[q] BY <2>2
  <2> QED BY <2>1, <2>3, <2>4, <2>5 DEF ProgramEnds
<1>14. CASE UNCHANGED sandboxVars BY <1>14 DEF sandboxVars
<1> QED BY <1>1, <1>2, <1>3, <1>4, <1>5, <1>6, <1>7, <1>8, <1>9, <1>10, <1>11, <1>12, <1>13, <1>14
        DEF SandboxNext, Call

(* No program runs in a container one of whose controls is not effective,   *)
(* whatever the engine makes of the options it is given and whichever of    *)
(* its calls fail (docker.py:169).                                          *)
THEOREM SandboxIsContained == SandboxSpec => []NothingRunsUncontained
<1>1. SandboxInv => NothingRunsUncontained BY DEF SandboxInv
<1> QED BY <1>1, SandboxStarts, SandboxSteps, PTL DEF SandboxSpec

(* A container is left only by a create whose answer was lost, an rm that   *)
(* failed or a caller that died; every other way out of run_python removes  *)
(* it (docker.py:136, :199).                                                *)
THEOREM LeftoversHaveACause == SandboxSpec => []LeftoversAreExplained
<1>1. SandboxInv => LeftoversAreExplained BY DEF SandboxInv, OnlyOneIsHeld, LeftoversAreExplained, Holding
<1> QED BY <1>1, SandboxStarts, SandboxSteps, PTL DEF SandboxSpec

-----------------------------------------------------------------------------
(* The demo.  A trace is what the run wrote if every field is bound to      *)
(* something outside the file: the journal, the note and the plan that      *)
(* follows from it, or the second judgment.                                 *)

IsRecord(r, fields) == r = [f \in fields |-> r[f]]
LocalFields == {"note", "actions", "initial", "final", "action_hash"}
TraceFields == {"instruction", "actions", "decisions", "sequence", "request", "request_digest",
                "response", "receipt", "model_event", "tool_event", "final_hash", "result"}
ResponseFields == {"identity", "trust", "text"}
EventFields == {"id", "hash"}
DecisionFields == {"id", "identity", "details", "authority", "policy", "allowed"}

AreDecisions(d) == IsRecord(d, 1 .. 3) /\ \A i \in 1 .. 3 : IsRecord(d[i], DecisionFields)
Shaped(t) ==
  /\ IsRecord(t, TraceFields)
  /\ IsRecord(t.response, ResponseFields)
  /\ IsRecord(t.model_event, EventFields) /\ IsRecord(t.tool_event, EventFields)
  /\ AreDecisions(t.decisions)

ThePlan == [i \in 1 .. 3 |-> Planned(Plan[i])]
JudgedUpTo(n) == [i \in 1 .. n |-> Judge(ThePlan[i])]

IsLog(s) == \E S : s \in Seq(S)
ModelEvent == Event("model.inference.completed", ModelPayload(ModelFields))
Bindings == {"model.inference.completed", "tool.result.recorded"}
LoggedUpTo(s, n) ==
  /\ IsLog(s) /\ Len(s) = 2 + 2 * n /\ s[1] = ModelEvent
  /\ \A k \in 2 .. Len(s) : s[k].type \notin Bindings
  /\ \A i \in 1 .. n : /\ s[2 * i + 1] = Event("authority.decided", Judge(ThePlan[i]))
                       /\ s[2 * i + 2] = Event("policy.decided", Judge(ThePlan[i]))
\* and the result at the end
Closed(s) ==
  /\ IsLog(s) /\ Len(s) = 9 /\ s[1] = ModelEvent /\ s[9] = Event("tool.result.recorded", recorded.result)
  /\ \A k \in 2 .. 8 : s[k].type \notin Bindings

Unplanned == {"empty", "planning"}
Preparing == {"copying", "measuring", "journaling"}
Decided == {"guarded", "writing", "recording"}
Restoring == {"restoring", "loading"}
Compared == {"judged", "answering", "reporting"}
Replaying == {"feeding", "judging"} \cup Compared
Stages == Unplanned \cup Preparing \cup {"guarding"} \cup Decided \cup Restoring \cup Replaying \cup {"done", "failed"}

Kinds ==
  /\ pc \in Stages /\ IsRecord(local, LocalFields)
  /\ IsRecord(journal, Sides) /\ IsRecord(decisions, Sides) /\ IsRecord(canary, Sides)
Forbidden ==
  /\ \A s \in Sides : canary[s] \subseteq granted \cap eligible
  /\ pc # "failed" => \A s \in Sides : canary[s] = {}
  /\ pc = "writing" => /\ "read" \notin granted \cap eligible /\ "send" \notin granted \cap eligible
                       /\ "write" \in granted \cap eligible
PlanIsTheNotes == pc \notin Unplanned \cup {"failed"} => local.actions = ThePlan

SourceIsJudged ==
  /\ pc \in Unplanned \cup Preparing => decisions["source"] = <<>> /\ journal["source"] = <<>>
  /\ pc = "guarding" =>
       \E n \in 0 .. 2 : decisions["source"] = JudgedUpTo(n) /\ LoggedUpTo(journal["source"], n)
  /\ pc \in Decided => decisions["source"] = JudgedUpTo(3) /\ LoggedUpTo(journal["source"], 3)
  /\ pc \in Restoring \cup Replaying => decisions["source"] = JudgedUpTo(3)
ReplayIsJudged ==
  /\ pc \in Stages \ (Compared \cup {"judging", "done", "failed"}) => decisions["replay"] = <<>>
  /\ pc = "judging" => \E n \in 0 .. 2 : decisions["replay"] = JudgedUpTo(n)
  /\ pc \in Compared => decisions["replay"] = JudgedUpTo(3)

TraceIsBound ==
  pc \in Restoring \cup Replaying =>
    /\ Closed(journal["source"])
    /\ recorded = DemoReplayTrace(recorded.result, journal["source"]) /\ Valid(recorded)
    /\ local.action_hash = recorded.result.material.action_hash
    /\ local.final = recorded.result.material.final
FileHasItsShape == pc \in Restoring => Shaped(trace)
LoadedIsBound ==
  pc \in Replaying => Shaped(loaded) /\ Valid(loaded) /\ Bound(loaded, journal["source"])
LoadedIsReproduced == pc \in {"judging"} \cup Compared => loaded.actions = ThePlan
ReportIsLast == pc # "done" => report = None

DemoInv ==
  /\ Kinds /\ Forbidden /\ PlanIsTheNotes /\ SourceIsJudged /\ ReplayIsJudged
  /\ TraceIsBound /\ FileHasItsShape /\ LoadedIsBound /\ LoadedIsReproduced
  /\ ReportIsLast /\ MatchedMeansFaithful

-----------------------------------------------------------------------------
(* Records and sequences                                                    *)

LEMMA EqualFields ==
  ASSUME NEW r, NEW s, NEW D, IsRecord(r, D), IsRecord(s, D), \A f \in D : r[f] = s[f]
  PROVE  r = s
BY DEF IsRecord

LEMMA OneField ==
  ASSUME NEW r, NEW D, IsRecord(r, D), NEW f, NEW x
  PROVE  /\ IsRecord([r EXCEPT ![f] = x], D)
         /\ f \in D => [r EXCEPT ![f] = x][f] = x
         /\ \A g \in D : g # f => [r EXCEPT ![f] = x][g] = r[g]
BY DEF IsRecord

LEMMA DigestTells ==
  ASSUME NEW kind, NEW x, NEW y, Digest(kind, x) = Digest(kind, y)
  PROVE  x = y
BY DEF Digest

LEMMA NothingJudged == JudgedUpTo(0) = <<>> /\ Len(JudgedUpTo(3)) = 3
<1> DEFINE s == JudgedUpTo(0)
<1>1. s \in Seq({Judge(ThePlan[i]) : i \in 1 .. 3}) /\ Len(s) = 0 BY DEF JudgedUpTo
<1> QED BY <1>1, EmptySeq DEF JudgedUpTo

LEMMA JudgedOneMore ==
  ASSUME NEW n \in 0 .. 2
  PROVE  /\ Len(JudgedUpTo(n)) = n
         /\ Append(JudgedUpTo(n), Judge(ThePlan[n + 1])) = JudgedUpTo(n + 1)
<1> DEFINE S == {Judge(ThePlan[i]) : i \in 1 .. 3}
           s == JudgedUpTo(n)
           e == Judge(ThePlan[n + 1])
           t == JudgedUpTo(n + 1)
<1>1. s \in Seq(S) /\ Len(s) = n /\ \A i \in 1 .. n : s[i] = Judge(ThePlan[i]) BY DEF JudgedUpTo
<1>2. t \in Seq(S) /\ Len(t) = n + 1 /\ \A i \in 1 .. n + 1 : t[i] = Judge(ThePlan[i]) BY DEF JudgedUpTo
<1>3. e \in S OBVIOUS
<1>4. t[n + 1] = e BY <1>2
<1>5. \A i \in 1 .. n : t[i] = s[i] BY <1>1, <1>2
<1> HIDE DEF S, s, e, t
<1>6. Append(s, e) \in Seq(S) /\ Len(Append(s, e)) = n + 1
      /\ \A i \in 1 .. n : Append(s, e)[i] = s[i]
      /\ Append(s, e)[n + 1] = e
  BY <1>1, <1>3, AppendProperties
<1>7. \A i \in 1 .. Len(t) : Append(s, e)[i] = t[i] BY <1>2, <1>4, <1>5, <1>6
<1>8. Append(s, e) = t BY <1>2, <1>6, <1>7, SeqEqual
<1> QED BY <1>1, <1>8 DEF s, e, t

LEMMA LoggedTwice ==
  ASSUME NEW s, NEW a, NEW b, IsLog(s)
  PROVE  /\ Len(s) \in Nat /\ IsLog(s \o <<a, b>>) /\ Len(s \o <<a, b>>) = Len(s) + 2
         /\ \A k \in 1 .. Len(s) : (s \o <<a, b>>)[k] = s[k]
         /\ (s \o <<a, b>>)[Len(s) + 1] = a /\ (s \o <<a, b>>)[Len(s) + 2] = b
<1>1. PICK S : s \in Seq(S) BY DEF IsLog
<1> DEFINE T == S \cup {a, b}
           u == <<a, b>>
<1>2. s \in Seq(T) /\ u \in Seq(T) /\ Len(u) = 2 /\ u[1] = a /\ u[2] = b BY <1>1
<1> HIDE DEF T, u
<1>3. s \o u \in Seq(T) /\ Len(s \o u) = Len(s) + Len(u) BY <1>2, ConcatProperties, Zenon
<1>4. \A k \in 1 .. Len(s) + Len(u) : (s \o u)[k] = IF k <= Len(s) THEN s[k] ELSE u[k - Len(s)]
  BY <1>2, ConcatProperties, Zenon
<1>5. Len(s) \in Nat BY <1>2
<1> QED BY <1>2, <1>3, <1>4, <1>5 DEF IsLog, u

LEMMA LoggedOnce ==
  ASSUME NEW s, NEW a, IsLog(s)
  PROVE  /\ Len(s) \in Nat /\ IsLog(Append(s, a)) /\ Len(Append(s, a)) = Len(s) + 1
         /\ \A k \in 1 .. Len(s) : Append(s, a)[k] = s[k]
         /\ Append(s, a)[Len(s) + 1] = a
<1>1. PICK S : s \in Seq(S) BY DEF IsLog
<1> DEFINE T == S \cup {a}
<1>2. s \in Seq(T) /\ a \in T BY <1>1
<1> HIDE DEF T
<1>3. Append(s, a) \in Seq(T) BY <1>2
<1> QED BY <1>2, <1>3, AppendProperties DEF IsLog

LEMMA LoggedOneMore ==
  ASSUME NEW s, NEW n \in 0 .. 2, LoggedUpTo(s, n), NEW d, d = Judge(ThePlan[n + 1])
  PROVE  LoggedUpTo(s \o <<Event("authority.decided", d), Event("policy.decided", d)>>, n + 1)
<1> DEFINE a == Event("authority.decided", d)
           b == Event("policy.decided", d)
           t == s \o <<a, b>>
<1>1. a.type \notin Bindings /\ b.type \notin Bindings BY DEF Event, Bindings
<1> HIDE DEF a, b
<1>2. /\ IsLog(t) /\ Len(t) = 4 + 2 * n
      /\ \A k \in 1 .. 2 + 2 * n : t[k] = s[k]
      /\ t[3 + 2 * n] = a /\ t[4 + 2 * n] = b
  <2>1. IsLog(s) /\ Len(s) = 2 + 2 * n BY DEF LoggedUpTo
  <2>2. IsLog(s) BY <2>1
  <2>3. /\ IsLog(t) /\ Len(t) = Len(s) + 2
        /\ \A k \in 1 .. Len(s) : t[k] = s[k]
        /\ t[Len(s) + 1] = a /\ t[Len(s) + 2] = b
    BY <2>2, LoggedTwice
  <2> HIDE DEF t
  <2> QED BY <2>1, <2>3
<1> HIDE DEF t
<1>3. t[1] = ModelEvent BY <1>2 DEF LoggedUpTo
<1>4. \A k \in 2 .. Len(t) : t[k].type \notin Bindings BY <1>1, <1>2 DEF LoggedUpTo
<1>5. \A i \in 1 .. n : /\ t[2 * i + 1] = Event("authority.decided", Judge(ThePlan[i]))
                        /\ t[2 * i + 2] = Event("policy.decided", Judge(ThePlan[i]))
  BY <1>2 DEF LoggedUpTo
<1>6. t[2 * (n + 1) + 1] = a /\ t[2 * (n + 1) + 2] = b BY <1>2
<1>7. \A i \in 1 .. n + 1 : /\ t[2 * i + 1] = Event("authority.decided", Judge(ThePlan[i]))
                            /\ t[2 * i + 2] = Event("policy.decided", Judge(ThePlan[i]))
  <2> TAKE i \in 1 .. n + 1
  <2>1. CASE i \in 1 .. n BY <1>5, <2>1
  <2>2. CASE i = n + 1 BY <1>6, <2>2 DEF a, b
  <2> QED BY <2>1, <2>2
<1>8. Len(t) = 2 + 2 * (n + 1) BY <1>2
<1>9. LoggedUpTo(t, n + 1) BY <1>2, <1>3, <1>4, <1>7, <1>8 DEF LoggedUpTo
<1> QED BY <1>9 DEF t, a, b

-----------------------------------------------------------------------------
(* The steps of the demo                                                    *)

\* what does not depend on anything that a step changes
LEMMA Untouched ==
  ASSUME UNCHANGED <<granted, eligible, local, recorded>>,
         journal'["source"] = journal["source"], decisions'["source"] = decisions["source"]
  PROVE  /\ \A n : JudgedUpTo(n)' = JudgedUpTo(n)
         /\ \A n : LoggedUpTo(journal["source"], n)' <=> LoggedUpTo(journal["source"], n)
         /\ Closed(journal["source"])' <=> Closed(journal["source"])
         /\ DemoReplayTrace(recorded.result, journal["source"])' = DemoReplayTrace(recorded.result, journal["source"])
<1>1. \A n : JudgedUpTo(n)' = JudgedUpTo(n) BY DEF JudgedUpTo, Judge
<1>2. ModelFields' = ModelFields BY DEF ModelFields
<1>3. ModelEvent' = ModelEvent BY <1>2 DEF ModelEvent
<1>4. \A n : LoggedUpTo(journal["source"], n)' <=> LoggedUpTo(journal["source"], n)
  BY <1>3 DEF LoggedUpTo, Judge
<1>5. Closed(journal["source"])' <=> Closed(journal["source"]) BY <1>3 DEF Closed
<1>6. DemoReplayTrace(recorded.result, journal["source"])' = DemoReplayTrace(recorded.result, journal["source"])
  BY <1>2 DEF DemoReplayTrace
<1> QED BY <1>1, <1>4, <1>5, <1>6

LEMMA NoReportYet ==
  ASSUME DemoInv, pc # "done", report' = report
  PROVE  ReportIsLast' /\ MatchedMeansFaithful'
<1>1. report' = None BY DEF DemoInv, ReportIsLast
<1> QED BY <1>1 DEF ReportIsLast, MatchedMeansFaithful, None

\* steps that change neither what was judged nor what was recorded
Moves ==
  \/ pc' = pc
  \/ pc = "empty" /\ pc' = "planning"
  \/ pc = "copying" /\ pc' = "measuring"
  \/ pc = "writing" /\ pc' \in {"recording", "failed"}
  \/ pc = "restoring" /\ pc' = "loading"
  \/ pc = "answering" /\ pc' = "reporting"
LEMMA MovesKeepInv ==
  ASSUME DemoInv, Moves, pc # "done",
         UNCHANGED <<granted, eligible, local, recorded, trace, loaded, decisions, canary, report>>,
         journal'["source"] = journal["source"], IsRecord(journal', Sides)
  PROVE  DemoInv'
<1> USE DEF DemoInv, Moves, Unplanned, Preparing, Decided, Restoring, Compared, Replaying, Stages
<1>1. Kinds' BY DEF Kinds
<1>2. Forbidden' /\ PlanIsTheNotes' BY DEF Forbidden, PlanIsTheNotes
<1>3. SourceIsJudged' /\ ReplayIsJudged' BY Untouched DEF SourceIsJudged, ReplayIsJudged
<1>4. TraceIsBound' BY Untouched DEF TraceIsBound
<1>5. FileHasItsShape' /\ LoadedIsBound' /\ LoadedIsReproduced'
  BY DEF FileHasItsShape, LoadedIsBound, LoadedIsReproduced
<1> QED BY <1>1, <1>2, <1>3, <1>4, <1>5, NoReportYet

LEMMA SourceMoves ==
  ASSUME DemoInv, Prepare \/ CopyFixture \/ ExecuteWrite \/ WriteFails
  PROVE  DemoInv'
<1>1. /\ Moves /\ pc # "done" /\ journal' = journal
      /\ UNCHANGED <<granted, eligible, local, recorded, trace, loaded, decisions, canary, report>>
  BY DEF Prepare, CopyFixture, ExecuteWrite, WriteFails, Moves, At, Fail, Goto, inputs, results
<1> QED BY <1>1, MovesKeepInv DEF DemoInv, Kinds

LEMMA ReplayMoves ==
  ASSUME DemoInv, RestoreFixture \/ NothingFed \/ ChangeFile \/ (UNCHANGED vars /\ pc # "done")
  PROVE  DemoInv'
<1>1. /\ Moves /\ pc # "done" /\ journal' = journal
      /\ UNCHANGED <<granted, eligible, local, recorded, trace, loaded, decisions, canary, report>>
  BY DEF RestoreFixture, NothingFed, ChangeFile, Moves, At, Goto, vars, inputs, results
<1> QED BY <1>1, MovesKeepInv DEF DemoInv, Kinds

LEMMA ToolResultMoves == ASSUME DemoInv, FeedToolResult PROVE DemoInv'
<1>1. /\ Moves /\ pc # "done"
      /\ UNCHANGED <<granted, eligible, local, recorded, trace, loaded, decisions, canary, report>>
  BY DEF FeedToolResult, Moves, At, Goto, inputs
<1>2. PICK x : journal' = [journal EXCEPT !["replay"] = x] BY DEF FeedToolResult, Record
<1>3. IsRecord(journal', Sides) /\ journal'["source"] = journal["source"]
  BY <1>2 DEF DemoInv, Kinds, Sides, IsRecord
<1> QED BY <1>1, <1>3, MovesKeepInv

LEMMA ProposePlanKeepsInv == ASSUME DemoInv, ProposePlan PROVE DemoInv'
<1> USE DEF DemoInv, Unplanned, Preparing, Decided, Restoring, Compared, Replaying, Stages
<1>1. /\ pc = "planning" /\ pc' \in {"copying", "failed"}
      /\ UNCHANGED <<granted, eligible, recorded, trace, loaded, decisions, canary, journal, report>>
  BY DEF ProposePlan, Fail, Goto, inputs, results
<1>2. PICK note, actions : local' = [local EXCEPT !.note = note, !.actions = actions] /\ actions = Materialize("plan", note)
  BY DEF ProposePlan, Response
<1>3. IsRecord(local', LocalFields) /\ local'.actions = actions
  BY <1>2 DEF Kinds, IsRecord, LocalFields
<1>4. pc' = "copying" => local'.actions = ThePlan
  <2>1. pc' = "copying" => local'.actions # <<>> BY DEF ProposePlan, Fail, Goto
  <2> QED BY <1>2, <1>3, <2>1 DEF Materialize, ThePlan
<1>5. Kinds' BY <1>1, <1>3 DEF Kinds
<1>6. Forbidden' /\ PlanIsTheNotes' BY <1>1, <1>4 DEF Forbidden, PlanIsTheNotes
<1>7. SourceIsJudged' /\ ReplayIsJudged' BY <1>1 DEF SourceIsJudged, ReplayIsJudged
<1>8. TraceIsBound' /\ FileHasItsShape' /\ LoadedIsBound' /\ LoadedIsReproduced'
  BY <1>1 DEF TraceIsBound, FileHasItsShape, LoadedIsBound, LoadedIsReproduced
<1> QED BY <1>1, <1>5, <1>6, <1>7, <1>8, NoReportYet

LEMMA MeasureKeepsInv == ASSUME DemoInv, MeasureInitial PROVE DemoInv'
<1> USE DEF DemoInv, Unplanned, Preparing, Decided, Restoring, Compared, Replaying, Stages
<1>1. /\ pc = "measuring" /\ pc' = "journaling"
      /\ UNCHANGED <<granted, eligible, recorded, trace, loaded, decisions, canary, journal, report>>
  BY DEF MeasureInitial, At, Goto, inputs, results
<1>2. PICK tree : local' = [local EXCEPT !.initial = tree] BY DEF MeasureInitial
<1>3. IsRecord(local', LocalFields) /\ local'.actions = local.actions
  BY <1>2 DEF Kinds, IsRecord, LocalFields
<1>5. Kinds' BY <1>1, <1>3 DEF Kinds
<1>6. Forbidden' /\ PlanIsTheNotes' BY <1>1, <1>3 DEF Forbidden, PlanIsTheNotes
<1>7. SourceIsJudged' /\ ReplayIsJudged' BY <1>1 DEF SourceIsJudged, ReplayIsJudged
<1>8. TraceIsBound' /\ FileHasItsShape' /\ LoadedIsBound' /\ LoadedIsReproduced'
  BY <1>1 DEF TraceIsBound, FileHasItsShape, LoadedIsBound, LoadedIsReproduced
<1> QED BY <1>1, <1>5, <1>6, <1>7, <1>8, NoReportYet

LEMMA JournalPlanKeepsInv == ASSUME DemoInv, JournalPlan PROVE DemoInv'
<1> USE DEF DemoInv, Unplanned, Preparing, Decided, Restoring, Compared, Replaying, Stages
<1>1. /\ pc = "journaling" /\ pc' = "guarding"
      /\ UNCHANGED <<granted, eligible, recorded, trace, loaded, decisions, canary, local, report>>
  BY DEF JournalPlan, At, Goto, inputs, results
<1> DEFINE a == ModelEvent
           b == Event("agent.plan.proposed", local.actions)
<1>2. journal' = [journal EXCEPT !["source"] = @ \o <<a, b>>]
  BY DEF JournalPlan, Record, ModelEvent
<1>3. journal["source"] = <<>> /\ decisions["source"] = JudgedUpTo(0)
  BY <1>1, NothingJudged DEF SourceIsJudged
<1>4. b.type \notin Bindings BY DEF Event, Bindings
<1> HIDE DEF a, b
<1> DEFINE s == <<>> \o <<a, b>>
<1>5. IsLog(<<>>) /\ Len(<<>>) = 0
  <2>1. <<>> \in Seq({}) OBVIOUS
  <2> QED BY <2>1 DEF IsLog
<1>6. IsLog(s) /\ Len(s) = 2 /\ s[1] = a /\ s[2] = b
  <2>1. s \in Seq({a, b}) /\ Len(s) = 2 /\ s[1] = a /\ s[2] = b OBVIOUS
  <2> QED BY <2>1 DEF IsLog
<1>7. IsRecord(journal', Sides) /\ journal'["source"] = s
  BY <1>2, <1>3 DEF Kinds, Sides, IsRecord
<1> HIDE DEF s
<1>8. ModelEvent' = a BY <1>1 DEF a, ModelEvent, ModelFields
<1>9. LoggedUpTo(journal["source"], 0)'
  <2>1. \A k \in 2 .. Len(s) : s[k].type \notin Bindings BY <1>4, <1>6
  <2>2. Len(s) = 2 + 2 * 0 /\ s[1] = ModelEvent' /\ 1 .. 0 = {} BY <1>6, <1>8
  <2> QED BY <1>6, <1>7, <2>1, <2>2 DEF LoggedUpTo
<1>10. decisions'["source"] = JudgedUpTo(0)' BY <1>1, <1>3 DEF JudgedUpTo, Judge
<1>11. Kinds' BY <1>1, <1>7 DEF Kinds
<1>12. Forbidden' /\ PlanIsTheNotes' BY <1>1 DEF Forbidden, PlanIsTheNotes
<1>13. SourceIsJudged' /\ ReplayIsJudged' BY <1>1, <1>9, <1>10 DEF SourceIsJudged, ReplayIsJudged
<1>14. TraceIsBound' /\ FileHasItsShape' /\ LoadedIsBound' /\ LoadedIsReproduced'
  BY <1>1 DEF TraceIsBound, FileHasItsShape, LoadedIsBound, LoadedIsReproduced
<1> QED BY <1>1, <1>11, <1>12, <1>13, <1>14, NoReportYet

(* One turn of the loop over the actions judges the next of them.           *)
LEMMA OneIsJudged ==
  ASSUME NEW side \in Sides, NEW n \in 0 .. 2, NEW done,
         IsRecord(journal, Sides), IsRecord(decisions, Sides),
         decisions[side] = JudgedUpTo(n), Evaluate(side, ThePlan, done)
  PROVE  LET d == Judge(ThePlan[n + 1]) IN
         /\ IsRecord(decisions', Sides) /\ decisions'[side] = JudgedUpTo(n + 1)
         /\ IsRecord(journal', Sides)
         /\ journal'[side] = journal[side] \o <<Event("authority.decided", d), Event("policy.decided", d)>>
         /\ \A s \in Sides : s # side => decisions'[s] = decisions[s] /\ journal'[s] = journal[s]
         /\ pc' = IF n = 2 THEN done ELSE pc
<1> DEFINE d == Judge(ThePlan[n + 1])
           es == <<Event("authority.decided", d), Event("policy.decided", d)>>
<1>1. Len(decisions[side]) = n /\ Append(decisions[side], d) = JudgedUpTo(n + 1) BY JudgedOneMore
<1>2. Len(ThePlan) = 3 BY DEF ThePlan
<1>3. /\ decisions' = [decisions EXCEPT ![side] = Append(@, d)]
      /\ journal' = [journal EXCEPT ![side] = @ \o es]
      /\ pc' = IF n + 1 = 3 THEN done ELSE pc
  BY <1>1, <1>2 DEF Evaluate, Record, Goto
<1> HIDE DEF d, es
<1>4. /\ IsRecord(decisions', Sides) /\ decisions'[side] = Append(decisions[side], d)
      /\ \A s \in Sides : s # side => decisions'[s] = decisions[s]
  BY <1>3 DEF IsRecord
<1>5. /\ IsRecord(journal', Sides) /\ journal'[side] = journal[side] \o es
      /\ \A s \in Sides : s # side => journal'[s] = journal[s]
  BY <1>3 DEF IsRecord
<1> QED BY <1>1, <1>3, <1>4, <1>5 DEF d, es

LEMMA GuardKeepsInv == ASSUME DemoInv, Guard PROVE DemoInv'
<1> USE DEF DemoInv, Unplanned, Preparing, Decided, Restoring, Compared, Replaying, Stages
<1>1. /\ pc = "guarding" /\ Evaluate("source", ThePlan, "guarded")
      /\ UNCHANGED <<granted, eligible, recorded, trace, loaded, canary, local, report>>
  BY DEF Guard, PlanIsTheNotes, Evaluate, inputs, results
<1>2. PICK n \in 0 .. 2 : decisions["source"] = JudgedUpTo(n) /\ LoggedUpTo(journal["source"], n)
  BY <1>1 DEF SourceIsJudged
<1> DEFINE d == Judge(ThePlan[n + 1])
           log == journal["source"] \o <<Event("authority.decided", d), Event("policy.decided", d)>>
<1>3. /\ IsRecord(decisions', Sides) /\ decisions'["source"] = JudgedUpTo(n + 1)
      /\ IsRecord(journal', Sides) /\ journal'["source"] = log
      /\ decisions'["replay"] = decisions["replay"]
      /\ pc' = IF n = 2 THEN "guarded" ELSE pc
  BY <1>1, <1>2, OneIsJudged DEF Kinds, Sides
<1>4. LoggedUpTo(log, n + 1) BY <1>2, LoggedOneMore
<1> HIDE DEF log
<1>5. LoggedUpTo(journal["source"], n + 1)'
  BY <1>1, <1>3, <1>4 DEF LoggedUpTo, ModelEvent, ModelFields, Judge
<1>6. decisions'["source"] = JudgedUpTo(n + 1)' BY <1>1, <1>3 DEF JudgedUpTo, Judge
<1>7. Kinds' BY <1>1, <1>3 DEF Kinds
<1>8. Forbidden' /\ PlanIsTheNotes' BY <1>1, <1>3 DEF Forbidden, PlanIsTheNotes
<1>9. SourceIsJudged'
  <2>1. CASE n = 2 BY <1>1, <1>3, <1>5, <1>6, <2>1 DEF SourceIsJudged
  <2>2. CASE n # 2
    <3>1. n + 1 \in 0 .. 2 BY <2>2
    <3> QED BY <1>1, <1>3, <1>5, <1>6, <2>2, <3>1 DEF SourceIsJudged
  <2> QED BY <2>1, <2>2
<1>10. ReplayIsJudged' BY <1>1, <1>3 DEF ReplayIsJudged
<1>11. TraceIsBound' /\ FileHasItsShape' /\ LoadedIsBound' /\ LoadedIsReproduced'
  BY <1>1, <1>3 DEF TraceIsBound, FileHasItsShape, LoadedIsBound, LoadedIsReproduced
<1> QED BY <1>1, <1>3, <1>7, <1>8, <1>9, <1>10, <1>11, NoReportYet

LEMMA ReplayGuardKeepsInv == ASSUME DemoInv, ReplayGuard PROVE DemoInv'
<1> USE DEF DemoInv, Unplanned, Preparing, Decided, Restoring, Compared, Replaying, Stages
<1>1. /\ pc = "judging" /\ Evaluate("replay", ThePlan, "judged")
      /\ UNCHANGED <<granted, eligible, recorded, trace, loaded, canary, local, report>>
  BY DEF ReplayGuard, LoadedIsReproduced, Evaluate, inputs, results
<1>2. PICK n \in 0 .. 2 : decisions["replay"] = JudgedUpTo(n) BY <1>1 DEF ReplayIsJudged
<1>3. /\ IsRecord(decisions', Sides) /\ decisions'["replay"] = JudgedUpTo(n + 1)
      /\ IsRecord(journal', Sides) /\ journal'["source"] = journal["source"]
      /\ decisions'["source"] = decisions["source"]
      /\ pc' = IF n = 2 THEN "judged" ELSE pc
  BY <1>1, <1>2, OneIsJudged DEF Kinds, Sides
<1>4. decisions'["replay"] = JudgedUpTo(n + 1)' BY <1>1, <1>3 DEF JudgedUpTo, Judge
<1>5. Kinds' BY <1>1, <1>3 DEF Kinds
<1>6. Forbidden' /\ PlanIsTheNotes' BY <1>1, <1>3 DEF Forbidden, PlanIsTheNotes
<1>7. SourceIsJudged' BY <1>1, <1>3, Untouched DEF SourceIsJudged
<1>8. ReplayIsJudged'
  <2>1. CASE n = 2 BY <1>1, <1>3, <1>4, <2>1 DEF ReplayIsJudged
  <2>2. CASE n # 2
    <3>1. n + 1 \in 0 .. 2 BY <2>2
    <3> QED BY <1>1, <1>3, <1>4, <2>2, <3>1 DEF ReplayIsJudged
  <2> QED BY <2>1, <2>2
<1>9. TraceIsBound' BY <1>1, <1>3, Untouched DEF TraceIsBound
<1>10. FileHasItsShape' /\ LoadedIsBound' /\ LoadedIsReproduced'
  BY <1>1, <1>3 DEF FileHasItsShape, LoadedIsBound, LoadedIsReproduced
<1> QED BY <1>1, <1>3, <1>5, <1>6, <1>7, <1>8, <1>9, <1>10, NoReportYet

(* What the end of the loop finds allowed is what both guards allow.        *)
LEMMA AllowedMeansBoth ==
  ASSUME NEW side \in Sides, decisions[side] = JudgedUpTo(3), NEW id \in {"read", "send", "write"}
  PROVE  Allowed(side, id) <=> id \in granted \cap eligible
<1>1. \A i \in 1 .. 3 : decisions[side][i].id = Plan[i] /\ decisions[side][i].allowed = (Plan[i] \in granted \cap eligible)
  BY DEF JudgedUpTo, Judge, ThePlan, Planned
<1>2. DOMAIN decisions[side] = 1 .. 3 BY DEF JudgedUpTo
<1>3. Plan[1] = "read" /\ Plan[2] = "send" /\ Plan[3] = "write" BY DEF Plan
<1>4. PICK k \in 1 .. 3 : Plan[k] = id BY <1>3
<1> QED BY <1>1, <1>2, <1>4 DEF Allowed

LEMMA AggregateEnds ==
  ASSUME NEW side \in Sides, decisions[side] = JudgedUpTo(3), NEW next,
         Forbidden, pc # "failed", IsRecord(canary, Sides), Aggregate(side, next)
  PROVE  /\ IsRecord(canary', Sides)
         /\ \A s \in Sides : canary'[s] \subseteq granted \cap eligible
         /\ \/ pc' = "failed"
            \/ /\ pc' = next /\ \A s \in Sides : canary'[s] = {}
               /\ "read" \notin granted \cap eligible /\ "send" \notin granted \cap eligible
               /\ "write" \in granted \cap eligible
         /\ UNCHANGED <<granted, eligible, journal, decisions, local, trace, recorded, loaded, report>>
<1> DEFINE done == CASE Allowed(side, "read") -> {"read"}
                     [] ~Allowed(side, "read") /\ Allowed(side, "send") -> {"send"}
                     [] OTHER -> {}
<1>1. canary' = [canary EXCEPT ![side] = done] BY DEF Aggregate
<1>2. /\ Allowed(side, "read") <=> "read" \in granted \cap eligible
      /\ Allowed(side, "send") <=> "send" \in granted \cap eligible
      /\ Allowed(side, "write") <=> "write" \in granted \cap eligible
  BY AllowedMeansBoth
<1>3. /\ done \subseteq granted \cap eligible
      /\ done = {} => "read" \notin granted \cap eligible /\ "send" \notin granted \cap eligible
  <2>1. CASE Allowed(side, "read") BY <1>2, <2>1
  <2>2. CASE ~Allowed(side, "read") /\ Allowed(side, "send") BY <1>2, <2>2
  <2>3. CASE ~Allowed(side, "read") /\ ~Allowed(side, "send") BY <1>2, <2>3
  <2> QED BY <2>1, <2>2, <2>3
<1> HIDE DEF done
<1>4. IsRecord(canary', Sides) /\ canary'[side] = done /\ \A s \in Sides : s # side => canary'[s] = canary[s]
  BY <1>1 DEF IsRecord
<1>5. IF canary'[side] = {} /\ Allowed(side, "write") THEN pc' = next ELSE pc' = "failed"
  BY DEF Aggregate, Goto, Fail
<1>6. UNCHANGED <<granted, eligible, journal, decisions, local, trace, recorded, loaded, report>>
  BY DEF Aggregate, inputs, results
<1>7. \A s \in Sides : canary'[s] \subseteq granted \cap eligible BY <1>3, <1>4 DEF Forbidden
<1>8. canary'[side] = {} => \A s \in Sides : canary'[s] = {} BY <1>4 DEF Forbidden
<1> QED BY <1>2, <1>3, <1>4, <1>5, <1>6, <1>7, <1>8

LEMMA AggregatedKeepsInv == ASSUME DemoInv, Aggregated PROVE DemoInv'
<1> USE DEF DemoInv, Unplanned, Preparing, Decided, Restoring, Compared, Replaying, Stages
<1>1. pc = "guarded" /\ Aggregate("source", "writing") BY DEF Aggregated
<1>2. /\ IsRecord(canary', Sides)
      /\ \A s \in Sides : canary'[s] \subseteq granted \cap eligible
      /\ \/ pc' = "failed"
         \/ /\ pc' = "writing" /\ \A s \in Sides : canary'[s] = {}
            /\ "read" \notin granted \cap eligible /\ "send" \notin granted \cap eligible
            /\ "write" \in granted \cap eligible
      /\ UNCHANGED <<granted, eligible, journal, decisions, local, trace, recorded, loaded, report>>
  BY <1>1, AggregateEnds DEF SourceIsJudged, Kinds, Sides
<1>3. Kinds' BY <1>2 DEF Kinds
<1>4. Forbidden' /\ PlanIsTheNotes' BY <1>1, <1>2 DEF Forbidden, PlanIsTheNotes
<1>5. SourceIsJudged' /\ ReplayIsJudged' BY <1>1, <1>2, Untouched DEF SourceIsJudged, ReplayIsJudged
<1>6. TraceIsBound' /\ FileHasItsShape' /\ LoadedIsBound' /\ LoadedIsReproduced'
  BY <1>1, <1>2 DEF TraceIsBound, FileHasItsShape, LoadedIsBound, LoadedIsReproduced
<1> QED BY <1>1, <1>2, <1>3, <1>4, <1>5, <1>6, NoReportYet

LEMMA ReplayAggregatedKeepsInv == ASSUME DemoInv, ReplayAggregated PROVE DemoInv'
<1> USE DEF DemoInv, Unplanned, Preparing, Decided, Restoring, Compared, Replaying, Stages
<1>1. pc = "judged" /\ Aggregate("replay", "answering") BY DEF ReplayAggregated
<1>2. /\ IsRecord(canary', Sides)
      /\ \A s \in Sides : canary'[s] \subseteq granted \cap eligible
      /\ pc' = "failed" \/ (pc' = "answering" /\ \A s \in Sides : canary'[s] = {})
      /\ UNCHANGED <<granted, eligible, journal, decisions, local, trace, recorded, loaded, report>>
  BY <1>1, AggregateEnds DEF ReplayIsJudged, Kinds, Sides
<1>3. Kinds' BY <1>2 DEF Kinds
<1>4. Forbidden' /\ PlanIsTheNotes' BY <1>1, <1>2 DEF Forbidden, PlanIsTheNotes
<1>5. SourceIsJudged' /\ ReplayIsJudged' BY <1>1, <1>2, Untouched DEF SourceIsJudged, ReplayIsJudged
<1>6. TraceIsBound' /\ FileHasItsShape' /\ LoadedIsBound' /\ LoadedIsReproduced'
  BY <1>1, <1>2, Untouched DEF TraceIsBound, FileHasItsShape, LoadedIsBound, LoadedIsReproduced
<1> QED BY <1>1, <1>2, <1>3, <1>4, <1>5, <1>6, NoReportYet

LEMMA BuiltInShape ==
  ASSUME NEW result0, NEW events, decisions["source"] = JudgedUpTo(3)
  PROVE  Shaped(DemoReplayTrace(result0, events)) /\ DemoReplayTrace(result0, events).result = result0
<1> DEFINE t == DemoReplayTrace(result0, events)
<1>1. IsRecord(t, TraceFields) /\ t.result = result0 BY DEF DemoReplayTrace, IsRecord, TraceFields
<1>2. IsRecord(t.response, ResponseFields)
  BY DEF DemoReplayTrace, ModelFields, Response, IsRecord, ResponseFields
<1>3. IsRecord(t.model_event, EventFields) /\ IsRecord(t.tool_event, EventFields)
  BY DEF DemoReplayTrace, IsRecord, EventFields
<1>4. t.decisions = JudgedUpTo(3) BY DEF DemoReplayTrace
<1>5. AreDecisions(JudgedUpTo(3)) BY DEF AreDecisions, JudgedUpTo, Judge, IsRecord, DecisionFields
<1> QED BY <1>1, <1>2, <1>3, <1>4, <1>5 DEF Shaped

LEMMA RecordTraceKeepsInv == ASSUME DemoInv, RecordTrace PROVE DemoInv'
<1> USE DEF DemoInv, Unplanned, Preparing, Decided, Restoring, Compared, Replaying, Stages
<1> DEFINE r == ToolResult(local.actions, Digest("tree", workspace))
           e == Event("tool.result.recorded", r)
           s == journal["source"]
           log == Append(s, e)
           t == DemoReplayTrace(r, log)
<1>1. /\ pc = "recording"
      /\ local' = [local EXCEPT !.final = Digest("tree", workspace), !.action_hash = r.material.action_hash]
      /\ journal' = [journal EXCEPT !["source"] = log]
      /\ IF Valid(t) THEN trace' = t /\ recorded' = t /\ pc' = "restoring"
                     ELSE UNCHANGED <<trace, recorded>> /\ pc' = "failed"
      /\ UNCHANGED <<granted, eligible, decisions, canary, loaded, report>>
  BY DEF RecordTrace, Goto, Fail, inputs
<1>2. decisions["source"] = JudgedUpTo(3) /\ LoggedUpTo(s, 3) /\ local.actions = ThePlan
  BY <1>1 DEF SourceIsJudged, PlanIsTheNotes
<1>3. Shaped(t) /\ t.result = r BY <1>2, BuiltInShape
<1>4. r.material.final = Digest("tree", workspace) BY DEF ToolResult
<1> HIDE DEF r
<1>5. /\ IsLog(log) /\ Len(log) = 9 /\ log[1] = ModelEvent /\ log[9] = e
      /\ \A k \in 2 .. 8 : log[k].type \notin Bindings
  <2> HIDE DEF e
  <2>1. Len(s) = 8 /\ IsLog(s) /\ s[1] = ModelEvent /\ \A k \in 2 .. 8 : s[k].type \notin Bindings
    BY <1>2 DEF LoggedUpTo
  <2>2. IsLog(s) BY <2>1
  <2> HIDE DEF s
  <2>3. /\ IsLog(log) /\ Len(log) = Len(s) + 1 /\ log[Len(s) + 1] = e
        /\ \A k \in 1 .. Len(s) : log[k] = s[k]
    BY <2>2, LoggedOnce
  <2> HIDE DEF log
  <2> QED BY <2>1, <2>3
<1> HIDE DEF s, t, log
<1>6. /\ IsRecord(local', LocalFields) /\ local'.actions = local.actions /\ local'.note = local.note
      /\ local'.final = r.material.final /\ local'.action_hash = r.material.action_hash
  BY <1>1, <1>4 DEF Kinds, IsRecord, LocalFields
<1>7. IsRecord(journal', Sides) /\ journal'["source"] = log BY <1>1 DEF Kinds, Sides, IsRecord
<1>8. ModelFields' = ModelFields BY <1>6 DEF ModelFields
<1>9. Kinds' BY <1>1, <1>6, <1>7 DEF Kinds
<1>10. Forbidden' /\ PlanIsTheNotes' BY <1>1, <1>2, <1>6 DEF Forbidden, PlanIsTheNotes
<1>11. decisions'["source"] = JudgedUpTo(3)' BY <1>1, <1>2 DEF JudgedUpTo, Judge
<1>12. SourceIsJudged' BY <1>1, <1>11 DEF SourceIsJudged
<1>13. ReplayIsJudged' BY <1>1 DEF ReplayIsJudged
<1>14. TraceIsBound'
  <2>1. CASE pc' = "failed" BY <2>1 DEF TraceIsBound
  <2>2. CASE pc' = "restoring"
    <3>1. recorded' = t /\ Valid(t) BY <1>1, <2>2
    <3>2. ModelEvent' = ModelEvent BY <1>8 DEF ModelEvent
    <3>3. Closed(journal["source"])' BY <1>3, <1>5, <1>7, <3>1, <3>2 DEF Closed, e
    <3>4. recorded' = DemoReplayTrace(recorded.result, journal["source"])'
      BY <1>1, <1>3, <1>6, <1>7, <1>8, <3>1 DEF DemoReplayTrace, t
    <3> QED BY <1>3, <1>6, <3>1, <3>3, <3>4 DEF TraceIsBound
  <2> QED BY <1>1, <2>1, <2>2
<1>15. FileHasItsShape' BY <1>1, <1>3 DEF FileHasItsShape
<1>16. LoadedIsBound' /\ LoadedIsReproduced' BY <1>1 DEF LoadedIsBound, LoadedIsReproduced
<1> QED BY <1>1, <1>9, <1>10, <1>12, <1>13, <1>14, <1>15, <1>16, NoReportYet

LEMMA LoadTraceKeepsInv == ASSUME DemoInv, LoadTrace PROVE DemoInv'
<1> USE DEF DemoInv, Unplanned, Preparing, Decided, Restoring, Compared, Replaying, Stages
<1>1. /\ pc = "loading"
      /\ IF Valid(trace) /\ Bound(trace, journal["source"])
         THEN loaded' = trace /\ pc' = "feeding"
         ELSE UNCHANGED loaded /\ pc' = "failed"
      /\ UNCHANGED <<granted, eligible, journal, decisions, canary, local, trace, recorded, report>>
  BY DEF LoadTrace, Goto, Fail, inputs
<1>2. Kinds' BY <1>1 DEF Kinds
<1>3. Forbidden' /\ PlanIsTheNotes' BY <1>1 DEF Forbidden, PlanIsTheNotes
<1>4. SourceIsJudged' /\ ReplayIsJudged' BY <1>1, Untouched DEF SourceIsJudged, ReplayIsJudged
<1>5. TraceIsBound' BY <1>1, Untouched DEF TraceIsBound
<1>6. FileHasItsShape' /\ LoadedIsBound' /\ LoadedIsReproduced'
  BY <1>1 DEF FileHasItsShape, LoadedIsBound, LoadedIsReproduced
<1> QED BY <1>1, <1>2, <1>3, <1>4, <1>5, <1>6, NoReportYet

LEMMA FeedModelKeepsInv == ASSUME DemoInv, FeedModelResult PROVE DemoInv'
<1> USE DEF DemoInv, Unplanned, Preparing, Decided, Restoring, Compared, Replaying, Stages
<1>1. /\ pc = "feeding" /\ pc' \in {"judging", "failed"}
      /\ UNCHANGED <<granted, eligible, decisions, canary, local, trace, recorded, loaded, report>>
  BY DEF FeedModelResult, Goto, Fail, inputs, results
<1>2. PICK x : journal' = [journal EXCEPT !["replay"] = x] BY DEF FeedModelResult, Record
<1>3. IsRecord(journal', Sides) /\ journal'["source"] = journal["source"]
  BY <1>2 DEF Kinds, Sides, IsRecord
<1>4. pc' = "judging" => loaded.actions = ThePlan
  <2>1. pc' = "judging" => Materialize(loaded.response.text, copy.note) = loaded.actions
    BY DEF FeedModelResult, Goto, Fail
  <2>2. loaded.actions # <<>>
    <3>1. Len(loaded.actions) = 3 BY <1>1 DEF LoadedIsBound, Valid, Complete
    <3> QED BY <3>1
  <2> QED BY <2>1, <2>2 DEF Materialize, ThePlan
<1>5. Kinds' BY <1>1, <1>3 DEF Kinds
<1>6. Forbidden' /\ PlanIsTheNotes' BY <1>1 DEF Forbidden, PlanIsTheNotes
<1>7. SourceIsJudged' BY <1>1, <1>3, Untouched DEF SourceIsJudged
<1>8. ReplayIsJudged'
  <2>1. decisions'["replay"] = JudgedUpTo(0)' BY <1>1, NothingJudged DEF ReplayIsJudged, JudgedUpTo, Judge
  <2> QED BY <1>1, <2>1 DEF ReplayIsJudged
<1>9. TraceIsBound' BY <1>1, <1>3, Untouched DEF TraceIsBound
<1>10. FileHasItsShape' /\ LoadedIsBound' /\ LoadedIsReproduced'
  BY <1>1, <1>3, <1>4 DEF FileHasItsShape, LoadedIsBound, LoadedIsReproduced
<1> QED BY <1>1, <1>5, <1>6, <1>7, <1>8, <1>9, <1>10, NoReportYet

-----------------------------------------------------------------------------
(* What others do to the file                                               *)

Fits(f, x) ==
  /\ f = "response" => IsRecord(x, ResponseFields)
  /\ f \in {"model_event", "tool_event"} => IsRecord(x, EventFields)
  /\ f = "decisions" => AreDecisions(x)

LEMMA OneFieldEdited ==
  ASSUME NEW t, NEW f, NEW x, Shaped(t), Fits(f, x)
  PROVE  Shaped([t EXCEPT ![f] = x])
<1> DEFINE u == [t EXCEPT ![f] = x]
<1>1. IsRecord(u, TraceFields) /\ \A g \in TraceFields : u[g] = IF g = f THEN x ELSE t[g]
  BY DEF Shaped, IsRecord
<1> HIDE DEF u
<1>2. {"response", "model_event", "tool_event", "decisions"} \subseteq TraceFields BY DEF TraceFields
<1>3. IsRecord(u.response, ResponseFields) BY <1>1, <1>2 DEF Shaped, Fits
<1>4. IsRecord(u.model_event, EventFields) /\ IsRecord(u.tool_event, EventFields)
  BY <1>1, <1>2 DEF Shaped, Fits
<1>5. AreDecisions(u.decisions) BY <1>1, <1>2 DEF Shaped, Fits
<1>6. Shaped(u) BY <1>1, <1>3, <1>4, <1>5 DEF Shaped
<1> QED BY <1>6 DEF u

OfOneField(t, u) == \E f, x : u = [t EXCEPT ![f] = x] /\ Fits(f, x)

LEMMA FreeFieldEdited ==
  ASSUME NEW t, NEW u, NEW f, f \notin {"response", "model_event", "tool_event", "decisions"},
         \E x : u = [t EXCEPT ![f] = x]
  PROVE  OfOneField(t, u)
BY DEF OfOneField, Fits

LEMMA EditsOfOneField ==
  ASSUME NEW t, Shaped(t), NEW u \in EditedTraces(t)
  PROVE  OfOneField(t, u)
<1>1. CASE u \in EditedPlan(t)
  <2>1. \E x : u = [t EXCEPT !["actions"] = x] BY <1>1, Zenon DEF EditedPlan
  <2> QED BY <2>1, FreeFieldEdited
<1>2. CASE u \in EditedModel(t)
  <2>1. \/ u \in {[t EXCEPT !.request.purpose = "edited"], [t EXCEPT !.request.note = "attack, reworded"]}
        \/ u \in {[t EXCEPT !.receipt.redacted = FALSE], [t EXCEPT !.receipt.external = TRUE],
                  [t EXCEPT !.receipt.prompt = Edited]}
        \/ u \in {[t EXCEPT !.response.text = "edited"], [t EXCEPT !.response.identity = "edited"]}
    BY <1>2 DEF EditedModel
  <2>2. CASE u \in {[t EXCEPT !.request.purpose = "edited"], [t EXCEPT !.request.note = "attack, reworded"]}
    <3>1. \E x : u = [t EXCEPT !["request"] = x] BY <2>2, Zenon
    <3> QED BY <3>1, FreeFieldEdited
  <2>3. CASE u \in {[t EXCEPT !.receipt.redacted = FALSE], [t EXCEPT !.receipt.external = TRUE],
                    [t EXCEPT !.receipt.prompt = Edited]}
    <3>1. \E x : u = [t EXCEPT !["receipt"] = x] BY <2>3, Zenon
    <3> QED BY <3>1, FreeFieldEdited
  <2>4. CASE u \in {[t EXCEPT !.response.text = "edited"], [t EXCEPT !.response.identity = "edited"]}
    <3>1. PICK f, y : u = [t EXCEPT !["response"] = [t.response EXCEPT ![f] = y]] BY <2>4, Zenon
    <3> DEFINE x == [t.response EXCEPT ![f] = y]
    <3>2. IsRecord(x, ResponseFields) BY OneField DEF Shaped
    <3> HIDE DEF x
    <3>3. u = [t EXCEPT !["response"] = x] BY <3>1 DEF x
    <3>4. Fits("response", x) BY <3>2 DEF Fits
    <3> QED BY <3>3, <3>4 DEF OfOneField
  <2> QED BY <2>1, <2>2, <2>3, <2>4
<1>3. CASE u \in EditedDecisions(t)
  <2>1. PICK i \in 1 .. 3 : \/ \E f : u = [t EXCEPT !.decisions[i][f] = ~@]
                            \/ u = [t EXCEPT !.decisions[i].details = "edited"]
    BY <1>3 DEF EditedDecisions
  <2>2. PICK f, y : u = [t EXCEPT !["decisions"] = [t.decisions EXCEPT ![i] = [t.decisions[i] EXCEPT ![f] = y]]]
    <3>1. CASE u = [t EXCEPT !.decisions[i].details = "edited"] BY <3>1, Zenon
    <3>2. CASE \E f : u = [t EXCEPT !.decisions[i][f] = ~@]
      <4>1. PICK f : u = [t EXCEPT !.decisions[i][f] = ~@] BY <3>2
      <4>2. u = [t EXCEPT !["decisions"] = [t.decisions EXCEPT ![i] = [t.decisions[i] EXCEPT ![f] = ~t.decisions[i][f]]]]
        BY <4>1
      <4> QED BY <4>2
    <3> QED BY <2>1, <3>1, <3>2
  <2> DEFINE d == [t.decisions[i] EXCEPT ![f] = y]
  <2>3. IsRecord(d, DecisionFields) BY OneField DEF Shaped, AreDecisions
  <2> HIDE DEF d
  <2> DEFINE x == [t.decisions EXCEPT ![i] = d]
  <2>4. AreDecisions(x) BY <2>3, OneField DEF Shaped, AreDecisions
  <2> HIDE DEF x
  <2>5. u = [t EXCEPT !["decisions"] = x] BY <2>2 DEF x, d
  <2> QED BY <2>4, <2>5 DEF OfOneField, Fits
<1>4. CASE u \in EditedResult(t)
  <2>1. \E x : u = [t EXCEPT !["result"] = x] BY <1>4, Zenon DEF EditedResult
  <2> QED BY <2>1, FreeFieldEdited
<1>5. CASE u \in EditedBindings(t)
  <2>1. CASE \E f \in {"instruction", "request_digest", "sequence", "final_hash"} : u = [t EXCEPT ![f] = Edited]
    BY <2>1, FreeFieldEdited
  <2>2. CASE \E e \in {"model_event", "tool_event"} : \E f, y : u = [t EXCEPT ![e] = [t[e] EXCEPT ![f] = y]]
    <3>1. PICK e \in {"model_event", "tool_event"} : \E f, y : u = [t EXCEPT ![e] = [t[e] EXCEPT ![f] = y]] BY <2>2
    <3>2. PICK f, y : u = [t EXCEPT ![e] = [t[e] EXCEPT ![f] = y]] BY <3>1
    <3> DEFINE x == [t[e] EXCEPT ![f] = y]
    <3>3. IsRecord(x, EventFields) BY OneField DEF Shaped
    <3> HIDE DEF x
    <3>4. u = [t EXCEPT ![e] = x] BY <3>2 DEF x
    <3> QED BY <3>3, <3>4 DEF OfOneField, Fits
  <2> QED BY <1>5, <2>1, <2>2, Zenon DEF EditedBindings
<1> QED BY <1>1, <1>2, <1>3, <1>4, <1>5 DEF EditedTraces

LEMMA RehashedInShape ==
  ASSUME NEW t, Shaped(t)
  PROVE  Shaped(Rehashed(t))
<1> DEFINE actions == [i \in DOMAIN t.actions |->
                         [t.actions[i] EXCEPT !.identity = Digest("proposal", t.actions[i].proposal)]]
           judged == [i \in DOMAIN t.decisions |->
                        [t.decisions[i] EXCEPT !.identity = IF i \in DOMAIN actions THEN actions[i].identity ELSE @]]
           u == Rehashed(t)
<1>1. DOMAIN t.decisions = 1 .. 3 BY DEF Shaped, AreDecisions, IsRecord
<1>2. IsRecord(judged, 1 .. 3) BY <1>1 DEF IsRecord
<1>3. \A i \in 1 .. 3 : IsRecord(judged[i], DecisionFields)
  <2> TAKE i \in 1 .. 3
  <2> DEFINE x == IF i \in DOMAIN actions THEN actions[i].identity ELSE t.decisions[i].identity
  <2>1. judged[i] = [t.decisions[i] EXCEPT !.identity = x] BY <1>1
  <2>2. IsRecord(t.decisions[i], DecisionFields) BY DEF Shaped, AreDecisions
  <2> HIDE DEF x, judged
  <2> QED BY <2>1, <2>2, OneField
<1> HIDE DEF actions, judged
<1>4. u = [t EXCEPT !.actions = actions, !.decisions = judged,
                    !.sequence = Digest("sequence", Normalized(actions, judged)),
                    !.request_digest = Digest("request", t.request), !.instruction = Digest("note", t.request.note),
                    !.receipt.prompt = Digest("prompt", t.request),
                    !.receipt.response = Digest("response", t.response.text),
                    !.result.digest = Digest("result", t.result.material)]
  BY DEF Rehashed, actions, judged
<1> HIDE DEF u
<1>5. /\ IsRecord(u, TraceFields)
      /\ u.response = t.response /\ u.model_event = t.model_event /\ u.tool_event = t.tool_event
      /\ u.decisions = judged
  BY <1>4 DEF Shaped, IsRecord, TraceFields
<1>6. Shaped(u) BY <1>2, <1>3, <1>5 DEF Shaped, AreDecisions
<1> QED BY <1>6 DEF u

LEMMA ChangeTraceKeepsInv == ASSUME DemoInv, ChangeTrace PROVE DemoInv'
<1> USE DEF DemoInv, Unplanned, Preparing, Decided, Restoring, Compared, Replaying, Stages
<1>1. /\ pc \in Restoring /\ pc' = pc
      /\ UNCHANGED <<granted, eligible, journal, decisions, canary, local, recorded, loaded, report>>
  BY DEF ChangeTrace, results
<1>2. PICK t \in EditedTraces(trace) : trace' \in {t, Rehashed(t)} BY DEF ChangeTrace
<1>3. Shaped(trace) BY <1>1 DEF FileHasItsShape
<1>4. Shaped(t)
  <2>1. PICK f : \E x : t = [trace EXCEPT ![f] = x] /\ Fits(f, x) BY <1>3, EditsOfOneField DEF OfOneField
  <2>2. PICK x : t = [trace EXCEPT ![f] = x] /\ Fits(f, x) BY <2>1
  <2>3. Shaped([trace EXCEPT ![f] = x]) BY <1>3, <2>2, OneFieldEdited
  <2> QED BY <2>2, <2>3
<1>5. Shaped(trace') BY <1>2, <1>4, RehashedInShape
<1>6. Kinds' BY <1>1 DEF Kinds
<1>7. Forbidden' /\ PlanIsTheNotes' BY <1>1 DEF Forbidden, PlanIsTheNotes
<1>8. SourceIsJudged' /\ ReplayIsJudged' BY <1>1, Untouched DEF SourceIsJudged, ReplayIsJudged
<1>9. TraceIsBound' BY <1>1, Untouched DEF TraceIsBound
<1>10. FileHasItsShape' /\ LoadedIsBound' /\ LoadedIsReproduced'
  BY <1>1, <1>5 DEF FileHasItsShape, LoadedIsBound, LoadedIsReproduced
<1> QED BY <1>1, <1>6, <1>7, <1>8, <1>9, <1>10, NoReportYet

-----------------------------------------------------------------------------
(* The report                                                               *)

(* A loaded trace that passed every check and was judged again with the     *)
(* same result is, field by field, the one that was recorded.               *)
LEMMA EveryFieldIsBound ==
  ASSUME DemoInv, pc = "reporting", SameSequence
  PROVE  loaded = recorded
<1> USE DEF DemoInv, Restoring, Replaying, Compared
<1> DEFINE log == journal["source"]
           again == decisions["replay"]
<1>1. /\ Closed(log) /\ recorded = DemoReplayTrace(recorded.result, log)
      /\ decisions["source"] = JudgedUpTo(3) /\ again = JudgedUpTo(3)
      /\ local.actions = ThePlan
  BY DEF TraceIsBound, SourceIsJudged, ReplayIsJudged, PlanIsTheNotes, Unplanned
<1>2. /\ Shaped(loaded) /\ Valid(loaded) /\ Bound(loaded, log) /\ loaded.actions = ThePlan
  BY DEF LoadedIsBound, LoadedIsReproduced
<1>3. Shaped(recorded) BY <1>1, BuiltInShape
<1> HIDE DEF log, again
<1>4. /\ DOMAIN log = 1 .. 9 /\ log[1] = ModelEvent /\ log[9] = Event("tool.result.recorded", recorded.result)
      /\ \A k \in 2 .. 8 : log[k].type \notin Bindings
  <2>1. PICK S : log \in Seq(S) BY <1>1 DEF Closed, IsLog
  <2> QED BY <1>1, <2>1 DEF Closed
<1>5. /\ loaded.model_event.id = 1 /\ loaded.model_event.hash = EventHash(log, 1)
      /\ ModelPayload(loaded) = ModelPayload(ModelFields)
  <2>1. PICK i \in DOMAIN log :
          /\ i = loaded.model_event.id /\ loaded.model_event.hash = EventHash(log, i)
          /\ log[i] = Event("model.inference.completed", ModelPayload(loaded))
    BY <1>2 DEF Bound
  <2>2. i = 1 BY <1>4, <2>1 DEF Event, Bindings
  <2> QED BY <1>4, <2>1, <2>2 DEF ModelEvent, Event
<1>6. /\ loaded.tool_event.id = 9 /\ loaded.tool_event.hash = EventHash(log, 9)
      /\ loaded.result = recorded.result
  <2>1. PICK i \in DOMAIN log :
          /\ i = loaded.tool_event.id /\ loaded.tool_event.hash = EventHash(log, i)
          /\ log[i] = Event("tool.result.recorded", loaded.result)
    BY <1>2 DEF Bound
  <2>2. i = 9 BY <1>4, <2>1 DEF Event, Bindings, ModelEvent
  <2> QED BY <1>4, <2>1, <2>2 DEF Event
<1>7. /\ recorded.model_event = [id |-> 1, hash |-> EventHash(log, 1)]
      /\ recorded.tool_event = [id |-> 9, hash |-> EventHash(log, 9)]
      /\ recorded.final_hash = FinalHash(log) /\ recorded.actions = ThePlan
      /\ recorded.decisions = JudgedUpTo(3)
      /\ recorded.sequence = Digest("sequence", Normalized(ThePlan, JudgedUpTo(3)))
      /\ recorded.request = ModelFields.request /\ recorded.request_digest = ModelFields.request_digest
      /\ recorded.instruction = ModelFields.instruction /\ recorded.receipt = ModelFields.receipt
      /\ recorded.response = Response
  BY <1>1 DEF DemoReplayTrace, Closed, ModelFields
<1>8. loaded.model_event = recorded.model_event /\ loaded.tool_event = recorded.tool_event
  BY <1>2, <1>5, <1>6, <1>7 DEF Shaped, IsRecord, EventFields
<1>9. /\ loaded.receipt = recorded.receipt /\ loaded.request_digest = recorded.request_digest
      /\ loaded.instruction = recorded.instruction
  BY <1>5, <1>7 DEF ModelPayload
<1>10. loaded.request = recorded.request
  <2>1. loaded.request_digest = Digest("request", loaded.request) BY <1>2 DEF Valid, ModelBound
  <2>2. recorded.request_digest = Digest("request", recorded.request) BY <1>7 DEF ModelFields
  <2> QED BY <1>9, <2>1, <2>2, DigestTells
<1>11. loaded.response = recorded.response
  BY <1>2, <1>7 DEF Valid, ModelBound, Response, Shaped, IsRecord, ResponseFields
<1>12. loaded.decisions = recorded.decisions
  <2>1. \A i \in 1 .. 3 : loaded.decisions[i] = JudgedUpTo(3)[i]
    <3> TAKE i \in 1 .. 3
    <3> DEFINE d == loaded.decisions[i]
               v == JudgedUpTo(3)[i]
    <3>1. /\ Sequence("source") = Normalized(ThePlan, loaded.decisions)
          /\ Sequence("replay") = Normalized(ThePlan, JudgedUpTo(3))
      BY <1>1, <1>2 DEF Sequence, again
    <3>2. Normalized(ThePlan, loaded.decisions)[i].decision = Normalized(ThePlan, JudgedUpTo(3))[i].decision
      BY <3>1 DEF SameSequence
    <3>3. d.authority = v.authority /\ d.policy = v.policy /\ d.allowed = v.allowed /\ d.details = v.details
      <4> HIDE DEF d, v
      <4>1. DOMAIN ThePlan = 1 .. 3 BY DEF ThePlan
      <4> QED BY <3>2, <4>1 DEF Normalized, d, v
    <3>4. d.id = Plan[i] /\ d.identity = ThePlan[i].identity BY <1>2 DEF Valid, FailClosed
    <3>5. v.id = Plan[i] /\ v.identity = ThePlan[i].identity /\ IsRecord(v, DecisionFields)
      BY DEF JudgedUpTo, Judge, ThePlan, Planned, IsRecord, DecisionFields
    <3>6. IsRecord(d, DecisionFields) BY <1>2 DEF Shaped, AreDecisions
    <3> HIDE DEF d, v
    <3>7. \A f \in DecisionFields : d[f] = v[f] BY <3>3, <3>4, <3>5 DEF DecisionFields
    <3>8. d = v BY <3>5, <3>6, <3>7, EqualFields
    <3> QED BY <3>8 DEF d, v
  <2>2. IsRecord(loaded.decisions, 1 .. 3) /\ IsRecord(JudgedUpTo(3), 1 .. 3)
    BY <1>2 DEF Shaped, AreDecisions, IsRecord, JudgedUpTo
  <2> QED BY <1>7, <2>1, <2>2, EqualFields
<1>13. loaded.sequence = recorded.sequence /\ loaded.final_hash = recorded.final_hash
  BY <1>2, <1>7, <1>12 DEF Valid, Bound
<1>14. \A f \in TraceFields : loaded[f] = recorded[f]
  BY <1>2, <1>6, <1>7, <1>8, <1>9, <1>10, <1>11, <1>12, <1>13 DEF TraceFields
<1> QED BY <1>2, <1>3, <1>14, EqualFields DEF Shaped

LEMMA ReportKeepsInv == ASSUME DemoInv, Report PROVE DemoInv'
<1> USE DEF DemoInv, Unplanned, Preparing, Decided, Restoring, Compared, Replaying, Stages
<1>1. /\ pc = "reporting" /\ pc' = "done"
      /\ report'.matched = Matched
      /\ UNCHANGED <<granted, eligible, journal, decisions, canary, local, trace, recorded, loaded, outcome>>
  BY DEF Report, At, Goto, inputs
<1>2. Kinds' BY <1>1 DEF Kinds
<1>3. Forbidden' /\ PlanIsTheNotes' BY <1>1 DEF Forbidden, PlanIsTheNotes
<1>4. SourceIsJudged' /\ ReplayIsJudged' BY <1>1 DEF SourceIsJudged, ReplayIsJudged
<1>5. TraceIsBound' /\ FileHasItsShape' /\ LoadedIsBound' /\ LoadedIsReproduced' /\ ReportIsLast'
  BY <1>1 DEF TraceIsBound, FileHasItsShape, LoadedIsBound, LoadedIsReproduced, ReportIsLast
<1>6. MatchedMeansFaithful'
  <2> SUFFICES ASSUME Matched PROVE MatchedMeansFaithful' BY <1>1 DEF MatchedMeansFaithful
  <2>1. SameSequence /\ outcome.action_hash = local.action_hash /\ outcome.final = local.final
    BY DEF Matched, FirstMismatch
  <2>2. loaded = recorded BY <1>1, <2>1, EveryFieldIsBound
  <2>3. decisions["replay"] = decisions["source"] BY <1>1 DEF SourceIsJudged, ReplayIsJudged
  <2>4. local.action_hash = recorded.result.material.action_hash /\ local.final = recorded.result.material.final
    BY <1>1 DEF TraceIsBound
  <2> QED BY <1>1, <2>1, <2>2, <2>3, <2>4 DEF MatchedMeansFaithful
<1> QED BY <1>2, <1>3, <1>4, <1>5, <1>6

LEMMA DemoStarts == Init => DemoInv
<1> SUFFICES ASSUME Init PROVE DemoInv OBVIOUS
<1> USE DEF Init, Unplanned, Preparing, Decided, Restoring, Compared, Replaying, Stages
<1>1. Kinds BY DEF Kinds, IsRecord, LocalFields, Sides
<1>2. Forbidden /\ PlanIsTheNotes BY DEF Forbidden, PlanIsTheNotes
<1>3. SourceIsJudged /\ ReplayIsJudged BY DEF SourceIsJudged, ReplayIsJudged, Sides
<1>4. TraceIsBound /\ FileHasItsShape /\ LoadedIsBound /\ LoadedIsReproduced /\ ReportIsLast /\ MatchedMeansFaithful
  BY DEF TraceIsBound, FileHasItsShape, LoadedIsBound, LoadedIsReproduced, ReportIsLast, MatchedMeansFaithful
<1> QED BY <1>1, <1>2, <1>3, <1>4 DEF DemoInv

LEMMA StutterKeepsInv == ASSUME DemoInv, UNCHANGED vars PROVE DemoInv'
<1>1. CASE pc # "done" BY <1>1, ReplayMoves
<1>2. CASE pc = "done"
  <2>1. UNCHANGED <<pc, granted, eligible, journal, decisions, canary, local, trace, recorded, loaded, outcome, report>>
    BY DEF vars, inputs, results
  <2> USE DEF DemoInv, Unplanned, Preparing, Decided, Restoring, Compared, Replaying, Stages
  <2>2. Kinds' /\ Forbidden' /\ PlanIsTheNotes' BY <1>2, <2>1 DEF Kinds, Forbidden, PlanIsTheNotes
  <2>3. SourceIsJudged' /\ ReplayIsJudged' BY <1>2, <2>1 DEF SourceIsJudged, ReplayIsJudged
  <2>4. TraceIsBound' /\ FileHasItsShape' /\ LoadedIsBound' /\ LoadedIsReproduced' /\ ReportIsLast'
    BY <1>2, <2>1 DEF TraceIsBound, FileHasItsShape, LoadedIsBound, LoadedIsReproduced, ReportIsLast
  <2>5. MatchedMeansFaithful' BY <2>1 DEF MatchedMeansFaithful
  <2> QED BY <2>2, <2>3, <2>4, <2>5
<1> QED BY <1>1, <1>2

LEMMA DemoSteps == DemoInv /\ [Next]_vars => DemoInv'
<1> SUFFICES ASSUME DemoInv, [Next]_vars PROVE DemoInv' OBVIOUS
<1>1. CASE Prepare \/ CopyFixture \/ ExecuteWrite \/ WriteFails BY <1>1, SourceMoves
<1>2. CASE ProposePlan BY <1>2, ProposePlanKeepsInv
<1>3. CASE MeasureInitial BY <1>3, MeasureKeepsInv
<1>4. CASE JournalPlan BY <1>4, JournalPlanKeepsInv
<1>5. CASE Guard BY <1>5, GuardKeepsInv
<1>6. CASE Aggregated BY <1>6, AggregatedKeepsInv
<1>7. CASE RecordTrace BY <1>7, RecordTraceKeepsInv
<1>8. CASE RestoreFixture \/ NothingFed \/ ChangeFile BY <1>8, ReplayMoves
<1>9. CASE LoadTrace BY <1>9, LoadTraceKeepsInv
<1>10. CASE FeedModelResult BY <1>10, FeedModelKeepsInv
<1>11. CASE ReplayGuard BY <1>11, ReplayGuardKeepsInv
<1>12. CASE ReplayAggregated BY <1>12, ReplayAggregatedKeepsInv
<1>13. CASE FeedToolResult BY <1>13, ToolResultMoves
<1>14. CASE Report BY <1>14, ReportKeepsInv
<1>15. CASE ChangeTrace BY <1>15, ChangeTraceKeepsInv
<1>16. CASE UNCHANGED vars BY <1>16, StutterKeepsInv
<1> QED BY <1>1, <1>2, <1>3, <1>4, <1>5, <1>6, <1>7, <1>8, <1>9, <1>10, <1>11, <1>12, <1>13, <1>14, <1>15, <1>16
        DEF Next, SourceRun, Replay

(* A replay that says it matched has read the trace the run wrote, has      *)
(* judged its actions as the run did and has ended with the run's effect,   *)
(* whatever was changed in the files and however often (demo.py:1134).      *)
THEOREM MatchedReplaysAreFaithful == Spec => []MatchedMeansFaithful
<1>1. DemoInv => MatchedMeansFaithful BY DEF DemoInv
<1> QED BY <1>1, DemoStarts, DemoSteps, PTL DEF Spec

(* Whatever the write needs is in the journal before it is carried out: the *)
(* judgments of all three actions, the attack denied twice and the write    *)
(* allowed; a forbidden action that was let through ends the run there.     *)
THEOREM NothingIsCarriedOutUnjudged == Spec => JudgedBeforeCarriedOut
<1>1. Spec => []DemoInv BY DemoStarts, DemoSteps, PTL DEF Spec
<1> DEFINE Logged(type, i) ==
             Event(type, Judge(local.actions[i])) \in {journal["source"][k] : k \in DOMAIN journal["source"]}
           First == ExecuteWrite \/ WriteFails =>
                      /\ \A id \in {"read", "send"} : id \notin granted \cap eligible
                      /\ "write" \in granted \cap eligible
                      /\ \A i \in 1 .. 3, type \in {"authority.decided", "policy.decided"} : Logged(type, i)
           Second == \A s \in Sides : canary'[s] # {} => canary'[s] \subseteq granted \cap eligible /\ pc' = "failed"
<1>2. DemoInv => First
  <2> SUFFICES ASSUME DemoInv, pc = "writing"
               PROVE  /\ \A id \in {"read", "send"} : id \notin granted \cap eligible
                      /\ "write" \in granted \cap eligible
                      /\ \A i \in 1 .. 3, type \in {"authority.decided", "policy.decided"} : Logged(type, i)
    BY DEF ExecuteWrite, WriteFails, At
  <2>1. LoggedUpTo(journal["source"], 3) /\ local.actions = ThePlan
    BY DEF DemoInv, SourceIsJudged, PlanIsTheNotes, Decided, Unplanned
  <2>2. DOMAIN journal["source"] = 1 .. 8
    <3>1. PICK S : journal["source"] \in Seq(S) BY <2>1 DEF LoggedUpTo, IsLog
    <3> QED BY <2>1, <3>1 DEF LoggedUpTo
  <2>3. \A i \in 1 .. 3 : /\ journal["source"][2 * i + 1] = Event("authority.decided", Judge(local.actions[i]))
                          /\ journal["source"][2 * i + 2] = Event("policy.decided", Judge(local.actions[i]))
    BY <2>1 DEF LoggedUpTo
  <2>4. \A i \in 1 .. 3 : 2 * i + 1 \in DOMAIN journal["source"] /\ 2 * i + 2 \in DOMAIN journal["source"] BY <2>2
  <2>5. \A i \in 1 .. 3 : Logged("authority.decided", i) /\ Logged("policy.decided", i) BY <2>3, <2>4
  <2> QED BY <2>5 DEF DemoInv, Forbidden
<1>3. DemoInv /\ DemoInv' /\ [Next]_vars => Second
  <2> SUFFICES ASSUME DemoInv', [Next]_vars PROVE Second OBVIOUS
  <2>1. UNCHANGED <<granted, eligible>>
    BY DEF Next, SourceRun, Replay, vars, inputs, Prepare, ProposePlan, CopyFixture, MeasureInitial, JournalPlan,
       Guard, Aggregated, Evaluate, Aggregate, ExecuteWrite, WriteFails, RecordTrace, RestoreFixture, LoadTrace,
       FeedModelResult, ReplayGuard, ReplayAggregated, FeedToolResult, NothingFed, Report, ChangeFile, ChangeTrace
  <2> QED BY <2>1 DEF DemoInv, Forbidden
<1>4. Spec => [][Next]_vars BY PTL DEF Spec
<1> QED BY <1>1, <1>2, <1>3, <1>4, PTL DEF JudgedBeforeCarriedOut
=============================================================================
