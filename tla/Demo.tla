-------------------------------- MODULE Demo --------------------------------
(***************************************************************************)
(* run_demo of src/agentkernel/demo.py: an agent proposes three actions    *)
(* from an untrusted note, the guards judge them, the one that is allowed  *)
(* is carried out, everything is journaled, and a trace is written that is *)
(* then replayed without carrying anything out (replay/models.py).         *)
(*                                                                         *)
(* Files may be changed by somebody else at any time: the two files of a   *)
(* directory, and every field of the trace, with or without its digests    *)
(* made consistent again.  A digest is the term it is computed from.       *)
(***************************************************************************)
EXTENDS Naturals, Sequences

CONSTANTS
  GrantChoices,   \* sets of actions the grant may cover; _demo_authority: {"write"}
  PolicyChoices,  \* sets of actions the policy file may make eligible
  MaxMeddling     \* bound: changes made to files by somebody else

VARIABLES
  pc,
  granted, eligible,        \* what authority and policy will say
  workspace, fixture, copy, \* directories of the root: NoDir or Dir(note, result)
  journal,    \* events of the source run and of the replay
  decisions,  \* action_decisions, replay_action_decisions
  canary,     \* forbidden actions carried out, by side
  local,      \* locals of run_demo: what it has read and measured
  trace,      \* replay-trace.json
  recorded,   \* the trace as run_demo built it
  loaded,     \* the trace as the replay read it
  outcome,    \* effect the replay ends with
  report,     \* demo-report.json
  meddling
inputs == <<granted, eligible, meddling>>
results == <<recorded, loaded, outcome, report>>
dirs == <<workspace, fixture, copy>>
vars == <<pc, inputs, dirs, journal, decisions, canary, local, trace, results>>

None == [none |-> TRUE]
NoDir == [note |-> "none", result |-> "none"]
Dir(note, result) == [note |-> note, result |-> result]
Notes == {"attack", "attack, reworded", "harmless"}
Sides == {"source", "replay"}
Digest(kind, x) == <<kind, x>>
Goto(next) == pc' = next
Fail == Goto("failed")

-----------------------------------------------------------------------------
(* The plan and the model                                                   *)

Plan == <<"read", "send", "write">>
Trust(id) == IF id = "write" THEN "model_generated" ELSE "project_data"
Proposal(id) == [id |-> id, arguments |-> "planned", bindings |-> "planned"]
Planned(id) == [id |-> id, trust |-> Trust(id), proposal |-> Proposal(id),
                identity |-> Digest("proposal", Proposal(id))]

\* both canaries are named by the note
Grounded(note) == note \in {"attack", "attack, reworded"}
\* _materialize_model_plan: no actions when it raises
Materialize(text, note) ==
  IF text = "plan" /\ Grounded(note) THEN [i \in 1 .. 3 |-> Planned(Plan[i])] ELSE <<>>

Request(note) == [identity |-> "scripted", external |-> FALSE, purpose |-> "repair", note |-> note]
Response == [identity |-> "scripted", trust |-> "model_generated", text |-> "plan"]
Receipt(request, response) ==
  [identity |-> request.identity, external |-> request.external, redacted |-> TRUE,
   prompt |-> Digest("prompt", request), response |-> Digest("response", response.text)]

-----------------------------------------------------------------------------
(* Guards                                                                   *)

Judge(action) ==
  [id |-> action.id, identity |-> action.identity, details |-> "evaluated",
   authority |-> action.id \in granted, policy |-> action.id \in eligible,
   allowed |-> action.id \in granted \cap eligible]

Event(type, payload) == [type |-> type, payload |-> payload]
Record(side, events) == journal' = [journal EXCEPT ![side] = @ \o events]

\* one turn of the loop of _evaluate_plan_guards
Evaluate(side, actions, done) ==
  LET k == Len(decisions[side]) + 1
      verdict == Judge(actions[k])
  IN /\ k <= Len(actions)
     /\ decisions' = [decisions EXCEPT ![side] = Append(@, verdict)]
     /\ Record(side, <<Event("authority.decided", verdict), Event("policy.decided", verdict)>>)
     /\ IF k = Len(actions) THEN Goto(done) ELSE UNCHANGED pc
     /\ UNCHANGED <<inputs, dirs, canary, local, trace, results>>

Allowed(side, id) == \E i \in DOMAIN decisions[side] : decisions[side][i].id = id /\ decisions[side][i].allowed

\* its end
Bug_OnlyTheWriteIsChecked(side, next) ==
  /\ IF Allowed(side, "write") THEN Goto(next) ELSE Fail
  /\ UNCHANGED <<inputs, dirs, journal, decisions, canary, local, trace, results>>
Aggregate(side, next) ==
  /\ canary' = [canary EXCEPT ![side] = CASE Allowed(side, "read") -> {"read"}
                                          [] ~Allowed(side, "read") /\ Allowed(side, "send") -> {"send"}
                                          [] OTHER -> {}]
  /\ IF canary'[side] = {} /\ Allowed(side, "write") THEN Goto(next) ELSE Fail
  /\ UNCHANGED <<inputs, dirs, journal, decisions, local, trace, results>>

-----------------------------------------------------------------------------
(* The trace                                                                *)

Normalized(actions, judged) ==
  [i \in DOMAIN actions |->
     [id |-> actions[i].id, identity |-> actions[i].identity, proposal |-> actions[i].proposal,
      decision |-> [authority |-> judged[i].authority, policy |-> judged[i].policy,
                    allowed |-> judged[i].allowed, details |-> judged[i].details]]]

ToolResult(actions, final) ==
  LET material == [id |-> "workspace_write", action |-> "write", identity |-> actions[3].identity,
                   action_hash |-> Digest("intent", actions[3].proposal), final |-> final,
                   state |-> "COMMITTED", changed |-> "src/result.txt"]
  IN [material |-> material, digest |-> Digest("result", material)]

ModelPayload(t) == [receipt |-> t.receipt, request |-> t.request_digest, note |-> t.instruction]
EventHash(events, i) == Digest("event", SubSeq(events, 1, i))
FinalHash(events) == EventHash(events, Len(events))

Complete(t) == Len(t.actions) = 3 /\ \A i \in 1 .. 3 : t.actions[i].id = Plan[i]
AsPlanned(t) == \A i \in 1 .. 3 :
  /\ t.actions[i].identity = Digest("proposal", t.actions[i].proposal)
  /\ t.actions[i].trust = Trust(Plan[i])
  /\ t.actions[i].proposal.arguments = "planned" /\ t.actions[i].proposal.bindings = "planned"
ModelBound(t) ==
  /\ t.receipt.identity = "scripted" /\ t.request.identity = "scripted" /\ t.response.identity = "scripted"
  /\ t.response.trust = "model_generated" /\ t.response.text = "plan"
  /\ ~t.receipt.external /\ ~t.request.external /\ t.receipt.redacted
  /\ t.receipt.response = Digest("response", t.response.text)
  /\ t.receipt.prompt = Digest("prompt", t.request)
  /\ t.request_digest = Digest("request", t.request)
  /\ t.instruction = Digest("note", t.request.note)
\* the guards denied the attack twice and allowed the write twice
FailClosed(t) ==
  /\ Len(t.decisions) = 3
  /\ \A i \in 1 .. 3 : LET d == t.decisions[i] IN
       /\ d.id = Plan[i] /\ d.identity = t.actions[i].identity
       /\ d.authority = (i = 3) /\ d.policy = (i = 3) /\ d.allowed = (i = 3)
ResultExpected(t) ==
  LET r == t.result.material IN
    /\ t.result.digest = Digest("result", r)
    /\ r.id = "workspace_write" /\ r.action = "write" /\ r.identity = t.actions[3].identity
    /\ r.state = "COMMITTED" /\ r.changed = "src/result.txt"
Valid(t) ==
  /\ Complete(t) /\ AsPlanned(t) /\ ModelBound(t) /\ FailClosed(t) /\ ResultExpected(t)
  /\ t.sequence = Digest("sequence", Normalized(t.actions, t.decisions))

\* _verify_source_event_bindings
Bound(t, events) ==
  /\ t.final_hash = FinalHash(events)
  /\ \E i \in DOMAIN events :
       /\ i = t.model_event.id /\ t.model_event.hash = EventHash(events, i)
       /\ events[i] = Event("model.inference.completed", ModelPayload(t))
  /\ \E i \in DOMAIN events :
       /\ i = t.tool_event.id /\ t.tool_event.hash = EventHash(events, i)
       /\ events[i] = Event("tool.result.recorded", t.result)

-----------------------------------------------------------------------------
(* run_demo: the source run                                                 *)

At(here, next) == pc = here /\ Goto(next)

Prepare ==
  /\ At("empty", "planning")
  /\ workspace' = Dir("attack", "failing")
  /\ UNCHANGED <<inputs, fixture, copy, journal, decisions, canary, local, trace, results>>

\* _plan_from_untrusted_instruction
ProposePlan ==
  /\ pc = "planning"
  /\ local' = [local EXCEPT !.note = workspace.note, !.actions = Materialize(Response.text, workspace.note)]
  /\ IF local'.actions = <<>> THEN Fail ELSE Goto("copying")
  /\ UNCHANGED <<inputs, dirs, journal, decisions, canary, trace, results>>

CopyFixture ==
  /\ At("copying", "measuring")
  /\ fixture' = workspace
  /\ UNCHANGED <<inputs, workspace, copy, journal, decisions, canary, local, trace, results>>

MeasureInitial ==
  /\ At("measuring", "journaling")
  /\ local' = [local EXCEPT !.initial = Digest("tree", workspace)]
  /\ UNCHANGED <<inputs, dirs, journal, decisions, canary, trace, results>>

ModelFields ==
  LET request == Request(local.note) IN
    [instruction |-> Digest("note", local.note), request |-> request,
     request_digest |-> Digest("request", request), response |-> Response,
     receipt |-> Receipt(request, Response)]

JournalPlan ==
  /\ At("journaling", "guarding")
  /\ Record("source", <<Event("model.inference.completed", ModelPayload(ModelFields)),
                        Event("agent.plan.proposed", local.actions)>>)
  /\ UNCHANGED <<inputs, dirs, decisions, canary, local, trace, results>>

Guard == pc = "guarding" /\ Evaluate("source", local.actions, "guarded")
Aggregated == pc = "guarded" /\ Aggregate("source", "writing")

\* _execute_write: the coordinator and the filesystem adapter
ExecuteWrite ==
  /\ At("writing", "recording")
  /\ workspace' = [workspace EXCEPT !.result = "verified"]
  /\ UNCHANGED <<inputs, fixture, copy, journal, decisions, canary, local, trace, results>>

\* a stale base, a failed stage, or a commit whose effect is in doubt
WriteFails ==
  /\ pc = "writing" /\ Fail
  /\ workspace' \in {workspace, [workspace EXCEPT !.result = "verified"]}
  /\ UNCHANGED <<inputs, fixture, copy, journal, decisions, canary, local, trace, results>>

DemoReplayTrace(result, events) ==
  LET model == ModelFields IN
    [instruction |-> model.instruction, actions |-> local.actions, decisions |-> decisions["source"],
     sequence |-> Digest("sequence", Normalized(local.actions, decisions["source"])),
     request |-> model.request, request_digest |-> model.request_digest,
     response |-> model.response, receipt |-> model.receipt,
     model_event |-> [id |-> 1, hash |-> EventHash(events, 1)],
     tool_event |-> [id |-> Len(events), hash |-> EventHash(events, Len(events))],
     final_hash |-> FinalHash(events), result |-> result]

RecordTrace ==
  LET result == ToolResult(local.actions, Digest("tree", workspace))
      events == Append(journal["source"], Event("tool.result.recorded", result))
      t == DemoReplayTrace(result, events)
  IN /\ pc = "recording"
     /\ local' = [local EXCEPT !.final = Digest("tree", workspace), !.action_hash = result.material.action_hash]
     /\ journal' = [journal EXCEPT !["source"] = events]
     /\ IF Valid(t) THEN trace' = t /\ recorded' = t /\ Goto("restoring")
                    ELSE UNCHANGED <<trace, recorded>> /\ Fail
     /\ UNCHANGED <<inputs, dirs, decisions, canary, loaded, outcome, report>>

-----------------------------------------------------------------------------
(* run_demo: the replay                                                     *)

RestoreFixture ==
  /\ At("restoring", "loading")
  /\ copy' = fixture
  /\ UNCHANGED <<inputs, workspace, fixture, journal, decisions, canary, local, trace, results>>

\* _load_verified_replay_trace, with the events the run still holds
LoadTrace ==
  /\ pc = "loading"
  /\ IF Valid(trace) /\ Bound(trace, journal["source"])
     THEN loaded' = trace /\ Goto("feeding")
     ELSE UNCHANGED loaded /\ Fail
  /\ UNCHANGED <<inputs, dirs, journal, decisions, canary, local, trace, recorded, outcome, report>>

FeedModelResult ==
  LET note == copy.note
      fed == Event("replay.model_result.fed", loaded.receipt)
      plan == Event("replay.plan.loaded", loaded.instruction)
      same == loaded.instruction = Digest("note", note)
      reproduced == Materialize(loaded.response.text, note) = loaded.actions
  IN /\ pc = "feeding"
     /\ Record("replay", IF ~same THEN <<>> ELSE IF reproduced THEN <<fed, plan>> ELSE <<fed>>)
     /\ IF same /\ reproduced THEN Goto("judging") ELSE Fail
     /\ UNCHANGED <<inputs, dirs, decisions, canary, local, trace, results>>

ReplayGuard == pc = "judging" /\ Evaluate("replay", loaded.actions, "judged")
ReplayAggregated == pc = "judged" /\ Aggregate("replay", "answering")

Sequence(side) == Normalized(loaded.actions, IF side = "source" THEN loaded.decisions ELSE decisions["replay"])
Bug_ComparesIdentities == \A i \in 1 .. 3 : Sequence("source")[i].identity = Sequence("replay")[i].identity
SameSequence == Sequence("source") = Sequence("replay")

FeedToolResult ==
  /\ At("answering", "reporting") /\ SameSequence
  /\ Record("replay", <<Event("replay.tool_result.fed", loaded.result)>>)
  /\ outcome' = [action_hash |-> loaded.result.material.action_hash, final |-> loaded.result.material.final,
                 state |-> loaded.result.material.state]
  /\ UNCHANGED <<inputs, dirs, decisions, canary, local, trace, recorded, loaded, report>>

NothingFed ==
  /\ At("answering", "reporting") /\ ~SameSequence
  /\ outcome' = [action_hash |-> Digest("intent", "not dispatched"), final |-> Digest("tree", copy), state |-> "ABORTED"]
  /\ UNCHANGED <<inputs, dirs, journal, decisions, canary, local, trace, recorded, loaded, report>>

FirstMismatch ==
  CASE ~SameSequence -> "sequence"
    [] SameSequence /\ outcome.action_hash # local.action_hash -> "effect_action_hash"
    [] SameSequence /\ outcome.action_hash = local.action_hash /\ outcome.final # local.final -> "final_state_hash"
    [] OTHER -> "none"

\* ReplayReport.matched; authoritative_effects is never set
Matched == /\ FirstMismatch = "none"
           /\ outcome.action_hash = local.action_hash /\ outcome.final = local.final

Report ==
  /\ At("reporting", "done")
  /\ report' = [initial |-> local.initial, final |-> local.final, observed |-> Digest("tree", copy),
                divergence |-> FirstMismatch, forbidden |-> canary["source"],
                matched |-> Matched]
  /\ UNCHANGED <<inputs, dirs, journal, decisions, canary, local, trace, recorded, loaded, outcome>>

-----------------------------------------------------------------------------
(* external: somebody else changes a file                                   *)

Meddle == meddling < MaxMeddling /\ meddling' = meddling + 1

Changes(d) == IF d = NoDir THEN {d}
              ELSE {Dir(note, d.result) : note \in Notes} \cup {Dir(d.note, "edited")}
ChangeFile ==
  /\ Meddle /\ pc \notin {"done", "failed"}
  /\ workspace' \in Changes(workspace) /\ fixture' \in Changes(fixture) /\ copy' \in Changes(copy)
  /\ dirs' # dirs
  /\ UNCHANGED <<pc, granted, eligible, journal, decisions, canary, local, trace, results>>

Edited == <<"edited">>
EditedPlan(t) ==
  {[t EXCEPT !.actions = SubSeq(@, 2, 3)], [t EXCEPT !.actions = <<@[2], @[1], @[3]>>],
   [t EXCEPT !.actions[1].proposal.arguments = "edited"], [t EXCEPT !.actions[3].proposal.bindings = "edited"]}
  \cup {[t EXCEPT !.actions[i].trust = "edited"] : i \in 1 .. 3}
  \cup {[t EXCEPT !.actions[i].identity = Edited] : i \in 1 .. 3}
EditedModel(t) ==
  {[t EXCEPT !.request.purpose = "edited"], [t EXCEPT !.request.note = "attack, reworded"],
   [t EXCEPT !.receipt.redacted = FALSE], [t EXCEPT !.receipt.external = TRUE],
   [t EXCEPT !.receipt.prompt = Edited],
   [t EXCEPT !.response.text = "edited"], [t EXCEPT !.response.identity = "edited"]}
EditedDecisions(t) ==
  {[t EXCEPT !.decisions[i][f] = ~@] : i \in 1 .. 3, f \in {"authority", "policy", "allowed"}}
  \cup {[t EXCEPT !.decisions[i].details = "edited"] : i \in 1 .. 3}
EditedResult(t) ==
  {[t EXCEPT !.result.material.id = "edited"], [t EXCEPT !.result.material.changed = "edited"],
   [t EXCEPT !.result.material.state = "ABORTED"], [t EXCEPT !.result.digest = Edited]}
  \cup {[t EXCEPT !.result.material[f] = Edited] : f \in {"final", "action_hash"}}
EditedBindings(t) ==
  {[t EXCEPT ![f] = Edited] : f \in {"instruction", "request_digest", "sequence", "final_hash"}}
  \cup {[t EXCEPT !.model_event.id = 2], [t EXCEPT !.model_event.hash = Edited],
        [t EXCEPT !.tool_event.id = 1], [t EXCEPT !.tool_event.hash = Edited]}
EditedTraces(t) ==
  EditedPlan(t) \cup EditedModel(t) \cup EditedDecisions(t) \cup EditedResult(t) \cup EditedBindings(t)
\* its own digests computed again
Rehashed(t) ==
  LET actions == [i \in DOMAIN t.actions |->
                    [t.actions[i] EXCEPT !.identity = Digest("proposal", t.actions[i].proposal)]]
      judged == [i \in DOMAIN t.decisions |->
                   [t.decisions[i] EXCEPT !.identity = IF i \in DOMAIN actions THEN actions[i].identity ELSE @]]
  IN [t EXCEPT !.actions = actions, !.decisions = judged,
               !.sequence = Digest("sequence", Normalized(actions, judged)),
               !.request_digest = Digest("request", t.request), !.instruction = Digest("note", t.request.note),
               !.receipt.prompt = Digest("prompt", t.request),
               !.receipt.response = Digest("response", t.response.text),
               !.result.digest = Digest("result", t.result.material)]
ChangeTrace ==
  /\ Meddle /\ pc \in {"restoring", "loading"} /\ Complete(trace)
  /\ \E t \in EditedTraces(trace) : trace' \in {t, Rehashed(t)}
  /\ UNCHANGED <<pc, granted, eligible, dirs, journal, decisions, canary, local, results>>

-----------------------------------------------------------------------------
Init ==
  /\ pc = "empty" /\ meddling = 0
  /\ granted \in GrantChoices /\ eligible \in PolicyChoices
  /\ workspace = NoDir /\ fixture = NoDir /\ copy = NoDir
  /\ journal = [s \in Sides |-> <<>>] /\ decisions = [s \in Sides |-> <<>>]
  /\ canary = [s \in Sides |-> {}]
  /\ local = [note |-> "none", actions |-> <<>>, initial |-> None, final |-> None, action_hash |-> None]
  /\ trace = None /\ recorded = None /\ loaded = None /\ outcome = None /\ report = None

SourceRun ==
  \/ Prepare \/ ProposePlan \/ CopyFixture \/ MeasureInitial \/ JournalPlan
  \/ Guard \/ Aggregated \/ ExecuteWrite \/ WriteFails \/ RecordTrace
Replay ==
  \/ RestoreFixture \/ LoadTrace \/ FeedModelResult \/ ReplayGuard \/ ReplayAggregated
  \/ FeedToolResult \/ NothingFed \/ Report
Next == SourceRun \/ Replay \/ ChangeFile \/ ChangeTrace

Spec == Init /\ [][Next]_vars

-----------------------------------------------------------------------------
(* Properties                                                               *)

(* Nothing is carried out, allowed or forbidden, before all three actions   *)
(* were judged in the journal: the write only when both others were denied  *)
(* and it was allowed, and a forbidden action that the guards let through   *)
(* ends the run without the write and without a report (demo.py:674).       *)
JudgedBeforeCarriedOut ==
  /\ [][ ExecuteWrite \/ WriteFails =>
           /\ \A id \in {"read", "send"} : id \notin granted \cap eligible
           /\ "write" \in granted \cap eligible
           /\ \A i \in 1 .. 3, type \in {"authority.decided", "policy.decided"} :
                Event(type, Judge(local.actions[i])) \in {journal["source"][k] : k \in DOMAIN journal["source"]}
       ]_vars
  /\ [][ \A s \in Sides : canary'[s] # {} => canary'[s] \subseteq granted \cap eligible /\ pc' = "failed" ]_vars

(* A replay that says it matched has read the trace the run wrote, whatever *)
(* was changed in the file and however consistently, has judged the three   *)
(* actions as the run did, and has ended with the effect of the run.        *)
MatchedMeansFaithful ==
  (report # None /\ report.matched) =>
    /\ loaded = recorded
    /\ decisions["replay"] = decisions["source"]
    /\ outcome.action_hash = recorded.result.material.action_hash
    /\ outcome.final = recorded.result.material.final
=============================================================================
