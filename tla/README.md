# A TLA+ verification of AgentKernel's transactional kernel

AgentKernel lets an untrusted worker propose actions and executes them as
transactions: an action is inspected, authorized, staged privately, verified,
and only then committed to an authoritative target, with a durable journal that
must tell the truth about what happened, whatever fails, is cancelled or crashes.
This directory holds TLA+ modules of the code that keeps that promise, the TLC
configurations that check them, and TLAPS proofs. Source paths below are relative
to the root of the repository.

## 1. Inventory

### Components, their state and their operations

| component | code | state it keeps | operations |
|---|---|---|---|
| state machine | `agentkernel/transactions/state_machine.py`, `domain/enums.py` | none | `apply_transition` over 57 rules |
| SQLite journal | `agentkernel/storage/sqlite.py` | tables `transactions`, `intents`, `receipts`, `events`, `capability_uses`, `schema_migrations` | `create_transaction`, `append_event`, `set_transaction_intent`, `transition` (compare-and-swap on `version`), `reserve_intent`, `link_transaction_supersession`, `append_receipt`, `consume_capability`, listings |
| coordinator | `agentkernel/transactions/coordinator.py` | one `TransactionSession` per transaction: cached record, staged effect and receipt, `_staging_cleanup_failed`, a lock | `transaction()` (admission), `__aenter__`, `commit`, `cancel`, `enforce_deadline`, `__aexit__` |
| adapters | `agentkernel/adapters/base.py`, `mock.py`, `filesystem.py`, `registry.py` | mock: target values, staged effects, receipts by intent; filesystem: workspace, stages, backups, recovery manifests on disk; registry: adapters by id and version | `inspect`, `plan`, `stage`, `execute`, `verify_staged`, `commit`, `verify_committed`, `abort`, `rollback`, `reconcile`, `register`, `resolve` |
| snapshots | `agentkernel/snapshots/filesystem.py` | none | `normalize_relative_path`, `portable_path_key`, `resolve_scoped_path`, `snapshot_tree`, `diff_snapshots` |
| authority | `agentkernel/authority/service.py` | its grants and, without a journal, a counter of uses | `check` |
| policy | `agentkernel/policy/engine.py` | a compiled bundle | `load_policy`, `compile_policy`, `evaluate` |
| evidence | `agentkernel/evidence/ledger.py`, `artifacts.py` | hash-chained events (in the journal), content-addressed files | `make_event`, `validate_chain`, `put`, `get` |
| model gateway | `agentkernel/model_gateway/gateway.py` | none | a chain of refusals before a model call |
| sandbox | `agentkernel/sandbox/docker.py` | containers, through the docker CLI | `run_python` |
| replay and demo | `agentkernel/replay/models.py`, `demo.py` | none | a scripted run, a validator of recorded traces |
| domain models, canonical JSON, CLI | `agentkernel/domain/*`, `canonical.py`, `ids.py`, `cli.py` | none | schemas, encodings, argument parsing, `doctor` |
| traceability | `scripts/build_traceability.py`, `validate_traceability.py` | row table, registry, manifest, policy, Markdown | build, validate, freeze an epoch, commit |

### Interactions

A caller asks the coordinator for a session; the session is the only writer of
its transaction's row, but not of the intent it shares with others. Every step of
a session is either a synchronous journal call (one database transaction) or an
`await` of an adapter. Between two of them other sessions run, in the same event
loop at awaits and in other processes sharing the journal file at any journal
call; the process may die; and an await may end in `CancelledError`. The adapter
is the only writer of the target the coordinator knows of, but anybody may write
the target itself.

### What is hard, and what must hold

* **Lost acknowledgement** (`coordinator.py:394`): `adapter.commit` raises after
  its effect. The effect must not be denied, and not be applied twice.
* **Crash between two durable steps** (`coordinator.py:376` and after): commit
  intent, effect, receipt and `COMMIT_VERIFIED` are four separate writes.
* **Two transactions, one intent** (`sqlite.py:421`): a retry may take over the
  intent exactly when the owner ended without effect; one state too early gives
  it two live owners, also through a cancelled or aborting owner.
* **Takeover and link are two database transactions** (`coordinator.py:266`).
* **Stale reads** (`coordinator.py:359`): the base version is compared, then used
  by a later call; the session decides on a cached record.
* **Any public method in any state** (`coordinator.py:431`): an event illegal in
  the durable state would raise half-way through an operation.
* **Aborting** (`coordinator.py:287`, `:463`): what must be handed to
  `adapter.abort` depends on which await was interrupted; the adapter may be
  unable to clean up; `ABORTED` must then not be claimed.
* **Settling** (`coordinator.py:475`): leaving the `async with` must end the
  transaction without the caller's help.
* **Row and event** (`sqlite.py:325`): the evidence log must replay to the table.

* **A promotion of many files** (`filesystem.py:478`): a workspace cannot be replaced
  in one call, so a backup and a manifest must exist before the first copy, and every
  one of the calls of a restore may fail after the others (`filesystem.py:399`).
* **A version that comes back** (`filesystem.py:332`): what was staged between two
  moments of one version may belong to neither.
* **The last use of a grant** (`authority/service.py:104`): several services consume it.
* **Order** in policies (`policy/engine.py:128`): denials dominate wherever they stand.
* **A list that grows while it is validated, and is edited before** (`ledger.py:80`).
* **A file seen half written** (`artifacts.py:41`, `snapshots/filesystem.py:164`).
* **An engine that works on after its client has given up** (`docker.py:136`).
* **A file read back** (`demo.py:1134`) and **files of two generations**
  (`build_traceability.py:2677`).
* **A migration that was begun** (`sqlite.py:139`): each of its statements commits alone.

`PROJECT.json` lists all hazards with their lines.

## 2. Modules

```
transactions
  StateMachine            apply_transition and its table (constants only)
   └ Journal              the tables and the operations on them; JSpec: arbitrary callers
      └ Coordinator       sessions, adapter, target, deadlines, faults, crashes
         └ CoordinatorProperties   properties, and the mapping to EffectOutcome
  EffectOutcome           abstract: what a caller of the coordinator may rely on
  Migrations              opening the journal's file, statement by statement
effects
  AtomicWorkspace         abstract: a workspace is swapped as a whole, or not at all
   ├ FilesystemAdapter    implements it, file-system call by call
   └ MockAdapter          implements it, in memory
  AdapterRegistry         which adapter a name and a digest stand for
decisions
  Resources               patterns and what they match
   ├ Authority            grants, budgets, several services
   └ PolicyEngine         bundles, conditions, evaluation
evidence
  EvidenceLedger          the hash chain and its validation
  ArtifactStore           blobs by content
around them
  DockerSandbox, Demo, Traceability

small instances for TLC
  MCCoordinator (five .cfg), MCFilesystemAdapter (three)
  MCAdapters              AdapterRegistry, FilesystemAdapter three times, MockAdapter
  MCJournalAndGuards      Journal, Authority, PolicyEngine
  MCEvidence              EvidenceLedger, ArtifactStore, Migrations
  MCSurroundings          Demo, DockerSandbox, Traceability

theorems
  JournalProofs           StateMachine, Journal
   └ CoordinatorProofs    Coordinator: its invariant
      └ OutcomeProofs     CoordinatorProperties, the refinement of EffectOutcome
  AdapterProofs           FilesystemAdapter, MockAdapter, AdapterRegistry
  AuthorityProofs         Authority, PolicyEngine
  EvidenceProofs          EvidenceLedger, ArtifactStore, Migrations
  DemoProofs              Demo, DockerSandbox
  TraceabilityProofs      Traceability
```

The last four MC modules EXTEND components that share no state, whose definitions
therefore have different names (`Spec` is of one of them, the others have
`JSpec`, `RegistrySpec`, `MockSpec`, `PolicySpec`, `StoreSpec`, `OpeningSpec`, `SandboxSpec`,
`TraceSpec`), and
put them side by side: a variable
`about` chooses in `MCInit` which of them a behaviour is about, and the others stay as
they start. The states of such a run are the sum of those of its parts, not their
product, and what it shows of a part is what a run of that part alone would show.
Components that do interact are composed: `Coordinator` steps the tables of `Journal`
and decides by `StateMachine`; `Authority` and `PolicyEngine` read one set of
`Resources`; both adapters refine one abstract workspace.

### StateMachine

`NORMATIVE_TRANSITIONS` is the table of the source, grouped as the source orders
it; `ApplyTransition(source, event, current)` is the set of decisions
`[target, outcome]`, which is empty where `apply_transition` raises (no rule, or
`ABORTING` and its discard without an intended outcome). `NONE` is Python's `None`.

### Journal

A row of `transactions` keeps state, version, intent hash, intended outcome and
the superseded transaction; plan and proposal payloads, digests and timestamps
are data no operation decides on. Every public operation runs between `BEGIN
IMMEDIATE` and `COMMIT`, so it is one action; one that raises is rolled back, so
it is no action. `granted` is a history variable: the transactions that
`reserve_intent` ever told they own the intent. `events` keeps one log per run,
an event being the part of its payload that names the transition. The hash chain
over the events is module `EvidenceLedger`.

### Coordinator

`session[t].pc` is the await or journal call an operation of transaction `t`
stands at; `idle` means that no operation holds the session's lock. A step that
records several events one after the other (`_transition` calls without anything
in between, such as `PROPOSAL_VALID`, `AUTHORIZED_FOR_STAGING`,
`WORKER_LEASE_ACQUIRED`) puts them in `todo`, and `RecordEvent` records one at a
time under the cached version, so that a crash, a failing journal call or another
process comes between any two.

| actions | code |
|---|---|
| `Create`, `InspectReturns`, `InspectInterrupted`, `Bind` | `TransactionCoordinator.transaction` |
| `EnterRefused`, `EnterReserves`, `Link`, `BeginStage`, `StageReturns`, `ExecuteReturns`, `StagingInterrupted`, `StagingUnclean`, `BeginVerify`, `VerifyPasses`, `VerifyFails` | `_enter` |
| `BeginCommit`, `RevalidateReturns`, `RevalidateInterrupted`, `CommitApplies`, `CommitStale`, `CommitInterrupted`, `JournalReceipt`, `ConfirmReturns`, `ConfirmInterrupted` | `_commit` |
| `Cancel`, `EnforceDeadline`, `Exit`, `DiscardUnaided`, `DiscardReturns`, `DiscardInterrupted` | `cancel`, `enforce_deadline`, `_exit`, `_complete_abort` |
| `RecordEvent` | `_transition` |
| `JournalFails` | any journal call that raises, with the handler that meets it |
| `Expire`, `ManifestChanges`, `Drift`, `Crash` | the world |

The adapter behind the session is `MockReversibleAdapter`: a known intent answers
with its receipt, otherwise the effect is applied if the target still has the
planned version. Its target and receipts die or survive as the code has it: a
crash loses `receiptOf` and `stages` (memory of the process) and keeps the target
and the journal. What an await may answer is limited by `Faults`:

| fault | meaning |
|---|---|
| `adapter` | a call raises before any effect, times out, or a verifier does not pass |
| `cancel` | the task awaiting a call is cancelled |
| `lost_ack` | `adapter.commit` raises after its effect |
| `unclean` | the adapter reports that private material may remain |
| `abort` | `adapter.abort` itself raises or is cancelled |
| `journal` | a journal call raises and is rolled back |
| `manifest` | the adapter's manifest digest changes after admission |

### Migrations

Every statement of `_apply_migrations` is a step, since the connection commits each
on its own: reading the rows (`ReadApplied`), each `CREATE TABLE IF NOT EXISTS`
(`CreateTable`), the row of the migration (`RecordMigration`). Connections of different
releases interleave, end anywhere (`Close` is also a crash) and meet locks.

### AtomicWorkspace, FilesystemAdapter, MockAdapter

`FilesystemAdapter` has one operation in progress (`op`), since the methods never
await; a step of it is one file-system call, which may fail and go to the handler
the source has for it. `commit` is `CommitAnswers` or `CommitBegins`, then
`Backup`, `Prepare`, `CopyTemporary`/`ReplaceTarget` per file, `FinalCheck`,
`MarkCommitted`, `Clean`; `_restore_backup` is `Refill`, `Displace`, `Install`,
`PutBack`, `Drop`, and both its callers end in `NoteRolledBack`. A failing copy of a tree
(`Backup`, `Refill`, and `Stage`) raises the error of the call that failed or, where the
copy turns out to differ from its source, `STALE_STATE` (`CopyErrors`; filesystem.py:126);
in the restore that error takes the place of the one it is the handler of. `manifest` is the
recovery metadata on disk, by receipt. The world crashes and restarts the process,
writes into the workspace between operations, one of `ForeignContents` under a path,
and corrupts private trees. A tree stands
for its digest; the temporary file a crash leaves behind is part of it. A snapshot is
one step here. A writer in the middle of an operation is left out: the adapter has no
means to keep it out, so a swap is atomic only without one.

The abstract `AtomicWorkspace` knows only whole trees: `Book` a receipt, `Apply` it
by compare-and-swap, `Undo` it from exactly its own effect. A crash, a second fault
in the handler of a first one, or a comparison that fails after the promotion
(`filesystem.py:493`; no handler surrounds it), is its `Shatter`, and it is counted, so
that nothing else may leave a mixed tree. `FilesystemAdapter` maps the workspace of an
operation in progress to the one it started from. `MockAdapter` implements the same
interface: its calls are single steps, so `BookAndApply` is one. It assumes what
`VersionedMemoryTarget` makes its users do: whoever writes the target raises its version.

### Authority and PolicyEngine

A check of `Authority` reads the clock once, then goes from grant to grant; each call
of a counter is a step, and other services, the clock, a raising journal and crashes
come between. `ledger` is the table `capability_uses`, `memory` the counter of a
service without one. In `PolicyEngine` a bundle is written rule by rule, as long as it
compiles, and evaluated as the source does: a step of the loop reads one rule, and
`Conclusion` is what follows it. A condition is a tree; what it says of a context is a
recursive function on `Conditions`, the set of the rules' conditions and their parts.

### EvidenceLedger, ArtifactStore

A digest is the term it is computed from, so equal digests have equal content: that
is the assumption about SHA-256 and about the canonical form that is digested.
`EvidenceLedger` validates, one event per step, a list loaded while others are
appended and after edits of the stored list. `ArtifactStore` makes every call of
`put` and `get` a step.

### AdapterRegistry, DockerSandbox, Demo, Traceability

`AdapterRegistry`: manifests are objects that anybody may change, names included.
`DockerSandbox`: every `docker` call succeeds, fails, or times out with the
engine having done it or not; `Reports` is what `doctor_report` makes of it. `Demo`
is `run_demo` from the empty root to the report: the model plan, the three
judgments, the write, the trace, its validation, the replay; somebody else changes
files at any step, with digests recomputed or not. `Traceability` has the files as
variables, one step per file written, and the validator's comparisons as conditions
of a commit; `writer` is a history variable, what the build that wrote the manifest had
computed, as long as nobody edits manifest or registry by hand.

### Seeded bugs

A definition `Bug_X` stands directly before the definition it imitates and is that
definition with one plausible mistake: a version not advanced, an owner not
compared, a lost acknowledgement taken for "no effect". No specification uses
them. Each property is known to fail when one of them takes the place of the
definition (`mutants` in `PROJECT.json`), so no property holds by the shape of
the model alone.

## 3. Runs

| run | instance | what it shows |
|---|---|---|
| `coordinator` | 2 transactions on 1 intent, every fault except `manifest`, one drift of the target, one crash | no operation asks for an illegal transition; effects are never denied by a verdict; at most one effect per intent; receipts are truthful; who works owns the intent; clean ends leave nothing staged; and the whole refines `EffectOutcome` |
| `coordinator_retry` | 3 transactions on 1 intent, `lost_ack`, one crash | the links of retries form one chain of attempts without effect, and no takeover works unlinked |
| `coordinator_liveness` | 2 transactions on 1 intent, `adapter`, `cancel`, `unclean`, `manifest`, under fairness | every entered context ends settled; every abort and commit that began is finished |
| `takeover_unlinked` | `journal` fault | finding 2 |
| `mismatch_aborted` | one drift | finding 1 |
| `filesystem_foreign_diff` | 2 intents on different files | finding 3 |
| `restore_says_stale` | 2 failing calls | finding 4 |
| `resumed_receipt` | 2 transactions of one intent, 2 foreign writes, 1 failing call | finding 5 |
| `adapters` | the registry with 2 adapters, 2 names, 2 sets of operations | a resolution returns what was authorized, as it was admitted and reviewed |
| | the filesystem adapter with 2 transactions of one intent on 2 files, 2 failing calls, 1 crash, 1 foreign write (*retries*); of one intent on 1 file, 1 failing call, 2 foreign writes to the other (*resumed*); and with 2 intents on different files, 1 failing call, 1 corruption of private state, 1 foreign write (*separate*) | a mutation has its manifest and backup first; nothing is lost between the renames; a receipt is handed out over a whole effect only, also where it is that of the attempt resumed; a rollback undoes its own effect or nothing; a `STALE_STATE` over a changed workspace is a second failure, and the manifest still tells what was there; and `AtomicWorkspace` is implemented |
| | the mock adapter with 2 transactions, 2 intents that share a key, versions to 4, 1 damaged stage | `AtomicWorkspace` is implemented: no lost update, rollbacks undo their own; `reconcile` is truthful |
| `journal_and_guards` | 2 transactions, 1 intent, 1 run, 1 receipt, versions up to 2, 4 events | under arbitrary callers with arbitrary expected versions: the log replays to the table (`LogReplaysToTable`), one live owner of an intent (`OneLiveOwner`), finished transactions are never touched (`HistoryIsFinal`), an owner that may have had an effect keeps its intent (`UncertainOwnerKeepsIntent`) |
| | 2 authority services on one ledger, 3 capabilities, clock to 2, 3 checks, 1 failing journal call or crash | budgets hold, uses are lost only by failures, a denial speaks of all grants |
| | bundles of up to 3 of 12 rules, 3 contexts, both defaults, rule by rule | what is decided follows from the set of rules that match, denials first, in whatever order they stand |
| `evidence` | 3 events, 1 edit of the stored list, one signature or none | a hash that the validator returns fixes every event up to it |
| | an artifact store with 3 processes, 2 contents, 3 failures or kills | what `put` has returned for is there, whole |
| | 2 connections, 3 openings, 3 releases, 3 tables | an opening is refused only for a cause, and what a crash left can always be completed |
| `surroundings` | 2 changes by others; two grants, two policies | a matched replay is faithful and changes nothing; no action is carried out before all were judged |
| | 2 runs in the sandbox, 3 controls, all faults | nothing runs uncontained; a container left behind has a cause |
| | 3 row edits, 1 dying build, 4 kinds of tombstone, edits by hand | files that validate are of the one build that wrote the manifest, however builds died and files were restored; commits only append identifiers |

Distinct states: `coordinator` 320172, `coordinator_retry` 182642, `coordinator_liveness`
26212, `adapters` 736990, `journal_and_guards` 98295, `evidence` 1112094, `surroundings`
697202.

**Bounds.** Two transactions on one intent is the least instance with a retry, a
takeover and a race for the commit; three give a chain of retries. The intents of
different transactions share nothing but the target's version, whose change by
another is `Drift`, so a second intent adds no interaction. One drift and one crash
are enough to come between any two steps; a second of either only finds the
sessions closed or the base already stale. `MaxVersion` and `MaxEvents` limit only
`JNext`; in the coordinator the longest path records fewer than twelve events.
Versions up to 2 let the journal part meet a stale expected version before and after a
legal one, and the path `NEW` to `REJECTED` that frees an intent. The proofs of
section 4 need none of these bounds. In the coordinator's instances each
transaction is recorded in a run of its own, since `journal_and_guards` checks the logs
shared between transactions.

In `adapters` two faults are the least with which a handler itself fails, and one
crash comes between any two calls; two files are the least for a mixed tree. Two
intents are needed for one transaction to undo the other's work. The unknown writer
writes, once, what neither commit writes (`ForeignContents = {other}`) where the second
transaction retries, and what they do write (`{new}`) where they are separate: the
former makes a retry meet a tree that is neither before nor after, the latter lets a
foreign write look like an effect. Two foreign writes, of another content and back, to the
file that the intent leaves alone (*resumed*) let the first attempt stage a tree that the
second, which resumes its manifest, does not stage: the receipt handed out is then not of the
tree promoted, which finding 5 is about, and `ReceiptIsWhole` says what still holds.
`journal_and_guards` gives two
services the same capabilities in different order, a budget of one, of two and of none,
and one more check than the larger budget; its rules have overlapping modes, denials,
obligations, nested conditions and four that must not compile, so that three of them
reach every pair of accumulators. Its depth limit is 2 where the source has 32, so that
it is met and passed; the journal-less counter (`Durable = FALSE`) is not run, and the
proofs cover it. Three events are the least with a beginning, a middle and an end. The
releases of `evidence` have two migrations, of two tables and of one, and one release
that edited the first, so that there is a crash inside a migration, between two, and
before a row.

**Deadlock** is not checked, since the system rightly stops: sessions, runs, builds and
questions end, or a bound on calls, events, versions or faults is used up. A run in
which a step is wanted and none comes is what the liveness properties are for.

**Symmetry** is used over transactions in the safety runs of the coordinator and of the
journal; no property and no constant tells them apart (`IntentOf` is constant, `RunOf`
the identity). The liveness run uses none.

**Fairness** (`Fairness` in `Coordinator`). `WF(Progress(t))`: an adapter call and a
journal call of a running operation eventually return or raise, the event loop being
fair to its tasks. It does not say *how* they end. `SF(Exit(t))`: the body of an `async
with` ends and `__aexit__` runs. Strong fairness is needed because another operation of
the same session (`commit`, `cancel`, `enforce_deadline`) may hold the lock again and
again, and `asyncio.Lock` serves its waiters in turn, so an exit that finds the lock
free infinitely often is served. No caller is assumed to call anything else.
Cancellation of the awaits is among the faults of the run: an abort that is cancelled
inside `adapter.abort` counts as a fault of that call (`abort`). Crash, a failing
journal and a raising `adapter.abort` are left out of this run only: after them nothing
in this code resumes a transaction (`list_non_terminal` reports it, and no component
drives it), so no liveness can be promised.

### Findings

1. `mismatch_aborted`. `docs/architecture.md:151` says that `STALE_STATE` is the only
   durable version-mismatch outcome. When the target changes after the second
   inspection, it is `adapter.commit` that notices; `coordinator.py:387-390` records
   `COMMIT_FAILED_NO_EFFECT`, whose intended outcome is `ABORTED`.
2. `takeover_unlinked`. `docs/adr/0004-normalization-and-a1-authorization-order.md:147`
   transfers ownership "to a new transaction linked to the prior attempt". The
   transfer and the link are two database transactions; when the second raises and
   the session is entered again, `reserve_intent` answers that the caller already
   is the owner, and it works unlinked.
3. `filesystem_foreign_diff`. `filesystem.py:332` copies the workspace at `stage` but
   declares the version that `inspect` saw (`:347`). If another transaction commits in
   between and is rolled back before the commit, every guard holds, and the promoted
   difference carries that transaction's file, against
   `tests/contract/test_filesystem_adapter.py:58`, where other files stay as they were.
4. `restore_says_stale`. When a promotion fails, the handler restores the backup
   (`filesystem.py:490`, `:495`), and the copy this starts with may itself raise
   `STALE_STATE` (`:126-130`), over a workspace that is partly promoted. `base.py:129` lets a
   commit raise it only if it "has not performed an authoritative mutation", and
   `coordinator.py:388` ends such a transaction as one without effect. `StaleIsBooked` is what
   still holds: it takes a second failure, and the manifest tells what was there.
5. `resumed_receipt`. A commit that resumes a `PREPARED` or `ROLLED_BACK` manifest promotes
   and compares its own stage (`filesystem.py:478-494`), while the receipt it returns
   (`:514`) is the earlier attempt's, with the digest of the tree that one had staged
   (`:457`). Where the stages differ, `verify_committed` fails of a receipt just returned,
   against `tests/contract/test_filesystem_adapter.py:60`, `rollback` refuses (`:574`) and
   `reconcile` calls a whole effect `PARTIAL_OR_INVALID`.

What the coordinator's theorems assume of an adapter is the contract of `base.py`:
`CommitStale` of module `Coordinator` is an answer without effect. That holds of the mock
adapter, which `Coordinator` has behind it. With the filesystem adapter it holds but for
finding 4, so `EffectsAreAdmitted` speaks of that adapter as long as no restore fails in its
copy.

### Observations

Met while modelling; no run is about them, most being local to a few lines.

* A commit that resumes a manifest and fails restores its backup unverified and records
  `ROLLED_BACK` (`filesystem.py:490`); `rollback` does compare the backup first (`:582`).
* `os.DirEntry.stat` answers the second time with what it answered the first time, so the
  comparison of `snapshots/filesystem.py:164` never raises "File changed during
  snapshot": a snapshot taken while a writer works may be of a tree that never was. If it
  did raise, the final snapshot of a commit (`filesystem.py:493`) could end in
  `STALE_STATE` after the effect, which `coordinator.py:388` takes for "no effect".
* `filesystem.py:298` compares neighbours in sorted order only: `a`, `a.a`, `a/a` pass,
  though `a` would have to be a file and a directory. `execute` then fails, with no effect.
* `build_traceability.py:2519` always writes that the release is not ready, where
  `validate_traceability.py:550` wants `PASS` of a complete ledger.
* A commit that finds a manifest of its intent over the manifest's tree returns its receipt,
  which names the transaction of the attempt that booked it.
* The final snapshot and comparison of a commit (`filesystem.py:493`) are outside the handler
  that restores the backup: if the snapshot raises, the workspace stays promoted under a
  `PREPARED` manifest, or, where somebody has damaged the private stage since it was
  verified, as a tree that is neither before nor after. A retry or a rollback can put it right.
* A retry takes over the backup of the attempt before it unread. If that was corrupted, the
  manifest's backup is no longer the tree the commit starts from, and a failure restores it:
  this is why `CommitsAreJournaled` and the refinement assume that nobody corrupts anything
  or that no intent is tried twice.
* An edit of the newest event with its hash made to fit, or a cut suffix, cannot be seen
  again once the journal has appended to the edited list.
* A demo whose policy makes a forbidden action eligible commits the write and then fails:
  the trace validator is what refuses. `allowed_files_changed` in its report is a constant.
* An older release opens a journal of a newer one without notice, and two first openings
  at once may let one raise, harmlessly (`RefusalHasACause`).
* Identifiers after the frozen epoch, and all tombstones, are protected by the registry file
  alone: take one out by hand, and builder and validator accept the rest (`CommitsAppend`
  excepts such an edit, and only that). The validator does not read the Markdown's content,
  and 39 mandatory `METRIC` rows cannot become verified (`validate_traceability.py:765`).

## 4. Proofs

TLAPS checks the theorems below for every set of transactions, intents, trees, grants,
rules or rows and every choice of faults and bounds. What they assume of the constants is
named where the constants are declared, and TLC evaluates it for every instance:

* types of parameters: `BoundsAreNaturals`, `LimitsAreNaturals`, `ConstantsAreTyped` (in
  `Coordinator` also that a new receipt identifier may carry its transaction's name),
  `GrantsAreTyped`,
  `RulesAreTyped`, `IntentsAreTyped`, `MaxRunsIsNatural`, `LedgerConstants`,
  `TablesAreLists`, `ProgramsAreNumbered` (a release's migrations have distinct versions);
* a stand-in for Python's `None` or for a missing file is none of the things it stands for:
  `NoneIsNoIdentifier`, `NoneIsNothing`, `NamesAreDistinct`, `NoEntryIsNoData`,
  `BlobsAreContents`.

| module | theorem | says |
|---|---|---|
| `JournalProofs` | `TableWellFormed` | no rule leaves a final state; sources, events and targets are in the enumerations |
| | `JournalTypeCorrect` | `JSpec => []JTypeOK` |
| | `IntentHasOneLiveOwner` | `JSpec => []OneLiveOwner` |
| | `FinishedStaysFinished` | `JSpec => HistoryIsFinal` |
| | `UncertainOwnerIsKept` | `JSpec => UncertainOwnerKeepsIntent` |
| | `LogAlwaysReplays` | `JSpec => []LogReplaysToTable` |
| `CoordinatorProofs` | `CoordinatorTypeCorrect` | `Spec => []TypeOK` |
| | `IntentAppliedOnce` | `Spec => []AtMostOneEffectPerIntent` |
| | `EffectsNeverDisowned` | `Spec => []EffectsAreAdmitted` |
| | `CommittedIsReceipted` | `Spec => []ReceiptsAreTruthful` |
| | `WorkersOwnTheirIntent` | `Spec => []ActiveMeansOwner` |
| `OutcomeProofs` | `SessionsAreTidy` | `Spec => []TInv`, the inductive invariant of the module |
| | `TransitionsAreAccepted` | `Spec => []NoTransitionRefused` |
| | `CleanEndsAreClean` | `Spec => []CleanEndLeavesNoStage` |
| | `TakeoversAreLinked` | `Spec => []TakeoverIsLinked`, if no journal call fails |
| | `RetriesFormChains` | `Spec => []SupersessionIsAChain` |
| | `CoordinatorKeepsHistory` | `Spec => HistoryIsFinal` |
| | `CoordinatorKeepsOwners` | `Spec => UncertainOwnerKeepsIntent` |
| | `CoordinatorImplementsEffectOutcome` | `Spec => RefinesEffectOutcome` |
| `AdapterProofs` | `OperationsStandWhereTheySay` | `Spec => []Inv`, the inductive invariant of the filesystem adapter |
| | `CommitsAreJournaled` | `Spec => []MutationIsJournaled`, without corruption or without retries |
| | `RestoresLoseNothing` | `Spec => []NothingIsLost`, with at most one corruption or without retries |
| | `ReceiptsAreWhole` | `Spec => ReceiptIsWhole` |
| | `RollbacksRestore` | `Spec => RollbackRestores` |
| | `StalenessIsBooked` | `Spec => StaleIsBooked` |
| | `AdapterImplementsAtomicWorkspace` | `Spec => RefinesAtomicWorkspace`, without corruption or without retries |
| | `MockReconcilesTruthfully` | `MockSpec => []ReconcileIsTruthful` |
| | `MockImplementsAtomicWorkspace` | `MockSpec => MockRefinesAtomicWorkspace` |
| | `RegistryTypeCorrect` | `RegistrySpec => []RegistryTypeOK` |
| | `AuthorizedIsResolved` | `RegistrySpec => []ResolvedIsAsAuthorized` |
| | `AdapterHasOneName` | `RegistrySpec => []OneNameAtATime` |
| | `AdmissionNeverMoves` | `RegistrySpec => AdmissionIsFinal` |
| `AuthorityProofs` | `TypeCorrect` | `Spec => []TypeOK` |
| | `BudgetsHold` | `Spec => []BudgetHolds` |
| | `NoUsesAreLost` | `Spec => []NoUseIsLost` |
| | `AllowancesAreCovered` | `Spec => []AllowanceIsCovered` |
| | `DenialsAreExhaustive` | `Spec => []DenialIsExhaustive` |
| | `DecisionsAreDenyDominant` | `PolicySpec => []DecisionIsDenyDominant` |
| `EvidenceProofs` | `HistoryIsPinned` | `Spec => []FinalHashPinsHistory` |
| | `IntactListsAreValid` | `Spec => []IntactIsValid` |
| | `AcknowledgedIsAvailable` | `StoreSpec => []StoredIsAvailable` |
| | `CorruptionIsReal` | `StoreSpec => []AlarmsAreTrue` |
| | `RefusalsHaveACause` | `OpeningSpec => []RefusalHasACause` |
| `DemoProofs` | `SandboxIsContained` | `SandboxSpec => []NothingRunsUncontained` |
| | `LeftoversHaveACause` | `SandboxSpec => []LeftoversAreExplained` |
| | `MatchedReplaysAreFaithful` | `Spec => []MatchedMeansFaithful` |
| | `NothingIsCarriedOutUnjudged` | `Spec => JudgedBeforeCarriedOut` |
| `TraceabilityProofs` | `ValidatedFilesAreOfOneBuild` | `TraceSpec => []ValidatedIsOfOneBuild` |
| | `LedgerIsAppendOnly` | `TraceSpec => CommitsAppend` |

**Journal.** `JInv` is `JTypeOK`, `OneLiveOwner` and `AbsentIsBlank`: an absent
transaction has an empty row, without which creating it could take a version back.
One lemma per operation shows that it preserves `JInv`. `JOperation` is `JNext`
without its bounds; `JInvStep` is stated for it, so that a module that calls the
journal can cite it for each of its own calls. `LogReplaysToTable` is not inductive
alone: `LogInv` adds `NoEarlyEvent`, that no event is recorded as a transition of a
transaction that does not exist yet, so that the event of a creation is its first.

**Coordinator, one operation.** Its safety properties are not inductive alone. `CInv`
conjoins `TypeOK`, `JInv`, `EffectsInv` (what the adapter remembers is an effect of that
intent, an effect names a transaction of its intent, no intent has two) and `Good(t)` for
each transaction. `Good(t)` ties the point an operation stands at to the durable tables:

* the cached record is the row (`record`), and the row's state is the one the
  point implies (`StandsIn`); for an operation about to record events, `Plan` lists
  the events it may hold in that state and where it goes on;
* past validation, or once told so by the reservation, it owns its intent;
* an effect exists only in `COMMITTING`, `COMMITTED`, `FAILED` or `IN_DOUBT`, and
  not yet when `adapter.commit` is about to run or "no effect" about to be recorded;
* a receipt implies an effect, and a `COMMITTED` recorded or about to be, a receipt.

The argument for `AtMostOneEffectPerIntent` is `OwnerIsFirst`: an effect of the
intent by another transaction would make that one the owner too. An owner loses
its intent only in a state of `SafeNoEffectStates` (`ReservationOwner`), where the
four conditions above demand nothing of it; `TableStep` uses this once for all
actions on the tables, `LocalStep` covers those that touch only their session,
and one lemma per action instantiates one of the two. `Crash` needs no more than
that what `Good` says of a state without a session is said of durable tables only.

**Coordinator, what its callers rely on** (`OutcomeProofs`). `TInv` adds to `CInv` what a
session remembers of its own past, `Tidy(t)`: an abort begins with an event its state has a
rule for and knows the outcome it ends in (`AbortIsLegal`, `OutcomeIntended`); whoever has
a stage knows it, and does not record a clean discard before it is gone (`StageIsKnown`);
whoever may have staged owns its intent until it has ended without effect (`StagerOwns`:
`RECOVERY_FAILED` keeps it, which is why the verdict "no effect" cannot be given to an
intent whose staged material is still there); and a takeover is linked (`IsLinked`). The
last holds only if no journal call fails, and `takeover_unlinked` shows that this
hypothesis is needed. `Chained` says of the rows of different transactions that what one
follows, by its link or in its session's memory, has ended without effect on the same
intent, has lost it, and is followed by no other (`ClaimsAreDead`, `ClaimsAreDisjoint`);
a claim is made only when an owner is replaced, which is then dead and unclaimed.
The refinement maps `CommitApplies` to `Apply` (allowed because the transaction owns its
intent and, by `OwnerIsFirst`, nothing was applied), `RecordEvent` to `Conclude` where it
reaches a verdict, and everything else, crashes included, to a stutter. Since every step
of the coordinator is an operation of `Journal` or leaves it alone
(`StepsAreJournalOperations`), the journal's two action properties hold of the whole.

**FilesystemAdapter.** `Inv` says of the step an operation stands at (`StandsAt`) what has
been found, booked and moved by then: before the manifest is written nothing is touched
(`Untouched`), from then on the manifest of its receipt is of this intent, with the tree
before as its base and, if written by this attempt, the staged tree as its end
(`CommitIsBooked`); a restore has both trees on disk (`Restores`, `BothTreesAreThere`). One
lemma per action shows `Inv` kept. The hypotheses are about one path of the code: a retry
takes over the manifest of an earlier attempt with its backup, unread (filesystem.py:468),
and compares the result with its own stage.

* If that backup was corrupted meanwhile it is not the tree before, so
  `MutationIsJournaled` and the refinement need that nothing was corrupted, or that no two
  transactions share an intent. For `NothingIsLost` one corruption does no harm, since the
  tree that was moved away is still whole.

`ReceiptIsWhole` and `StaleIsBooked` need no hypothesis. For the first, `CommitIsBooked` ties
the manifest a commit has found, whoever booked it, to the base this commit starts from, and
the final comparison to its own stage; for the second, `StandsAt` says that before the
promotion the workspace is untouched, that in a rollback's copy it is still the tree it
started from, and that in a commit's restore a fault has been counted.

The refinement maps `Inspect` and `Execute` to `Offer`, the writing of the manifest to
`Book`, the end of a commit that compared well to `Apply`, that of a rollback to `Undo`,
writes of others to `Foreign`, a crash or unhandled failure in an operation that has begun to
move files to a counted `Shatter`, and all other steps to stutters: while an operation
runs, the abstract workspace is the tree it began with.

**MockAdapter.** A plan records the version and the state of its target at different
times (mock.py:106, :121). `MockInv` carries that as long as the version is still the
planned one, so is the state (`StagedFromItsBase`), which makes the check of the version in
`commit` a comparison of whole states; that a commit's state stands as long as its
version does (`CommitStands`), which makes the check in `rollback` one too; and that every
receipt anyone holds is that of a commit (`HoldsAReceipt`), also when a repeated commit
returned another caller's. `CommitApplies` maps to `BookAndApply`, `MockRollback` to the
`Undo` of the receipt's transaction, `ForeignWrite` to `Foreign`.

**AdapterRegistry.** `RegistryInv` adds to `RegistryTypeOK` that the table has an entry for
every name. `OneNameAtATime` follows because the digest of a registration contains its name
and must be the manifest's of the moment, which has one name.

**Authority.** For any services, grants, requests and clock. `Inv` ties every counter to the
uses granted: a durable count never exceeds the budget of some grant of that capability,
and what was allowed is at most what was counted, the difference being failures. For
`DenialIsExhaustive` a running check carries that every grant it has passed did not apply
or was exhausted; counters only grow, so what was exhausted stays so.

**PolicyEngine.** For bundles of any length. `PolicyInv` is that of the loop: each of its
lists is empty exactly if no rule of that effect matched among those read, and the mode
sets are those of the matching grants (`LoopCollects`); a ruling is the conclusion drawn
after the last rule. The proof never looks into `Meets`, so it holds whatever a condition
says; that the rules decide and not their order is then a statement about sets.

**EvidenceLedger.** For lists of any length and any edits. The loop of `validate_chain`
is the induction: `Pinned` says of every position accepted so far that an event with the
hash of a recorded event is that event, at the same place, and so are all before it. A
step adds one event, whose hash contains the previous one; hashes being injective, an
equal hash gives equal content and an equal predecessor.

**ArtifactStore and Migrations.** `StoreInv`: only a blob written to its end gets a name, a
name is never taken away, and a process that compares has found a file; hence what was
stored is there, and an alarm is one. `OpeningInv` says of a connection that what it read
of the table of migrations is still there, but for rows that were recorded since, by itself
or, if it was overtaken, by others (`AsItRead`); as a release's migrations have distinct
versions, a row it runs into is another connection's or has another text (`Refused`).

**DockerSandbox and Demo.** `SandboxInv`: a container about to be started has all controls,
since the inspection refused it otherwise (`StartedAsInspected`), and of all containers not
known to be stranded only that of the present run exists (`OnlyOneIsHeld`). `DemoInv`
says where every field of a trace is held by something outside its file: the plan by the
note (`PlanIsTheNotes`), the decisions by the judgments (`SourceIsJudged`,
`ReplayIsJudged`), the hashes by the journal (`TraceIsBound`, `LoadedIsBound`). A replay
that says it matched has compared each of them, so the edits of the kinds `Demo` models are
found however many there are.

**Traceability.** `LedgerInv` is `Shapes` (a file is broken or what a builder made of some
table, and a policy is made by nobody else) and `Grows` (unless the registry was
edited by hand, it and the one a build is about to write extend the last commit's). The
validator compares the files with one another, never with what a build meant to write; that
they are of one build takes an invariant over builds, crashes and restores, `Traced`: since
build `writer` wrote the manifest, it was at most broken, and the registry kept that build's
epoch and only gained tombstones (`KeepsTo`); the registry a running build has read is there
until it writes its own (`Continues`). Of what a build wrote, the
rows determine everything but epoch and tombstones, so a registry and a policy that agree
with the manifest's rows are that build's, whence `ValidatedIsOfOneBuild`.

**Not proved.** Every property of a passing run is stated by a theorem above except the
two liveness properties, `ScopeSettles` and `BegunIsFinished` (`coordinator_liveness`):
fairness is `ENABLED`, which this prover does not reason about. The properties of the five
runs that expect a violation are false of the code. Also outside the proofs is what recursive
definitions compute over data, such as which conditions `ValidCondition` accepts and `Meets`
fulfils: it would take an induction over data, and `journal_and_guards` checks it on its
conditions. That a row and its event are written both or not at all rests on SQLite's
transactions and is one step of the model.
`TypeOK` and its likes, `AllowanceIsCovered`, `IntactIsValid`, `AlarmsAreTrue`,
`OneNameAtATime` and `AdmissionIsFinal` are the other way round: they are proved, and no
run repeats them.

## 5. What is not modelled, and the plan

Not modelled, and why:

* **Command line**, but for `doctor_report`: it parses arguments, calls one component and
  prints a projection of the answer with long or tainted text replaced; no state.
* **Domain models and canonical JSON**: schemas, and an encoding that refuses or encodes;
  a field is modelled where something is decided on it, a digest as the term it is of.
* **Model gateway**: a chain of refusals before one call, with no state of its own.
* **Snapshot walks and path checks**: a snapshot is one step of `FilesystemAdapter`; the
  walk over directories and the normalisation of the paths of a proposal are left out.
* **The shape of a policy document** (its limits of depth 32 and 10000 nodes, aliases).
* **The text of the traceability scripts**: nine tenths of `build_traceability.py` is the
  row table and the wording of Markdown; the extraction of rows from the specification,
  evidence references and quotes are functions of text.
* **YAML, JSON, SQLite, docker and Python themselves** are taken at their documented behaviour.
* **Power failures**: files survive the death of a process, not of the machine. The
  artifact store and the recovery manifests do not sync directories.
* **Links created during a walk** of the workspace, devices, mounts and mode bits.
* Approval: the code never requires it (`NO_APPROVAL_REQUIRED` is recorded
  unconditionally), so `AWAITING_APPROVAL` is in the table only; `rollback`, `compensate`
  and reconciliation of transactions are in the table but driven by no code (the adapters'
  own `rollback` and `reconcile` are modelled).

Abstractions a reader should know of: payloads, digests and timestamps are dropped or
terms; elapsed time is the set `late` in `Coordinator` and a small clock in `Authority`;
the profile, adapter and version checks of admission are one nondeterministic refusal in
`Coordinator`, of which `AdapterRegistry` is the detail; receipts are named by the
transaction that created them.

What is left of the plan:

1. A snapshot taken file by file while a writer works (`snapshots/filesystem.py:164`), the one
   hazard that neither a run nor a theorem is about and that a model could reach.
2. One module that composes `Coordinator` with the recovery manifests of
   `FilesystemAdapter` in place of the adapter's memory, for a restart that reconciles;
   no code of this revision does that yet.
