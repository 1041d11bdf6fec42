---------------------------- MODULE Traceability ----------------------------
(***************************************************************************)
(* The requirements ledger: scripts/build_traceability.py writes four      *)
(* files from its row table, scripts/validate_traceability.py checks them  *)
(* against constants of its own, and a commit passes when the validator    *)
(* and the test that generates them again agree.  A developer edits the    *)
(* table, the files and the validator; a build may die between two writes. *)
(* A digest of identifiers is the sequence of identifiers itself.          *)
(***************************************************************************)
EXTENDS Naturals, SequencesExt

CONSTANTS
  FrozenRows,   \* the row table of the frozen epoch
  AppendedRows, \* rows appended to it before the first state
  LaterIds,     \* identifiers for rows that come later
  Tombstones,   \* what a developer may write about a retired row
  HandEdits,    \* TRUE: registry and manifest are also edited by hand
  MaxEdits,     \* bound: edits of a developer
  MaxCrashes    \* bound: builds that die

Row(id, source, mandatory, status) ==
  [id |-> id, source |-> source, mandatory |-> mandatory, status |-> status]
\* `open': partial, missing or blocked; `unproven': called verified, without evidence
Statuses == {"verified", "unproven", "open"}
Rows == [id : STRING, source : BOOLEAN, mandatory : BOOLEAN, status : Statuses]
ASSUME TablesAreLists == FrozenRows \in Seq(Rows) /\ AppendedRows \in Seq(Rows)

Ids(rows) == [i \in DOMAIN rows |-> rows[i].id]
SourceRows(rows) == SelectSeq(rows, LAMBDA r : r.source)
FrozenIds == Ids(FrozenRows)
FrozenEpoch == [count |-> Len(FrozenIds), ids |-> FrozenIds]
NoId == "none"
Broken == [broken |-> TRUE]

VARIABLES
  table,      \* the rows the builder would generate now
  files,      \* manifest, registry, policy, markdown
  pinned,     \* what the validator's source pins: the policy, the catalog
  job,        \* the build in progress or last ended
  committed,  \* files, pins and writer of the last commit
  rebased,    \* history: what the registry has to keep was edited by hand
  writer,     \* history: the output of the build that wrote the manifest, or Broken
              \* where manifest or registry were edited by hand since
  edits, crashes
traceVars == <<table, files, pinned, job, committed, rebased, writer, edits, crashes>>

-----------------------------------------------------------------------------
(* build_traceability.py                                                    *)

BuildManifest(rows) == [rows |-> rows, readiness |-> "FAIL"]
SpecHasTheRows(rows) == Len(SourceRows(rows)) = Len(SourceRows(FrozenRows))

TombstoneBuilds(t, old, ids) ==
  /\ t.id \in ToSet(old) \cap ToSet(ids)
  /\ t.replacement = NoId \/ (t.replacement # t.id /\ t.replacement \in ToSet(ids))
  /\ t.reason # "empty" /\ t.date # "not a date"
Unique(tombstones) == \A i, j \in DOMAIN tombstones : tombstones[i].id = tombstones[j].id => i = j

Bug_AnyIds(rows, old) ==
  /\ \A i \in DOMAIN old.tombstones : TombstoneBuilds(old.tombstones[i], old.ids, Ids(rows))
  /\ Unique(old.tombstones)
RegistryBuilds(rows, old) ==
  /\ IsPrefix(old.ids, Ids(rows))
  /\ \A i \in DOMAIN old.tombstones : TombstoneBuilds(old.tombstones[i], old.ids, Ids(rows))
  /\ Unique(old.tombstones)
  /\ old.epoch.count \in 1 .. Len(old.ids) /\ old.epoch.ids = SubSeq(old.ids, 1, old.epoch.count)
BuildRegistry(rows, old) ==
  [ids |-> Ids(rows), epoch |-> old.epoch, baseline |-> Ids(SourceRows(rows)), tombstones |-> old.tombstones]

\* of two rows with one identifier the later one counts
Mandatory(rows) ==
  [id \in ToSet(Ids(rows)) |-> LET last == CHOOSE i \in DOMAIN rows : /\ rows[i].id = id
                                                    /\ \A j \in DOMAIN rows : rows[j].id = id => j <= i
                               IN rows[last].mandatory]
BuildPolicy(rows, registry) ==
  [epoch |-> registry.epoch, order |-> Ids(rows), mandatory |-> Mandatory(rows)]

Generated(rows, old) ==
  LET registry == BuildRegistry(rows, old) IN
    [policy |-> BuildPolicy(rows, registry), manifest |-> BuildManifest(rows),
     registry |-> registry, markdown |-> [rows |-> rows]]

NoJob == [at |-> "idle", initialize |-> FALSE, out |-> Broken]
WriteOrder == <<"policy", "manifest", "registry", "markdown">>

\* main, up to its first write; without --initialize-policy the policy has to be there
Begin(initialize) ==
  /\ job.at \notin ToSet(WriteOrder)
  /\ SpecHasTheRows(table)
  /\ files.registry # Broken /\ RegistryBuilds(table, files.registry)
  /\ LET out == Generated(table, files.registry) IN
       /\ initialize \/ files.policy = out.policy
       /\ job' = [at |-> IF initialize THEN "policy" ELSE "manifest",
                  initialize |-> initialize, out |-> out]
  /\ UNCHANGED <<table, files, pinned, committed, rebased, writer, edits, crashes>>

Following(at) == CASE at = "policy" -> "manifest" [] at = "manifest" -> "registry"
               [] at = "registry" -> "markdown" [] at = "markdown" -> "done"
Write ==
  /\ job.at \in ToSet(WriteOrder)
  /\ files' = [files EXCEPT ![job.at] = job.out[job.at]]
  /\ job' = [job EXCEPT !.at = Following(job.at)]
  /\ writer' = IF job.at = "manifest" THEN job.out ELSE writer
  /\ UNCHANGED <<table, pinned, committed, rebased, edits, crashes>>

\* write_bytes truncates first
Crash ==
  /\ job.at \in ToSet(WriteOrder) /\ crashes < MaxCrashes
  /\ crashes' = crashes + 1
  /\ files' \in {files, [files EXCEPT ![job.at] = Broken]}
  /\ job' = [job EXCEPT !.at = "crashed"]
  /\ UNCHANGED <<table, pinned, committed, rebased, writer, edits>>

-----------------------------------------------------------------------------
(* validate_traceability.py                                                 *)

ValidIds(rows) == \A i, j \in DOMAIN rows : rows[i].id = rows[j].id => i = j
ValidStatuses(rows) == \A i \in DOMAIN rows : rows[i].status # "unproven"
ValidSourceCounts(rows) ==
  /\ SpecHasTheRows(rows)
  /\ ToSet(Ids(SourceRows(rows))) = ToSet(Ids(SourceRows(FrozenRows)))
ValidCatalogs(rows) == ToSet(Ids(rows)) \ ToSet(Ids(SourceRows(rows))) = pinned.catalog

ValidPolicy(policy, rows) ==
  /\ policy # Broken /\ policy = pinned.policy
  /\ policy.epoch = FrozenEpoch
  /\ DOMAIN policy.mandatory = ToSet(Ids(rows)) /\ policy.order = Ids(rows)
  /\ \A i \in DOMAIN rows : policy.mandatory[rows[i].id] = rows[i].mandatory

AllVerified(rows, mandatory) ==
  \A id \in DOMAIN mandatory : mandatory[id] => \E i \in DOMAIN rows : rows[i].id = id /\ rows[i].status = "verified"
ValidMetadata(manifest, policy) ==
  manifest.readiness = IF AllVerified(manifest.rows, policy.mandatory) THEN "PASS" ELSE "FAIL"

ValidTombstone(t, ids, mandatory) ==
  /\ t.id \in ToSet(ids) \cap DOMAIN mandatory
  /\ t.reason = "meaningful" /\ t.date = "a day"
  /\ t.replacement = NoId \/ (t.replacement # t.id /\ t.replacement \in ToSet(ids))
Bug_RegistryPrefixOnly(registry, rows, mandatory) ==
  /\ registry # Broken /\ registry.epoch = FrozenEpoch
  /\ \A i \in DOMAIN registry.tombstones : ValidTombstone(registry.tombstones[i], registry.ids, mandatory)
ValidRegistry(registry, rows, mandatory) ==
  /\ registry # Broken /\ registry.epoch = FrozenEpoch
  /\ IsPrefix(FrozenIds, registry.ids)
  /\ registry.ids = Ids(rows) /\ registry.baseline = Ids(SourceRows(rows))
  /\ \A i \in DOMAIN registry.tombstones : ValidTombstone(registry.tombstones[i], registry.ids, mandatory)
  /\ Unique(registry.tombstones)

\* the Markdown is only searched for personal paths
Validates ==
  /\ files.manifest # Broken
  /\ LET rows == files.manifest.rows IN
       /\ ValidIds(rows) /\ ValidStatuses(rows) /\ ValidSourceCounts(rows) /\ ValidCatalogs(rows)
       /\ ValidPolicy(files.policy, rows) /\ ValidMetadata(files.manifest, files.policy)
       /\ ValidRegistry(files.registry, rows, files.policy.mandatory)

\* the test that generates everything again, on copies of registry and policy
Regenerates ==
  /\ SpecHasTheRows(table)
  /\ files.registry # Broken /\ RegistryBuilds(table, files.registry)
  /\ Generated(table, files.registry) = files

-----------------------------------------------------------------------------
(* external: the developer                                                  *)

Edit ==
  /\ edits < MaxEdits /\ edits' = edits + 1
  /\ job.at \notin ToSet(WriteOrder) /\ job' = NoJob
  /\ UNCHANGED <<committed, crashes>>

EditTable ==
  /\ Edit
  /\ \/ \E id \in LaterIds \cup ToSet(FrozenIds), i \in {Len(table), Len(table) + 1} :
          table' = InsertAt(table, i, Row(id, FALSE, TRUE, "open"))
     \/ \E i \in DOMAIN table, s \in Statuses : table' = [table EXCEPT ![i].status = s]
     \/ \E i \in DOMAIN table : table' = [table EXCEPT ![i].mandatory = ~@]
     \/ \E i \in DOMAIN table : Len(table) > 1 /\ table' = RemoveAt(table, i)
  /\ table' # table
  /\ UNCHANGED <<files, pinned, rebased, writer>>

\* the validator's constants follow the files
Repin ==
  /\ Edit
  /\ files.policy # Broken /\ files.manifest # Broken
  /\ LET rows == files.manifest.rows IN
       pinned' = [policy |-> files.policy, catalog |-> ToSet(Ids(rows)) \ ToSet(Ids(SourceRows(rows)))]
  /\ UNCHANGED <<table, files, rebased, writer>>

Retire ==
  /\ Edit /\ files.registry # Broken
  /\ \E t \in Tombstones : files' = [files EXCEPT !.registry.tombstones = Append(@, t)]
  /\ UNCHANGED <<table, pinned, rebased, writer>>

EditRegistryByHand ==
  /\ Edit /\ HandEdits /\ files.registry # Broken
  /\ \/ Len(files.registry.ids) > 1 /\ files' = [files EXCEPT !.registry.ids = Front(@)]
     \/ files' = [files EXCEPT !.registry.epoch = [count |-> 1, ids |-> SubSeq(FrozenIds, 1, 1)]]
     \/ files.registry.tombstones # <<>> /\ files' = [files EXCEPT !.registry.tombstones = Front(@)]
  /\ rebased' = TRUE /\ writer' = Broken
  /\ UNCHANGED <<table, pinned>>

EditManifestByHand ==
  /\ Edit /\ HandEdits /\ files.manifest # Broken
  /\ \/ \E i \in DOMAIN files.manifest.rows :
          files' = [files EXCEPT !.manifest.rows[i].mandatory = ~@]
     \/ files' = [files EXCEPT !.manifest.readiness = "PASS"]
  /\ writer' = Broken
  /\ UNCHANGED <<table, pinned, rebased>>

\* git: the files of the last commit
Restore ==
  /\ job.at \notin ToSet(WriteOrder) /\ files # committed.files
  /\ files' = committed.files /\ writer' = committed.writer
  /\ job' = NoJob
  /\ UNCHANGED <<table, pinned, committed, rebased, edits, crashes>>

Commit ==
  /\ job.at \notin ToSet(WriteOrder) /\ Validates /\ Regenerates
  /\ committed' = [files |-> files, pinned |-> pinned, writer |-> writer]
  /\ committed' # committed
  /\ UNCHANGED <<table, files, pinned, job, rebased, writer, edits, crashes>>

-----------------------------------------------------------------------------
TraceInit ==
  /\ table = FrozenRows \o AppendedRows
  /\ files = Generated(table, [ids |-> FrozenIds, epoch |-> FrozenEpoch, tombstones |-> <<>>])
  /\ pinned = [policy |-> files.policy,
               catalog |-> ToSet(Ids(table)) \ ToSet(Ids(SourceRows(table)))]
  /\ job = NoJob
  /\ writer = files
  /\ committed = [files |-> files, pinned |-> pinned, writer |-> writer]
  /\ rebased = FALSE /\ edits = 0 /\ crashes = 0
Build == Begin(TRUE) \/ Begin(FALSE) \/ Write \/ Crash
Developer == EditTable \/ Repin \/ Retire \/ EditRegistryByHand \/ EditManifestByHand \/ Restore \/ Commit
TraceNext == Build \/ Developer
TraceSpec == TraceInit /\ [][TraceNext]_traceVars

-----------------------------------------------------------------------------
(* Properties                                                               *)

(* What was committed is only appended to: no identifier is removed,        *)
(* renamed, moved or reused, and a retired one stays retired, unless        *)
(* somebody takes one of them out of the registry by hand; the frozen epoch *)
(* stays even then (docs/project/requirements-traceability.md:113).         *)
CommitsAppend ==
  [][ committed' # committed =>
        LET old == committed.files.registry
            new == committed'.files.registry
        IN /\ IsPrefix(FrozenIds, new.ids)
           /\ \A i, j \in DOMAIN new.ids : new.ids[i] = new.ids[j] => i = j
           /\ rebased \/ (IsPrefix(old.ids, new.ids) /\ IsPrefix(old.tombstones, new.tombstones)) ]_traceVars

(* Wherever builds have died, and whatever was edited and restored between  *)
(* them: files that the validator passes hold what the build that wrote the *)
(* manifest was to write, none is left from another one, and only           *)
(* tombstones were added since.  This speaks of files that nobody edited by *)
(* hand after that build; the Markdown is not looked at.                    *)
ValidatedIsOfOneBuild ==
  Validates /\ writer # Broken =>
    /\ files.policy = writer.policy /\ files.manifest = writer.manifest
    /\ \A f \in {"ids", "epoch", "baseline"} : files.registry[f] = writer.registry[f]
    /\ IsPrefix(writer.registry.tombstones, files.registry.tombstones)
=============================================================================
