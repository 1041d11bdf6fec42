------------------------- MODULE TraceabilityProofs -------------------------
(***************************************************************************)
(* Proofs about the requirements ledger: for any tables, tombstones and    *)
(* edits, with or without edits by hand, however many and wherever builds  *)
(* die, what the validator passes is what one build was to write, unless   *)
(* somebody edited it by hand, and what is committed is only appended to.  *)
(***************************************************************************)
EXTENDS Traceability, SequenceTheorems, TLAPS

-----------------------------------------------------------------------------
(* The invariant                                                            *)

IsList(s) == \E S : s \in Seq(S)
IsRecord(r, fields) == r = [f \in fields |-> r[f]]
Names == {"policy", "manifest", "registry", "markdown"}

IsPolicy(p) == \E rows, registry : p = BuildPolicy(rows, registry)
IsManifest(m) == IsRecord(m, {"rows", "readiness"}) /\ IsList(m.rows)
IsRegistry(r) ==
  IsRecord(r, {"ids", "epoch", "baseline", "tombstones"}) /\ IsList(r.ids) /\ IsList(r.tombstones)

\* a file that a build did not finish is broken; nobody edits the policy by hand
Written(fs) ==
  /\ IsRecord(fs, Names)
  /\ fs.policy = Broken \/ IsPolicy(fs.policy)
  /\ fs.manifest = Broken \/ IsManifest(fs.manifest)
  /\ fs.registry = Broken \/ IsRegistry(fs.registry)
Whole(fs) == IsRecord(fs, Names) /\ IsPolicy(fs.policy) /\ IsManifest(fs.manifest) /\ IsRegistry(fs.registry)

Running == job.at \in Names
Extends(new, old) == IsPrefix(old.ids, new.ids) /\ IsPrefix(old.tombstones, new.tombstones)

Shapes ==
  /\ IsList(table) /\ IsRecord(job, {"at", "initialize", "out"})
  /\ Written(files) /\ Written(committed.files) /\ IsRegistry(committed.files.registry)
  /\ Running => Whole(job.out)
\* without edits by hand the registry, and what a build is about to make of it, extend the last commit's
Grows ==
  ~rebased => /\ files.registry # Broken => Extends(files.registry, committed.files.registry)
              /\ Running => Extends(job.out.registry, committed.files.registry)
LedgerInv == Shapes /\ Grows

IsBuild(b) == Whole(b) /\ \E rows, old : b = Generated(rows, old)
\* since build b wrote the manifest of fs, files were only broken, and tombstones appended
KeepsTo(fs, b) ==
  b # Broken =>
    /\ IsBuild(b)
    /\ fs.manifest # Broken => fs.manifest = b.manifest
    /\ fs.registry # Broken => /\ fs.registry.epoch = b.registry.epoch
                              /\ IsPrefix(b.registry.tombstones, fs.registry.tombstones)
\* until a build writes the registry, the one it has read is there
Continues ==
  Running => /\ IsBuild(job.out)
             /\ job.at \in {"policy", "manifest", "registry"} =>
                  /\ files.registry.epoch = job.out.registry.epoch
                  /\ files.registry.tombstones = job.out.registry.tombstones
             /\ job.at = "registry" => writer = job.out
Traced == KeepsTo(files, writer) /\ KeepsTo(committed.files, committed.writer) /\ Continues

-----------------------------------------------------------------------------
(* Records and lists                                                        *)

\* s is r with x for its field f
Replaced(r, s, D, f, x) ==
  /\ IsRecord(s, D)
  /\ f \in D => s[f] = x
  /\ \A g \in D : g # f => s[g] = r[g]

LEMMA OneField ==
  ASSUME NEW r, NEW D, IsRecord(r, D), NEW f, NEW x
  PROVE  Replaced(r, [r EXCEPT ![f] = x], D, f, x)
BY DEF IsRecord, Replaced

LEMMA NamesOfFiles == ToSet(WriteOrder) = Names
BY DEF ToSet, WriteOrder, Names

LEMMA WholeIsWritten ==
  ASSUME NEW fs, Whole(fs)
  PROVE  Written(fs)
BY DEF Whole, Written

LEMMA RegistryIsNotBroken ==
  ASSUME NEW r, IsRegistry(r)
  PROVE  r # Broken
<1>1. DOMAIN r = {"ids", "epoch", "baseline", "tombstones"} BY DEF IsRegistry, IsRecord
<1>2. DOMAIN Broken = {"broken"} BY DEF Broken
<1> QED BY <1>1, <1>2

LEMMA PrefixIsPointwise ==
  ASSUME NEW s, NEW t, IsList(s), IsList(t)
  PROVE  IsPrefix(s, t) <=> Len(s) <= Len(t) /\ \A i \in 1 .. Len(s) : s[i] = t[i]
<1>1. PICK S : s \in Seq(S) BY DEF IsList
<1>2. PICK T : t \in Seq(T) BY DEF IsList
<1> DEFINE U == S \cup T
<1>3. s \in Seq(U) /\ t \in Seq(U) /\ Len(s) \in Nat /\ Len(t) \in Nat BY <1>1, <1>2
<1>4. SubSeq(s, 1, Len(s)) = s BY <1>1, SubSeqFull
<1>5. ASSUME Len(s) <= Len(t)
      PROVE  /\ SubSeq(t, 1, Len(s)) \in Seq(U) /\ Len(SubSeq(t, 1, Len(s))) = Len(s)
             /\ \A i \in 1 .. Len(s) : SubSeq(t, 1, Len(s))[i] = t[i]
  <2> DEFINE n == Len(s)
  <2>1. \A i \in 1 .. n : t[i] \in U BY <1>3, <1>5
  <2>2. n \in Nat BY <1>3
  <2> HIDE DEF U, n
  <2>3. /\ SubSeq(t, 1, n) \in Seq(U) /\ Len(SubSeq(t, 1, n)) = IF 1 <= n THEN n - 1 + 1 ELSE 0
        /\ \A i \in 1 .. n - 1 + 1 : SubSeq(t, 1, n)[i] = t[1 + i - 1]
    BY <2>1, <2>2, SubSeqProperties
  <2>4. /\ SubSeq(t, 1, n) \in Seq(U) /\ Len(SubSeq(t, 1, n)) = n
        /\ \A i \in 1 .. n : SubSeq(t, 1, n)[i] = t[i]
    BY <2>2, <2>3
  <2> QED BY <2>4 DEF n
<1> HIDE DEF U
<1>6. ASSUME Len(s) <= Len(t), \A i \in 1 .. Len(s) : s[i] = t[i]
      PROVE  SubSeq(s, 1, Len(s)) = SubSeq(t, 1, Len(s))
  <2>1. s = SubSeq(t, 1, Len(s)) BY <1>3, <1>5, <1>6, SeqEqual
  <2> QED BY <1>4, <2>1
<1>7. ASSUME Len(s) <= Len(t), SubSeq(s, 1, Len(s)) = SubSeq(t, 1, Len(s))
      PROVE  \A i \in 1 .. Len(s) : s[i] = t[i]
  BY <1>4, <1>5, <1>7
<1> QED BY <1>6, <1>7 DEF IsPrefix

LEMMA PrefixOfItself ==
  ASSUME NEW s, IsList(s)
  PROVE  IsPrefix(s, s)
<1>1. Len(s) \in Nat BY DEF IsList
<1> QED BY <1>1, PrefixIsPointwise

LEMMA PrefixOfPrefix ==
  ASSUME NEW s, NEW t, NEW u, IsList(s), IsList(t), IsList(u), IsPrefix(s, t), IsPrefix(t, u)
  PROVE  IsPrefix(s, u)
<1>1. Len(s) \in Nat /\ Len(t) \in Nat /\ Len(u) \in Nat BY DEF IsList
<1>2. Len(s) <= Len(t) /\ \A i \in 1 .. Len(s) : s[i] = t[i] BY PrefixIsPointwise
<1>3. Len(t) <= Len(u) /\ \A i \in 1 .. Len(t) : t[i] = u[i] BY PrefixIsPointwise
<1>4. Len(s) <= Len(u) /\ \A i \in 1 .. Len(s) : s[i] = u[i] BY <1>1, <1>2, <1>3
<1> QED BY <1>4, PrefixIsPointwise

LEMMA AppendExtends ==
  ASSUME NEW s, NEW e, IsList(s)
  PROVE  IsList(Append(s, e)) /\ IsPrefix(s, Append(s, e))
<1>1. PICK S : s \in Seq(S) BY DEF IsList
<1> DEFINE T == S \cup {e}
<1>2. s \in Seq(T) /\ e \in T BY <1>1
<1> HIDE DEF T
<1>3. /\ Append(s, e) \in Seq(T) /\ Len(Append(s, e)) = Len(s) + 1
      /\ \A i \in 1 .. Len(s) : Append(s, e)[i] = s[i]
  BY <1>2, AppendProperties
<1>4. IsList(Append(s, e)) BY <1>3 DEF IsList
<1>5. Len(s) \in Nat BY <1>1
<1>6. Len(s) <= Len(Append(s, e)) /\ \A i \in 1 .. Len(s) : s[i] = Append(s, e)[i] BY <1>3, <1>5
<1> QED BY <1>4, <1>6, PrefixIsPointwise

LEMMA SliceIsAList ==
  ASSUME NEW s, NEW m \in Int, NEW n \in Int
  PROVE  IsList(SubSeq(s, m, n))
<1> DEFINE S == {s[i] : i \in m .. n}
<1>1. \A i \in m .. n : s[i] \in S OBVIOUS
<1> HIDE DEF S
<1>2. SubSeq(s, m, n) \in Seq(S) BY <1>1, SubSeqProperties
<1> QED BY <1>2 DEF IsList

LEMMA JoinIsAList ==
  ASSUME NEW s, NEW t, IsList(s), IsList(t)
  PROVE  IsList(s \o t)
<1>1. PICK S : s \in Seq(S) BY DEF IsList
<1>2. PICK T : t \in Seq(T) BY DEF IsList
<1> DEFINE U == S \cup T
<1>3. s \in Seq(U) /\ t \in Seq(U) BY <1>1, <1>2
<1> HIDE DEF U
<1>4. s \o t \in Seq(U) BY <1>3, ConcatProperties
<1> QED BY <1>4 DEF IsList

LEMMA IdsAreAList ==
  ASSUME NEW rows, IsList(rows)
  PROVE  IsList(Ids(rows)) /\ DOMAIN Ids(rows) = DOMAIN rows
<1>1. PICK S : rows \in Seq(S) BY DEF IsList
<1>2. Ids(rows) \in Seq({rows[i].id : i \in DOMAIN rows}) BY <1>1 DEF Ids
<1> QED BY <1>2 DEF IsList, Ids

LEMMA ChangedInPlace ==
  ASSUME NEW s, IsList(s), NEW i \in DOMAIN s, NEW e
  PROVE  IsList([s EXCEPT ![i] = e])
<1>1. PICK S : s \in Seq(S) BY DEF IsList
<1> DEFINE T == S \cup {e}
<1>2. s \in Seq(T) /\ e \in T /\ i \in 1 .. Len(s) BY <1>1
<1> HIDE DEF T
<1>3. [s EXCEPT ![i] = e] \in Seq(T) BY <1>2, ExceptSeq
<1> QED BY <1>3 DEF IsList

-----------------------------------------------------------------------------
(* What a build makes                                                       *)

LEMMA GeneratedIsWhole ==
  ASSUME NEW rows, NEW old, IsList(rows), IsList(old.tombstones)
  PROVE  /\ Whole(Generated(rows, old))
         /\ Generated(rows, old).registry.ids = Ids(rows)
         /\ Generated(rows, old).registry.tombstones = old.tombstones
<1> DEFINE g == Generated(rows, old)
           r == BuildRegistry(rows, old)
<1>1. /\ IsRecord(g, Names) /\ g.policy = BuildPolicy(rows, r)
      /\ g.manifest = BuildManifest(rows) /\ g.registry = r
  BY DEF Generated, IsRecord, Names
<1>2. IsManifest(BuildManifest(rows)) BY DEF IsManifest, BuildManifest, IsRecord
<1>3. IsRecord(r, {"ids", "epoch", "baseline", "tombstones"}) /\ r.ids = Ids(rows) /\ r.tombstones = old.tombstones
  BY DEF BuildRegistry, IsRecord
<1>4. IsList(r.ids) BY <1>3, IdsAreAList
<1>5. IsRegistry(r) BY <1>3, <1>4 DEF IsRegistry
<1> HIDE DEF g, r
<1>6. IsPolicy(g.policy) BY <1>1 DEF IsPolicy
<1>7. Whole(g) BY <1>1, <1>2, <1>5, <1>6 DEF Whole
<1> QED BY <1>1, <1>3, <1>7 DEF g

\* the registry of a build extends the one it read
LEMMA BuildsExtend ==
  ASSUME NEW rows, NEW old, IsList(rows), IsRegistry(old), RegistryBuilds(rows, old)
  PROVE  Whole(Generated(rows, old)) /\ Extends(Generated(rows, old).registry, old)
<1>1. IsList(old.tombstones) BY DEF IsRegistry
<1>2. IsPrefix(old.tombstones, old.tombstones) BY <1>1, PrefixOfItself
<1>3. IsPrefix(old.ids, Ids(rows)) BY DEF RegistryBuilds
<1> QED BY <1>1, <1>2, <1>3, GeneratedIsWhole DEF Extends

LEMMA ExtendsItself ==
  ASSUME NEW r, IsRegistry(r)
  PROVE  Extends(r, r)
BY PrefixOfItself DEF IsRegistry, Extends

LEMMA ExtendsFurther ==
  ASSUME NEW r, NEW s, NEW t, IsRegistry(r), IsRegistry(s), IsRegistry(t), Extends(s, r), Extends(t, s)
  PROVE  Extends(t, r)
BY PrefixOfPrefix DEF IsRegistry, Extends

-----------------------------------------------------------------------------
(* The steps                                                                *)

LEMMA Starts == TraceInit => LedgerInv
<1> SUFFICES ASSUME TraceInit PROVE LedgerInv OBVIOUS
<1> DEFINE old == [ids |-> FrozenIds, epoch |-> FrozenEpoch, tombstones |-> <<>>]
<1>1. IsList(table) BY TablesAreLists, JoinIsAList DEF TraceInit, IsList
<1>2. old.tombstones = <<>> /\ IsList(<<>>) BY EmptySeq DEF IsList
<1>3. files = Generated(table, old) BY DEF TraceInit
<1> HIDE DEF old
<1>4. Whole(files) BY <1>1, <1>2, <1>3, GeneratedIsWhole
<1>5. committed.files = files /\ job = NoJob BY DEF TraceInit
<1>6. IsRecord(job, {"at", "initialize", "out"}) /\ ~Running BY <1>5 DEF NoJob, IsRecord, Running, Names
<1>7. Shapes BY <1>1, <1>4, <1>5, <1>6, WholeIsWritten DEF Shapes, Whole
<1>8. Grows BY <1>5, <1>6, <1>7, ExtendsItself DEF Grows, Shapes
<1> QED BY <1>7, <1>8 DEF LedgerInv

LEMMA BeginKeeps ==
  ASSUME LedgerInv, NEW initialize \in BOOLEAN, Begin(initialize)
  PROVE  LedgerInv'
<1> DEFINE out == Generated(table, files.registry)
           at == IF initialize THEN "policy" ELSE "manifest"
<1>1. /\ files.registry # Broken /\ RegistryBuilds(table, files.registry)
      /\ job' = [at |-> at, initialize |-> initialize, out |-> out]
      /\ UNCHANGED <<table, files, committed, rebased>>
  BY DEF Begin
<1>2. IsRegistry(files.registry) /\ IsList(table) BY <1>1 DEF LedgerInv, Shapes, Written
<1>3. Whole(out) /\ Extends(out.registry, files.registry) BY <1>1, <1>2, BuildsExtend
<1> HIDE DEF out, at
<1>4. IsRecord(job', {"at", "initialize", "out"}) /\ job'.out = out BY <1>1 DEF IsRecord
<1>5. Shapes' BY <1>1, <1>3, <1>4 DEF LedgerInv, Shapes
<1>6. IsRegistry(out.registry) /\ IsRegistry(committed.files.registry) BY <1>3 DEF Whole, LedgerInv, Shapes
<1>7. ~rebased => Extends(out.registry, committed.files.registry)
  BY <1>1, <1>2, <1>3, <1>6, ExtendsFurther DEF LedgerInv, Grows
<1>8. Grows' BY <1>1, <1>4, <1>7 DEF LedgerInv, Grows
<1> QED BY <1>5, <1>8 DEF LedgerInv

LEMMA WriteKeeps ==
  ASSUME LedgerInv, Write
  PROVE  LedgerInv'
<1> DEFINE at == job.at
           x == job.out[job.at]
           next == Following(job.at)
<1>1. /\ at \in Names /\ Running
      /\ files' = [files EXCEPT ![at] = x] /\ job' = [job EXCEPT !["at"] = next]
      /\ UNCHANGED <<table, committed, rebased>>
  BY NamesOfFiles DEF Write, Running
<1>2. Whole(job.out) /\ Written(files) BY <1>1 DEF LedgerInv, Shapes
<1>3. x = job.out[at] OBVIOUS
<1> HIDE DEF at, x, next
<1>4. /\ IsRecord(files', Names) /\ files'[at] = x
      /\ \A g \in Names : g # at => files'[g] = files[g]
  <2>1. IsRecord(files, Names) BY <1>2 DEF Written
  <2>2. Replaced(files, [files EXCEPT ![at] = x], Names, at, x) BY <2>1, OneField
  <2>3. Replaced(files, files', Names, at, x) BY <1>1, <2>2
  <2> QED BY <1>1, <2>3 DEF Replaced
<1>5. IsRecord(job, {"at", "initialize", "out"}) BY DEF LedgerInv, Shapes
<1>6. IsRecord(job', {"at", "initialize", "out"}) /\ job'["out"] = job["out"]
  <2> DEFINE D == {"at", "initialize", "out"}
  <2>1. IsRecord(job, D) BY <1>5
  <2> HIDE DEF D
  <2>2. Replaced(job, [job EXCEPT !["at"] = next], D, "at", next) BY <2>1, OneField
  <2>3. Replaced(job, job', D, "at", next) BY <1>1, <2>2
  <2> QED BY <2>3 DEF Replaced, D
<1>7. \A g \in Names : files'[g] = files[g] \/ files'[g] = job.out[g] BY <1>3, <1>4
<1>8. files'.policy \in {files.policy, job.out.policy} /\ files'.manifest \in {files.manifest, job.out.manifest}
      /\ files'.registry \in {files.registry, job.out.registry}
  BY <1>7 DEF Names
<1>9. Written(files') BY <1>2, <1>4, <1>8 DEF Written, Whole
<1>10. Shapes' BY <1>1, <1>2, <1>6, <1>9 DEF LedgerInv, Shapes
<1>11. Grows' BY <1>1, <1>6, <1>8 DEF LedgerInv, Grows, Running
<1> QED BY <1>10, <1>11 DEF LedgerInv

LEMMA CrashKeeps ==
  ASSUME LedgerInv, Crash
  PROVE  LedgerInv'
<1> DEFINE at == job.at
<1>1. /\ at \in Names
      /\ files' = files \/ files' = [files EXCEPT ![at] = Broken]
      /\ job' = [job EXCEPT !["at"] = "crashed"]
      /\ UNCHANGED <<table, committed, rebased>>
  BY NamesOfFiles DEF Crash
<1> HIDE DEF at
<1>2. IsRecord(job, {"at", "initialize", "out"}) /\ Written(files) BY DEF LedgerInv, Shapes
<1>3. IsRecord(job', {"at", "initialize", "out"}) /\ ~Running'
  <2> DEFINE D == {"at", "initialize", "out"}
  <2>1. IsRecord(job, D) BY <1>2
  <2> HIDE DEF D
  <2>2. Replaced(job, [job EXCEPT !["at"] = "crashed"], D, "at", "crashed") BY <2>1, OneField
  <2>3. Replaced(job, job', D, "at", "crashed") BY <1>1, <2>2
  <2> QED BY <2>3 DEF Replaced, D, Running, Names
<1>4. IsRecord(files', Names) /\ \A g \in Names : files'[g] = files[g] \/ files'[g] = Broken
  <2>1. IsRecord(files, Names) BY <1>2 DEF Written
  <2>2. CASE files' = files BY <2>1, <2>2
  <2>3. CASE files' = [files EXCEPT ![at] = Broken]
    <3>1. Replaced(files, [files EXCEPT ![at] = Broken], Names, at, Broken) BY <2>1, OneField
    <3>2. Replaced(files, files', Names, at, Broken) BY <2>3, <3>1
    <3> QED BY <1>1, <3>2 DEF Replaced
  <2> QED BY <1>1, <2>2, <2>3
<1>5. files'.policy \in {files.policy, Broken} /\ files'.manifest \in {files.manifest, Broken}
      /\ files'.registry \in {files.registry, Broken}
  BY <1>4 DEF Names
<1>6. Written(files') BY <1>2, <1>4, <1>5 DEF Written
<1>7. Shapes' BY <1>1, <1>3, <1>6 DEF LedgerInv, Shapes
<1>8. Grows' BY <1>1, <1>3, <1>5 DEF LedgerInv, Grows
<1> QED BY <1>7, <1>8 DEF LedgerInv

\* an edit ends the build before it and changes no commit
LEMMA EditKeeps ==
  ASSUME LedgerInv, job' = NoJob, committed' = committed, IsList(table'), Written(files'),
         \/ rebased' = TRUE
         \/ rebased' = rebased /\ files'.registry = files.registry
         \/ /\ rebased' = rebased /\ files.registry # Broken
            /\ IsRegistry(files.registry) /\ IsRegistry(files'.registry) /\ Extends(files'.registry, files.registry)
  PROVE  LedgerInv'
<1>1. IsRecord(job', {"at", "initialize", "out"}) /\ ~Running' BY DEF NoJob, IsRecord, Running, Names
<1>2. Shapes' BY <1>1 DEF LedgerInv, Shapes
<1>3. IsRegistry(committed.files.registry) BY DEF LedgerInv, Shapes
<1>4. Grows' BY <1>1, <1>3, ExtendsFurther DEF LedgerInv, Grows
<1> QED BY <1>2, <1>4 DEF LedgerInv

LEMMA EditTableKeeps ==
  ASSUME LedgerInv, EditTable
  PROVE  LedgerInv'
<1>1. job' = NoJob /\ UNCHANGED <<files, committed, rebased>> BY DEF EditTable, Edit
<1>2. IsList(table) /\ Written(files) BY DEF LedgerInv, Shapes
<1>3. Len(table) \in Nat BY <1>2 DEF IsList
<1>4. IsList(table')
  <2>1. ASSUME NEW i \in {Len(table), Len(table) + 1}, NEW e
        PROVE  IsList(InsertAt(table, i, e))
    <3>1. IsList(SubSeq(table, 1, i - 1)) /\ IsList(SubSeq(table, i, Len(table))) BY <1>3, SliceIsAList
    <3>2. IsList(<<e>>)
      <4>1. <<e>> \in Seq({e}) OBVIOUS
      <4> QED BY <4>1 DEF IsList
    <3>3. IsList(SubSeq(table, 1, i - 1) \o <<e>>) BY <3>1, <3>2, JoinIsAList
    <3>4. IsList((SubSeq(table, 1, i - 1) \o <<e>>) \o SubSeq(table, i, Len(table))) BY <3>1, <3>3, JoinIsAList
    <3> QED BY <3>4 DEF InsertAt
  <2>2. ASSUME NEW i \in DOMAIN table
        PROVE  IsList(RemoveAt(table, i))
    <3>1. i \in Nat BY <1>2 DEF IsList
    <3>2. IsList(SubSeq(table, 1, i - 1)) /\ IsList(SubSeq(table, i + 1, Len(table)))
      BY <1>3, <3>1, SliceIsAList
    <3> QED BY <3>2, JoinIsAList DEF RemoveAt
  <2>3. ASSUME NEW i \in DOMAIN table, NEW s
        PROVE  IsList([table EXCEPT ![i].status = s]) /\ IsList([table EXCEPT ![i].mandatory = s])
    BY <1>2, ChangedInPlace
  <2>4. CASE \E id \in LaterIds \cup ToSet(FrozenIds), i \in {Len(table), Len(table) + 1} :
               table' = InsertAt(table, i, Row(id, FALSE, TRUE, "open"))
    BY <2>1, <2>4
  <2>5. CASE \E i \in DOMAIN table, s \in Statuses : table' = [table EXCEPT ![i].status = s]
    <3>1. PICK i \in DOMAIN table : \E s : table' = [table EXCEPT ![i].status = s] BY <2>5
    <3>2. PICK s : table' = [table EXCEPT ![i].status = s] BY <3>1
    <3> QED BY <2>3, <3>2
  <2>6. CASE \E i \in DOMAIN table : table' = [table EXCEPT ![i].mandatory = ~@]
    <3>1. PICK i \in DOMAIN table : table' = [table EXCEPT ![i].mandatory = ~@] BY <2>6
    <3> QED BY <2>3, <3>1
  <2>7. CASE \E i \in DOMAIN table : Len(table) > 1 /\ table' = RemoveAt(table, i) BY <2>2, <2>7
  <2> QED BY <2>4, <2>5, <2>6, <2>7 DEF EditTable
<1> QED BY <1>1, <1>2, <1>4, EditKeeps

\* a file of the three that the validator reads is replaced
LEMMA FileReplaced ==
  ASSUME Written(files), NEW name \in Names, NEW x, files' = [files EXCEPT ![name] = x],
         name = "policy" => IsPolicy(x), name = "manifest" => IsManifest(x), name = "registry" => IsRegistry(x)
  PROVE  /\ Written(files') /\ files'[name] = x
         /\ name # "registry" => files'.registry = files.registry
         /\ name # "manifest" => files'.manifest = files.manifest
<1>1. IsRecord(files, Names) BY DEF Written
<1>2. Replaced(files, [files EXCEPT ![name] = x], Names, name, x) BY <1>1, OneField
<1>3. Replaced(files, files', Names, name, x) BY <1>2
<1>4. /\ IsRecord(files', Names) /\ files'[name] = x
      /\ \A g \in Names : g # name => files'[g] = files[g]
  BY <1>3 DEF Replaced
<1>5. \A g \in Names : g # name => files'[g] = files[g] BY <1>4
<1>6. /\ name # "policy" => files'.policy = files.policy
      /\ name # "manifest" => files'.manifest = files.manifest
      /\ name # "registry" => files'.registry = files.registry
  BY <1>5 DEF Names
<1> QED BY <1>4, <1>6 DEF Written

LEMMA RepinKeeps ==
  ASSUME LedgerInv, Repin
  PROVE  LedgerInv'
<1>1. job' = NoJob /\ UNCHANGED <<table, files, committed, rebased>> BY DEF Repin, Edit
<1>2. IsList(table) /\ Written(files) BY DEF LedgerInv, Shapes
<1> QED BY <1>1, <1>2, EditKeeps

LEMMA RetiringAppends ==
  ASSUME LedgerInv, Retire
  PROVE  /\ files.registry # Broken /\ IsRegistry(files.registry) /\ Written(files')
         /\ IsRegistry(files'.registry) /\ Extends(files'.registry, files.registry)
         /\ files'.registry.epoch = files.registry.epoch /\ files'.manifest = files.manifest
<1> DEFINE r == files.registry
           D == {"ids", "epoch", "baseline", "tombstones"}
<1>1. r # Broken /\ \E t \in Tombstones : files' = [files EXCEPT !.registry.tombstones = Append(@, t)]
  BY DEF Retire, Edit
<1>2. PICK t \in Tombstones : files' = [files EXCEPT !.registry.tombstones = Append(@, t)] BY <1>1
<1> DEFINE more == Append(r.tombstones, t)
           x == [r EXCEPT !["tombstones"] = more]
<1>3. files' = [files EXCEPT !["registry"] = x] BY <1>2
<1>4. IsRegistry(r) /\ Written(files) BY <1>1 DEF LedgerInv, Shapes, Written
<1>5. IsRecord(r, D) /\ IsList(r.ids) /\ IsList(r.tombstones) BY <1>4 DEF IsRegistry
<1>6. IsList(more) /\ IsPrefix(r.tombstones, more) BY <1>5, AppendExtends
<1>7. IsPrefix(r.ids, r.ids) BY <1>5, PrefixOfItself
<1>8. Replaced(r, x, D, "tombstones", more)
  <2> HIDE DEF r, D, more
  <2> QED BY <1>5, OneField
<1> HIDE DEF x, more
<1>9. IsRecord(x, D) /\ x.tombstones = more /\ x.ids = r.ids /\ x.epoch = r.epoch BY <1>8 DEF Replaced
<1>10. IsRegistry(x) /\ Extends(x, r) BY <1>5, <1>6, <1>7, <1>9 DEF IsRegistry, Extends
<1>11. Written(files') /\ files'.registry = x /\ files'.manifest = files.manifest
  BY <1>3, <1>4, <1>10, FileReplaced DEF Names
<1> QED BY <1>1, <1>4, <1>9, <1>10, <1>11

LEMMA RetireKeeps ==
  ASSUME LedgerInv, Retire
  PROVE  LedgerInv'
<1>1. job' = NoJob /\ UNCHANGED <<table, committed, rebased>> BY DEF Retire, Edit
<1>2. IsList(table) BY DEF LedgerInv, Shapes
<1> QED BY <1>1, <1>2, RetiringAppends, EditKeeps

LEMMA EditRegistryByHandKeeps ==
  ASSUME LedgerInv, EditRegistryByHand
  PROVE  LedgerInv'
<1> DEFINE r == files.registry
           D == {"ids", "epoch", "baseline", "tombstones"}
<1>1. /\ job' = NoJob /\ UNCHANGED <<table, committed>> /\ r # Broken /\ rebased' = TRUE
      /\ \/ files' = [files EXCEPT !.registry.ids = Front(@)]
         \/ files' = [files EXCEPT !.registry.epoch = [count |-> 1, ids |-> SubSeq(FrozenIds, 1, 1)]]
         \/ files' = [files EXCEPT !.registry.tombstones = Front(@)]
  BY DEF EditRegistryByHand, Edit
<1>2. IsRegistry(r) /\ IsList(table) /\ Written(files) BY <1>1 DEF LedgerInv, Shapes, Written
<1>3. IsRecord(r, D) /\ IsList(r.ids) /\ IsList(r.tombstones) BY <1>2 DEF IsRegistry
<1> DEFINE Becomes(f, y) ==
             /\ files' = [files EXCEPT !["registry"] = [r EXCEPT ![f] = y]]
             /\ f \in {"ids", "tombstones"} => IsList(y)
<1>4. \E f \in {"ids", "epoch", "tombstones"} : \E y : Becomes(f, y)
  <2>1. CASE files' = [files EXCEPT !.registry.ids = Front(@)]
    <3>1. files' = [files EXCEPT !["registry"] = [r EXCEPT !["ids"] = Front(r.ids)]] BY <2>1
    <3>2. Len(r.ids) \in Nat BY <1>3 DEF IsList
    <3>3. IsList(Front(r.ids)) BY <3>2, SliceIsAList DEF Front
    <3> HIDE DEF r
    <3> QED BY <3>1, <3>3
  <2>2. CASE files' = [files EXCEPT !.registry.epoch = [count |-> 1, ids |-> SubSeq(FrozenIds, 1, 1)]]
    <3> DEFINE y == [count |-> 1, ids |-> SubSeq(FrozenIds, 1, 1)]
    <3>1. files' = [files EXCEPT !["registry"] = [r EXCEPT !["epoch"] = y]] BY <2>2
    <3> HIDE DEF r, y
    <3> QED BY <3>1
  <2>3. CASE files' = [files EXCEPT !.registry.tombstones = Front(@)]
    <3>1. files' = [files EXCEPT !["registry"] = [r EXCEPT !["tombstones"] = Front(r.tombstones)]] BY <2>3
    <3>2. Len(r.tombstones) \in Nat BY <1>3 DEF IsList
    <3>3. IsList(Front(r.tombstones)) BY <3>2, SliceIsAList DEF Front
    <3> HIDE DEF r
    <3> QED BY <3>1, <3>3
  <2> QED BY <1>1, <2>1, <2>2, <2>3
<1> HIDE DEF Becomes
<1>5. PICK f \in {"ids", "epoch", "tombstones"} : \E y : Becomes(f, y) BY <1>4
<1>6. PICK y : Becomes(f, y) BY <1>5
<1> USE DEF Becomes
<1> DEFINE x == [r EXCEPT ![f] = y]
<1>7. Replaced(r, x, D, f, y)
  <2> HIDE DEF r, D
  <2> QED BY <1>3, OneField
<1>8. files' = [files EXCEPT !["registry"] = x] BY <1>6
<1> HIDE DEF x
<1>9. /\ IsRecord(x, D)
      /\ x.tombstones = r.tombstones \/ (f = "tombstones" /\ x.tombstones = y)
      /\ x.ids = r.ids \/ (f = "ids" /\ x.ids = y)
  BY <1>7 DEF Replaced
<1>10. IsRegistry(x) BY <1>3, <1>6, <1>9 DEF IsRegistry
<1>11. Written(files') BY <1>2, <1>8, <1>10, FileReplaced DEF Names
<1> QED BY <1>1, <1>2, <1>11, EditKeeps

LEMMA EditManifestByHandKeeps ==
  ASSUME LedgerInv, EditManifestByHand
  PROVE  LedgerInv'
<1> DEFINE m == files.manifest
           D == {"rows", "readiness"}
<1>1. /\ job' = NoJob /\ UNCHANGED <<table, committed, rebased>> /\ m # Broken
      /\ \/ \E i \in DOMAIN m.rows : files' = [files EXCEPT !.manifest.rows[i].mandatory = ~@]
         \/ files' = [files EXCEPT !.manifest.readiness = "PASS"]
  BY DEF EditManifestByHand, Edit
<1>2. IsManifest(m) /\ IsList(table) /\ Written(files) BY <1>1 DEF LedgerInv, Shapes, Written
<1>3. IsRecord(m, D) /\ IsList(m.rows) BY <1>2 DEF IsManifest
<1> DEFINE Becomes(f, y) ==
             /\ files' = [files EXCEPT !["manifest"] = [m EXCEPT ![f] = y]]
             /\ f = "rows" => IsList(y)
<1>4. \E f \in D : \E y : Becomes(f, y)
  <2>1. CASE \E i \in DOMAIN m.rows : files' = [files EXCEPT !.manifest.rows[i].mandatory = ~@]
    <3>1. PICK i \in DOMAIN m.rows : files' = [files EXCEPT !.manifest.rows[i].mandatory = ~@] BY <2>1
    <3> DEFINE row == [m.rows[i] EXCEPT !.mandatory = ~m.rows[i].mandatory]
               y == [m.rows EXCEPT ![i] = row]
    <3>2. files' = [files EXCEPT !["manifest"] = [m EXCEPT !["rows"] = y]] BY <3>1
    <3> HIDE DEF row
    <3>3. IsList(y) BY <1>3, ChangedInPlace
    <3> HIDE DEF m, y
    <3> QED BY <3>2, <3>3
  <2>2. CASE files' = [files EXCEPT !.manifest.readiness = "PASS"]
    <3>1. files' = [files EXCEPT !["manifest"] = [m EXCEPT !["readiness"] = "PASS"]] BY <2>2
    <3> HIDE DEF m
    <3> QED BY <3>1
  <2> QED BY <1>1, <2>1, <2>2
<1> HIDE DEF Becomes
<1>5. PICK f \in D : \E y : Becomes(f, y) BY <1>4
<1>6. PICK y : Becomes(f, y) BY <1>5
<1> USE DEF Becomes
<1> DEFINE x == [m EXCEPT ![f] = y]
<1>7. Replaced(m, x, D, f, y)
  <2> HIDE DEF m, D
  <2> QED BY <1>3, OneField
<1>8. files' = [files EXCEPT !["manifest"] = x] BY <1>6
<1> HIDE DEF x
<1>9. IsRecord(x, D) /\ (x.rows = m.rows \/ (f = "rows" /\ x.rows = y))
  BY <1>7 DEF Replaced
<1>10. IsManifest(x) BY <1>3, <1>6, <1>9 DEF IsManifest
<1>11. Written(files') /\ files'.registry = files.registry BY <1>2, <1>8, <1>10, FileReplaced DEF Names
<1> QED BY <1>1, <1>2, <1>11, EditKeeps

LEMMA RestoreKeeps ==
  ASSUME LedgerInv, Restore
  PROVE  LedgerInv'
<1>1. files' = committed.files /\ job' = NoJob /\ UNCHANGED <<table, committed, rebased>> BY DEF Restore
<1>2. IsRecord(job', {"at", "initialize", "out"}) /\ ~Running'
  BY <1>1 DEF NoJob, IsRecord, Running, Names
<1>3. Shapes' BY <1>1, <1>2 DEF LedgerInv, Shapes
<1>4. Extends(committed.files.registry, committed.files.registry) BY ExtendsItself DEF LedgerInv, Shapes
<1>5. Grows' BY <1>1, <1>2, <1>4 DEF Grows
<1> QED BY <1>3, <1>5 DEF LedgerInv

LEMMA CommitKeeps ==
  ASSUME LedgerInv, Commit
  PROVE  LedgerInv'
<1>1. /\ ~Running /\ Validates /\ committed' = [files |-> files, pinned |-> pinned, writer |-> writer]
      /\ UNCHANGED <<table, files, job, rebased>>
  BY NamesOfFiles DEF Commit, Running
<1>2. committed'.files = files BY <1>1
<1>3. files.registry # Broken BY <1>1 DEF Validates, ValidRegistry
<1>4. IsRegistry(files.registry) BY <1>3 DEF LedgerInv, Shapes, Written
<1>5. ~Running' BY <1>1 DEF Running
<1>6. Shapes' BY <1>1, <1>2, <1>4, <1>5 DEF LedgerInv, Shapes
<1>7. Extends(files.registry, files.registry) BY <1>4, ExtendsItself
<1>8. Grows' BY <1>1, <1>2, <1>5, <1>7 DEF Grows
<1> QED BY <1>6, <1>8 DEF LedgerInv

LEMMA Steps == LedgerInv /\ [TraceNext]_traceVars => LedgerInv'
<1> SUFFICES ASSUME LedgerInv, [TraceNext]_traceVars PROVE LedgerInv' OBVIOUS
<1>1. CASE Begin(TRUE) BY <1>1, BeginKeeps
<1>2. CASE Begin(FALSE) BY <1>2, BeginKeeps
<1>3. CASE Write BY <1>3, WriteKeeps
<1>4. CASE Crash BY <1>4, CrashKeeps
<1>5. CASE EditTable BY <1>5, EditTableKeeps
<1>6. CASE Repin BY <1>6, RepinKeeps
<1>7. CASE Retire BY <1>7, RetireKeeps
<1>8. CASE EditRegistryByHand BY <1>8, EditRegistryByHandKeeps
<1>9. CASE EditManifestByHand BY <1>9, EditManifestByHandKeeps
<1>10. CASE Restore BY <1>10, RestoreKeeps
<1>11. CASE Commit BY <1>11, CommitKeeps
<1>12. CASE UNCHANGED traceVars
  BY <1>12 DEF traceVars, LedgerInv, Shapes, Grows, Running
<1> QED BY <1>1, <1>2, <1>3, <1>4, <1>5, <1>6, <1>7, <1>8, <1>9, <1>10, <1>11, <1>12 DEF TraceNext, Build, Developer

-----------------------------------------------------------------------------
(* The build that wrote the manifest                                        *)

LEMMA BuildKeepsToItself ==
  ASSUME NEW b, IsBuild(b)
  PROVE  KeepsTo(b, b) /\ IsPrefix(b.registry.tombstones, b.registry.tombstones)
BY PrefixOfItself DEF IsBuild, Whole, IsRegistry, KeepsTo

LEMMA TracedStarts == TraceInit => Traced
<1> SUFFICES ASSUME TraceInit PROVE Traced OBVIOUS
<1> DEFINE old == [ids |-> FrozenIds, epoch |-> FrozenEpoch, tombstones |-> <<>>]
<1>1. IsList(table) BY TablesAreLists, JoinIsAList DEF TraceInit, IsList
<1>2. old.tombstones = <<>> /\ IsList(<<>>) BY EmptySeq DEF IsList
<1>3. files = Generated(table, old) BY DEF TraceInit
<1> HIDE DEF old
<1>4. IsBuild(files) BY <1>1, <1>2, <1>3, GeneratedIsWhole DEF IsBuild
<1>5. writer = files /\ committed.files = files /\ committed.writer = files /\ job = NoJob BY DEF TraceInit
<1>6. ~Running BY <1>5 DEF NoJob, Running, Names
<1> QED BY <1>4, <1>5, <1>6, BuildKeepsToItself DEF Traced, Continues

LEMMA BeginTraces ==
  ASSUME LedgerInv, Traced, NEW initialize \in BOOLEAN, Begin(initialize)
  PROVE  Traced'
<1> DEFINE out == Generated(table, files.registry)
           at == IF initialize THEN "policy" ELSE "manifest"
<1>1. /\ files.registry # Broken /\ RegistryBuilds(table, files.registry)
      /\ job' = [at |-> at, initialize |-> initialize, out |-> out]
      /\ UNCHANGED <<files, committed, writer>>
  BY DEF Begin
<1>2. IsRegistry(files.registry) /\ IsList(table) BY <1>1 DEF LedgerInv, Shapes, Written
<1>3. IsBuild(out) BY <1>1, <1>2, BuildsExtend DEF IsBuild
<1>4. out.registry.epoch = files.registry.epoch /\ out.registry.tombstones = files.registry.tombstones
  BY DEF Generated, BuildRegistry
<1> HIDE DEF out
<1>5. job'.out = out /\ job'.at # "registry" BY <1>1
<1>6. Continues' BY <1>1, <1>3, <1>4, <1>5 DEF Continues
<1> QED BY <1>1, <1>6 DEF Traced

LEMMA WriteTraces ==
  ASSUME LedgerInv, Traced, Write
  PROVE  Traced'
<1> DEFINE at == job.at
           x == job.out[job.at]
           next == Following(job.at)
<1>1. /\ at \in Names /\ Running
      /\ files' = [files EXCEPT ![at] = x] /\ job' = [job EXCEPT !["at"] = next]
      /\ writer' = IF at = "manifest" THEN job.out ELSE writer
      /\ committed' = committed
  BY NamesOfFiles DEF Write, Running
<1>2. IsRecord(files, Names) /\ IsRecord(job, {"at", "initialize", "out"}) BY DEF LedgerInv, Shapes, Written
<1>3. /\ files'[at] = x
      /\ \A g \in Names : g # at => files'[g] = files[g]
  <2> HIDE DEF at, x, next
  <2>1. Replaced(files, [files EXCEPT ![at] = x], Names, at, x) BY <1>2, OneField
  <2>2. Replaced(files, files', Names, at, x) BY <1>1, <2>1
  <2> QED BY <1>1, <2>2 DEF Replaced
<1>4. job'.out = job.out /\ job'.at = next
  <2> DEFINE D == {"at", "initialize", "out"}
  <2>1. IsRecord(job, D) BY <1>2
  <2> HIDE DEF D, next
  <2>2. Replaced(job, [job EXCEPT !["at"] = next], D, "at", next) BY <2>1, OneField
  <2>3. Replaced(job, job', D, "at", next) BY <1>1, <2>2
  <2> QED BY <2>3 DEF Replaced, D
<1>5. /\ at # "manifest" => files'.manifest = files.manifest /\ writer' = writer
      /\ at # "registry" => files'.registry = files.registry
  <2> HIDE DEF at, x
  <2> QED BY <1>1, <1>3 DEF Names
<1>6. IsBuild(job.out) BY <1>1 DEF Traced, Continues
<1>7. CASE at \in {"policy", "markdown"}
  <2>1. KeepsTo(files', writer') BY <1>5, <1>7 DEF Traced, KeepsTo
  <2>2. next \in {"manifest", "done"} /\ (next = "manifest" => at = "policy") BY <1>7 DEF Following
  <2>3. Continues' BY <1>4, <1>5, <1>6, <1>7, <2>2, <1>1 DEF Traced, Continues, Running, Names
  <2> QED BY <1>1, <2>1, <2>3 DEF Traced
<1>8. CASE at = "manifest"
  <2>1. /\ files'.manifest = job.out.manifest /\ writer' = job.out
        /\ files'.registry = files.registry
        /\ files.registry.epoch = job.out.registry.epoch
        /\ files.registry.tombstones = job.out.registry.tombstones
    BY <1>1, <1>3, <1>5, <1>8 DEF Traced, Continues
  <2>2. KeepsTo(files', writer') BY <1>6, <2>1, BuildKeepsToItself DEF KeepsTo
  <2>3. next = "registry" BY <1>8 DEF Following
  <2>4. Continues' BY <1>4, <1>6, <2>1, <2>3 DEF Continues
  <2> QED BY <1>1, <2>2, <2>4 DEF Traced
<1>9. CASE at = "registry"
  <2>1. /\ files'.registry = job.out.registry /\ files'.manifest = files.manifest /\ writer' = writer
        /\ writer = job.out
    BY <1>1, <1>3, <1>5, <1>9 DEF Traced, Continues
  <2>2. KeepsTo(files', writer') BY <1>6, <2>1, BuildKeepsToItself DEF Traced, KeepsTo
  <2>3. next = "markdown" BY <1>9 DEF Following
  <2>4. Continues' BY <1>4, <1>6, <2>3 DEF Continues
  <2> QED BY <1>1, <2>2, <2>4 DEF Traced
<1> QED BY <1>1, <1>7, <1>8, <1>9 DEF Names

LEMMA CrashTraces ==
  ASSUME LedgerInv, Traced, Crash
  PROVE  Traced'
<1> DEFINE at == job.at
<1>1. /\ at \in Names
      /\ files' = files \/ files' = [files EXCEPT ![at] = Broken]
      /\ job' = [job EXCEPT !["at"] = "crashed"]
      /\ UNCHANGED <<committed, writer>>
  BY NamesOfFiles DEF Crash
<1> HIDE DEF at
<1>2. IsRecord(files, Names) /\ IsRecord(job, {"at", "initialize", "out"}) BY DEF LedgerInv, Shapes, Written
<1>3. ~Running'
  <2> DEFINE D == {"at", "initialize", "out"}
  <2>1. IsRecord(job, D) BY <1>2
  <2> HIDE DEF D
  <2>2. Replaced(job, [job EXCEPT !["at"] = "crashed"], D, "at", "crashed") BY <2>1, OneField
  <2>3. Replaced(job, job', D, "at", "crashed") BY <1>1, <2>2
  <2> QED BY <2>3 DEF Replaced, D, Running, Names
<1>4. \A g \in Names : files'[g] = files[g] \/ files'[g] = Broken
  <2>1. CASE files' = files BY <2>1
  <2>2. CASE files' = [files EXCEPT ![at] = Broken]
    <3>1. Replaced(files, [files EXCEPT ![at] = Broken], Names, at, Broken) BY <1>2, OneField
    <3>2. Replaced(files, files', Names, at, Broken) BY <2>2, <3>1
    <3> QED BY <1>1, <3>2 DEF Replaced
  <2> QED BY <1>1, <2>1, <2>2
<1>5. files'.manifest \in {files.manifest, Broken} /\ files'.registry \in {files.registry, Broken}
  BY <1>4 DEF Names
<1>6. KeepsTo(files', writer') BY <1>1, <1>5 DEF Traced, KeepsTo
<1> QED BY <1>1, <1>3, <1>6 DEF Traced, Continues

\* an edit by hand is noted; any other one leaves the manifest, and appends to the registry if anything
LEMMA EditTraces ==
  ASSUME LedgerInv, Traced, job' = NoJob, committed' = committed,
         \/ writer' = Broken
         \/ /\ writer' = writer /\ files'.manifest = files.manifest
            /\ \/ files'.registry = files.registry
               \/ /\ files.registry # Broken /\ IsRegistry(files.registry) /\ IsRegistry(files'.registry)
                  /\ files'.registry.epoch = files.registry.epoch
                  /\ Extends(files'.registry, files.registry)
  PROVE  Traced'
<1>1. ~Running' BY DEF NoJob, Running, Names
<1>2. KeepsTo(files', writer')
  <2>1. CASE writer' = Broken BY <2>1 DEF KeepsTo
  <2>2. CASE writer' = writer /\ files'.manifest = files.manifest /\ files'.registry = files.registry
    BY <2>2 DEF Traced, KeepsTo
  <2>3. CASE /\ writer' = writer /\ files'.manifest = files.manifest
             /\ files.registry # Broken /\ IsRegistry(files.registry) /\ IsRegistry(files'.registry)
             /\ files'.registry.epoch = files.registry.epoch /\ Extends(files'.registry, files.registry)
    <3> DEFINE before == files.registry.tombstones
               after == files'.registry.tombstones
    <3>1. SUFFICES ASSUME writer # Broken
                   PROVE  /\ IsBuild(writer)
                          /\ files'.manifest # Broken => files'.manifest = writer.manifest
                          /\ files'.registry.epoch = writer.registry.epoch
                          /\ IsPrefix(writer.registry.tombstones, after)
      BY <2>3 DEF KeepsTo
    <3>2. /\ IsBuild(writer)
          /\ files.manifest # Broken => files.manifest = writer.manifest
          /\ files.registry.epoch = writer.registry.epoch
          /\ IsPrefix(writer.registry.tombstones, before)
      BY <2>3, <3>1 DEF Traced, KeepsTo
    <3>3. IsList(writer.registry.tombstones) BY <3>2 DEF IsBuild, Whole, IsRegistry
    <3>4. IsList(before) /\ IsList(after) /\ IsPrefix(before, after) BY <2>3 DEF IsRegistry, Extends
    <3> HIDE DEF before, after
    <3>5. IsPrefix(writer.registry.tombstones, after) BY <3>2, <3>3, <3>4, PrefixOfPrefix
    <3> QED BY <2>3, <3>2, <3>5
  <2> QED BY <2>1, <2>2, <2>3
<1> QED BY <1>1, <1>2 DEF Traced, Continues

LEMMA TracedSteps == LedgerInv /\ Traced /\ [TraceNext]_traceVars => Traced'
<1> SUFFICES ASSUME LedgerInv, Traced, [TraceNext]_traceVars PROVE Traced' OBVIOUS
<1>1. CASE Begin(TRUE) BY <1>1, BeginTraces
<1>2. CASE Begin(FALSE) BY <1>2, BeginTraces
<1>3. CASE Write BY <1>3, WriteTraces
<1>4. CASE Crash BY <1>4, CrashTraces
<1>5. CASE EditTable \/ Repin
  BY <1>5, EditTraces DEF EditTable, Repin, Edit
<1>6. CASE Retire
  <2>1. job' = NoJob /\ UNCHANGED <<committed, writer>> BY <1>6 DEF Retire, Edit
  <2> QED BY <1>6, <2>1, RetiringAppends, EditTraces
<1>7. CASE EditRegistryByHand \/ EditManifestByHand
  <2>1. job' = NoJob /\ committed' = committed /\ writer' = Broken
    BY <1>7 DEF EditRegistryByHand, EditManifestByHand, Edit
  <2> QED BY <2>1, EditTraces
<1>8. CASE Restore
  <2>1. files' = committed.files /\ writer' = committed.writer /\ job' = NoJob /\ committed' = committed
    BY <1>8 DEF Restore
  <2>2. ~Running' BY <2>1 DEF NoJob, Running, Names
  <2> QED BY <2>1, <2>2 DEF Traced, Continues
<1>9. CASE Commit
  <2>1. /\ ~Running /\ committed' = [files |-> files, pinned |-> pinned, writer |-> writer]
        /\ UNCHANGED <<files, job, writer>>
    BY <1>9, NamesOfFiles DEF Commit, Running
  <2>2. committed'.files = files /\ committed'.writer = writer /\ ~Running' BY <2>1 DEF Running
  <2> QED BY <2>1, <2>2 DEF Traced, Continues
<1>10. CASE UNCHANGED traceVars
  BY <1>10 DEF traceVars, Traced, KeepsTo, Continues, Running
<1> QED BY <1>1, <1>2, <1>3, <1>4, <1>5, <1>6, <1>7, <1>8, <1>9, <1>10 DEF TraceNext, Build, Developer

LEMMA LedgerHolds == TraceSpec => [](LedgerInv /\ Traced)
<1>1. TraceInit => LedgerInv /\ Traced BY Starts, TracedStarts
<1>2. LedgerInv /\ Traced /\ [TraceNext]_traceVars => (LedgerInv /\ Traced)' BY Steps, TracedSteps
<1> QED BY <1>1, <1>2, PTL DEF TraceSpec

-----------------------------------------------------------------------------
(* The theorems                                                             *)

\* with one row of each identifier, the rows alone say what is mandatory
LEMMA MandatoryIsPinned ==
  ASSUME NEW rows, IsList(rows), ValidIds(rows), NEW f, IsPolicy(f),
         DOMAIN f.mandatory = ToSet(Ids(rows)),
         \A i \in DOMAIN rows : f.mandatory[rows[i].id] = rows[i].mandatory
  PROVE  f.mandatory = Mandatory(rows)
<1> DEFINE ids == ToSet(Ids(rows))
           IsLast(id, i) == rows[i].id = id /\ \A j \in DOMAIN rows : rows[j].id = id => j <= i
           last(id) == CHOOSE i \in DOMAIN rows : IsLast(id, i)
<1>1. \A i \in DOMAIN rows : i \in Nat BY DEF IsList
<1>2. ids = {rows[i].id : i \in DOMAIN rows} BY IdsAreAList DEF ToSet, Ids
<1>3. ASSUME NEW id \in ids
      PROVE  f.mandatory[id] = rows[last(id)].mandatory
  <2>1. PICK i \in DOMAIN rows : rows[i].id = id BY <1>2
  <2>2. IsLast(id, i) BY <1>1, <2>1 DEF ValidIds
  <2>3. last(id) \in DOMAIN rows /\ IsLast(id, last(id)) BY <2>1, <2>2
  <2> QED BY <2>3
<1>4. PICK all, registry : f = BuildPolicy(all, registry) BY DEF IsPolicy
<1>5. f.mandatory = Mandatory(all) BY <1>4 DEF BuildPolicy
<1>6. f.mandatory = [id \in DOMAIN f.mandatory |-> f.mandatory[id]] BY <1>5 DEF Mandatory
<1>7. Mandatory(rows) = [id \in ids |-> rows[last(id)].mandatory] BY DEF Mandatory
<1> HIDE DEF ids, last
<1> QED BY <1>3, <1>6, <1>7 DEF ids

LEMMA InvGivesOneBuild == LedgerInv /\ Traced => ValidatedIsOfOneBuild
<1> SUFFICES ASSUME LedgerInv, Traced, Validates, writer # Broken
             PROVE  /\ files.policy = writer.policy /\ files.manifest = writer.manifest
                    /\ \A f \in {"ids", "epoch", "baseline"} : files.registry[f] = writer.registry[f]
                    /\ IsPrefix(writer.registry.tombstones, files.registry.tombstones)
  BY DEF ValidatedIsOfOneBuild
<1> DEFINE rows == files.manifest.rows
           p == files.policy
           r == files.registry
<1>1. /\ ValidIds(rows) /\ ValidPolicy(p, rows) /\ ValidRegistry(r, rows, p.mandatory)
      /\ files.manifest # Broken /\ r # Broken
  BY DEF Validates, ValidRegistry
<1>2. IsPolicy(p) /\ IsList(rows)
  BY <1>1 DEF LedgerInv, Shapes, Written, IsManifest, ValidPolicy
<1>3. /\ p.epoch = FrozenEpoch /\ p.order = Ids(rows) /\ DOMAIN p.mandatory = ToSet(Ids(rows))
      /\ \A i \in DOMAIN rows : p.mandatory[rows[i].id] = rows[i].mandatory
  BY <1>1 DEF ValidPolicy
<1>4. r.ids = Ids(rows) /\ r.epoch = FrozenEpoch /\ r.baseline = Ids(SourceRows(rows)) BY <1>1 DEF ValidRegistry
<1>5. /\ IsBuild(writer) /\ files.manifest = writer.manifest /\ r.epoch = writer.registry.epoch
      /\ IsPrefix(writer.registry.tombstones, r.tombstones)
  BY <1>1 DEF Traced, KeepsTo
<1>6. PICK all, old : writer = Generated(all, old) BY <1>5 DEF IsBuild
<1>7. /\ writer.manifest = BuildManifest(all) /\ writer.registry = BuildRegistry(all, old)
      /\ writer.policy = BuildPolicy(all, writer.registry)
  BY <1>6 DEF Generated
<1>8. rows = all BY <1>5, <1>7 DEF BuildManifest
<1>9. writer.registry.ids = Ids(all) /\ writer.registry.baseline = Ids(SourceRows(all))
  BY <1>7 DEF BuildRegistry
<1> HIDE DEF rows, p, r
<1>10. p.mandatory = Mandatory(rows) BY <1>1, <1>2, <1>3, MandatoryIsPinned
<1>11. p = [epoch |-> p.epoch, order |-> p.order, mandatory |-> p.mandatory]
  BY <1>2 DEF IsPolicy, BuildPolicy
<1>12. p = writer.policy
  BY <1>3, <1>4, <1>5, <1>7, <1>8, <1>10, <1>11 DEF BuildPolicy
<1> QED BY <1>4, <1>5, <1>8, <1>9, <1>12 DEF p, r

(* Whatever was edited, whoever pinned it and wherever a build died: files  *)
(* that pass the validator, with manifest and registry not edited by hand   *)
(* since, are what the build that wrote the manifest was to write, and      *)
(* tombstones appended to its registry (build_traceability.py:2655-2680,    *)
(* validate_traceability.py:448-657).                                       *)
THEOREM ValidatedFilesAreOfOneBuild == TraceSpec => []ValidatedIsOfOneBuild
BY LedgerHolds, InvGivesOneBuild, PTL

(* What is committed is only appended to, for any number of edits, builds   *)
(* and commits; identifiers and tombstones can only be lost when somebody   *)
(* edited the registry by hand, and the frozen epoch not even then          *)
(* (build_traceability.py:2603).                                            *)
THEOREM LedgerIsAppendOnly == TraceSpec => CommitsAppend
<1>1. LedgerInv /\ [TraceNext]_traceVars =>
        (committed' # committed =>
           LET old == committed.files.registry
               new == committed'.files.registry
           IN /\ IsPrefix(FrozenIds, new.ids)
              /\ \A i, j \in DOMAIN new.ids : new.ids[i] = new.ids[j] => i = j
              /\ rebased \/ (IsPrefix(old.ids, new.ids) /\ IsPrefix(old.tombstones, new.tombstones)))
  <2> SUFFICES ASSUME LedgerInv, [TraceNext]_traceVars, committed' # committed
               PROVE  /\ IsPrefix(FrozenIds, committed'.files.registry.ids)
                      /\ \A i, j \in DOMAIN committed'.files.registry.ids :
                            committed'.files.registry.ids[i] = committed'.files.registry.ids[j] => i = j
                      /\ rebased \/ Extends(committed'.files.registry, committed.files.registry)
    BY DEF Extends
  <2> DEFINE rows == files.manifest.rows
  <2>1. Commit
    BY DEF TraceNext, traceVars, Build, Developer, Begin, Write, Crash, EditTable, Repin, Retire, EditRegistryByHand,
           EditManifestByHand, Edit, Restore
  <2>2. committed'.files = files /\ Validates BY <2>1 DEF Commit
  <2>3. /\ ValidIds(rows) /\ files.manifest # Broken /\ files.registry # Broken
        /\ IsPrefix(FrozenIds, files.registry.ids) /\ files.registry.ids = Ids(rows)
    BY <2>2 DEF Validates, ValidRegistry
  <2>4. IsList(rows) BY <2>3 DEF LedgerInv, Shapes, Written, IsManifest
  <2>5. \A i, j \in DOMAIN Ids(rows) : Ids(rows)[i] = Ids(rows)[j] => i = j
    BY <2>3, <2>4, IdsAreAList DEF Ids, ValidIds
  <2>6. rebased \/ Extends(files.registry, committed.files.registry) BY <2>3 DEF LedgerInv, Grows
  <2> HIDE DEF rows
  <2> QED BY <2>2, <2>3, <2>5, <2>6
<1> QED BY <1>1, LedgerHolds, PTL DEF TraceSpec, CommitsAppend
=============================================================================
