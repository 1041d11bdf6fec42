----------------------------- MODULE Migrations -----------------------------
(***************************************************************************)
(* SQLiteJournal.__init__ and _apply_migrations (storage/sqlite.py): the   *)
(* connection is in autocommit mode, so every statement of every migration *)
(* is a transaction of its own.  Openers come one after the other or at    *)
(* once, run releases of the program that know more or fewer migrations,   *)
(* die between any two statements and find the file locked at any of them. *)
(* A digest stands for the text it is of; digests of texts differ.         *)
(***************************************************************************)
EXTENDS Integers, SequencesExt

CONSTANTS
  Openers,   \* connections
  Programs,  \* MIGRATIONS of each release: sequences of [version, digest, tables]
  NoRow,      \* no row, no table
  MaxOpens   \* bound: connections opened in all

Migration == UNION {ToSet(program) : program \in Programs}
Versions == {m.version : m \in Migration}
Tables == UNION {ToSet(m.tables) : m \in Migration}
ASSUME ProgramsAreNumbered ==
  \A program \in Programs :
    /\ program \in Seq(Migration)
    /\ \A i, j \in DOMAIN program : program[i].version = program[j].version => i = j

VARIABLES
  applied,    \* schema_migrations: version -> digest
  made,       \* table -> digest of the migration that created it
  opener,     \* per connection: where _apply_migrations is, and what it read
  opens,      \* connections opened so far
  overtaken   \* history: connections during which another recorded a migration
openingVars == <<applied, made, opener, opens, overtaken>>

Closed == [pc |-> "closed"]
Stands(o, pc) == opener[o].pc = pc
Pending(o) == opener[o].program[opener[o].next]
Goes(o, step) == opener' = [opener EXCEPT ![o] = step]

\* connect, the pragmas, and the table of migrations itself
Open(o, program) ==
  /\ opener[o].pc \in {"closed", "raised", "locked"} /\ opens < MaxOpens
  /\ Goes(o, [pc |-> "read", program |-> program])
  /\ opens' = opens + 1 /\ overtaken' = overtaken \ {o}
  /\ UNCHANGED <<applied, made>>

ReadApplied(o) ==
  /\ Stands(o, "read")
  /\ Goes(o, [pc |-> "next", program |-> opener[o].program, applied |-> applied,
              next |-> 1, statement |-> 1])
  /\ UNCHANGED <<applied, made, opens, overtaken>>

\* one turn of the loop over MIGRATIONS, decided on the rows read before it
NextMigration(o) ==
  LET known == opener[o].applied[Pending(o).version] IN
    /\ Stands(o, "next")
    /\ Goes(o, IF opener[o].next > Len(opener[o].program) THEN [opener[o] EXCEPT !.pc = "open"]
               ELSE IF known = NoRow THEN [opener[o] EXCEPT !.pc = "script", !.statement = 1]
               ELSE IF known # Pending(o).digest THEN [opener[o] EXCEPT !.pc = "raised"]
               ELSE [opener[o] EXCEPT !.next = @ + 1])
    /\ UNCHANGED <<applied, made, opens, overtaken>>

\* CREATE TABLE IF NOT EXISTS leaves a table that is there as it is
Bug_WithoutIfNotExists(o) ==
  LET table == Pending(o).tables[opener[o].statement] IN
    /\ Stands(o, "script") /\ opener[o].statement <= Len(Pending(o).tables)
    /\ IF made[table] = NoRow
       THEN /\ made' = [made EXCEPT ![table] = Pending(o).digest]
            /\ Goes(o, [opener[o] EXCEPT !.statement = @ + 1])
       ELSE Goes(o, [opener[o] EXCEPT !.pc = "raised"]) /\ UNCHANGED made
    /\ UNCHANGED <<applied, opens, overtaken>>
CreateTable(o) ==
  LET table == Pending(o).tables[opener[o].statement] IN
    /\ Stands(o, "script") /\ opener[o].statement <= Len(Pending(o).tables)
    /\ made' = [made EXCEPT ![table] = IF @ = NoRow THEN Pending(o).digest ELSE @]
    /\ Goes(o, [opener[o] EXCEPT !.statement = @ + 1])
    /\ UNCHANGED <<applied, opens, overtaken>>

\* INSERT: the version is the primary key
RecordMigration(o) ==
  LET version == Pending(o).version IN
    /\ Stands(o, "script") /\ opener[o].statement > Len(Pending(o).tables)
    /\ IF applied[version] # NoRow
       THEN Goes(o, [opener[o] EXCEPT !.pc = "raised"]) /\ UNCHANGED <<applied, overtaken>>
       ELSE /\ applied' = [applied EXCEPT ![version] = Pending(o).digest]
            /\ overtaken' = overtaken \cup {p \in Openers \ {o} : opener[p].pc \in {"read", "next", "script"}}
            /\ Goes(o, [opener[o] EXCEPT !.pc = "next", !.next = @ + 1])
    /\ UNCHANGED <<made, opens>>

\* the world: a lock held for longer than busy_timeout, a process that dies, close()
Locked(o) ==
  /\ Stands(o, "script") /\ Goes(o, [pc |-> "locked"])
  /\ UNCHANGED <<applied, made, opens, overtaken>>
Close(o) ==
  /\ opener[o].pc \in {"read", "next", "script", "open"} /\ Goes(o, Closed)
  /\ UNCHANGED <<applied, made, opens, overtaken>>

OpeningInit ==
  /\ applied = [v \in Versions |-> NoRow] /\ made = [t \in Tables |-> NoRow]
  /\ opener = [o \in Openers |-> Closed] /\ opens = 0 /\ overtaken = {}
OpeningNext == \E o \in Openers :
  \/ \E program \in Programs : Open(o, program)
  \/ ReadApplied(o) \/ NextMigration(o) \/ CreateTable(o) \/ RecordMigration(o) \/ Locked(o) \/ Close(o)
OpeningSpec == OpeningInit /\ [][OpeningNext]_openingVars

-----------------------------------------------------------------------------
(* Properties                                                               *)

(* Opening raises (apart from a lock) only if another connection recorded a *)
(* migration meanwhile or the file has a migration with another text: what  *)
(* a crash left of one can always be completed.                             *)
RefusalHasACause ==
  \A o \in Openers : Stands(o, "raised") =>
    \/ o \in overtaken
    \/ \E m \in ToSet(opener[o].program) : applied[m.version] \notin {NoRow, m.digest}
=============================================================================
