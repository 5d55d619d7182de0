--------------------------- MODULE LabScriptsProofs ---------------------------
(***************************************************************************)
(* Proofs about the parts MCLabScripts checks side by side.                *)
(*                                                                         *)
(* P09, for any number of consumers and of runs of the script: the version *)
(* the database claims is the schema it has, and what is committed obeys   *)
(* the domain.  The row the script inserts first is there until it deletes *)
(* its schema again (RowsKnown), so that each probe meets its constraint   *)
(* (ProbesSound).                                                          *)
(*                                                                         *)
(* P02, for any inputs, strategies and timings: a strategy that blocks the *)
(* event loop is seen to, results come in the order of the inputs and no   *)
(* task or worker is left.                                                 *)
(*                                                                         *)
(* P04, for any jobs and any number of processes and of disk errors.  The  *)
(* phase determines the stack, and the stack determines which of the       *)
(* entered components were closed (StackKnown); while the disk never       *)
(* failed, the journal shows the same (ClosingsShown).  A process writes   *)
(* of jobs between two entries of its own: the one has been written when   *)
(* it serves (Announced), the others come later (NotYetDown); and what     *)
(* became of a job tells which entries it has (JobKnown).                  *)
(*                                                                         *)
(* The script of P04, for any jobs and any number of disk errors.  Each of *)
(* its steps is a step of the server's.  An entry means what was done      *)
(* (JournalMeant), a scenario's server has been asked no more than run()   *)
(* asks (Unasked, OneJobPosted), so that where run() stands tells how far  *)
(* the server is (ScriptStands), and a server that is down changes no      *)
(* more: what was read of it is settled (ScenariosSettled).                *)
(*                                                                         *)
(* P10, for any scenario the validator lets through and any number of runs *)
(* killed anywhere.  Once a run has dropped the schema nothing of earlier  *)
(* ones is left, and the statements so far determine the indexes, the rows *)
(* and the statistics (DatabaseSound).  The tenant has a pending order in  *)
(* each cycle of the seed (CyclesCounted), so that every query is answered *)
(* in full (AnswersFull); and no two orders tie, so that two answers to it *)
(* are the same (AnswersAlike).                                            *)
(***************************************************************************)
EXTENDS MCLabScripts, SequenceTheorems, FiniteSetTheorems, WellFoundedInduction, TLAPS

Tenants == {TenantA, TenantB, Orphan}
OrderRow == [tenant : Tenants, external : {ExternalId, "orphan", "free-order", Null},
             total : {0, 1}, status : {"pending"}]
Writer == {Free} \union [pc : {"absent", "inserted"}, row : OrderRow]
Transaction ==
  [state : {"open"}, deleted : Nat, gone : SUBSET Tenants, tenants : SUBSET Tenants,
   rows : Seq(OrderRow)]

BeforeProbes ==
  {"downgrade", "upgrade", "delete-orders", "delete-tenants", "insert-tenants",
   "insert-order", "commit-setup"}
InTransaction ==
  {"delete-tenants", "insert-tenants", "insert-order", "commit-setup",
   "insert-other", "count", "commit-other"}
Stages ==
  BeforeProbes \union InTransaction
    \union {"idle", "probe", "downgrade-again", "inspect-gone", "upgrade-again", "inspect-back"}

Errors ==
  {"NotNullViolation", "CheckViolation", "UniqueViolation", "ForeignKeyViolation", "none"}

(* Every variable has its type, and the probes that remain are numbered.   *)
SchemaTypeOK ==
  /\ version \in {"base", "head"}
  /\ tenants \subseteq Tenants
  /\ orders \in Seq(OrderRow)
  /\ stage \in Stages
  /\ tx \in {Closed} \union Transaction
  /\ writer \in [Consumers -> Writer]
  /\ violations \in Seq(Errors)
  /\ stage \in BeforeProbes => violations = <<>>
  /\ stage = "probe" => Len(violations) < 4

-----------------------------------------------------------------------------
(* A migration is open only over the version it starts from, and has run   *)
(* its statements in order; nobody else's order is open once the table is  *)
(* dropped.                                                                *)

Migrated(todo, there) == [state |-> "open", tables |-> there, todo |-> todo]
Upgrading ==
  { Migrated(Upgrade, {}),
    Migrated(<< <<"create", "orders">> >>, {"tenants"}),
    Migrated(<<>>, {"tenants", "orders"}) }
Downgrading ==
  { Migrated(Downgrade, {"tenants", "orders"}),
    Migrated(<< <<"drop", "tenants">> >>, {"tenants"}),
    Migrated(<<>>, {}) }

MigrationSound ==
  /\ ddl # Closed =>
       /\ Migrating /\ version # Target(stage)
       /\ ddl \in IF version = "base" THEN Upgrading ELSE Downgrading
  /\ stage \in InTransaction \union {"delete-orders", "probe"} => version = "head"
  /\ Using # {} => version = "head" /\ ~Dropping

-----------------------------------------------------------------------------
(* What is open could be committed next, whichever of them is.             *)

Same(r, q) == r.tenant = q.tenant /\ r.external = q.external
Fits(r) == Complete(r) /\ Checked(r)

UsingSound ==
  /\ \A c \in Using :
       /\ Fits(writer[c].row) /\ writer[c].row.tenant \in tenants
       /\ \A i \in DOMAIN orders : ~Same(writer[c].row, orders[i])
  /\ \A c, d \in Using : Same(writer[c].row, writer[d].row) => c = d

(* The set-up has deleted all there is, and whoever refers to it waits.    *)
Cleared ==
  /\ tx # Closed /\ Using = {}
  /\ tx.deleted = Len(orders) /\ tx.gone = tenants

(* The set-up's order: committed with its tenants in place of all rows.    *)
SetupOrder ==
  /\ Cleared /\ tx.tenants = {TenantA, TenantB}
  /\ Len(tx.rows) = 1 /\ Fits(tx.rows[1]) /\ tx.rows[1].tenant \in tx.tenants

(* The other order: committed after all that is.                           *)
OtherOpen == tx # Closed /\ tx.deleted = 0 /\ tx.gone = {} /\ tx.tenants = tenants
OtherOrder ==
  /\ OtherOpen
  /\ Len(tx.rows) = 1 /\ Fits(tx.rows[1]) /\ tx.rows[1].tenant \in tx.tenants
  /\ \A i \in DOMAIN orders : ~Same(tx.rows[1], orders[i])
  /\ \A c \in Using : ~Same(tx.rows[1], writer[c].row)

TransactionSound ==
  /\ tx # Closed => stage \in InTransaction
  /\ stage = "delete-tenants" =>
       /\ tx # Closed /\ tx.rows = <<>> /\ tx.tenants = tenants /\ tx.gone = {}
       /\ tx.deleted <= Len(orders)
  /\ stage = "insert-tenants" => Cleared /\ tx.rows = <<>>
  /\ stage = "insert-order" => Cleared /\ tx.rows = <<>> /\ tx.tenants = {TenantA, TenantB}
  /\ stage = "commit-setup" => SetupOrder
  /\ stage = "insert-other" /\ tx # Closed => OtherOpen /\ tx.rows = <<>>
  /\ stage \in {"count", "commit-other"} => OtherOrder

SchemaIInv ==
  /\ SchemaTypeOK /\ VersionMatchesSchema /\ DomainHolds
  /\ MigrationSound /\ UsingSound /\ TransactionSound

-----------------------------------------------------------------------------
(* Facts used throughout.                                                  *)

(* What the types say, variable by variable.                               *)
LEMMA TypeFacts ==
  ASSUME SchemaTypeOK
  PROVE  /\ Len(orders) \in Nat /\ DOMAIN orders = 1 .. Len(orders)
         /\ \A i \in DOMAIN orders : orders[i] \in OrderRow
         /\ Len(violations) \in Nat
         /\ \A c \in Consumers : writer[c] \in Writer
         /\ \A c \in Using : c \in Consumers /\ writer[c].pc = "inserted" /\ writer[c].row \in OrderRow
         /\ tx # Closed => tx \in Transaction
<1>1. Len(orders) \in Nat /\ DOMAIN orders = 1 .. Len(orders)
         /\ \A i \in DOMAIN orders : orders[i] \in OrderRow
  BY DEF SchemaTypeOK
<1>2. Len(violations) \in Nat
  BY DEF SchemaTypeOK
<1>3. \A c \in Consumers : writer[c] \in Writer
  BY DEF SchemaTypeOK
<1>4. \A c \in Using : c \in Consumers /\ writer[c].pc = "inserted" /\ writer[c].row \in OrderRow
  <2> SUFFICES ASSUME NEW c \in Consumers, writer[c].pc = "inserted"
               PROVE  writer[c].row \in OrderRow
    BY DEF Using
  <2>1. writer[c] # Free
    BY DEF Free
  <2>2. writer[c] \in [pc : {"absent", "inserted"}, row : OrderRow]
    BY <1>3, <2>1 DEF Writer
  <2>3. QED
    BY <2>2
<1>5. tx # Closed => tx \in Transaction
  BY DEF SchemaTypeOK
<1>6. QED
  BY <1>1, <1>2, <1>3, <1>4, <1>5

(* An open transaction, field by field.                                    *)
LEMMA OpenFacts ==
  ASSUME NEW t \in Transaction
  PROVE  /\ t # Closed /\ t.deleted \in Nat /\ t.gone \subseteq Tenants
         /\ t.tenants \subseteq Tenants /\ t.rows \in Seq(OrderRow)
BY DEF Transaction, Closed

(* The database stays as it is.                                            *)
LEMMA DatabaseKept ==
  ASSUME SchemaIInv, UNCHANGED database, ending' # "ProgrammingError"
  PROVE  VersionMatchesSchema' /\ DomainHolds'
<1>1. version' = version /\ tables' = tables /\ tenants' = tenants /\ orders' = orders
  BY DEF database
<1>2. VersionMatchesSchema'
  BY <1>1 DEF SchemaIInv, VersionMatchesSchema
<1>3. DomainHolds'
  BY <1>1 DEF SchemaIInv, DomainHolds
<1>4. QED
  BY <1>2, <1>3

(* The consumers, and what they may meet, stay as they are.                *)
LEMMA UsingKept ==
  ASSUME SchemaIInv, UNCHANGED <<tenants, orders, writer>>
  PROVE  UsingSound' /\ Using' = Using
<1>1. Using' = Using
  BY DEF Using
<1>2. UsingSound'
  BY <1>1 DEF SchemaIInv, UsingSound
<1>3. QED
  BY <1>1, <1>2

(* The script moves on, or ends, with nothing open.                        *)
LEMMA ScriptMoves ==
  ASSUME SchemaIInv, UNCHANGED <<database, writer>>, tx' = Closed, ddl' = Closed,
         stage' \in Stages, stage' \notin InTransaction \ {"insert-other"},
         stage' \in {"delete-orders", "probe", "insert-other"} => version = "head",
         violations' \in Seq(Errors),
         stage' \in BeforeProbes => violations' = <<>>,
         stage' = "probe" => Len(violations') < 4,
         ending' # "ProgrammingError"
  PROVE  SchemaIInv'
<1>1. version' = version /\ tables' = tables /\ tenants' = tenants /\ orders' = orders /\ writer' = writer
  BY DEF database
<1>2. SchemaTypeOK'
  BY <1>1 DEF SchemaIInv, SchemaTypeOK
<1>3. VersionMatchesSchema' /\ DomainHolds'
  BY DatabaseKept
<1>4. UsingSound' /\ Using' = Using
  BY <1>1, UsingKept
<1>5. MigrationSound'
  BY <1>1, <1>4 DEF SchemaIInv, MigrationSound, Dropping, InTransaction
<1>6. TransactionSound'
  BY DEF TransactionSound, InTransaction
<1>7. QED
  BY <1>2, <1>3, <1>4, <1>5, <1>6 DEF SchemaIInv

(* An exception or a kill, whatever was open.                              *)
LEMMA Rolled ==
  ASSUME SchemaIInv, NEW error, Raise(error), error # "ProgrammingError",
         UNCHANGED <<database, writer, violations>>
  PROVE  SchemaIInv'
<1>1. stage' = "idle" /\ tx' = Closed /\ ddl' = Closed /\ ending' = error /\ violations' = violations
  BY DEF Raise
<1>2. stage' \in Stages /\ stage' \notin InTransaction /\ stage' \notin BeforeProbes
      /\ stage' \notin {"delete-orders", "probe", "insert-other"}
  BY <1>1 DEF Stages, InTransaction, BeforeProbes
<1>3. violations' \in Seq(Errors)
  BY <1>1 DEF SchemaIInv, SchemaTypeOK
<1>4. QED
  BY <1>1, <1>2, <1>3, ScriptMoves

LEMMA InitIInv == SchemaInit => SchemaIInv
<1> SUFFICES ASSUME SchemaInit PROVE SchemaIInv
  OBVIOUS
<1>1. stage = "idle" /\ tx = Closed /\ ddl = Closed /\ version = "base" /\ orders = <<>> /\ tenants = {}
      /\ tables = {} /\ violations = <<>> /\ ending = "none" /\ writer = [c \in Consumers |-> Free]
  BY DEF SchemaInit
<1>2. Using = {}
  BY <1>1 DEF Using, Free
<1>3. SchemaTypeOK
  <2>1. writer \in [Consumers -> Writer]
    BY <1>1 DEF Writer
  <2>2. orders \in Seq(OrderRow) /\ violations \in Seq(Errors)
    BY <1>1
  <2>3. QED
    BY <1>1, <2>1, <2>2 DEF SchemaTypeOK, Stages, BeforeProbes
<1>4. VersionMatchesSchema /\ DomainHolds
  BY <1>1 DEF VersionMatchesSchema, DomainHolds
<1>5. MigrationSound /\ UsingSound
  BY <1>1, <1>2 DEF MigrationSound, UsingSound, InTransaction
<1>6. TransactionSound
  BY <1>1 DEF TransactionSound
<1>7. QED
  BY <1>3, <1>4, <1>5, <1>6 DEF SchemaIInv

-----------------------------------------------------------------------------
(* The script's steps outside its transactions.                            *)

(* The stages that follow others.                                          *)
LEMMA AfterFacts ==
  /\ After("downgrade") = "upgrade" /\ After("upgrade") = "delete-orders"
  /\ After("delete-orders") = "delete-tenants" /\ After("delete-tenants") = "insert-tenants"
  /\ After("insert-tenants") = "insert-order" /\ After("insert-order") = "commit-setup"
  /\ After("commit-setup") = "probe" /\ After("probe") = "insert-other"
  /\ After("insert-other") = "count" /\ After("count") = "commit-other"
  /\ After("commit-other") = "downgrade-again" /\ After("downgrade-again") = "inspect-gone"
  /\ After("inspect-gone") = "upgrade-again" /\ After("upgrade-again") = "inspect-back"
  /\ After("inspect-back") = "idle"
BY DEF After

LEMMA StartStep == ASSUME SchemaIInv, StartScript \/ StartProbes PROVE SchemaIInv'
<1>1. /\ stage = "idle" /\ UNCHANGED <<database, ddl, tx, writer>>
      /\ violations' = <<>> /\ ending' # "ProgrammingError"
      /\ stage' = "downgrade" \/ (stage' = "delete-orders" /\ version = "head")
  BY DEF StartScript, StartProbes
<1>2. tx = Closed
  BY <1>1 DEF SchemaIInv, TransactionSound, InTransaction
<1>3. ddl = Closed
  BY <1>1 DEF SchemaIInv, MigrationSound, Migrating
<1>4. stage' \in Stages /\ stage' \notin InTransaction /\ stage' \notin {"probe", "insert-other"}
  BY <1>1 DEF Stages, InTransaction, BeforeProbes
<1>5. violations' \in Seq(Errors)
  <2>1. <<>> \in Seq(Errors)
    OBVIOUS
  <2>2. QED
    BY <1>1, <2>1
<1>6. QED
  BY <1>1, <1>2, <1>3, <1>4, <1>5, ScriptMoves

LEMMA KillStep == ASSUME SchemaIInv, KillScript PROVE SchemaIInv'
BY Rolled DEF KillScript

LEMMA InspectStep == ASSUME SchemaIInv, Inspect PROVE SchemaIInv'
<1>1. /\ stage \in {"inspect-gone", "inspect-back"} /\ UNCHANGED <<database, ddl, tx, violations, writer>>
      /\ stage' \in {"upgrade-again", "idle"} /\ ending' \in {"done", ending}
  BY AfterFacts DEF Inspect, Proceed
<1>2. tx = Closed /\ ddl = Closed
  BY <1>1 DEF SchemaIInv, TransactionSound, InTransaction, MigrationSound, Migrating
<1>3. stage' \in Stages /\ stage' \notin InTransaction /\ stage' \notin BeforeProbes
      /\ stage' \notin {"delete-orders", "probe", "insert-other"}
  BY <1>1 DEF Stages, InTransaction, BeforeProbes
<1>4. violations' \in Seq(Errors) /\ ending' # "ProgrammingError"
  BY <1>1 DEF SchemaIInv, SchemaTypeOK, VersionMatchesSchema
<1>5. QED
  BY <1>1, <1>2, <1>3, <1>4, ScriptMoves

-----------------------------------------------------------------------------
(* The migrations.                                                         *)

(* While one is open nothing else is, and the stage says which it is.      *)
LEMMA OpenMigration ==
  ASSUME SchemaIInv, ddl # Closed
  PROVE  /\ Migrating /\ tx = Closed /\ stage \notin InTransaction
         /\ \/ version = "base" /\ ddl \in Upgrading /\ Target(stage) = "head"
            \/ version = "head" /\ ddl \in Downgrading /\ Target(stage) = "base"
<1>1. Migrating /\ version # Target(stage) /\ ddl \in IF version = "base" THEN Upgrading ELSE Downgrading
  BY DEF SchemaIInv, MigrationSound
<1>2. version \in {"base", "head"} /\ Target(stage) \in {"base", "head"}
  BY DEF SchemaIInv, SchemaTypeOK, Target
<1>3. stage \notin InTransaction
  BY <1>1 DEF Migrating, InTransaction
<1>4. tx = Closed
  BY <1>3 DEF SchemaIInv, TransactionSound
<1>5. CASE version = "base"
  <2>1. ddl \in Upgrading /\ Target(stage) = "head"
    BY <1>1, <1>2, <1>5
  <2>2. QED
    BY <1>1, <1>3, <1>4, <1>5, <2>1
<1>6. CASE version = "head"
  <2>1. ddl \in Downgrading /\ Target(stage) = "base"
    BY <1>1, <1>2, <1>6
  <2>2. QED
    BY <1>1, <1>3, <1>4, <1>6, <2>1
<1>7. QED
  BY <1>2, <1>5, <1>6

(* The record of an open migration, field by field.                        *)
LEMMA MigratedFacts ==
  ASSUME NEW todo, NEW there
  PROVE  /\ Migrated(todo, there) # Closed
         /\ Migrated(todo, there).todo = todo /\ Migrated(todo, there).tables = there
<1>1. Migrated(todo, there).todo = todo /\ Migrated(todo, there).tables = there
  BY DEF Migrated
<1>2. Migrated(todo, there) # Closed
  <2>1. DOMAIN Migrated(todo, there) = {"state", "tables", "todo"}
    BY DEF Migrated
  <2>2. DOMAIN Closed = {"state"}
    BY DEF Closed
  <2>3. QED
    BY <2>1, <2>2
<1>3. QED
  BY <1>1, <1>2

(* The records of an open migration.                                       *)
LEMMA MigrationRecords ==
  /\ \A m \in Upgrading \union Downgrading : m # Closed
  /\ \A m \in Upgrading :
       \/ m = Migrated(Upgrade, {}) /\ m.todo = Upgrade /\ m.tables = {}
       \/ /\ m = Migrated(<< <<"create", "orders">> >>, {"tenants"})
          /\ m.todo = << <<"create", "orders">> >> /\ m.tables = {"tenants"}
       \/ m = Migrated(<<>>, {"tenants", "orders"}) /\ m.todo = <<>> /\ m.tables = {"tenants", "orders"}
  /\ \A m \in Downgrading :
       \/ m = Migrated(Downgrade, {"tenants", "orders"}) /\ m.todo = Downgrade
            /\ m.tables = {"tenants", "orders"}
       \/ /\ m = Migrated(<< <<"drop", "tenants">> >>, {"tenants"})
          /\ m.todo = << <<"drop", "tenants">> >> /\ m.tables = {"tenants"}
       \/ m = Migrated(<<>>, {}) /\ m.todo = <<>> /\ m.tables = {}
<1>1. \A m \in Upgrading \union Downgrading : m # Closed
  BY MigratedFacts DEF Upgrading, Downgrading
<1>2. \A m \in Upgrading :
       \/ m = Migrated(Upgrade, {}) /\ m.todo = Upgrade /\ m.tables = {}
       \/ /\ m = Migrated(<< <<"create", "orders">> >>, {"tenants"})
          /\ m.todo = << <<"create", "orders">> >> /\ m.tables = {"tenants"}
       \/ m = Migrated(<<>>, {"tenants", "orders"}) /\ m.todo = <<>> /\ m.tables = {"tenants", "orders"}
  <2>1. /\ Migrated(Upgrade, {}).todo = Upgrade /\ Migrated(Upgrade, {}).tables = {}
        /\ Migrated(<< <<"create", "orders">> >>, {"tenants"}).todo = << <<"create", "orders">> >>
        /\ Migrated(<< <<"create", "orders">> >>, {"tenants"}).tables = {"tenants"}
        /\ Migrated(<<>>, {"tenants", "orders"}).todo = <<>>
        /\ Migrated(<<>>, {"tenants", "orders"}).tables = {"tenants", "orders"}
    BY Zenon, MigratedFacts
  <2>2. QED
    BY Zenon, <2>1 DEF Upgrading
<1>3. \A m \in Downgrading :
       \/ m = Migrated(Downgrade, {"tenants", "orders"}) /\ m.todo = Downgrade
            /\ m.tables = {"tenants", "orders"}
       \/ /\ m = Migrated(<< <<"drop", "tenants">> >>, {"tenants"})
          /\ m.todo = << <<"drop", "tenants">> >> /\ m.tables = {"tenants"}
       \/ m = Migrated(<<>>, {}) /\ m.todo = <<>> /\ m.tables = {}
  <2>1. /\ Migrated(Downgrade, {"tenants", "orders"}).todo = Downgrade
        /\ Migrated(Downgrade, {"tenants", "orders"}).tables = {"tenants", "orders"}
        /\ Migrated(<< <<"drop", "tenants">> >>, {"tenants"}).todo = << <<"drop", "tenants">> >>
        /\ Migrated(<< <<"drop", "tenants">> >>, {"tenants"}).tables = {"tenants"}
        /\ Migrated(<<>>, {}).todo = <<>> /\ Migrated(<<>>, {}).tables = {}
    BY Zenon, MigratedFacts
  <2>2. QED
    BY Zenon, <2>1 DEF Downgrading
<1>4. QED
  BY Zenon, <1>1, <1>2, <1>3

(* A migration that is opened, or moves on, leaves the rest as it is.      *)
LEMMA MigrationMoves ==
  ASSUME SchemaIInv, UNCHANGED <<database, stage, tx, violations, ending, writer>>,
         Migrating, version # Target(stage),
         ddl' \in IF version = "base" THEN Upgrading ELSE Downgrading,
         Using # {} => "orders" \in ddl'.tables \/ "orders" \notin tables
  PROVE  SchemaIInv'
<1>1. version' = version /\ tables' = tables /\ tenants' = tenants /\ orders' = orders
      /\ stage' = stage /\ tx' = tx /\ violations' = violations /\ writer' = writer
      /\ ending' = ending
  BY DEF database
<1>2. SchemaTypeOK'
  BY <1>1 DEF SchemaIInv, SchemaTypeOK
<1>3. VersionMatchesSchema' /\ DomainHolds'
  BY <1>1, DatabaseKept DEF SchemaIInv, VersionMatchesSchema
<1>4. UsingSound' /\ Using' = Using
  BY <1>1, UsingKept
<1>5. MigrationSound'
  <2>1. Using # {} => version = "head"
    BY DEF SchemaIInv, MigrationSound
  <2>2. Using' # {} => ~Dropping'
    BY <1>1, <1>4 DEF Dropping
  <2>3. stage \in InTransaction \union {"delete-orders", "probe"} => version = "head"
    BY DEF SchemaIInv, MigrationSound
  <2>4. Migrating' /\ version' # Target(stage)' /\ ddl' \in IF version' = "base" THEN Upgrading ELSE Downgrading
    BY <1>1 DEF Migrating, Target
  <2>5. QED
    BY <1>1, <1>4, <2>1, <2>2, <2>3, <2>4 DEF MigrationSound
<1>6. TransactionSound'
  BY <1>1, <1>4 DEF SchemaIInv, TransactionSound, Cleared, SetupOrder, OtherOpen, OtherOrder
<1>7. QED
  BY <1>2, <1>3, <1>4, <1>5, <1>6 DEF SchemaIInv

LEMMA BeginMigrationStep == ASSUME SchemaIInv, BeginMigration PROVE SchemaIInv'
<1>1. /\ Migrating /\ ddl = Closed /\ UNCHANGED <<database, tx, violations, ending, writer>>
  BY DEF BeginMigration, reported
<1>2. version \in {"base", "head"} /\ stage \notin InTransaction /\ Target(stage) \in {"base", "head"}
  BY <1>1 DEF SchemaIInv, SchemaTypeOK, Migrating, InTransaction, Target
<1>3. tx = Closed /\ violations \in Seq(Errors) /\ ending # "ProgrammingError"
  BY <1>2 DEF SchemaIInv, SchemaTypeOK, TransactionSound, VersionMatchesSchema
<1>4. CASE version = Target(stage)
  <2>1. stage' = After(stage) /\ ddl' = ddl
    BY <1>4 DEF BeginMigration, Proceed
  <2>2. \/ stage = "downgrade" /\ stage' = "upgrade"
        \/ stage = "upgrade" /\ stage' = "delete-orders" /\ version = "head"
        \/ stage = "downgrade-again" /\ stage' = "inspect-gone"
        \/ stage = "upgrade-again" /\ stage' = "inspect-back"
    BY <1>1, <1>4, <2>1, AfterFacts DEF Migrating, Target
  <2>3. stage' \in Stages /\ stage' \notin InTransaction /\ stage' \notin {"probe", "insert-other"}
    BY <2>2 DEF Stages, BeforeProbes, InTransaction
  <2>4. stage' = "delete-orders" => version = "head"
    BY <2>2
  <2>5. stage' \in BeforeProbes => violations = <<>>
    BY <2>2 DEF SchemaIInv, SchemaTypeOK, BeforeProbes
  <2>6. QED
    BY <1>1, <1>3, <2>1, <2>3, <2>4, <2>5, ScriptMoves
<1>5. CASE version # Target(stage)
  <2>1. ddl' = [state |-> "open", tables |-> tables,
                todo |-> IF Target(stage) = "head" THEN Upgrade ELSE Downgrade] /\ stage' = stage
    BY <1>5 DEF BeginMigration
  <2>2. tables = IF version = "head" THEN {"tenants", "orders"} ELSE {}
    BY DEF SchemaIInv, VersionMatchesSchema
  <2>3. CASE version = "base"
    <3>1. ddl' = Migrated(Upgrade, {})
      BY <1>2, <1>5, <2>1, <2>2, <2>3 DEF Migrated
    <3>2. ddl' \in Upgrading /\ "orders" \notin tables
      BY <2>2, <2>3, <3>1 DEF Upgrading
    <3>3. QED
      BY <1>1, <1>5, <2>1, <2>3, <3>2, MigrationMoves
  <2>4. CASE version = "head"
    <3>1. ddl' = Migrated(Downgrade, {"tenants", "orders"})
      BY <1>2, <1>5, <2>1, <2>2, <2>4 DEF Migrated
    <3>2. ddl' \in Downgrading /\ "orders" \in ddl'.tables
      BY <3>1, MigrationRecords DEF Downgrading, Migrated
    <3>3. QED
      BY <1>1, <1>5, <2>1, <2>4, <3>2, MigrationMoves
  <2>5. QED
    BY <1>2, <2>3, <2>4
<1>6. QED
  BY <1>4, <1>5

(* The statements of a migration, one after the other.                     *)
LEMMA StatementsInOrder ==
  /\ Head(Upgrade) = <<"create", "tenants">> /\ Tail(Upgrade) = << <<"create", "orders">> >>
  /\ Head(Downgrade) = <<"drop", "orders">> /\ Tail(Downgrade) = << <<"drop", "tenants">> >>
  /\ Head(<< <<"create", "orders">> >>) = <<"create", "orders">>
  /\ Tail(<< <<"create", "orders">> >>) = <<>>
  /\ Head(<< <<"drop", "tenants">> >>) = <<"drop", "tenants">>
  /\ Tail(<< <<"drop", "tenants">> >>) = <<>>
<1>1. Head(Upgrade) = <<"create", "tenants">> /\ Tail(Upgrade) = << <<"create", "orders">> >>
  BY DEF Upgrade
<1>2. Head(Downgrade) = <<"drop", "orders">> /\ Tail(Downgrade) = << <<"drop", "tenants">> >>
  BY DEF Downgrade
<1>3. Head(<< <<"create", "orders">> >>) = <<"create", "orders">>
      /\ Tail(<< <<"create", "orders">> >>) = <<>>
  OBVIOUS
<1>4. Head(<< <<"drop", "tenants">> >>) = <<"drop", "tenants">>
      /\ Tail(<< <<"drop", "tenants">> >>) = <<>>
  OBVIOUS
<1>5. QED
  BY <1>1, <1>2, <1>3, <1>4

(* A migration after its first statement.                                  *)
Reached(there, s) == IF s[1] = "drop" THEN there \ {s[2]} ELSE there \union {s[2]}
Stepped(m) ==
  [m EXCEPT !.todo = Tail(m.todo), !.tables = Reached(m.tables, Head(m.todo))]

LEMMA SteppedFacts ==
  ASSUME NEW todo, NEW there
  PROVE  Stepped(Migrated(todo, there)) = Migrated(Tail(todo), Reached(there, Head(todo)))
<1>1. Migrated(todo, there).todo = todo /\ Migrated(todo, there).tables = there
  BY MigratedFacts
<1>2. Stepped(Migrated(todo, there))
        = [Migrated(todo, there) EXCEPT !.todo = Tail(todo), !.tables = Reached(there, Head(todo))]
  BY Zenon, <1>1 DEF Stepped
<1>3. PICK todo2, there2 : todo2 = Tail(todo) /\ there2 = Reached(there, Head(todo))
  OBVIOUS
<1> DEFINE fields == {"state", "tables", "todo"}
           changed == [[x \in fields |-> Migrated(todo, there)[x]]
                          EXCEPT !["todo"] = todo2, !["tables"] = there2]
<1>4. Migrated(todo, there) = [x \in fields |-> Migrated(todo, there)[x]]
  BY DEF Migrated
<1>5. changed = [x \in fields |-> Migrated(todo2, there2)[x]]
  BY DEF Migrated
<1>6. Migrated(todo2, there2) = [x \in fields |-> Migrated(todo2, there2)[x]]
  BY DEF Migrated
<1>7. [Migrated(todo, there) EXCEPT !.todo = todo2, !.tables = there2] = changed
  BY <1>4
<1>8. Stepped(Migrated(todo, there)) = [Migrated(todo, there) EXCEPT !.todo = todo2, !.tables = there2]
  BY <1>2, <1>3
<1>9. QED
  BY <1>3, <1>5, <1>6, <1>7, <1>8

LEMMA ReachedFacts ==
  /\ Reached({}, <<"create", "tenants">>) = {"tenants"}
  /\ Reached({"tenants"}, <<"create", "orders">>) = {"tenants", "orders"}
  /\ Reached({"tenants", "orders"}, <<"drop", "orders">>) = {"tenants"}
  /\ Reached({"tenants"}, <<"drop", "tenants">>) = {}
BY DEF Reached

(* What a statement makes of an open migration.                            *)
LEMMA StatementFacts ==
  ASSUME ddl \in Upgrading \union Downgrading, ddl.todo # <<>>
  PROVE  /\ ~Refused(Head(ddl.todo))
         /\ ddl \in Upgrading => Stepped(ddl) \in Upgrading
         /\ ddl \in Downgrading => Stepped(ddl) \in Downgrading /\ Head(ddl.todo)[1] = "drop"
<1>1. CASE ddl = Migrated(Upgrade, {})
  <2>1. Head(ddl.todo) = <<"create", "tenants">>
    BY <1>1, MigratedFacts, StatementsInOrder
  <2>2. Stepped(ddl) = Migrated(<< <<"create", "orders">> >>, {"tenants"})
    BY Zenon, <1>1, SteppedFacts, StatementsInOrder, ReachedFacts
  <2>3. Stepped(ddl) \in Upgrading
    BY <2>2 DEF Upgrading
  <2>4. ~Refused(Head(ddl.todo))
    BY <2>1 DEF Refused
  <2>5. ddl \notin Downgrading
    BY <1>1, <2>1, MigratedFacts, StatementsInOrder DEF Downgrading, Upgrade
  <2>6. QED
    BY <2>3, <2>4, <2>5
<1>2. CASE ddl = Migrated(<< <<"create", "orders">> >>, {"tenants"})
  <2>1. Head(ddl.todo) = <<"create", "orders">> /\ ddl.tables = {"tenants"}
    BY <1>2, MigratedFacts, StatementsInOrder
  <2>2. Stepped(ddl) = Migrated(<<>>, {"tenants", "orders"})
    BY Zenon, <1>2, SteppedFacts, StatementsInOrder, ReachedFacts
  <2>3. Stepped(ddl) \in Upgrading
    BY <2>2 DEF Upgrading
  <2>4. ~Refused(Head(ddl.todo))
    BY <2>1 DEF Refused
  <2>5. ddl \notin Downgrading
    BY <1>2, <2>1, MigratedFacts, StatementsInOrder DEF Downgrading
  <2>6. QED
    BY <2>3, <2>4, <2>5
<1>3. CASE ddl = Migrated(Downgrade, {"tenants", "orders"})
  <2>1. Head(ddl.todo) = <<"drop", "orders">>
    BY <1>3, MigratedFacts, StatementsInOrder
  <2>2. Stepped(ddl) = Migrated(<< <<"drop", "tenants">> >>, {"tenants"})
    BY Zenon, <1>3, SteppedFacts, StatementsInOrder, ReachedFacts
  <2>3. Stepped(ddl) \in Downgrading
    BY <2>2 DEF Downgrading
  <2>4. ~Refused(Head(ddl.todo))
    BY <2>1 DEF Refused
  <2>5. ddl \notin Upgrading
    BY <1>3, <2>1, MigratedFacts, StatementsInOrder DEF Upgrading
  <2>6. QED
    BY <2>1, <2>3, <2>4, <2>5
<1>4. CASE ddl = Migrated(<< <<"drop", "tenants">> >>, {"tenants"})
  <2>1. Head(ddl.todo) = <<"drop", "tenants">> /\ ddl.tables = {"tenants"}
    BY <1>4, MigratedFacts, StatementsInOrder
  <2>2. Stepped(ddl) = Migrated(<<>>, {})
    BY Zenon, <1>4, SteppedFacts, StatementsInOrder, ReachedFacts
  <2>3. Stepped(ddl) \in Downgrading
    BY <2>2 DEF Downgrading
  <2>4. ~Refused(Head(ddl.todo))
    BY <2>1 DEF Refused
  <2>5. ddl \notin Upgrading
    BY <1>4, <2>1, MigratedFacts, StatementsInOrder DEF Upgrading
  <2>6. QED
    BY <2>1, <2>3, <2>4, <2>5
<1>5. ddl # Migrated(<<>>, {"tenants", "orders"}) /\ ddl # Migrated(<<>>, {})
  BY MigratedFacts
<1>6. QED
  BY <1>1, <1>2, <1>3, <1>4, <1>5 DEF Upgrading, Downgrading

LEMMA RunStatementStep == ASSUME SchemaIInv, RunStatement PROVE SchemaIInv'
<1>1. ddl # Closed /\ ddl.todo # <<>> /\ UNCHANGED <<database, violations, writer>>
  BY DEF RunStatement
<1>2. Migrating /\ version # Target(stage)
      /\ ddl \in IF version = "base" THEN Upgrading ELSE Downgrading
  BY <1>1 DEF SchemaIInv, MigrationSound
<1>3. version \in {"base", "head"} /\ tables = IF version = "head" THEN {"tenants", "orders"} ELSE {}
  BY DEF SchemaIInv, SchemaTypeOK, VersionMatchesSchema
<1>4. ~Refused(Head(ddl.todo))
  BY <1>1, <1>2, StatementFacts
<1>5. UNCHANGED <<ending, stage, tx>>
  BY <1>4 DEF RunStatement
<1>6. ddl' = Stepped(ddl) /\ (Head(ddl.todo)[1] = "drop" => Using = {})
  BY <1>4 DEF RunStatement, Stepped, Reached
<1>7. ddl' \in IF version = "base" THEN Upgrading ELSE Downgrading
  BY <1>1, <1>2, <1>6, StatementFacts
<1>8. Using # {} => "orders" \in ddl'.tables \/ "orders" \notin tables
  <2>1. CASE version = "base"
    BY <1>3, <2>1
  <2>2. CASE version = "head"
    BY <1>1, <1>2, <1>6, <2>2, StatementFacts
  <2>3. QED
    BY <1>3, <2>1, <2>2
<1>9. QED
  BY <1>1, <1>2, <1>5, <1>7, <1>8, MigrationMoves

LEMMA CommitMigrationStep == ASSUME SchemaIInv, CommitMigration PROVE SchemaIInv'
<1>1. /\ ddl # Closed /\ ddl.todo = <<>>
      /\ version' = Target(stage) /\ tables' = ddl.tables
      /\ tenants' = {} /\ orders' = <<>> /\ ddl' = Closed /\ stage' = After(stage)
      /\ UNCHANGED <<tx, violations, ending, writer>>
  BY DEF CommitMigration, Proceed, reported
<1>2. /\ Migrating /\ tx = Closed /\ stage \notin InTransaction
      /\ \/ version = "base" /\ ddl \in Upgrading /\ Target(stage) = "head"
         \/ version = "head" /\ ddl \in Downgrading /\ Target(stage) = "base"
  BY <1>1, OpenMigration
<1>3. \/ version = "base" /\ ddl.tables = {"tenants", "orders"} /\ version' = "head"
      \/ version = "head" /\ ddl.tables = {} /\ version' = "base"
  <2>1. Upgrade # <<>> /\ Downgrade # <<>> /\ << <<"create", "orders">> >> # <<>>
          /\ << <<"drop", "tenants">> >> # <<>>
    BY DEF Upgrade, Downgrade
  <2>2. QED
    BY <1>1, <1>2, <2>1, MigrationRecords
<1>4. Using = {}
  <2>1. CASE version = "base"
    BY <2>1 DEF SchemaIInv, MigrationSound
  <2>2. CASE version = "head"
    <3>1. Dropping
      BY <1>1, <1>3, <2>2 DEF Dropping, SchemaIInv, VersionMatchesSchema
    <3>2. QED
      BY <3>1 DEF SchemaIInv, MigrationSound
  <2>3. QED
    BY <1>3, <2>1, <2>2
<1>5. Using' = {}
  BY <1>1, <1>4 DEF Using
<1>6. \/ stage = "downgrade" /\ stage' = "upgrade"
      \/ stage = "upgrade" /\ stage' = "delete-orders" /\ version' = "head"
      \/ stage = "downgrade-again" /\ stage' = "inspect-gone"
      \/ stage = "upgrade-again" /\ stage' = "inspect-back"
  BY <1>1, <1>2, AfterFacts DEF Migrating, Target
<1>7. stage' \in Stages /\ stage' \notin InTransaction /\ stage' # "probe"
  BY <1>6 DEF Stages, BeforeProbes, InTransaction
<1>8. stage' \in BeforeProbes => violations = <<>>
  BY <1>6 DEF SchemaIInv, SchemaTypeOK, BeforeProbes
<1>9. SchemaTypeOK'
  <2>1. orders' \in Seq(OrderRow)
    BY <1>1
  <2>2. version' \in {"base", "head"} /\ tenants' \subseteq Tenants /\ tx' \in {Closed} \union Transaction
    BY <1>1, <1>2, <1>3
  <2>3. writer' \in [Consumers -> Writer] /\ violations' \in Seq(Errors)
    BY <1>1 DEF SchemaIInv, SchemaTypeOK
  <2>4. QED
    BY <1>1, <1>7, <1>8, <2>1, <2>2, <2>3 DEF SchemaTypeOK
<1>10. VersionMatchesSchema' /\ DomainHolds'
  <2>1. VersionMatchesSchema'
    BY <1>1, <1>3 DEF SchemaIInv, VersionMatchesSchema
  <2>2. DOMAIN orders' = {}
    BY <1>1
  <2>3. DomainHolds'
    BY <2>2 DEF DomainHolds
  <2>4. QED
    BY <2>1, <2>3
<1>11. MigrationSound'
  BY <1>1, <1>5, <1>6, <1>7 DEF MigrationSound
<1>12. UsingSound'
  BY <1>5 DEF UsingSound
<1>13. TransactionSound'
  BY <1>1, <1>2, <1>7 DEF TransactionSound, InTransaction
<1>14. QED
  BY <1>9, <1>10, <1>11, <1>12, <1>13 DEF SchemaIInv

-----------------------------------------------------------------------------
(* The consumers.                                                          *)

(* What a row that is not refused obeys.                                   *)
LEMMA RefusalNone ==
  ASSUME NEW r, NEW rows, NEW known, Refusal(r, rows, known) = "none"
  PROVE  Fits(r) /\ r.tenant \in known /\ \A q \in rows : ~Same(r, q)
<1>1. Complete(r) /\ Checked(r) /\ ~Clashes(r, rows) /\ r.tenant \in known
  BY DEF Refusal
<1>2. QED
  BY <1>1 DEF Fits, Clashes, Same

(* A step that writes nothing leaves what is open as it is, but for one    *)
(* consumer that has nothing open after it.                                *)
LEMMA ConsumerMoves ==
  ASSUME SchemaIInv, NEW c \in Consumers, NEW w \in Writer, w.pc # "inserted",
         writer' = [writer EXCEPT ![c] = w],
         UNCHANGED <<database, stage, ddl, tx, reported>>
  PROVE  SchemaIInv'
<1>1. version' = version /\ tables' = tables /\ tenants' = tenants /\ orders' = orders
      /\ stage' = stage /\ ddl' = ddl /\ tx' = tx /\ violations' = violations /\ ending' = ending
  BY DEF database, reported
<1>2. writer \in [Consumers -> Writer]
  BY DEF SchemaIInv, SchemaTypeOK
<1>3. writer' \in [Consumers -> Writer] /\ writer'[c] = w /\ \A d \in Consumers \ {c} : writer'[d] = writer[d]
  BY <1>2
<1>4. Using' \subseteq Using /\ \A d \in Using' : writer'[d] = writer[d]
  BY <1>3 DEF Using
<1>5. SchemaTypeOK'
  BY <1>1, <1>3 DEF SchemaIInv, SchemaTypeOK
<1>6. VersionMatchesSchema' /\ DomainHolds'
  BY <1>1, DatabaseKept DEF SchemaIInv, VersionMatchesSchema, database
<1>7. MigrationSound'
  <2>1. Dropping' = Dropping
    BY <1>1 DEF Dropping
  <2>2. Migrating' = Migrating /\ Target(stage)' = Target(stage)
    BY <1>1 DEF Migrating, Target
  <2>3. QED
    BY <1>1, <1>4, <2>1, <2>2 DEF SchemaIInv, MigrationSound
<1>8. UsingSound'
  <2>1. \A d \in Using' :
          /\ Fits(writer'[d].row) /\ writer'[d].row.tenant \in tenants'
          /\ \A i \in DOMAIN orders' : ~Same(writer'[d].row, orders'[i])
    BY <1>1, <1>4 DEF SchemaIInv, UsingSound
  <2>2. \A d, e \in Using' : Same(writer'[d].row, writer'[e].row) => d = e
    BY <1>4 DEF SchemaIInv, UsingSound
  <2>3. QED
    BY <2>1, <2>2 DEF UsingSound
<1>9. TransactionSound'
  <2>1. Cleared => Cleared'
    BY <1>1, <1>4 DEF Cleared
  <2>2. OtherOpen => OtherOpen'
    BY <1>1 DEF OtherOpen
  <2>3. OtherOrder => OtherOrder'
    BY <1>1, <1>4, <2>2 DEF OtherOrder
  <2>4. SetupOrder => SetupOrder'
    BY <1>1, <2>1 DEF SetupOrder
  <2>5. QED
    BY <1>1, <2>1, <2>2, <2>3, <2>4 DEF SchemaIInv, TransactionSound
<1>10. QED
  BY <1>5, <1>6, <1>7, <1>8, <1>9 DEF SchemaIInv

(* A consumer's look-up finds nothing and writes nothing.                  *)
LEMMA LookUpStep == ASSUME SchemaIInv, NEW c \in Consumers, LookUp(c) PROVE SchemaIInv'
<1>1. PICK t \in {TenantA, TenantB} :
        writer' = [writer EXCEPT ![c] = [pc |-> "absent", row |-> Row(t, ExternalId, 1)]]
  BY DEF LookUp
<1>2. Row(t, ExternalId, 1) \in OrderRow
  BY DEF Row, OrderRow, Tenants
<1>3. PICK r \in OrderRow : r = Row(t, ExternalId, 1)
  BY <1>2
<1>4. [pc |-> "absent", row |-> r] \in Writer /\ [pc |-> "absent", row |-> r].pc # "inserted"
  BY DEF Writer
<1>5. UNCHANGED <<database, stage, ddl, tx, reported>>
  BY DEF LookUp
<1>6. QED
  BY <1>1, <1>3, <1>4, <1>5, ConsumerMoves

(* A consumer that gives up.                                               *)
LEMMA FreedStep ==
  ASSUME SchemaIInv, NEW c \in Consumers, writer' = [writer EXCEPT ![c] = Free],
         UNCHANGED <<database, stage, ddl, tx, reported>>
  PROVE  SchemaIInv'
<1>1. Free \in Writer /\ Free.pc # "inserted"
  BY DEF Free, Writer
<1>2. QED
  BY <1>1, ConsumerMoves

LEMMA WriterRollbackStep == ASSUME SchemaIInv, NEW c \in Consumers, WriterRollback(c) PROVE SchemaIInv'
BY FreedStep DEF WriterRollback

(* The order a consumer is about to insert.                                *)
LEMMA AbsentFacts ==
  ASSUME SchemaIInv, NEW c \in Consumers, writer[c].pc = "absent"
  PROVE  /\ writer[c].row \in OrderRow /\ c \notin Using
         /\ [writer[c] EXCEPT !.pc = "inserted"] = [pc |-> "inserted", row |-> writer[c].row]
<1>1. writer[c] \in Writer
  BY DEF SchemaIInv, SchemaTypeOK
<1>2. writer[c] # Free
  BY DEF Free
<1>3. writer[c] \in [pc : {"absent", "inserted"}, row : OrderRow]
  BY <1>1, <1>2 DEF Writer
<1>4. writer[c].row \in OrderRow
  BY <1>3
<1>5. c \notin Using
  BY DEF Using
<1>6. [writer[c] EXCEPT !.pc = "inserted"] = [pc |-> "inserted", row |-> writer[c].row]
  BY <1>3
<1>7. QED
  BY <1>4, <1>5, <1>6

(* An order a consumer inserts fits with whatever else is open.            *)
LEMMA InsertedFacts ==
  ASSUME SchemaIInv, NEW c \in Consumers, writer[c].pc = "absent", MayInsert(c), "orders" \in tables,
         Refusal(writer[c].row, RowsOf(orders), tenants) = "none"
  PROVE  /\ version = "head" /\ ~Dropping /\ ~Cleared
         /\ Fits(writer[c].row) /\ writer[c].row.tenant \in tenants
         /\ \A i \in DOMAIN orders : ~Same(writer[c].row, orders[i])
         /\ \A d \in Using : ~Same(writer[c].row, writer[d].row)
         /\ tx # Closed => \A i \in DOMAIN tx.rows : ~Same(writer[c].row, tx.rows[i])
<1>1. version = "head"
  BY DEF SchemaIInv, SchemaTypeOK, VersionMatchesSchema
<1>2. ~Dropping
  BY Zenon DEF MayInsert
<1>3. /\ Fits(writer[c].row) /\ writer[c].row.tenant \in tenants
      /\ \A q \in RowsOf(orders) : ~Same(writer[c].row, q)
  BY RefusalNone
<1>4. \A i \in DOMAIN orders : ~Same(writer[c].row, orders[i])
  BY <1>3 DEF RowsOf
<1>5. ~Cleared
  <2>1. tx # Closed => writer[c].row.tenant \notin tx.gone
    BY DEF MayInsert
  <2>2. QED
    BY <1>3, <2>1 DEF Cleared
<1>6. \A q \in {writer[d].row : d \in Using \ {c}}
                 \union (IF tx = Closed THEN {} ELSE RowsOf(tx.rows)) : ~Same(writer[c].row, q)
  BY DEF MayInsert, Clashes, Same
<1>7. c \notin Using
  BY AbsentFacts
<1>8. \A d \in Using : ~Same(writer[c].row, writer[d].row)
  BY <1>6, <1>7
<1>9. tx # Closed => \A i \in DOMAIN tx.rows : ~Same(writer[c].row, tx.rows[i])
  BY <1>6 DEF RowsOf
<1>10. QED
  BY <1>1, <1>2, <1>3, <1>4, <1>5, <1>8, <1>9

LEMMA WriterInsertStep == ASSUME SchemaIInv, NEW c \in Consumers, WriterInsert(c) PROVE SchemaIInv'
<1>1. writer[c].pc = "absent" /\ MayInsert(c) /\ UNCHANGED <<database, stage, ddl, tx, reported>>
  BY DEF WriterInsert
<1>2. CASE ~("orders" \in tables /\ Refusal(writer[c].row, RowsOf(orders), tenants) = "none")
  <2>1. writer' = [writer EXCEPT ![c] = Free]
    BY <1>2 DEF WriterInsert
  <2>2. QED
    BY <1>1, <2>1, FreedStep
<1>3. CASE "orders" \in tables /\ Refusal(writer[c].row, RowsOf(orders), tenants) = "none"
  <2>1. writer[c].row \in OrderRow /\ c \notin Using
    BY <1>1, AbsentFacts
  <2>2. PICK r \in OrderRow : r = writer[c].row
    BY <2>1
  <2>3. writer' = [writer EXCEPT ![c] = [pc |-> "inserted", row |-> r]]
    <3>1. writer' = [writer EXCEPT ![c] = [@ EXCEPT !.pc = "inserted"]]
      BY <1>3 DEF WriterInsert
    <3>2. [writer[c] EXCEPT !.pc = "inserted"] = [pc |-> "inserted", row |-> r]
      BY <1>1, <2>2, AbsentFacts
    <3>3. QED
      BY <3>1, <3>2
  <2>4. writer \in [Consumers -> Writer]
    BY DEF SchemaIInv, SchemaTypeOK
  <2>5. /\ writer' \in [Consumers -> Writer]
        /\ writer'[c].row = r /\ writer'[c].pc = "inserted"
        /\ \A d \in Consumers \ {c} : writer'[d] = writer[d]
    <3>1. [pc |-> "inserted", row |-> r] \in Writer
      BY DEF Writer
    <3>2. QED
      BY <2>3, <2>4, <3>1
  <2>6. Using' = Using \union {c} /\ \A d \in Using : writer'[d] = writer[d]
    BY <2>1, <2>5 DEF Using
  <2>7. /\ version = "head" /\ ~Dropping /\ ~Cleared
        /\ Fits(r) /\ r.tenant \in tenants
        /\ \A i \in DOMAIN orders : ~Same(r, orders[i])
        /\ \A d \in Using : ~Same(r, writer[d].row)
        /\ tx # Closed => \A i \in DOMAIN tx.rows : ~Same(r, tx.rows[i])
    BY <1>1, <1>3, <2>2, InsertedFacts
  <2>8. version' = version /\ tables' = tables /\ tenants' = tenants /\ orders' = orders
        /\ stage' = stage /\ ddl' = ddl /\ tx' = tx /\ violations' = violations /\ ending' = ending
    BY <1>1 DEF database, reported
  <2>9. SchemaTypeOK'
    BY <2>5, <2>8 DEF SchemaIInv, SchemaTypeOK
  <2>10. VersionMatchesSchema' /\ DomainHolds'
    BY <2>8, DatabaseKept DEF SchemaIInv, VersionMatchesSchema, database
  <2>11. MigrationSound'
    <3>1. Dropping' = Dropping
      BY <2>8 DEF Dropping
    <3>2. Migrating' = Migrating /\ Target(stage)' = Target(stage)
      BY <2>8 DEF Migrating, Target
    <3>3. QED
      BY <2>7, <2>8, <3>1, <3>2 DEF SchemaIInv, MigrationSound
  <2>12. UsingSound'
    <3>1. \A d \in Using' :
            /\ Fits(writer'[d].row) /\ writer'[d].row.tenant \in tenants'
            /\ \A i \in DOMAIN orders' : ~Same(writer'[d].row, orders'[i])
      BY <2>5, <2>6, <2>7, <2>8 DEF SchemaIInv, UsingSound
    <3>2. \A d, e \in Using : Same(writer[d].row, writer[e].row) => d = e
      BY DEF SchemaIInv, UsingSound
    <3>3. \A d \in Using : ~Same(writer[d].row, r)
      BY <2>7 DEF Same
    <3>4. \A d, e \in Using' : Same(writer'[d].row, writer'[e].row) => d = e
      BY <2>5, <2>6, <2>7, <3>2, <3>3
    <3>5. QED
      BY <3>1, <3>4 DEF UsingSound
  <2>13. TransactionSound'
    <3>1. OtherOpen => OtherOpen'
      BY <2>8 DEF OtherOpen
    <3>2. OtherOrder => OtherOrder'
      <4> SUFFICES ASSUME OtherOrder PROVE OtherOrder'
        OBVIOUS
      <4>1. tx # Closed
        BY DEF OtherOrder, OtherOpen
      <4>2. DOMAIN tx.rows = 1 .. 1
        <5>1. tx.rows \in Seq(OrderRow)
          BY <4>1, TypeFacts, OpenFacts DEF SchemaIInv
        <5>2. QED
          BY <5>1 DEF OtherOrder
      <4>3. ~Same(tx.rows[1], r)
        BY <2>7, <4>1, <4>2 DEF Same
      <4>4. \A d \in Using' : ~Same(tx.rows[1], writer'[d].row)
        BY <2>5, <2>6, <4>3 DEF OtherOrder
      <4>5. QED
        BY <2>8, <3>1, <4>4 DEF OtherOrder
    <3>3. ~SetupOrder
      BY <2>7 DEF SetupOrder
    <3>4. QED
      BY <2>7, <2>8, <3>1, <3>2, <3>3 DEF SchemaIInv, TransactionSound
  <2>14. QED
    BY <2>9, <2>10, <2>11, <2>12, <2>13 DEF SchemaIInv
<1>4. QED
  BY <1>2, <1>3

-----------------------------------------------------------------------------
(* What is committed.                                                      *)

(* One more order, which fits with those that are there.                   *)
LEMMA OneMoreOrder ==
  ASSUME SchemaIInv, NEW r \in OrderRow, Fits(r), r.tenant \in tenants,
         \A i \in DOMAIN orders : ~Same(r, orders[i]),
         orders' = Append(orders, r), tenants' = tenants
  PROVE  /\ DomainHolds' /\ orders' \in Seq(OrderRow) /\ Len(orders) <= Len(orders')
         /\ \A q : /\ \A i \in DOMAIN orders : ~Same(q, orders[i])
                   /\ ~Same(q, r)
                   => \A i \in DOMAIN orders' : ~Same(q, orders'[i])
<1>1. orders \in Seq(OrderRow)
  BY DEF SchemaIInv, SchemaTypeOK
<1>2. PICK n \in Nat : n = Len(orders)
  BY <1>1
<1>3. /\ orders' \in Seq(OrderRow) /\ Len(orders') = n + 1
      /\ orders'[n + 1] = r /\ \A i \in 1 .. n : orders'[i] = orders[i]
  BY <1>1, <1>2
<1>4. DOMAIN orders' = 1 .. (n + 1) /\ DOMAIN orders = 1 .. n
  BY <1>1, <1>2, <1>3
<1>5. \A i \in 1 .. (n + 1) : i \in 1 .. n \/ i = n + 1
  OBVIOUS
<1>6. \A i \in DOMAIN orders' :
        orders'[i].tenant \in tenants' /\ Complete(orders'[i]) /\ Checked(orders'[i])
  BY <1>2, <1>3, <1>4, <1>5 DEF SchemaIInv, DomainHolds, Fits
<1>7. \A i, j \in 1 .. n : Same(orders[i], orders[j]) => i = j
  BY <1>4 DEF SchemaIInv, DomainHolds, Same
<1>8. \A i \in 1 .. n : ~Same(r, orders[i]) /\ ~Same(orders[i], r)
  BY <1>4 DEF Same
<1>9. \A i, j \in DOMAIN orders' : Same(orders'[i], orders'[j]) => i = j
  BY <1>3, <1>4, <1>5, <1>7, <1>8
<1>10. DomainHolds'
  BY <1>6, <1>9 DEF DomainHolds, Same
<1>11. \A q : (\A i \in DOMAIN orders : ~Same(q, orders[i])) /\ ~Same(q, r)
                   => \A i \in DOMAIN orders' : ~Same(q, orders'[i])
  BY <1>3, <1>4, <1>5
<1>12. QED
  BY <1>2, <1>3, <1>10, <1>11

LEMMA WriterCommitStep == ASSUME SchemaIInv, NEW c \in Consumers, WriterCommit(c) PROVE SchemaIInv'
<1>1. /\ writer[c].pc = "inserted" /\ orders' = Append(orders, writer[c].row)
      /\ writer' = [writer EXCEPT ![c] = Free]
      /\ UNCHANGED <<version, tables, tenants, stage, ddl, tx, reported>>
  BY DEF WriterCommit
<1>2. c \in Using /\ writer[c].row \in OrderRow
  BY <1>1, TypeFacts DEF Using, SchemaIInv
<1>3. PICK r \in OrderRow : r = writer[c].row
  BY <1>2
<1>4. writer \in [Consumers -> Writer]
  BY DEF SchemaIInv, SchemaTypeOK
<1>5. /\ writer' \in [Consumers -> Writer] /\ writer'[c] = Free
      /\ \A d \in Consumers \ {c} : writer'[d] = writer[d]
  BY <1>1, <1>4 DEF Writer
<1>6. Using' = Using \ {c} /\ \A d \in Using' : writer'[d] = writer[d]
  BY <1>5 DEF Using, Free
<1>7. /\ Fits(r) /\ r.tenant \in tenants
      /\ \A i \in DOMAIN orders : ~Same(r, orders[i])
      /\ \A d \in Using' : ~Same(writer'[d].row, r)
  BY <1>2, <1>3, <1>6 DEF SchemaIInv, UsingSound
<1>8. /\ DomainHolds' /\ orders' \in Seq(OrderRow) /\ Len(orders) <= Len(orders')
      /\ \A q : (\A i \in DOMAIN orders : ~Same(q, orders[i])) /\ ~Same(q, r)
                   => \A i \in DOMAIN orders' : ~Same(q, orders'[i])
  BY <1>1, <1>3, <1>7, OneMoreOrder
<1>9. version = "head" /\ ~Dropping
  BY <1>2 DEF SchemaIInv, MigrationSound
<1>10. version' = version /\ tables' = tables /\ tenants' = tenants
       /\ stage' = stage /\ ddl' = ddl /\ tx' = tx /\ violations' = violations /\ ending' = ending
  BY <1>1 DEF reported
<1>11. SchemaTypeOK'
  BY <1>5, <1>8, <1>10 DEF SchemaIInv, SchemaTypeOK
<1>12. VersionMatchesSchema'
  BY <1>9, <1>10 DEF SchemaIInv, VersionMatchesSchema
<1>13. MigrationSound'
  <2>1. Dropping' = Dropping
    BY <1>10 DEF Dropping
  <2>2. Migrating' = Migrating /\ Target(stage)' = Target(stage)
    BY <1>10 DEF Migrating, Target
  <2>3. QED
    BY <1>9, <1>10, <2>1, <2>2 DEF SchemaIInv, MigrationSound
<1>14. UsingSound'
  <2>1. \A d \in Using' :
          /\ Fits(writer'[d].row) /\ writer'[d].row.tenant \in tenants'
          /\ \A i \in DOMAIN orders : ~Same(writer'[d].row, orders[i])
    BY <1>6, <1>10 DEF SchemaIInv, UsingSound
  <2>2. \A d \in Using' : \A i \in DOMAIN orders' : ~Same(writer'[d].row, orders'[i])
    BY <1>7, <1>8, <2>1
  <2>3. \A d, e \in Using' : Same(writer'[d].row, writer'[e].row) => d = e
    BY <1>6 DEF SchemaIInv, UsingSound
  <2>4. QED
    BY <2>1, <2>2, <2>3 DEF UsingSound
<1>15. TransactionSound'
  <2>1. ~Cleared /\ ~SetupOrder
    BY <1>2 DEF Cleared, SetupOrder
  <2>2. OtherOpen => OtherOpen'
    BY <1>10 DEF OtherOpen
  <2>3. OtherOrder => OtherOrder'
    <3> SUFFICES ASSUME OtherOrder PROVE OtherOrder'
      OBVIOUS
    <3>1. ~Same(tx.rows[1], r) /\ \A i \in DOMAIN orders : ~Same(tx.rows[1], orders[i])
      BY <1>2, <1>3 DEF OtherOrder
    <3>2. \A i \in DOMAIN orders' : ~Same(tx.rows[1], orders'[i])
      BY <1>8, <3>1
    <3>3. \A d \in Using' : ~Same(tx.rows[1], writer'[d].row)
      BY <1>6 DEF OtherOrder
    <3>4. QED
      BY <1>10, <2>2, <3>2, <3>3 DEF OtherOrder
  <2>4. stage = "delete-tenants" => tx # Closed /\ tx.deleted \in Nat /\ tx.deleted <= Len(orders)
    BY TypeFacts, OpenFacts DEF SchemaIInv, TransactionSound
  <2>5. stage = "delete-tenants" => tx.deleted <= Len(orders')
    <3>1. Len(orders) \in Nat
      BY TypeFacts DEF SchemaIInv
    <3>2. Len(orders') \in Nat
      BY <1>8
    <3>3. Len(orders) <= Len(orders')
      BY <1>8
    <3>4. \A k \in Nat : k <= Len(orders) => k <= Len(orders')
      BY <3>1, <3>2, <3>3
    <3>5. QED
      BY Zenon, <2>4, <3>4
  <2>6. QED
    BY <1>10, <2>1, <2>2, <2>3, <2>4, <2>5 DEF SchemaIInv, TransactionSound
<1>16. QED
  BY <1>8, <1>11, <1>12, <1>13, <1>14, <1>15 DEF SchemaIInv

-----------------------------------------------------------------------------
(* The script's transactions.                                              *)

(* A transaction that is opened, or moves on, leaves the rest as it is.    *)
LEMMA TransactionMoves ==
  ASSUME SchemaIInv, UNCHANGED <<database, writer, ddl, violations, ending>>,
         stage \in InTransaction \union {"delete-orders"},
         stage' \in InTransaction, stage' \in BeforeProbes => violations = <<>>,
         tx' \in Transaction, TransactionSound'
  PROVE  SchemaIInv'
<1>1. version' = version /\ tables' = tables /\ tenants' = tenants /\ orders' = orders
      /\ ddl' = ddl /\ violations' = violations /\ writer' = writer /\ ending' = ending
  BY DEF database
<1>2. ~Migrating /\ version = "head"
  BY DEF SchemaIInv, MigrationSound, Migrating, InTransaction
<1>3. ddl = Closed
  BY <1>2 DEF SchemaIInv, MigrationSound
<1>4. stage' \in Stages /\ stage' # "probe"
  BY DEF Stages, InTransaction
<1>5. SchemaTypeOK'
  BY <1>1, <1>4 DEF SchemaIInv, SchemaTypeOK
<1>6. VersionMatchesSchema' /\ DomainHolds'
  BY <1>1, DatabaseKept DEF SchemaIInv, VersionMatchesSchema
<1>7. UsingSound' /\ Using' = Using
  BY <1>1, UsingKept
<1>8. MigrationSound'
  BY <1>1, <1>2, <1>3, <1>7 DEF MigrationSound, Dropping
<1>9. QED
  BY <1>5, <1>6, <1>7, <1>8 DEF SchemaIInv

(* Moving on before the probes, nothing has been refused yet.              *)
LEMMA NothingRefusedYet ==
  ASSUME SchemaIInv, stage \in BeforeProbes
  PROVE  violations = <<>>
BY DEF SchemaIInv, SchemaTypeOK

(* The set-up takes the orders it sees.                                    *)
LEMMA DeleteOrdersStep == ASSUME SchemaIInv, DeleteOrders PROVE SchemaIInv'
<1>1. /\ stage = "delete-orders" /\ stage' = "delete-tenants"
      /\ tx' = [Open(tenants) EXCEPT !.deleted = Len(orders)]
      /\ UNCHANGED <<database, writer, ddl, violations, ending>>
  BY AfterFacts DEF DeleteOrders, Proceed, ScriptOnly
<1>2. PICK n \in Nat : n = Len(orders)
  BY TypeFacts DEF SchemaIInv
<1>3. tx' = [state |-> "open", deleted |-> n, gone |-> {}, tenants |-> tenants, rows |-> <<>>]
  BY <1>1, <1>2 DEF Open
<1>4. <<>> \in Seq(OrderRow) /\ tenants \in SUBSET Tenants
  BY DEF SchemaIInv, SchemaTypeOK
<1>5. tx' \in Transaction
  BY <1>3, <1>4 DEF Transaction
<1>6. tx' # Closed
  BY <1>5, OpenFacts
<1>7. tenants' = tenants /\ orders' = orders
  BY <1>1 DEF database
<1>8. /\ tx'.rows = <<>> /\ tx'.tenants = tenants' /\ tx'.gone = {} /\ tx'.deleted <= Len(orders')
  BY <1>2, <1>3, <1>7
<1>9. TransactionSound'
  BY <1>1, <1>6, <1>8 DEF TransactionSound, InTransaction
<1>10. stage \in BeforeProbes /\ stage' \in InTransaction
  BY <1>1 DEF BeforeProbes, InTransaction
<1>11. QED
  BY <1>1, <1>5, <1>9, <1>10, NothingRefusedYet, TransactionMoves

(* What is left of a sequence after its first k elements.                  *)
LEMMA RestFacts ==
  ASSUME NEW s \in Seq(OrderRow), NEW k \in Nat, k < Len(s)
  PROVE  LET rest == SubSeq(s, k + 1, Len(s)) IN
         /\ rest \in Seq(OrderRow) /\ 1 \in DOMAIN rest
         /\ rest[1] = s[k + 1] /\ k + 1 \in DOMAIN s
<1>1. PICK n \in Nat : n = Len(s)
  OBVIOUS
<1>2. DOMAIN s = 1 .. n /\ \A i \in 1 .. n : s[i] \in OrderRow
  BY <1>1
<1> DEFINE m == k + 1
           rest == SubSeq(s, m, n)
<1>3. m \in Int /\ m = k + 1
  OBVIOUS
<1> HIDE DEF m
<1>4. \A i \in m .. n : s[i] \in OrderRow
  BY <1>1, <1>2, <1>3
<1>5. /\ rest \in Seq(OrderRow) /\ Len(rest) = IF m <= n THEN n - m + 1 ELSE 0
      /\ \A i \in 1 .. n - m + 1 : rest[i] = s[m + i - 1]
  BY <1>1, <1>3, <1>4, SubSeqProperties
<1> HIDE DEF rest
<1>6. m <= n /\ 1 \in 1 .. n - m + 1 /\ m + 1 - 1 = m /\ m \in 1 .. n
  BY <1>1, <1>3
<1>7. Len(rest) = n - m + 1 /\ rest[1] = s[m]
  BY <1>5, <1>6
<1>8. 1 \in DOMAIN rest
  BY <1>5, <1>6, <1>7
<1>9. QED
  BY <1>1, <1>2, <1>3, <1>5, <1>6, <1>7, <1>8 DEF rest

(* Arithmetic the steps below appeal to.                                   *)
LEMMA LessOrEqual == \A k, n \in Nat : k <= n => k < n \/ k = n
OBVIOUS

(* What the set-up sees when it takes the tenants: the orders committed    *)
(* since it took the others.                                               *)
LEMMA SeenByDelete ==
  ASSUME SchemaIInv, stage = "delete-tenants", tx.deleted # Len(orders)
  PROVE  \E r \in RowsOf(Seen) : r.tenant \in tx.tenants
<1>1. /\ tx # Closed /\ tx.rows = <<>> /\ tx.tenants = tenants /\ tx.deleted <= Len(orders)
  BY DEF SchemaIInv, TransactionSound
<1>2. tx.deleted \in Nat /\ Len(orders) \in Nat /\ orders \in Seq(OrderRow)
  BY <1>1, TypeFacts, OpenFacts DEF SchemaIInv, SchemaTypeOK
<1>3. tx.deleted < Len(orders)
  <2>1. tx.deleted \in Nat /\ Len(orders) \in Nat /\ tx.deleted <= Len(orders)
    BY <1>1, <1>2
  <2>2. QED
    BY Zenon, <2>1, LessOrEqual
<1>4. PICK k \in Nat : k = tx.deleted
  BY <1>2
<1> DEFINE s == orders
<1>10. s \in Seq(OrderRow) /\ k < Len(s)
  BY <1>2, <1>3, <1>4
<1> HIDE DEF s
<1> DEFINE rest == SubSeq(s, k + 1, Len(s))
<1>5. /\ rest \in Seq(OrderRow) /\ 1 \in DOMAIN rest
      /\ rest[1] = s[k + 1] /\ k + 1 \in DOMAIN s
  BY <1>10, RestFacts
<1>6. Seen = rest
  <2>0. s = orders
    BY DEF s
  <2>1. rest \o <<>> = rest
    BY <1>5, ConcatEmptySeq
  <2>2. QED
    BY <1>1, <1>4, <2>0, <2>1 DEF Seen
<1>7. s[k + 1].tenant \in tenants
  BY <1>4, <1>5 DEF s, SchemaIInv, DomainHolds
<1>8. rest[1] \in RowsOf(Seen)
  BY <1>5, <1>6 DEF RowsOf
<1>9. QED
  BY <1>1, <1>5, <1>7, <1>8

LEMMA DeleteTenantsStep == ASSUME SchemaIInv, DeleteTenants PROVE SchemaIInv'
<1>1. /\ stage = "delete-tenants" /\ \A r \in UncommittedByOthers : r.tenant \notin tx.tenants
      /\ UNCHANGED <<database, writer, violations>>
  BY DEF DeleteTenants, ScriptOnly
<1>2. CASE \E r \in RowsOf(Seen) : r.tenant \in tx.tenants
  <2>1. Raise("IntegrityError")
    BY <1>2 DEF DeleteTenants
  <2>2. QED
    BY <1>1, <2>1, Rolled
<1>3. CASE ~\E r \in RowsOf(Seen) : r.tenant \in tx.tenants
  <2>1. /\ tx' = [tx EXCEPT !.tenants = {}, !.gone = tx.tenants]
        /\ stage' = "insert-tenants" /\ UNCHANGED <<ddl, ending>>
    BY <1>1, <1>3, AfterFacts DEF DeleteTenants, Proceed
  <2>2. tx # Closed /\ tx.rows = <<>> /\ tx.tenants = tenants
    BY <1>1 DEF SchemaIInv, TransactionSound
  <2>3. tx \in Transaction
    BY <2>2, TypeFacts DEF SchemaIInv
  <2>4. tx.deleted = Len(orders)
    BY <1>1, <1>3, SeenByDelete
  <2>5. Using = {}
    <3> SUFFICES ASSUME NEW c \in Using PROVE FALSE
      OBVIOUS
    <3>1. writer[c].row.tenant \in tenants
      BY DEF SchemaIInv, UsingSound
    <3>2. writer[c].row \in UncommittedByOthers
      BY DEF UncommittedByOthers
    <3>3. QED
      BY <1>1, <2>2, <3>1, <3>2
  <2>6. PICK t \in SUBSET Tenants : t = tx.tenants
    BY <2>3, OpenFacts
  <2>7. tx' = [tx EXCEPT !.tenants = {}, !.gone = t]
    BY <2>1, <2>6
  <2>8. tx' \in Transaction
    BY <2>3, <2>7 DEF Transaction
  <2>9. tx'.gone = tx.tenants /\ tx'.deleted = tx.deleted /\ tx'.rows = tx.rows
    BY <2>3, <2>6, <2>7 DEF Transaction
  <2>10. tx' # Closed
    BY <2>8, OpenFacts
  <2>11. tenants' = tenants /\ orders' = orders
    BY <1>1 DEF database
  <2>12. Using' = {}
    BY <1>1, <2>5 DEF Using
  <2>13. Cleared' /\ tx'.rows = <<>>
    BY <2>2, <2>4, <2>9, <2>10, <2>11, <2>12 DEF Cleared
  <2>14. TransactionSound'
    BY <2>1, <2>13 DEF TransactionSound, InTransaction
  <2>15. stage \in BeforeProbes /\ stage \in InTransaction /\ stage' \in InTransaction
    BY <1>1, <2>1 DEF BeforeProbes, InTransaction
  <2>16. QED
    BY <1>1, <2>1, <2>8, <2>14, <2>15, NothingRefusedYet, TransactionMoves
<1>4. QED
  BY <1>2, <1>3

LEMMA InsertTenantsStep == ASSUME SchemaIInv, InsertTenants PROVE SchemaIInv'
<1>1. /\ stage = "insert-tenants" /\ stage' = "insert-order"
      /\ tx' = [tx EXCEPT !.tenants = {TenantA, TenantB}]
      /\ UNCHANGED <<database, writer, ddl, violations, ending>>
  BY AfterFacts DEF InsertTenants, Proceed, ScriptOnly
<1>2. Cleared /\ tx.rows = <<>>
  BY <1>1 DEF SchemaIInv, TransactionSound
<1>3. tx \in Transaction
  BY <1>2, TypeFacts DEF Cleared, SchemaIInv
<1>4. {TenantA, TenantB} \in SUBSET Tenants
  BY DEF Tenants
<1>5. tx' \in Transaction
  BY <1>1, <1>3, <1>4 DEF Transaction
<1>6. /\ tx'.gone = tx.gone /\ tx'.deleted = tx.deleted /\ tx'.rows = tx.rows
      /\ tx'.tenants = {TenantA, TenantB}
  BY <1>1, <1>3 DEF Transaction
<1>7. tx' # Closed
  BY <1>5, OpenFacts
<1>8. tenants' = tenants /\ orders' = orders /\ Using' = Using
  BY <1>1, UsingKept DEF database
<1>9. Cleared'
  BY <1>2, <1>6, <1>7, <1>8 DEF Cleared
<1>10. TransactionSound'
  BY <1>1, <1>2, <1>6, <1>9 DEF TransactionSound, InTransaction
<1>11. stage \in BeforeProbes /\ stage \in InTransaction /\ stage' \in InTransaction
  BY <1>1 DEF BeforeProbes, InTransaction
<1>12. QED
  BY <1>1, <1>5, <1>10, <1>11, NothingRefusedYet, TransactionMoves

(* What the first insert of a transaction does, if it is not refused.      *)
LEMMA FirstInsert ==
  ASSUME SchemaIInv, tx # Closed, tx.rows = <<>>, NEW r \in OrderRow, Insert(r)
  PROVE  \/ Raise("IntegrityError")
         \/ /\ stage' = After(stage) /\ UNCHANGED <<ending, ddl>>
            /\ tx' \in Transaction /\ tx' # Closed
            /\ tx'.deleted = tx.deleted /\ tx'.gone = tx.gone /\ tx'.tenants = tx.tenants
            /\ Len(tx'.rows) = 1 /\ tx'.rows[1] = r
            /\ Fits(r) /\ r.tenant \in tx.tenants
            /\ \A q \in RowsOf(Seen) : ~Same(r, q)
            /\ \A c \in Using : ~Same(r, writer[c].row)
<1>1. CASE Refusal(r, RowsOf(Seen), tx.tenants) # "none"
  BY <1>1 DEF Insert
<1>2. CASE Refusal(r, RowsOf(Seen), tx.tenants) = "none"
  <2>1. /\ tx' = [tx EXCEPT !.rows = Append(@, r)]
        /\ stage' = After(stage) /\ UNCHANGED <<ending, ddl>>
    BY <1>2 DEF Insert, Proceed
  <2>2. /\ Fits(r) /\ r.tenant \in tx.tenants
        /\ \A q \in RowsOf(Seen) : ~Same(r, q)
    BY <1>2, RefusalNone
  <2>3. ~Clashes(r, UncommittedByOthers)
    BY <2>2 DEF Insert, Fits
  <2>4. \A c \in Using : ~Same(r, writer[c].row)
    BY <2>3 DEF Clashes, Same, UncommittedByOthers
  <2>5. tx \in Transaction
    BY TypeFacts DEF SchemaIInv
  <2>6. PICK rows \in Seq(OrderRow) : rows = Append(tx.rows, r) /\ Len(rows) = 1 /\ rows[1] = r
    <3>1. Append(<<>>, r) \in Seq(OrderRow) /\ Len(Append(<<>>, r)) = 1 /\ Append(<<>>, r)[1] = r
      OBVIOUS
    <3>2. QED
      BY <3>1
  <2>7. tx' = [tx EXCEPT !.rows = rows]
    BY <2>1, <2>6
  <2>8. tx' \in Transaction
    BY <2>5, <2>7 DEF Transaction
  <2>9. tx'.deleted = tx.deleted /\ tx'.gone = tx.gone /\ tx'.tenants = tx.tenants /\ tx'.rows = rows
    BY <2>5, <2>7 DEF Transaction
  <2>10. tx' # Closed
    BY <2>8, OpenFacts
  <2>11. QED
    BY <2>1, <2>2, <2>4, <2>6, <2>8, <2>9, <2>10
<1>3. QED
  BY <1>1, <1>2

LEMMA InsertOrderStep == ASSUME SchemaIInv, InsertOrder PROVE SchemaIInv'
<1>1. stage = "insert-order" /\ UNCHANGED <<database, writer, violations>>
  BY DEF InsertOrder, ScriptOnly
<1>2. PICK r \in OrderRow : r = Row(TenantA, ExternalId, 1)
  BY DEF Row, OrderRow, Tenants
<1>3. Insert(r)
  BY <1>2 DEF InsertOrder
<1>4. Cleared /\ tx.rows = <<>> /\ tx.tenants = {TenantA, TenantB}
  BY <1>1 DEF SchemaIInv, TransactionSound
<1>5. CASE Raise("IntegrityError")
  BY <1>1, <1>5, Rolled
<1>6. CASE ~Raise("IntegrityError")
  <2>1. /\ stage' = "commit-setup" /\ UNCHANGED <<ending, ddl>>
        /\ tx' \in Transaction /\ tx' # Closed
        /\ tx'.deleted = tx.deleted /\ tx'.gone = tx.gone /\ tx'.tenants = tx.tenants
        /\ Len(tx'.rows) = 1 /\ tx'.rows[1] = r
        /\ Fits(r) /\ r.tenant \in tx.tenants
    BY <1>1, <1>3, <1>4, <1>6, FirstInsert, AfterFacts DEF Cleared
  <2>2. tenants' = tenants /\ orders' = orders /\ Using' = Using
    BY <1>1, UsingKept DEF database
  <2>3. Cleared'
    BY <1>4, <2>1, <2>2 DEF Cleared
  <2>4. SetupOrder'
    BY <1>4, <2>1, <2>3 DEF SetupOrder, Fits, Complete, Checked
  <2>5. TransactionSound'
    BY <2>1, <2>4 DEF TransactionSound, InTransaction
  <2>6. stage \in BeforeProbes /\ stage \in InTransaction /\ stage' \in InTransaction
    BY <1>1, <2>1 DEF BeforeProbes, InTransaction
  <2>7. QED
    BY <1>1, <2>1, <2>5, <2>6, NothingRefusedYet, TransactionMoves
<1>7. QED
  BY <1>5, <1>6

(* The script's view, before it has written anything, is what is committed. *)
LEMMA SeenByOther ==
  ASSUME SchemaIInv, OtherOpen, tx.rows = <<>>
  PROVE  Seen = orders
<1>1. orders \in Seq(OrderRow) /\ tx.deleted = 0
  BY DEF SchemaIInv, SchemaTypeOK, OtherOpen
<1>2. SubSeq(orders, 1, Len(orders)) = orders
  BY <1>1, SubSeqFull
<1>3. Seen = orders \o <<>>
  BY <1>1, <1>2 DEF Seen
<1>4. QED
  BY <1>1, <1>3, ConcatEmptySeq

LEMMA InsertOtherStep == ASSUME SchemaIInv, InsertOther PROVE SchemaIInv'
<1>1. stage = "insert-other" /\ UNCHANGED <<database, writer, violations>>
  BY DEF InsertOther, ScriptOnly
<1>2. tenants' = tenants /\ orders' = orders /\ Using' = Using
  BY <1>1, UsingKept DEF database
<1>3. stage \in InTransaction /\ stage \notin BeforeProbes
  BY <1>1 DEF BeforeProbes, InTransaction
<1>4. CASE tx = Closed
  <2>1. tx' = Open(tenants) /\ UNCHANGED <<stage, ddl, ending>>
    BY <1>4 DEF InsertOther
  <2>2. tx' = [state |-> "open", deleted |-> 0, gone |-> {}, tenants |-> tenants, rows |-> <<>>]
    BY <2>1 DEF Open
  <2>3. <<>> \in Seq(OrderRow) /\ tenants \in SUBSET Tenants
    BY DEF SchemaIInv, SchemaTypeOK
  <2>4. tx' \in Transaction
    BY <2>2, <2>3 DEF Transaction
  <2>5. tx' # Closed
    BY <2>4, OpenFacts
  <2>6. tx'.deleted = 0 /\ tx'.gone = {} /\ tx'.tenants = tenants /\ tx'.rows = <<>>
    BY <2>2
  <2>7. OtherOpen'
    BY <1>2, <2>5, <2>6 DEF OtherOpen
  <2>8. TransactionSound'
    BY <1>1, <1>3, <2>1, <2>6, <2>7 DEF TransactionSound
  <2>9. QED
    BY <1>1, <1>3, <2>1, <2>4, <2>8, TransactionMoves
<1>5. CASE tx # Closed
  <2>1. PICK r \in OrderRow : r = Row(TenantB, ExternalId, 1)
    BY DEF Row, OrderRow, Tenants
  <2>2. Insert(r)
    BY <1>5, <2>1 DEF InsertOther
  <2>3. OtherOpen /\ tx.rows = <<>>
    BY <1>1, <1>5 DEF SchemaIInv, TransactionSound
  <2>4. CASE Raise("IntegrityError")
    BY <1>1, <2>4, Rolled
  <2>5. CASE ~Raise("IntegrityError")
    <3>1. /\ stage' = "count" /\ UNCHANGED <<ending, ddl>>
          /\ tx' \in Transaction /\ tx' # Closed
          /\ tx'.deleted = tx.deleted /\ tx'.gone = tx.gone /\ tx'.tenants = tx.tenants
          /\ Len(tx'.rows) = 1 /\ tx'.rows[1] = r
          /\ Fits(r) /\ r.tenant \in tx.tenants
          /\ \A q \in RowsOf(Seen) : ~Same(r, q)
          /\ \A c \in Using : ~Same(r, writer[c].row)
      BY <1>1, <1>5, <2>2, <2>3, <2>5, FirstInsert, AfterFacts
    <3>2. \A i \in DOMAIN orders : ~Same(r, orders[i])
      BY <2>3, <3>1, SeenByOther DEF RowsOf
    <3>3. OtherOpen'
      BY <1>2, <2>3, <3>1 DEF OtherOpen
    <3>4. Fits(tx'.rows[1]) /\ tx'.rows[1].tenant \in tx'.tenants
      BY <3>1
    <3>5. \A i \in DOMAIN orders' : ~Same(tx'.rows[1], orders'[i])
      BY <1>2, <3>1, <3>2
    <3>6. \A c \in Using' : ~Same(tx'.rows[1], writer'[c].row)
      BY <1>1, <1>2, <3>1
    <3>7. OtherOrder'
      BY <3>1, <3>3, <3>4, <3>5, <3>6 DEF OtherOrder, Fits, Complete, Checked, Same
    <3>8. TransactionSound'
      BY <3>1, <3>7 DEF TransactionSound, InTransaction
    <3>9. stage' \in InTransaction /\ stage' \notin BeforeProbes
      BY <3>1 DEF BeforeProbes, InTransaction
    <3>10. QED
      BY <1>1, <1>3, <3>1, <3>8, <3>9, TransactionMoves
  <2>6. QED
    BY <2>4, <2>5
<1>6. QED
  BY <1>4, <1>5

LEMMA CountSameIdStep == ASSUME SchemaIInv, CountSameId PROVE SchemaIInv'
<1>1. /\ stage = "count" /\ stage' = "commit-other"
      /\ UNCHANGED <<database, writer, violations, ending, ddl, tx>>
  BY AfterFacts DEF CountSameId, Proceed
<1>2. tenants' = tenants /\ orders' = orders /\ Using' = Using /\ tx' = tx /\ writer' = writer
  BY <1>1, UsingKept DEF database
<1>3. OtherOrder
  BY <1>1 DEF SchemaIInv, TransactionSound
<1>4. OtherOrder'
  BY <1>2, <1>3 DEF OtherOrder, OtherOpen
<1>5. TransactionSound'
  BY <1>1, <1>4 DEF TransactionSound, InTransaction
<1>6. tx' \in Transaction
  BY <1>2, <1>3, TypeFacts DEF OtherOrder, OtherOpen, SchemaIInv
<1>7. stage \in InTransaction /\ stage' \in InTransaction /\ stage' \notin BeforeProbes
  BY <1>1 DEF BeforeProbes, InTransaction
<1>8. QED
  BY <1>1, <1>5, <1>6, <1>7, TransactionMoves

(* More of it.                                                             *)
LEMMA SmallNumbers == 0 + 1 = 1 /\ Len(<<>>) < 4
OBVIOUS

(* Nothing is left of a sequence after all its elements.                   *)
LEMMA NoRest ==
  ASSUME NEW s \in Seq(OrderRow)
  PROVE  SubSeq(s, Len(s) + 1, Len(s)) = <<>>
<1>1. Len(s) + 1 \in Int /\ Len(s) \in Int /\ Len(s) < Len(s) + 1
  OBVIOUS
<1>2. QED
  BY <1>1, SubSeqEmpty

(* A sequence of one order.                                                *)
LEMMA SingleOrder ==
  ASSUME NEW s \in Seq(OrderRow), Len(s) = 1
  PROVE  /\ DOMAIN s = {1} /\ s[1] \in OrderRow /\ s = <<s[1]>>
         /\ \A t \in Seq(OrderRow) : t \o s = Append(t, s[1])
<1>1. DOMAIN s = {1} /\ s[1] \in OrderRow /\ s = <<s[1]>>
  OBVIOUS
<1>2. \A t \in Seq(OrderRow) : t \o <<s[1]>> = Append(t, s[1])
  BY <1>1
<1>3. QED
  BY <1>1, <1>2

(* What the set-up commits is its one order, in place of all there was.    *)
LEMMA SeenBySetup ==
  ASSUME SchemaIInv, stage = "commit-setup"
  PROVE  /\ tx # Closed /\ tx.rows \in Seq(OrderRow) /\ Len(tx.rows) = 1 /\ DOMAIN tx.rows = {1}
         /\ Seen = tx.rows
<1>1. SetupOrder /\ Cleared
  BY DEF SchemaIInv, TransactionSound, SetupOrder
<1>2. tx \in Transaction /\ tx # Closed
  BY <1>1, TypeFacts DEF Cleared, SchemaIInv
<1>3. PICK rows \in Seq(OrderRow) : rows = tx.rows
  BY <1>2, OpenFacts
<1>4. orders \in Seq(OrderRow)
  BY DEF SchemaIInv, SchemaTypeOK
<1>5. SubSeq(orders, Len(orders) + 1, Len(orders)) = <<>>
  BY <1>4, NoRest
<1>6. Seen = <<>> \o rows
  BY <1>1, <1>3, <1>5 DEF Seen, Cleared
<1>7. Seen = rows
  BY <1>3, <1>6, ConcatEmptySeq
<1>8. Len(rows) = 1
  BY <1>1, <1>3 DEF SetupOrder
<1>9. DOMAIN rows = {1}
  BY <1>3, <1>8, SingleOrder
<1>10. QED
  BY <1>2, <1>3, <1>7, <1>8, <1>9

(* What the other transaction sees is what is committed and its one order. *)
LEMMA SeenWithOther ==
  ASSUME SchemaIInv, stage \in {"count", "commit-other"}
  PROVE  /\ tx # Closed /\ tx.rows[1] \in OrderRow /\ DOMAIN tx.rows = {1}
         /\ Seen = Append(orders, tx.rows[1])
<1>1. OtherOrder /\ OtherOpen
  BY DEF SchemaIInv, TransactionSound, OtherOrder
<1>2. tx \in Transaction /\ tx # Closed
  BY <1>1, TypeFacts DEF OtherOpen, SchemaIInv
<1>3. PICK rows \in Seq(OrderRow) : rows = tx.rows
  BY <1>2, OpenFacts
<1>4. Len(rows) = 1
  BY <1>1, <1>3 DEF OtherOrder
<1>5. orders \in Seq(OrderRow)
  BY DEF SchemaIInv, SchemaTypeOK
<1>6. orders \o rows = Append(orders, rows[1]) /\ rows[1] \in OrderRow /\ DOMAIN rows = {1}
  BY <1>3, <1>4, <1>5, SingleOrder
<1>7. SubSeq(orders, 1, Len(orders)) = orders
  BY <1>5, SubSeqFull
<1>8. tx.deleted + 1 = 1
  BY Zenon, <1>1, SmallNumbers DEF OtherOpen
<1>9. Seen = orders \o rows
  BY <1>3, <1>7, <1>8 DEF Seen
<1>10. QED
  BY <1>2, <1>3, <1>6, <1>9

(* The set-up's commit: its tenants and its order, in place of all rows.   *)
LEMMA CommitSetupStep == ASSUME SchemaIInv, Commit, stage = "commit-setup" PROVE SchemaIInv'
<1>1. /\ stage' = "probe" /\ tenants' = tx.tenants /\ orders' = Seen /\ tx' = Closed
      /\ UNCHANGED <<version, tables, ddl, violations, ending, writer>>
  BY AfterFacts DEF Commit, Proceed
<1>2. SetupOrder /\ Cleared
  BY DEF SchemaIInv, TransactionSound, SetupOrder
<1>3. tx \in Transaction
  BY <1>2, TypeFacts DEF Cleared, SchemaIInv
<1>4. PICK rows \in Seq(OrderRow) : rows = tx.rows
  BY SeenBySetup
<1>5. Seen = rows
  BY <1>4, SeenBySetup
<1>6. /\ Len(rows) = 1 /\ DOMAIN rows = {1}
      /\ Fits(rows[1]) /\ rows[1].tenant \in tx.tenants /\ tx.tenants \subseteq Tenants
  <2>1. Len(rows) = 1 /\ Fits(rows[1]) /\ rows[1].tenant \in tx.tenants
    BY <1>2, <1>4 DEF SetupOrder
  <2>2. tx.tenants \subseteq Tenants
    BY <1>3, OpenFacts
  <2>3. DOMAIN rows = {1}
    BY <1>4, <2>1, SingleOrder
  <2>4. QED
    BY <2>1, <2>2, <2>3
<1>7. orders' = rows
  BY <1>1, <1>5
<1>8. \A i \in DOMAIN orders' : i = 1
  BY <1>6, <1>7
<1>9. DomainHolds'
  <2>1. \A i \in DOMAIN orders' :
          orders'[i].tenant \in tenants' /\ Complete(orders'[i]) /\ Checked(orders'[i])
    BY <1>1, <1>6, <1>7, <1>8 DEF Fits
  <2>2. QED
    BY <1>8, <2>1 DEF DomainHolds
<1>10. version = "head" /\ ddl = Closed
  BY DEF SchemaIInv, MigrationSound, Migrating, InTransaction
<1>11. Using' = {}
  BY <1>1, <1>2 DEF Using, Cleared
<1>12. SchemaTypeOK'
  <2>1. violations = <<>>
    BY NothingRefusedYet DEF BeforeProbes
  <2>2. stage' \in Stages /\ stage' \notin BeforeProbes
    BY <1>1 DEF Stages, BeforeProbes
  <2>3. orders' \in Seq(OrderRow) /\ tenants' \subseteq Tenants
    BY <1>1, <1>4, <1>6, <1>7
  <2>4. Len(violations') < 4
    BY Zenon, <1>1, <2>1, SmallNumbers
  <2>5. QED
    BY <1>1, <2>2, <2>3, <2>4 DEF SchemaIInv, SchemaTypeOK
<1>13. VersionMatchesSchema'
  BY <1>1, <1>10 DEF SchemaIInv, VersionMatchesSchema
<1>14. MigrationSound' /\ UsingSound'
  BY <1>1, <1>10, <1>11 DEF MigrationSound, UsingSound
<1>15. TransactionSound'
  BY <1>1 DEF TransactionSound
<1>16. QED
  BY <1>9, <1>12, <1>13, <1>14, <1>15 DEF SchemaIInv

(* One more order is committed by the script, which then has nothing open. *)
LEMMA ScriptAppends ==
  ASSUME SchemaIInv, NEW r \in OrderRow, Fits(r), r.tenant \in tenants,
         \A i \in DOMAIN orders : ~Same(r, orders[i]),
         \A c \in Using : ~Same(r, writer[c].row),
         orders' = Append(orders, r),
         UNCHANGED <<version, tables, tenants, violations, writer>>,
         version = "head", tx' = Closed, ddl' = Closed, ending' # "ProgrammingError",
         stage' \in {"idle", "downgrade-again"}
  PROVE  SchemaIInv'
<1>1. /\ DomainHolds' /\ orders' \in Seq(OrderRow)
      /\ \A q : (\A i \in DOMAIN orders : ~Same(q, orders[i])) /\ ~Same(q, r)
                   => \A i \in DOMAIN orders' : ~Same(q, orders'[i])
  BY OneMoreOrder
<1>2. stage' \in Stages /\ stage' \notin BeforeProbes /\ stage' # "probe" /\ stage' \notin InTransaction
  BY DEF Stages, BeforeProbes, InTransaction
<1>3. SchemaTypeOK'
  BY <1>1, <1>2 DEF SchemaIInv, SchemaTypeOK
<1>4. VersionMatchesSchema'
  BY DEF SchemaIInv, VersionMatchesSchema
<1>5. Using' = Using
  BY DEF Using
<1>6. MigrationSound'
  BY <1>2, <1>5 DEF SchemaIInv, MigrationSound, Dropping
<1>7. UsingSound'
  <2>1. \A c \in Using : ~Same(writer[c].row, r)
    BY DEF Same
  <2>2. \A c \in Using : \A i \in DOMAIN orders' : ~Same(writer[c].row, orders'[i])
    BY <1>1, <2>1 DEF SchemaIInv, UsingSound
  <2>3. \A c \in Using : Fits(writer[c].row) /\ writer[c].row.tenant \in tenants
    BY DEF SchemaIInv, UsingSound
  <2>4. \A c, d \in Using : Same(writer[c].row, writer[d].row) => c = d
    BY DEF SchemaIInv, UsingSound
  <2>5. QED
    BY <1>5, <2>2, <2>3, <2>4 DEF UsingSound
<1>8. TransactionSound'
  BY <1>2 DEF TransactionSound, InTransaction
<1>9. QED
  BY <1>1, <1>3, <1>4, <1>6, <1>7, <1>8 DEF SchemaIInv

(* The commit of the other tenant's order.                                 *)
LEMMA CommitOtherStep == ASSUME SchemaIInv, Commit, stage = "commit-other" PROVE SchemaIInv'
<1>1. /\ stage' \in {"idle", "downgrade-again"} /\ ending' \in {"probed", ending}
      /\ tenants' = tx.tenants /\ orders' = Seen /\ tx' = Closed
      /\ UNCHANGED <<version, tables, ddl, violations, writer>>
  BY AfterFacts DEF Commit, Proceed
<1>2. OtherOrder /\ OtherOpen
  BY DEF SchemaIInv, TransactionSound, OtherOrder
<1>3. tx \in Transaction
  BY <1>2, TypeFacts DEF OtherOpen, SchemaIInv
<1>4. PICK r \in OrderRow : r = tx.rows[1]
  BY SeenWithOther
<1>9. orders' = Append(orders, r)
  BY <1>1, <1>4, SeenWithOther
<1>10. /\ Fits(r) /\ r.tenant \in tenants
       /\ \A i \in DOMAIN orders : ~Same(r, orders[i])
       /\ \A c \in Using : ~Same(r, writer[c].row)
  BY <1>2, <1>4 DEF OtherOrder, OtherOpen
<1>11. version = "head" /\ ddl = Closed
  BY DEF SchemaIInv, MigrationSound, Migrating, InTransaction
<1>12. tenants' = tenants
  BY <1>1, <1>2 DEF OtherOpen
<1>13. ending' # "ProgrammingError"
  BY <1>1 DEF SchemaIInv, VersionMatchesSchema
<1>14. QED
  BY <1>1, <1>9, <1>10, <1>11, <1>12, <1>13, ScriptAppends

-----------------------------------------------------------------------------
(* The probes.                                                             *)

(* The rows the probes insert.                                             *)
LEMMA ProbeFacts ==
  /\ Len(Probes) = 4
  /\ \A k \in 1 .. 4 : Probes[k].row \in OrderRow
<1>1. Len(Probes) = 4
  BY DEF Probes
<1>2. /\ Probes[1].row = Row(Orphan, "orphan", 1) /\ Probes[2].row = Row(TenantA, Null, 1)
      /\ Probes[3].row = Row(TenantA, "free-order", 0) /\ Probes[4].row = Row(TenantA, ExternalId, 1)
  BY DEF Probes
<1>3. /\ Row(Orphan, "orphan", 1) \in OrderRow /\ Row(TenantA, Null, 1) \in OrderRow
      /\ Row(TenantA, "free-order", 0) \in OrderRow /\ Row(TenantA, ExternalId, 1) \in OrderRow
  BY DEF Row, OrderRow, Tenants
<1>4. \A k \in 1 .. 4 : k = 1 \/ k = 2 \/ k = 3 \/ k = 4
  OBVIOUS
<1>5. \A k \in 1 .. 4 : Probes[k].row \in OrderRow
  BY <1>2, <1>3, <1>4
<1>6. QED
  BY <1>1, <1>5

LEMMA ProbeStep == ASSUME SchemaIInv, Probe PROVE SchemaIInv'
<1>1. stage = "probe" /\ UNCHANGED writer
  BY DEF Probe
<1>2. version = "head" /\ ddl = Closed /\ tx = Closed
  BY <1>1 DEF SchemaIInv, MigrationSound, TransactionSound, Migrating, InTransaction
<1>3. PICK v \in Seq(Errors) : v = violations /\ Len(v) < 4
  BY <1>1 DEF SchemaIInv, SchemaTypeOK
<1>4. Len(v) + 1 \in 1 .. 4
  BY <1>3
<1>5. PICK r \in OrderRow : r = Probes[Len(violations) + 1].row
  BY <1>3, <1>4, ProbeFacts
<1>6. CASE Refusal(r, RowsOf(orders), tenants) = "none"
  <2>1. Accepted /\ (Complete(r) /\ Checked(r) => ~Clashes(r, UncommittedByOthers))
    BY <1>5, <1>6 DEF Probe
  <2>2. orders' = Append(orders, r) /\ UNCHANGED <<version, tables, tenants, violations>>
        /\ stage' = "idle" /\ tx' = Closed /\ ddl' = Closed /\ ending' = "AssertionError"
    BY <1>5, <2>1 DEF Accepted, Raise
  <2>3. Fits(r) /\ r.tenant \in tenants /\ \A q \in RowsOf(orders) : ~Same(r, q)
    BY <1>6, RefusalNone
  <2>4. \A i \in DOMAIN orders : ~Same(r, orders[i])
    BY <2>3 DEF RowsOf
  <2>5. \A c \in Using : ~Same(r, writer[c].row)
    <3>1. ~Clashes(r, UncommittedByOthers)
      BY <2>1, <2>3 DEF Fits
    <3>2. QED
      BY <3>1 DEF Clashes, Same, UncommittedByOthers
  <2>6. ending' # "ProgrammingError"
    BY <2>2
  <2>7. QED
    BY <1>1, <1>2, <2>2, <2>3, <2>4, <2>5, <2>6, ScriptAppends
<1>7. CASE Refusal(r, RowsOf(orders), tenants) # "none"
  <2>1. /\ violations' = Append(violations, Refusal(r, RowsOf(orders), tenants))
        /\ IF Len(violations') = Len(Probes) THEN Proceed ELSE UNCHANGED stage
        /\ UNCHANGED <<database, ddl, tx, ending>>
    BY <1>5, <1>7 DEF Probe
  <2>2. PICK error \in Errors : error = Refusal(r, RowsOf(orders), tenants)
    BY DEF Refusal, Errors
  <2>3. violations' \in Seq(Errors) /\ Len(violations') = Len(v) + 1 /\ Len(v) \in Nat
    BY <1>3, <2>1, <2>2
  <2>4. stage' = "insert-other" \/ (stage' = "probe" /\ Len(violations') # 4)
    BY <1>1, <2>1, AfterFacts, ProbeFacts DEF Proceed
  <2>5. stage' = "probe" => Len(violations') < 4
    BY <1>3, <2>3, <2>4
  <2>6. /\ stage' \in Stages /\ stage' \notin InTransaction \ {"insert-other"}
        /\ stage' \notin BeforeProbes
    BY <2>4 DEF Stages, InTransaction, BeforeProbes
  <2>7. ending' # "ProgrammingError" /\ tx' = Closed /\ ddl' = Closed
    BY <1>2, <2>1 DEF SchemaIInv, VersionMatchesSchema
  <2>8. QED
    BY <1>1, <1>2, <2>1, <2>3, <2>5, <2>6, <2>7, ScriptMoves
<1>8. QED
  BY <1>6, <1>7

-----------------------------------------------------------------------------
(* The invariant.                                                          *)

(* A step that changes nothing.                                            *)
LEMMA StutterStep == ASSUME SchemaIInv, UNCHANGED schemaVars PROVE SchemaIInv'
<1>1. /\ UNCHANGED <<database, writer, stage, tx, ddl, violations, ending>>
      /\ tenants' = tenants /\ orders' = orders /\ writer' = writer /\ tables' = tables /\ version' = version
  BY DEF schemaVars, database, reported
<1>2. SchemaTypeOK'
  BY <1>1 DEF SchemaIInv, SchemaTypeOK
<1>3. VersionMatchesSchema' /\ DomainHolds'
  BY <1>1, DatabaseKept DEF SchemaIInv, VersionMatchesSchema
<1>4. UsingSound' /\ Using' = Using
  BY <1>1, UsingKept
<1>5. MigrationSound'
  BY <1>1, <1>4 DEF SchemaIInv, MigrationSound, Dropping, Migrating, Target
<1>6. TransactionSound'
  BY <1>1, <1>4 DEF SchemaIInv, TransactionSound, Cleared, SetupOrder, OtherOpen, OtherOrder
<1>7. QED
  BY <1>2, <1>3, <1>4, <1>5, <1>6 DEF SchemaIInv

(* Every step of the script and of the consumers keeps the invariant.      *)
LEMMA NextIInv == SchemaIInv /\ [SchemaNext]_schemaVars => SchemaIInv'
<1> SUFFICES ASSUME SchemaIInv, [SchemaNext]_schemaVars PROVE SchemaIInv'
  OBVIOUS
<1>1. CASE StartScript \/ StartProbes
  BY <1>1, StartStep
<1>2. CASE KillScript
  BY <1>2, KillStep
<1>3. CASE BeginMigration
  BY <1>3, BeginMigrationStep
<1>4. CASE RunStatement
  BY <1>4, RunStatementStep
<1>5. CASE CommitMigration
  BY <1>5, CommitMigrationStep
<1>6. CASE Inspect
  BY <1>6, InspectStep
<1>7. CASE DeleteOrders
  BY <1>7, DeleteOrdersStep
<1>8. CASE DeleteTenants
  BY <1>8, DeleteTenantsStep
<1>9. CASE InsertTenants
  BY <1>9, InsertTenantsStep
<1>10. CASE InsertOrder
  BY <1>10, InsertOrderStep
<1>11. CASE Commit
  <2>1. stage \in {"commit-setup", "commit-other"}
    BY <1>11 DEF Commit
  <2>2. QED
    BY <1>11, <2>1, CommitSetupStep, CommitOtherStep
<1>12. CASE Probe
  BY <1>12, ProbeStep
<1>13. CASE InsertOther
  BY <1>13, InsertOtherStep
<1>14. CASE CountSameId
  BY <1>14, CountSameIdStep
<1>15. ASSUME NEW c \in Consumers, LookUp(c) \/ WriterInsert(c) \/ WriterCommit(c) \/ WriterRollback(c)
       PROVE  SchemaIInv'
  BY <1>15, LookUpStep, WriterInsertStep, WriterCommitStep, WriterRollbackStep
<1>16. CASE UNCHANGED schemaVars
  BY <1>16, StutterStep
<1>17. QED
  BY <1>1, <1>2, <1>3, <1>4, <1>5, <1>6, <1>7, <1>8, <1>9, <1>10, <1>11, <1>12, <1>13, <1>14,
     <1>15, <1>16 DEF SchemaNext

(* The invariant holds in every reachable state.                           *)
THEOREM SchemaInvariant == SchemaSpec => []SchemaIInv
BY InitIInv, NextIInv, PTL DEF SchemaSpec

(* Every variable keeps its type.                                          *)
THEOREM SchemaTypes == SchemaSpec => []SchemaTypeOK
<1>1. SchemaIInv => SchemaTypeOK
  BY DEF SchemaIInv
<1>2. QED
  BY <1>1, SchemaInvariant, PTL

(* The version the database claims is the schema it has, wherever a run of *)
(* the script is killed and whatever the consumers have open: no migration *)
(* ever meets a schema it cannot take further.                             *)
THEOREM VersionMatches == SchemaSpec => []VersionMatchesSchema
<1>1. SchemaIInv => VersionMatchesSchema
  BY DEF SchemaIInv
<1>2. QED
  BY <1>1, SchemaInvariant, PTL

(* Every committed order has its tenant and its fields, and no tenant has  *)
(* an external_id twice, for any number of consumers that look before they *)
(* insert, beside any number of runs of the script.                        *)
THEOREM DomainIsKept == SchemaSpec => []DomainHolds
<1>1. SchemaIInv => DomainHolds
  BY DEF SchemaIInv
<1>2. QED
  BY <1>1, SchemaInvariant, PTL

-----------------------------------------------------------------------------
-----------------------------------------------------------------------------
(* A nonempty set of naturals has a least element.                         *)
LEMMA LeastNatural ==
  ASSUME NEW T, T \subseteq Nat, T # {}
  PROVE  \E x \in T : \A y \in T : x <= y
<1> DEFINE R == OpToRel(<, Nat)
<1>1. IsWellFoundedOn(R, Nat)
  BY NatLessThanWellFounded
<1>2. PICK x \in T : \A y \in T : ~(<<y, x>> \in R)
  <2> HIDE DEF R
  <2> QED BY <1>1, WFMin
<1>3. \A y \in T : ~(y < x)
  BY <1>2 DEF OpToRel
<1> QED BY <1>3

-----------------------------------------------------------------------------
(* The race.                                                               *)

ItemStates == {"queued", "running", "done", "dropped"}

(* The outputs of strategy s in the order of its inputs.                   *)
Outputs(s) == [i \in 1 .. Size(s) |-> Output(s, i)]
AllOutputs == {Outputs(s) : s \in 1 .. 6}
Measurement == [result : AllOutputs, delay : Nat]
ReportRecord == [category : {"I/O", "CPU"}, result : AllOutputs, delay : Nat]

(* Every variable has its type; results are known where they are used.     *)
RaceTypeOK ==
  /\ strategy \in 1 .. 6
  /\ main \in {"measure", "yielded", "working", "joining", "closing",
               "ending", "draining", "over"}
  /\ pending \in {"none", "CancelledError", "BrokenProcessPool"}
  /\ heartbeat \in {"created", "sleeping", "ended"}
  /\ stop \in BOOLEAN /\ starved \in Nat
  /\ worst \in Nat \union {NoBeat}
  /\ \A i \in DOMAIN item : item[i] \in ItemStates
  /\ measurements \in Seq(Measurement)
  /\ reports \in Seq(ReportRecord)

Before == {"measure", "yielded", "working", "joining", "closing"}
SpanSeen(delay, s) == delay + Interval >= BlockedSpan(s)

(* The exception on its way, and the strategies whose workload awaits.     *)
RaceControl ==
  /\ pending # "none" => main \notin {"measure", "yielded", "working"}
  /\ main = "joining" => pending # "none"
  /\ main \in {"working", "joining"} => ~Blocks(strategy)
  /\ main \in Before <=> outcome = "none"
  /\ main = "closing" => stop

(* The heartbeat is there while measure() works, and has what it missed.   *)
HeartbeatSound ==
  /\ main = "measure" => heartbeat = "ended"
  /\ main = "yielded" => heartbeat \in {"created", "sleeping"} /\ ~stop
  /\ main = "closing" /\ pending = "none" /\ Blocks(strategy) =>
       \/ heartbeat = "sleeping" /\ starved >= BlockedSpan(strategy)
       \/ heartbeat = "ended" /\ SpanSeen(worst, strategy)
  /\ main \in {"draining", "over"} => heartbeat = "ended"

(* No call is left when a measurement is over.                             *)
CallsSound ==
  /\ main \in {"measure", "yielded"} \/ (main = "closing" /\ pending = "none") =>
       \A i \in DOMAIN item : item[i] = "done"
  /\ main = "over" => Busy = {}
  /\ main = "closing" /\ pending = "none" => result = Outputs(strategy)

(* io_sequential makes one call after another: the answers are those of    *)
(* the first calls, and the next call is the only one under way.           *)
OneByOne ==
  /\ Len(finished) <= Size(strategy)
  /\ \A k \in DOMAIN finished : finished[k].call = k
  /\ \A i \in Calls :
       item[i] = IF i <= Len(finished) THEN "done"
                 ELSE IF i = Len(finished) + 1 THEN "running" ELSE "queued"

(* While a workload runs, every answer got is a call's own, and every call *)
(* that is done has given one.                                             *)
CallAnswers == {Answer(i) : i \in Calls}
AnswersSound ==
  /\ main = "yielded" => finished = <<>>
  /\ main = "working" =>
       /\ DOMAIN item = Calls
       /\ finished \in Seq(CallAnswers)
       /\ \A i \in Calls : item[i] = "done" => \E k \in DOMAIN finished : finished[k].call = i
       /\ Kind = "sequential" => OneByOne

(* What is reported of a strategy is what each of its measurements saw.    *)
MeasurementsSound ==
  /\ \A i \in DOMAIN measurements :
       /\ measurements[i].result = Outputs(strategy)
       /\ SpanSeen(measurements[i].delay, strategy)
  /\ outcome = "report" => Len(reports) = 6
  /\ outcome = "none" => Len(reports) = strategy - 1
  /\ Len(reports) <= 6
  /\ outcome # "AssertionError"
  /\ \A s \in DOMAIN reports :
       /\ reports[s].category = Strategies[s].category
       /\ reports[s].result = Outputs(s)
       /\ SpanSeen(reports[s].delay, s)

RaceIInv ==
  RaceTypeOK /\ RaceControl /\ HeartbeatSound /\ CallsSound /\ AnswersSound /\ MeasurementsSound

-----------------------------------------------------------------------------
(* The strategies, and the times they block.                               *)

LEMMA StrategyTable ==
  ASSUME NEW s \in 1 .. 6
  PROVE  /\ Strategies[s].category \in {"I/O", "CPU"}
         /\ Strategies[s].category = IF s <= 3 THEN "I/O" ELSE "CPU"
         /\ Blocks(s) <=> s \in {3, 4}
         /\ Len(Strategies) = 6
<1>1. s = 1 \/ s = 2 \/ s = 3 \/ s = 4 \/ s = 5 \/ s = 6
  OBVIOUS
<1>2. Len(Strategies) = 6
  BY DEF Strategies
<1>3. QED
  BY <1>1, <1>2 DEF Strategies, Blocks

LEMMA KindTable ==
  ASSUME strategy \in 1 .. 6, ~Blocks(strategy)
  PROVE  Kind \in {"sequential", "concurrent", "threads", "processes"}
<1>1. strategy = 1 \/ strategy = 2 \/ strategy = 3 \/ strategy = 4 \/ strategy = 5 \/ strategy = 6
  OBVIOUS
<1>2. QED
  BY <1>1 DEF Strategies, Blocks, Kind

LEMMA SizeType ==
  ASSUME NEW s PROVE Size(s) \in Nat
<1>1. Len(CpuInputs) \in Nat
  BY RaceAssumption, LenProperties
<1>2. QED
  BY <1>1, RaceAssumption DEF Size

LEMMA SpanType ==
  ASSUME NEW s \in 1 .. 6
  PROVE  /\ BlockedSpan(s) \in Nat
         /\ ~Blocks(s) => BlockedSpan(s) = 0
<1>1. Size(s) \in Nat
  BY SizeType
<1>2. \A x, y \in Nat : x * y \in Nat
  OBVIOUS
<1>3. Size(s) * IoDelay \in Nat /\ Size(s) * CpuCost \in Nat
  BY <1>1, <1>2, RaceAssumption
<1>4. QED
  BY <1>3 DEF BlockedSpan, Blocks

(* Strategies of one category have the same outputs.                       *)
LEMMA SameOutputs ==
  ASSUME NEW s \in 1 .. 6, NEW t \in 1 .. 6,
         Strategies[s].category = Strategies[t].category
  PROVE  Outputs(s) = Outputs(t)
BY DEF Outputs, Size, Output

LEMMA SeenWithoutBlocking ==
  ASSUME NEW s \in 1 .. 6, ~Blocks(s), NEW d \in Nat
  PROVE  SpanSeen(d, s)
BY SpanType, RaceAssumption DEF SpanSeen

LEMMA LargerType ==
  ASSUME NEW a \in Int, NEW b \in Int
  PROVE  Larger(a, b) \in Int /\ Larger(a, b) >= a /\ Larger(a, b) >= b
BY DEF Larger

(* Of some naturals one is the largest.                                    *)
LEMMA LargestExists ==
  ASSUME NEW n \in Nat, n # 0, NEW f \in [1 .. n -> Nat]
  PROVE  \E m \in 1 .. n : \A j \in 1 .. n : f[j] <= f[m]
<1> DEFINE Largest(k) == \E m \in 1 .. k : \A j \in 1 .. k : f[j] <= f[m]
           T == {k \in 1 .. n : ~Largest(k)}
<1>1. SUFFICES ASSUME ~Largest(n) PROVE FALSE
  OBVIOUS
<1>2. PICK k \in T : \A j \in T : k <= j
  <2>1. n \in T /\ T \subseteq Nat
    BY <1>1
  <2> HIDE DEF T
  <2>2. QED
    BY <2>1, LeastNatural
<1>3. k \in 1 .. n /\ ~Largest(k)
  OBVIOUS
<1>4. k # 1
  <2>1. Largest(1)
    OBVIOUS
  <2>2. QED
    BY <1>3, <2>1
<1>5. k - 1 \in 1 .. n /\ Largest(k - 1)
  <2>1. k - 1 \in 1 .. n /\ ~(k <= k - 1)
    BY <1>3, <1>4
  <2>2. k - 1 \notin T
    BY <1>2, <2>1
  <2>3. QED
    BY <2>1, <2>2
<1>6. PICK m \in 1 .. k - 1 : \A j \in 1 .. k - 1 : f[j] <= f[m]
  BY <1>5
<1>7. \A j \in 1 .. k : j = k \/ j \in 1 .. k - 1
  BY <1>3
<1>8. f[k] \in Nat /\ f[m] \in Nat /\ m \in 1 .. k /\ k \in 1 .. k
  BY <1>3, <1>6
<1>9. CASE f[k] <= f[m]
  <2>1. \A j \in 1 .. k : f[j] <= f[m]
    BY <1>6, <1>7, <1>9
  <2>2. QED
    BY <1>3, <1>8, <2>1
<1>10. CASE f[m] <= f[k]
  <2>1. \A j \in 1 .. k - 1 : f[j] \in Nat
    BY <1>3
  <2>2. \A j \in 1 .. k : f[j] <= f[k]
    BY <1>6, <1>7, <1>8, <1>10, <2>1
  <2>3. QED
    BY <1>3, <1>8, <2>2
<1>11. QED
  BY <1>8, <1>9, <1>10

(* The largest of the delays of some measurements is one of them.          *)
LEMMA LargestDelay ==
  ASSUME NEW ms \in Seq(Measurement), ms # <<>>
  PROVE  \E m \in DOMAIN ms :
           (CHOOSE d \in {ms[i].delay : i \in DOMAIN ms} :
              \A e \in {ms[i].delay : i \in DOMAIN ms} : e <= d) = ms[m].delay
<1> DEFINE ds == {ms[i].delay : i \in DOMAIN ms}
           f == [i \in 1 .. Len(ms) |-> ms[i].delay]
<1>1. Len(ms) \in Nat /\ Len(ms) # 0 /\ DOMAIN ms = 1 .. Len(ms)
  BY LenProperties, EmptySeq
<1>2. f \in [1 .. Len(ms) -> Nat]
  <2>1. \A i \in 1 .. Len(ms) : ms[i] \in Measurement
    BY ElementOfSeq
  <2>2. \A i \in 1 .. Len(ms) : ms[i].delay \in Nat
    BY <2>1 DEF Measurement
  <2>3. QED
    BY <2>2
<1>3. PICK m \in 1 .. Len(ms) : \A j \in 1 .. Len(ms) : f[j] <= f[m]
  <2> HIDE DEF f
  <2>1. QED
    BY <1>1, <1>2, LargestExists
<1>4. \E d \in ds : \A e \in ds : e <= d
  BY <1>1, <1>3
<1>5. (CHOOSE d \in ds : \A e \in ds : e <= d) \in ds
  BY <1>4
<1>6. QED
  BY <1>5

-----------------------------------------------------------------------------
(* Every step keeps the invariant.                                         *)

LEMMA RaceInitIInv == RaceInit => RaceIInv
<1> SUFFICES ASSUME RaceInit PROVE RaceIInv
  OBVIOUS
<1>1. RaceTypeOK
  <2>1. <<>> \in Seq(Measurement) /\ <<>> \in Seq(ReportRecord)
    BY EmptySeq
  <2>2. DOMAIN item = {}
    BY DEF RaceInit
  <2>3. \A i \in DOMAIN item : item[i] \in ItemStates
    BY <2>2
  <2>4. measurements \in Seq(Measurement) /\ reports \in Seq(ReportRecord)
    BY <2>1 DEF RaceInit
  <2>5. strategy \in 1 .. 6 /\ starved \in Nat
    BY DEF RaceInit
  <2>6. stop \in BOOLEAN /\ worst \in Nat \union {NoBeat}
    BY DEF RaceInit
  <2>7. QED
    BY <2>3, <2>4, <2>5, <2>6 DEF RaceInit, RaceTypeOK
<1>2. RaceControl /\ HeartbeatSound
  BY DEF RaceInit, RaceControl, HeartbeatSound, Before
<1>3. CallsSound /\ AnswersSound /\ MeasurementsSound
  BY DEF RaceInit, CallsSound, AnswersSound, MeasurementsSound
<1>4. QED
  BY <1>1, <1>2, <1>3 DEF RaceIInv

(* What happens to the calls and the heartbeat leaves the reports alone.   *)
LEMMA ReportsKept ==
  ASSUME MeasurementsSound, UNCHANGED <<strategy, measurements, reports>>,
         outcome' = outcome \/ (outcome = "none" /\ outcome' \in {"TimeoutError", "BrokenProcessPool"})
  PROVE  MeasurementsSound'
BY DEF MeasurementsSound

(* Answers are looked at only while a workload runs.                       *)
LEMMA CallAnswersKept ==
  ASSUME AnswersSound,
         main' \notin {"yielded", "working"} \/ UNCHANGED <<main, strategy, item, finished>>
  PROVE  AnswersSound'
<1>1. CASE main' \notin {"yielded", "working"}
  BY <1>1 DEF AnswersSound
<1>2. CASE UNCHANGED <<main, strategy, item, finished>>
  BY <1>2 DEF AnswersSound, OneByOne, CallAnswers, Answer, Calls, Kind
<1>3. QED
  BY <1>1, <1>2

LEMMA CreateHeartbeatStep ==
  ASSUME RaceIInv, CreateHeartbeat PROVE RaceIInv'
<1>1. RaceTypeOK'
  <2>1. DOMAIN item' = {}
    BY DEF CreateHeartbeat
  <2>2. \A i \in DOMAIN item' : item'[i] \in ItemStates
    BY <2>1
  <2>3. starved' \in Nat /\ stop' \in BOOLEAN /\ worst' \in Nat \union {NoBeat}
    BY DEF CreateHeartbeat
  <2>4. QED
    BY <2>2, <2>3 DEF RaceIInv, RaceTypeOK, CreateHeartbeat, progressVars
<1>2. RaceControl' /\ HeartbeatSound'
  BY DEF RaceIInv, RaceControl, HeartbeatSound, CreateHeartbeat, Before, progressVars
<1>3. CallsSound' /\ AnswersSound'
  BY DEF CreateHeartbeat, CallsSound, AnswersSound
<1>4. MeasurementsSound'
  BY ReportsKept DEF RaceIInv, CreateHeartbeat, progressVars
<1>5. QED
  BY <1>1, <1>2, <1>3, <1>4 DEF RaceIInv

LEMMA StartHeartbeatStep ==
  ASSUME RaceIInv, StartHeartbeat PROVE RaceIInv'
<1>1. RaceTypeOK'
  BY DEF RaceIInv, RaceTypeOK, StartHeartbeat, progressVars, workloadVars
<1>2. RaceControl' /\ HeartbeatSound'
  BY DEF RaceIInv, RaceControl, HeartbeatSound, StartHeartbeat, Before, progressVars
<1>3. CallsSound'
  BY DEF RaceIInv, StartHeartbeat, CallsSound, Busy, progressVars, workloadVars
<1>6. AnswersSound'
  BY CallAnswersKept DEF RaceIInv, StartHeartbeat, progressVars, workloadVars
<1>4. MeasurementsSound'
  BY ReportsKept DEF RaceIInv, StartHeartbeat, progressVars
<1>5. QED
  BY <1>1, <1>2, <1>3, <1>4, <1>6 DEF RaceIInv

(* The beat that ends a blocked measurement has counted all of it.         *)
LEMMA BeatStep ==
  ASSUME RaceIInv, Beat PROVE RaceIInv'
<1>1. PICK lag \in 0 .. MaxLag :
        worst' = Larger(worst, Larger(Interval, starved) + lag - Interval)
  BY DEF Beat
<1>2. /\ strategy \in 1 .. 6 /\ Interval \in Nat /\ starved \in Nat /\ lag \in Nat
      /\ worst \in Int /\ BlockedSpan(strategy) \in Nat
  BY SpanType, RaceAssumption DEF RaceIInv, RaceTypeOK, NoBeat
<1>3. worst' \in Nat /\ worst' + Interval >= starved
  <2> DEFINE late == Larger(Interval, starved)
  <2>1. Interval \in Int /\ starved \in Int
    BY <1>2
  <2>2. late \in Int /\ late >= Interval /\ late >= starved
    BY <2>1, LargerType
  <2>3. worst' = Larger(worst, late + lag - Interval)
    BY <1>1
  <2> HIDE DEF late
  <2>4. late + lag - Interval \in Int
    BY <1>2, <2>2
  <2>5. worst' \in Int /\ worst' >= late + lag - Interval
    BY <1>2, <2>3, <2>4, LargerType
  <2>6. late + lag - Interval >= 0 /\ late + lag - Interval >= starved - Interval
    BY <1>2, <2>2
  <2>7. lag \in Int /\ starved - Interval \in Int
    BY <1>2
  <2>8. worst' >= 0 /\ worst' >= starved - Interval
    BY <2>2, <2>4, <2>5, <2>6, <2>7
  <2>9. \A x, y, z \in Int : x >= 0 /\ x >= y - z => x \in Nat /\ x + z >= y
    OBVIOUS
  <2>10. QED
    BY <2>1, <2>5, <2>8, <2>9
<1>4. RaceTypeOK'
  BY <1>3 DEF RaceIInv, RaceTypeOK, Beat, progressVars, workloadVars
<1>5. RaceControl'
  BY DEF RaceIInv, RaceControl, Beat, Before, progressVars
<1>6. HeartbeatSound'
  <2>1. main = "closing" /\ pending = "none" /\ Blocks(strategy) => SpanSeen(worst', strategy)
    BY <1>2, <1>3 DEF RaceIInv, HeartbeatSound, Beat, SpanSeen
  <2>2. main' = main /\ pending' = pending /\ strategy' = strategy /\ stop' = stop
    BY DEF Beat, progressVars
  <2>3. main = "closing" /\ pending = "none" /\ Blocks(strategy) =>
          heartbeat' = "ended" \/ (heartbeat' = "sleeping" /\ ~stop)
    BY DEF Beat
  <2>4. main = "closing" => stop
    BY DEF RaceIInv, RaceControl
  <2>5. QED
    BY <2>1, <2>2, <2>3, <2>4 DEF RaceIInv, HeartbeatSound, Beat, SpanSeen
<1>7. CallsSound'
  BY DEF RaceIInv, Beat, CallsSound, Busy, progressVars, workloadVars
<1>10. AnswersSound'
  BY CallAnswersKept DEF RaceIInv, Beat, progressVars, workloadVars
<1>8. MeasurementsSound'
  BY ReportsKept DEF RaceIInv, Beat, progressVars
<1>9. QED
  BY <1>4, <1>5, <1>6, <1>7, <1>8, <1>10 DEF RaceIInv

(* The first calls of io_sequential: one is under way.                     *)
LEMMA StartWorkloadStep ==
  ASSUME RaceIInv, StartWorkload PROVE RaceIInv'
<1>1. RaceTypeOK'
  <2>1. \A i \in DOMAIN item' : item'[i] \in ItemStates
    BY DEF StartWorkload, ItemStates
  <2>2. QED
    BY <2>1 DEF RaceIInv, RaceTypeOK, StartWorkload, MayStart, heartbeatVars, progressVars
<1>2. RaceControl' /\ HeartbeatSound'
  BY DEF RaceIInv, RaceControl, HeartbeatSound, StartWorkload, MayStart, Before, Blocks,
         heartbeatVars, progressVars
<1>3. CallsSound'
  BY DEF StartWorkload, CallsSound
<1>4. AnswersSound'
  <2>1. /\ finished' = <<>> /\ strategy' = strategy /\ main' = "working"
        /\ item' = [i \in Calls |-> IF i <= Slots THEN "running" ELSE "queued"]
    BY DEF RaceIInv, AnswersSound, StartWorkload, MayStart, progressVars
  <2>2. Calls' = Calls /\ Kind' = Kind /\ CallAnswers' = CallAnswers /\ Size(strategy)' = Size(strategy)
    BY <2>1 DEF Calls, Kind, CallAnswers, Answer
  <2>3. <<>> \in Seq(CallAnswers) /\ Len(<<>>) = 0 /\ DOMAIN <<>> = {}
    BY EmptySeq
  <2>4. \A i \in Calls : item'[i] # "done"
    BY <2>1
  <2>5. Kind = "sequential" => OneByOne'
    <3> SUFFICES ASSUME Kind = "sequential" PROVE OneByOne'
      OBVIOUS
    <3>1. Slots = 1
      BY DEF Slots
    <3>2. Size(strategy) \in Nat /\ Calls = 1 .. Size(strategy)
      BY SizeType DEF Calls
    <3>3. \A i \in Calls : item'[i] = IF i <= 0 THEN "done"
                                      ELSE IF i = 0 + 1 THEN "running" ELSE "queued"
      BY <2>1, <3>1, <3>2
    <3>4. QED
      BY <2>1, <2>2, <2>3, <3>2, <3>3 DEF OneByOne
  <2>6. QED
    BY <2>1, <2>2, <2>3, <2>4, <2>5 DEF AnswersSound
<1>5. MeasurementsSound'
  BY ReportsKept DEF RaceIInv, StartWorkload, progressVars
<1>6. QED
  BY <1>1, <1>2, <1>3, <1>4, <1>5 DEF RaceIInv

(* The heartbeat sleeps when a workload that blocks it begins.             *)
LEMMA RunBlockingStep ==
  ASSUME RaceIInv, RunBlocking PROVE RaceIInv'
<1>1. strategy \in 1 .. 6 /\ BlockedSpan(strategy) \in Nat /\ starved \in Nat
      /\ main = "yielded" /\ pending = "none" /\ heartbeat = "sleeping"
  BY SpanType DEF RaceIInv, RaceTypeOK, RaceControl, HeartbeatSound, RunBlocking, MayStart
<1>2. starved' = starved + BlockedSpan(strategy)
  BY <1>1 DEF RunBlocking
<1>3. starved' \in Nat /\ starved' >= BlockedSpan(strategy)
  BY <1>1, <1>2
<1>4. RaceTypeOK'
  BY <1>3 DEF RaceIInv, RaceTypeOK, RunBlocking, progressVars
<1>5. RaceControl'
  BY <1>1 DEF RaceIInv, RaceControl, RunBlocking, Before, progressVars
<1>6. HeartbeatSound'
  <2>1. strategy' = strategy /\ heartbeat' = "sleeping" /\ main' = "closing"
    BY <1>1 DEF RunBlocking, progressVars
  <2>2. QED
    BY <1>3, <2>1 DEF HeartbeatSound
<1>7. CallsSound'
  <2> DEFINE made == [i \in Calls |-> Answer(i)]
  <2>1. finished' = made /\ result' = Results(made)
    BY DEF RunBlocking
  <2>2. Kind \notin {"concurrent", "threads", "processes"}
    BY DEF RunBlocking, Blocks, Kind
  <2>3. DOMAIN made = Calls /\ \A i \in Calls : made[i].value = Output(strategy, i)
    BY DEF Answer
  <2> HIDE DEF made
  <2>4. Results(made) = [i \in Calls |-> Output(strategy, i)]
    BY <2>2, <2>3 DEF Results, Appended
  <2>5. result' = Outputs(strategy)
    BY <2>1, <2>4 DEF Outputs, Calls
  <2>6. main' = "closing" /\ item' = item /\ Outputs(strategy)' = Outputs(strategy)
    BY DEF RunBlocking, progressVars, Outputs
  <2>7. \A i \in DOMAIN item : item[i] = "done"
    BY <1>1 DEF RaceIInv, CallsSound
  <2>8. QED
    BY <2>5, <2>6, <2>7 DEF CallsSound
<1>8. AnswersSound'
  BY CallAnswersKept DEF RaceIInv, RunBlocking
<1>9. MeasurementsSound'
  BY ReportsKept DEF RaceIInv, RunBlocking, progressVars
<1>10. QED
  BY <1>4, <1>5, <1>6, <1>7, <1>8, <1>9 DEF RaceIInv

(* When all calls are done, what the workload returns is in the order of   *)
(* the inputs: gather finds each call's own answer, in whatever order they *)
(* came; and appending them as they came is right where they came one by   *)
(* one.                                                                    *)
LEMMA CollectedInOrder ==
  ASSUME AnswersSound, strategy \in 1 .. 6, ~Blocks(strategy), main = "working",
         \A i \in DOMAIN item : item[i] = "done"
  PROVE  Results(finished) = Outputs(strategy)
<1>1. /\ DOMAIN item = Calls /\ finished \in Seq(CallAnswers)
      /\ \A i \in Calls : \E k \in DOMAIN finished : finished[k].call = i
  BY DEF AnswersSound
<1>2. ASSUME NEW k \in DOMAIN finished
      PROVE  finished[k].call \in Calls /\ finished[k].value = Output(strategy, finished[k].call)
  <2>1. finished[k] \in CallAnswers
    BY <1>1
  <2>2. QED
    BY <2>1 DEF CallAnswers, Answer
<1>3. CASE Kind \in {"concurrent", "threads", "processes"}
  <2>1. ASSUME NEW i \in Calls
        PROVE  finished[CHOOSE k \in DOMAIN finished : finished[k].call = i].value
                 = Output(strategy, i)
    <3> DEFINE own == CHOOSE k \in DOMAIN finished : finished[k].call = i
    <3>1. own \in DOMAIN finished /\ finished[own].call = i
      BY <1>1, <2>1
    <3> HIDE DEF own
    <3>2. finished[own].value = Output(strategy, i)
      BY <1>2, <3>1
    <3>3. QED
      BY <3>2 DEF own
  <2>2. Gathered(finished) = [i \in Calls |-> Output(strategy, i)]
    BY <2>1 DEF Gathered
  <2>3. QED
    BY <1>3, <2>2 DEF Results, Outputs, Calls
<1>4. CASE Kind = "sequential"
  <2>1. OneByOne
    BY <1>4 DEF AnswersSound
  <2>2. Size(strategy) \in Nat /\ Len(finished) \in Nat /\ DOMAIN finished = 1 .. Len(finished)
    BY <1>1, SizeType, LenProperties
  <2>3. Len(finished) = Size(strategy)
    <3> SUFFICES ASSUME Len(finished) + 1 <= Size(strategy) PROVE FALSE
      BY <2>1, <2>2 DEF OneByOne
    <3>1. Len(finished) + 1 \in Calls /\ ~(Len(finished) + 1 <= Len(finished))
      BY <2>2 DEF Calls
    <3>2. item[Len(finished) + 1] = "running"
      BY <2>1, <3>1 DEF OneByOne
    <3>3. item[Len(finished) + 1] = "done"
      BY <1>1, <3>1
    <3>4. QED
      BY <3>2, <3>3
  <2>4. \A k \in DOMAIN finished : finished[k].value = Output(strategy, k)
    BY <1>2, <2>1 DEF OneByOne
  <2>5. Appended(finished) = [k \in Calls |-> Output(strategy, k)]
    BY <2>2, <2>3, <2>4 DEF Appended, Calls
  <2>6. QED
    BY <1>4, <2>5 DEF Results, Outputs, Calls
<1>5. QED
  BY <1>3, <1>4, KindTable

LEMMA FinishWorkloadStep ==
  ASSUME RaceIInv, FinishWorkload PROVE RaceIInv'
<1>1. RaceTypeOK'
  BY DEF RaceIInv, RaceTypeOK, FinishWorkload, heartbeatVars, progressVars
<1>2. RaceControl'
  BY DEF RaceIInv, RaceControl, FinishWorkload, Before, heartbeatVars, progressVars
<1>3. ~Blocks(strategy) /\ strategy' = strategy /\ strategy \in 1 .. 6
  BY DEF RaceIInv, RaceTypeOK, RaceControl, FinishWorkload, progressVars
<1>4. HeartbeatSound'
  BY <1>3 DEF HeartbeatSound, FinishWorkload
<1>5. CallsSound'
  <2>1. /\ main = "working" /\ main' = "closing" /\ item' = item
        /\ result' = Results(finished) /\ \A i \in DOMAIN item : item[i] = "done"
    BY DEF FinishWorkload
  <2>2. result' = Outputs(strategy) /\ Outputs(strategy)' = Outputs(strategy)
    BY <1>3, <2>1, CollectedInOrder DEF RaceIInv, Outputs
  <2>3. QED
    BY <2>1, <2>2 DEF CallsSound
<1>6. AnswersSound'
  BY CallAnswersKept DEF RaceIInv, FinishWorkload
<1>7. MeasurementsSound'
  BY ReportsKept DEF RaceIInv, FinishWorkload, progressVars
<1>8. QED
  BY <1>1, <1>2, <1>4, <1>5, <1>6, <1>7 DEF RaceIInv

(* One more answer.                                                        *)
LEMMA AnswersGrow ==
  ASSUME NEW S, NEW old \in Seq(S), NEW a \in S
  PROVE  /\ Append(old, a) \in Seq(S) /\ Len(Append(old, a)) = Len(old) + 1
         /\ Len(old) \in Nat /\ DOMAIN old = 1 .. Len(old)
         /\ DOMAIN Append(old, a) = 1 .. Len(old) + 1
         /\ \A k \in 1 .. Len(old) : Append(old, a)[k] = old[k]
         /\ Append(old, a)[Len(old) + 1] = a
BY AppendProperties, LenProperties

(* io_sequential has n answers and the next call is the only one under     *)
(* way; and what becomes of the calls when that one finishes.              *)
AloneAfter(n, size, calls) ==
  \A i \in 1 .. size : calls[i] = IF i <= n THEN "done"
                                 ELSE IF i = n + 1 THEN "running" ELSE "queued"
Promoted(n, size, before) ==
  [k \in 1 .. size |->
     IF k = n + 1 THEN "done"
     ELSE IF before[k] = "queued"
             /\ \A q \in {i \in 1 .. size : before[i] = "queued"} : k <= q
          THEN "running" ELSE before[k]]

(* io_sequential's call finishes, and the next one is made.                *)
LEMMA NextCallAlone ==
  ASSUME NEW n \in Nat, NEW size \in Nat, NEW before, n < size, AloneAfter(n, size, before)
  PROVE  AloneAfter(n + 1, size, Promoted(n, size, before))
<1> DEFINE after == Promoted(n, size, before)
<1>0. \A i \in 1 .. size : before[i] = IF i <= n THEN "done"
                                       ELSE IF i = n + 1 THEN "running" ELSE "queued"
  BY DEF AloneAfter
<1>1. {i \in 1 .. size : before[i] = "queued"} = n + 2 .. size
  BY <1>0
<1>2. SUFFICES ASSUME NEW i \in 1 .. size
               PROVE  after[i] = IF i <= n + 1 THEN "done"
                                 ELSE IF i = n + 1 + 1 THEN "running" ELSE "queued"
  BY DEF AloneAfter
<1>3. CASE i <= n
  BY <1>0, <1>3 DEF Promoted
<1>4. CASE i = n + 1
  BY <1>4 DEF Promoted
<1>5. CASE i = n + 2
  <2>1. \A q \in n + 2 .. size : i <= q
    BY <1>5
  <2>2. QED
    BY <1>0, <1>1, <1>5, <2>1 DEF Promoted
<1>6. CASE i > n + 2
  <2>1. n + 2 \in n + 2 .. size /\ ~(i <= n + 2)
    BY <1>6
  <2>2. QED
    BY <1>0, <1>1, <1>6, <2>1 DEF Promoted
<1>7. QED
  BY <1>3, <1>4, <1>5, <1>6

(* A call that finishes adds its own answer.                               *)
LEMMA FinishCallAnswers ==
  ASSUME RaceIInv, NEW i \in DOMAIN item, FinishCall(i) PROVE AnswersSound'
<1>1. /\ main' = main /\ strategy' = strategy /\ item[i] = "running"
      /\ finished' = Append(finished, Answer(i))
      /\ item' = [k \in DOMAIN item |->
                    IF k = i THEN "done"
                    ELSE IF item[k] = "queued" /\ \A q \in Queued : k <= q THEN "running"
                    ELSE item[k]]
  BY DEF FinishCall, progressVars
<1>2. Calls' = Calls /\ Kind' = Kind /\ CallAnswers' = CallAnswers /\ Size(strategy)' = Size(strategy)
  BY <1>1 DEF Calls, Kind, CallAnswers, Answer
<1>3. main # "yielded"
  BY <1>1 DEF RaceIInv, CallsSound
<1>4. CASE main = "working"
  <2>1. /\ DOMAIN item = Calls /\ finished \in Seq(CallAnswers) /\ i \in Calls
        /\ \A k \in Calls : item[k] = "done" => \E j \in DOMAIN finished : finished[j].call = k
    BY <1>4 DEF RaceIInv, AnswersSound
  <2>2. Answer(i) \in CallAnswers /\ Answer(i).call = i
    BY <2>1 DEF CallAnswers, Answer
  <2> DEFINE n == Len(finished)
  <2>3. /\ finished' \in Seq(CallAnswers) /\ Len(finished') = n + 1 /\ n \in Nat
        /\ DOMAIN finished = 1 .. n /\ DOMAIN finished' = 1 .. n + 1
        /\ \A k \in 1 .. n : finished'[k] = finished[k]
        /\ finished'[n + 1] = Answer(i)
    BY <1>1, <2>1, <2>2, AnswersGrow
  <2> HIDE DEF n
  <2>4. ASSUME NEW k \in Calls, item'[k] = "done"
        PROVE  \E j \in DOMAIN finished' : finished'[j].call = k
    <3>1. CASE k = i
      <4>1. n + 1 \in DOMAIN finished'
        BY <2>3
      <4>2. QED
        BY <2>2, <2>3, <3>1, <4>1
    <3>2. CASE k # i
      <4>1. item[k] = "done"
        BY <1>1, <2>1, <2>4, <3>2
      <4>2. PICK j \in DOMAIN finished : finished[j].call = k
        BY <2>1, <4>1
      <4>3. j \in DOMAIN finished' /\ finished'[j] = finished[j]
        BY <2>3
      <4>4. QED
        BY <4>2, <4>3
    <3>3. QED
      BY <3>1, <3>2
  <2>5. Kind = "sequential" => OneByOne'
    <3> SUFFICES ASSUME Kind = "sequential" PROVE OneByOne'
      OBVIOUS
    <3>1. OneByOne /\ Size(strategy) \in Nat /\ Calls = 1 .. Size(strategy)
      BY <1>4, SizeType DEF RaceIInv, AnswersSound, Calls
    <3>2. AloneAfter(n, Size(strategy), item)
      BY <3>1 DEF OneByOne, AloneAfter, n
    <3>3. i = n + 1 /\ n < Size(strategy)
      <4>1. item[i] = IF i <= n THEN "done" ELSE IF i = n + 1 THEN "running" ELSE "queued"
        BY <2>1, <3>1, <3>2 DEF AloneAfter
      <4>2. i = n + 1
        BY <1>1, <4>1
      <4>3. QED
        BY <2>1, <2>3, <3>1, <4>2
    <3>4. item' = Promoted(n, Size(strategy), item)
      BY <1>1, <2>1, <3>1, <3>3 DEF Queued, Promoted
    <3>5. PICK size \in Nat : size = Size(strategy)
      BY <3>1
    <3>6. PICK before : before = item
      OBVIOUS
    <3>7. AloneAfter(n + 1, size, Promoted(n, size, before))
      BY <2>3, <3>2, <3>3, <3>5, <3>6, NextCallAlone
    <3>8. AloneAfter(n + 1, Size(strategy), item')
      BY <3>4, <3>5, <3>6, <3>7
    <3>9. \A k \in DOMAIN finished' : finished'[k].call = k
      <4>1. \A k \in 1 .. n : finished[k].call = k
        BY <2>3, <3>1 DEF OneByOne
      <4>2. finished'[n + 1].call = n + 1
        BY <2>2, <2>3, <3>3
      <4>3. \A k \in 1 .. n + 1 : k \in 1 .. n \/ k = n + 1
        BY <2>3
      <4>4. QED
        BY <2>3, <4>1, <4>2, <4>3
    <3>10. n + 1 <= Size(strategy)
      BY <2>3, <3>1, <3>3
    <3>11. QED
      BY <1>2, <2>3, <3>1, <3>8, <3>9, <3>10 DEF OneByOne, AloneAfter
  <2>6. DOMAIN item' = Calls
    BY <1>1, <2>1
  <2>7. QED
    BY <1>1, <1>2, <1>3, <2>3, <2>4, <2>5, <2>6 DEF AnswersSound
<1>5. CASE main # "working"
  BY <1>1, <1>3, <1>5, CallAnswersKept DEF RaceIInv
<1>6. QED
  BY <1>4, <1>5

LEMMA FinishCallStep ==
  ASSUME RaceIInv, NEW i \in DOMAIN item, FinishCall(i) PROVE RaceIInv'
<1>1. RaceTypeOK'
  <2>1. \A k \in DOMAIN item' : item'[k] \in ItemStates
    BY DEF RaceIInv, RaceTypeOK, FinishCall, ItemStates
  <2>2. QED
    BY <2>1 DEF RaceIInv, RaceTypeOK, FinishCall, heartbeatVars, progressVars
<1>2. RaceControl' /\ HeartbeatSound'
  BY DEF RaceIInv, RaceControl, HeartbeatSound, FinishCall, Before, heartbeatVars, progressVars
<1>3. CallsSound'
  <2>1. ~(main \in {"measure", "yielded"} \/ (main = "closing" /\ pending = "none"))
    BY DEF RaceIInv, CallsSound, FinishCall
  <2>2. main # "over"
    BY DEF RaceIInv, CallsSound, FinishCall, Busy
  <2>3. QED
    BY <2>1, <2>2 DEF CallsSound, FinishCall, progressVars
<1>4. AnswersSound'
  BY FinishCallAnswers
<1>5. MeasurementsSound'
  BY ReportsKept DEF RaceIInv, FinishCall, progressVars
<1>6. QED
  BY <1>1, <1>2, <1>3, <1>4, <1>5 DEF RaceIInv

LEMMA TimeOutStep ==
  ASSUME RaceIInv, TimeOut PROVE RaceIInv'
<1>1. \A i \in DOMAIN item' : item'[i] \in ItemStates
  BY DEF RaceIInv, RaceTypeOK, TimeOut, Dropped, ItemStates
<1>2. RaceTypeOK'
  BY <1>1 DEF RaceIInv, RaceTypeOK, TimeOut
<1>3. RaceControl'
  BY DEF RaceIInv, RaceControl, TimeOut, Before, Blocks
<1>4. HeartbeatSound'
  BY DEF RaceIInv, RaceControl, HeartbeatSound, TimeOut, Before
<1>5. CallsSound'
  BY DEF RaceIInv, RaceControl, CallsSound, TimeOut, Before
<1>6. AnswersSound'
  BY CallAnswersKept DEF RaceIInv, TimeOut
<1>7. MeasurementsSound'
  BY ReportsKept DEF RaceIInv, TimeOut
<1>8. QED
  BY <1>2, <1>3, <1>4, <1>5, <1>6, <1>7 DEF RaceIInv

LEMMA WorkerDiesStep ==
  ASSUME RaceIInv, WorkerDies PROVE RaceIInv'
<1>1. \A i \in DOMAIN item' : item'[i] \in ItemStates
  BY DEF RaceIInv, RaceTypeOK, WorkerDies, Dropped, ItemStates
<1>2. RaceTypeOK'
  BY <1>1 DEF RaceIInv, RaceTypeOK, WorkerDies, heartbeatVars, progressVars
<1>3. RaceControl' /\ HeartbeatSound'
  BY DEF RaceIInv, RaceControl, HeartbeatSound, WorkerDies, Before, Blocks, heartbeatVars, progressVars
<1>4. CallsSound'
  BY DEF RaceIInv, CallsSound, WorkerDies
<1>5. AnswersSound'
  BY CallAnswersKept DEF RaceIInv, WorkerDies
<1>6. MeasurementsSound'
  BY ReportsKept DEF RaceIInv, WorkerDies, progressVars
<1>7. QED
  BY <1>2, <1>3, <1>4, <1>5, <1>6 DEF RaceIInv

LEMMA JoinPoolStep ==
  ASSUME RaceIInv, JoinPool PROVE RaceIInv'
<1>1. RaceTypeOK'
  BY DEF RaceIInv, RaceTypeOK, JoinPool, StopAlways, workloadVars, heartbeatVars, progressVars
<1>2. RaceControl' /\ HeartbeatSound'
  BY DEF RaceIInv, RaceControl, HeartbeatSound, JoinPool, StopAlways, Before, heartbeatVars, progressVars
<1>3. CallsSound'
  BY DEF RaceIInv, RaceControl, CallsSound, JoinPool
<1>4. AnswersSound'
  BY CallAnswersKept DEF RaceIInv, JoinPool
<1>5. MeasurementsSound'
  BY ReportsKept DEF RaceIInv, JoinPool, progressVars
<1>6. QED
  BY <1>1, <1>2, <1>3, <1>4, <1>5 DEF RaceIInv

LEMMA EndingStep ==
  ASSUME RaceIInv, CancelRemaining \/ EndRace \/ UNCHANGED raceVars PROVE RaceIInv'
<1>1. RaceTypeOK'
  BY DEF RaceIInv, RaceTypeOK, CancelRemaining, EndRace, raceVars, workloadVars, heartbeatVars, progressVars
<1>2. RaceControl' /\ HeartbeatSound'
  BY DEF RaceIInv, RaceControl, HeartbeatSound, CancelRemaining, EndRace, Before, Blocks,
         raceVars, heartbeatVars, progressVars
<1>3. CallsSound'
  BY DEF RaceIInv, CallsSound, CancelRemaining, EndRace, Busy, raceVars, workloadVars, progressVars
<1>4. AnswersSound'
  BY CallAnswersKept DEF RaceIInv, CancelRemaining, EndRace, raceVars, workloadVars, progressVars
<1>5. MeasurementsSound'
  BY ReportsKept DEF RaceIInv, CancelRemaining, EndRace, raceVars, progressVars
<1>6. QED
  BY <1>1, <1>2, <1>3, <1>4, <1>5 DEF RaceIInv

(* Results are equal where they are compared.                              *)
LEMMA ComparisonsAgree ==
  ASSUME NEW rs, Len(rs) <= 6, DOMAIN rs = 1 .. Len(rs), Len(rs) \in Nat,
         \A s \in DOMAIN rs : rs[s].category = Strategies[s].category /\ rs[s].result = Outputs(s),
         NEW category
  PROVE  SameResults(rs, category)
<1> SUFFICES ASSUME NEW i \in DOMAIN rs, NEW j \in DOMAIN rs,
                    rs[i].category = category, rs[j].category = category
             PROVE  rs[i].result = rs[j].result
  BY DEF SameResults
<1>1. i \in 1 .. 6 /\ j \in 1 .. 6
  OBVIOUS
<1>2. Strategies[i].category = Strategies[j].category
  OBVIOUS
<1>3. Outputs(i) = Outputs(j)
  BY <1>1, <1>2, SameOutputs
<1>4. QED
  BY <1>3

(* What a strategy's measurements saw is what is reported of it.           *)
LEMMA ReportSound ==
  ASSUME strategy \in 1 .. 6, NEW ms \in Seq(Measurement), ms # <<>>,
         \A i \in DOMAIN ms : ms[i].result = Outputs(strategy) /\ SpanSeen(ms[i].delay, strategy)
  PROVE  /\ Report(ms) \in ReportRecord
         /\ Report(ms).category = Strategies[strategy].category
         /\ Report(ms).result = Outputs(strategy)
         /\ SpanSeen(Report(ms).delay, strategy)
<1> DEFINE big == CHOOSE d \in {ms[i].delay : i \in DOMAIN ms} :
                    \A e \in {ms[i].delay : i \in DOMAIN ms} : e <= d
<1>1. PICK m \in DOMAIN ms : big = ms[m].delay
  BY LargestDelay
<1>2. Report(ms) = [category |-> Strategies[strategy].category, result |-> ms[1].result, delay |-> big]
  BY DEF Report
<1> HIDE DEF big
<1>3. 1 \in DOMAIN ms /\ DOMAIN ms = 1 .. Len(ms)
  BY LenProperties, EmptySeq
<1>4. ms[m].delay \in Nat /\ SpanSeen(ms[m].delay, strategy)
  <2>1. ms[m] \in Measurement
    BY <1>3, ElementOfSeq
  <2>2. QED
    BY <2>1 DEF Measurement
<1>5. Strategies[strategy].category \in {"I/O", "CPU"}
  BY StrategyTable
<1>6. Outputs(strategy) \in AllOutputs
  BY DEF AllOutputs
<1>7. QED
  BY <1>1, <1>2, <1>3, <1>4, <1>5, <1>6 DEF ReportRecord

LEMMA CloseMeasurementStep ==
  ASSUME RaceIInv, CloseMeasurement PROVE RaceIInv'
<1>1. /\ main = "closing" /\ heartbeat = "ended" /\ outcome = "none"
      /\ strategy \in 1 .. 6 /\ worst \in Nat \union {NoBeat}
      /\ measurements \in Seq(Measurement) /\ reports \in Seq(ReportRecord)
  BY DEF CloseMeasurement, MayClose, RaceIInv, RaceTypeOK, RaceControl, Before
<1>2. UNCHANGED <<pending, stop, item, finished, result, heartbeat, starved, worst>>
  BY DEF CloseMeasurement, workloadVars, heartbeatVars
<1>3. CASE pending # "none"
  <2>1. /\ outcome' \in {"TimeoutError", "BrokenProcessPool"} /\ main' = "ending"
        /\ UNCHANGED <<strategy, measurements, reports>>
    BY <1>3 DEF CloseMeasurement, RaceIInv, RaceTypeOK
  <2>2. RaceTypeOK' /\ RaceControl' /\ HeartbeatSound' /\ CallsSound'
    BY <1>1, <1>2, <1>3, <2>1
    DEF RaceIInv, RaceTypeOK, RaceControl, HeartbeatSound, CallsSound, Before
  <2>3. AnswersSound'
    BY <2>1, CallAnswersKept DEF RaceIInv
  <2>4. MeasurementsSound'
    BY <1>1, <2>1, ReportsKept DEF RaceIInv
  <2>5. QED
    BY <2>2, <2>3, <2>4 DEF RaceIInv
<1>4. CASE pending = "none"
  <2> DEFINE r == [result |-> result, delay |-> Larger(worst, 0)]
             ms == Append(measurements, r)
             rs == Append(reports, Report(ms))
  <2>1. result = Outputs(strategy) /\ \A i \in DOMAIN item : item[i] = "done"
    BY <1>1, <1>4 DEF RaceIInv, CallsSound
  <2>2. Larger(worst, 0) \in Nat /\ SpanSeen(Larger(worst, 0), strategy)
    <3>1. Larger(worst, 0) \in Nat /\ (worst = NoBeat \/ Larger(worst, 0) = worst)
      BY <1>1 DEF Larger, NoBeat
    <3>2. CASE ~Blocks(strategy)
      BY <1>1, <3>1, <3>2, SeenWithoutBlocking
    <3>3. CASE Blocks(strategy)
      <4>1. SpanSeen(worst, strategy)
        BY <1>1, <1>4, <3>3 DEF RaceIInv, HeartbeatSound
      <4>2. worst \in Int /\ Larger(worst, 0) >= worst /\ Larger(worst, 0) \in Int
        BY <1>1 DEF Larger, NoBeat
      <4>3. BlockedSpan(strategy) \in Nat /\ Interval \in Nat
        BY <1>1, SpanType, RaceAssumption
      <4>4. QED
        BY <3>1, <4>1, <4>2, <4>3 DEF SpanSeen
    <3>4. QED
      BY <3>2, <3>3
  <2>3. r \in Measurement /\ r.result = Outputs(strategy) /\ SpanSeen(r.delay, strategy)
    BY <1>1, <2>1, <2>2 DEF Measurement, AllOutputs
  <2> HIDE DEF r
  <2>4. ms \in Seq(Measurement) /\ ms # <<>> /\ Len(ms) = Len(measurements) + 1
        /\ DOMAIN ms = 1 .. Len(ms) /\ Len(ms) \in Nat
        /\ \A i \in DOMAIN ms : (i \in DOMAIN measurements /\ ms[i] = measurements[i]) \/ ms[i] = r
    BY <1>1, <2>3, AppendProperties, LenProperties
  <2>5. \A i \in DOMAIN ms : ms[i].result = Outputs(strategy) /\ SpanSeen(ms[i].delay, strategy)
    <3>1. \A i \in DOMAIN measurements :
            measurements[i].result = Outputs(strategy) /\ SpanSeen(measurements[i].delay, strategy)
      BY DEF RaceIInv, MeasurementsSound
    <3> HIDE DEF ms
    <3>2. QED
      BY <2>3, <2>4, <3>1
  <2>6. \/ /\ measurements' = ms /\ main' = "measure"
           /\ UNCHANGED <<strategy, reports, outcome>>
        \/ NextStrategy(ms)
    BY <1>4 DEF CloseMeasurement, r
  <2> HIDE DEF ms
  <2>7. CASE measurements' = ms /\ main' = "measure" /\ UNCHANGED <<strategy, reports, outcome>>
    <3>1. RaceTypeOK' /\ RaceControl' /\ HeartbeatSound'
      BY <1>1, <1>2, <1>4, <2>4, <2>7
      DEF RaceIInv, RaceTypeOK, RaceControl, HeartbeatSound, Before
    <3>2. CallsSound'
      BY <1>2, <2>1, <2>7 DEF CallsSound
    <3>3. MeasurementsSound'
      BY <1>1, <2>5, <2>7 DEF RaceIInv, MeasurementsSound
    <3>4. AnswersSound'
      BY <2>7, CallAnswersKept DEF RaceIInv
    <3>5. QED
      BY <3>1, <3>2, <3>3, <3>4 DEF RaceIInv
  <2>8. CASE NextStrategy(ms)
    <3>1. Report(ms) \in ReportRecord
          /\ Report(ms).category = Strategies[strategy].category
          /\ Report(ms).result = Outputs(strategy)
          /\ SpanSeen(Report(ms).delay, strategy)
      BY <1>1, <2>4, <2>5, ReportSound
    <3>2. Len(reports) = strategy - 1 /\ DOMAIN reports = 1 .. Len(reports)
      BY <1>1, LenProperties DEF RaceIInv, MeasurementsSound
    <3>3. rs \in Seq(ReportRecord) /\ Len(rs) = strategy /\ DOMAIN rs = 1 .. strategy
      BY <1>1, <3>1, <3>2, AppendProperties, LenProperties
    <3>4. \A s \in DOMAIN rs :
            /\ rs[s].category = Strategies[s].category
            /\ rs[s].result = Outputs(s)
            /\ SpanSeen(rs[s].delay, s)
      <4>1. SUFFICES ASSUME NEW s \in 1 .. strategy
                     PROVE  /\ rs[s].category = Strategies[s].category
                            /\ rs[s].result = Outputs(s)
                            /\ SpanSeen(rs[s].delay, s)
        BY <3>3
      <4>2. CASE s = strategy
        <5>1. rs[s] = Report(ms)
          BY <1>1, <3>1, <3>2, <4>2, AppendProperties
        <5>2. QED
          BY <3>1, <4>2, <5>1
      <4>3. CASE s \in DOMAIN reports
        <5>1. rs[s] = reports[s]
          BY <1>1, <3>1, <3>2, <4>3, AppendProperties
        <5>2. QED
          BY <4>3, <5>1 DEF RaceIInv, MeasurementsSound
      <4>4. QED
        BY <1>1, <3>2, <4>2, <4>3
    <3>5. SameResults(rs, "I/O") /\ SameResults(rs, "CPU")
      <4> HIDE DEF rs
      <4>1. Len(rs) <= 6 /\ Len(rs) \in Nat /\ DOMAIN rs = 1 .. Len(rs)
        BY <1>1, <3>3
      <4>2. \A s \in DOMAIN rs :
              rs[s].category = Strategies[s].category /\ rs[s].result = Outputs(s)
        BY <3>4
      <4>3. QED
        BY <4>1, <4>2, ComparisonsAgree
    <3>6. ~\E i \in DOMAIN ms : ms[i].result # ms[1].result
      <4>1. 1 \in DOMAIN ms
        BY <2>4, EmptySeq
      <4>2. QED
        BY <2>5, <4>1
    <3>7. /\ reports' = rs /\ measurements' = <<>>
          /\ \/ strategy < 6 /\ strategy' = strategy + 1 /\ main' = "measure" /\ outcome' = outcome
             \/ strategy = 6 /\ outcome' = "report" /\ main' = "ending" /\ strategy' = strategy
      <4> HIDE DEF ms
      <4>1. Len(Strategies) = 6
        BY <1>1, StrategyTable
      <4>2. QED
        BY <1>1, <2>8, <3>5, <3>6, <4>1 DEF NextStrategy
    <3> HIDE DEF rs
    <3>8. <<>> \in Seq(Measurement) /\ DOMAIN measurements' = {}
      BY <3>7, EmptySeq
    <3>9. RaceTypeOK'
      BY <1>1, <1>2, <3>3, <3>7, <3>8 DEF RaceIInv, RaceTypeOK
    <3>10. RaceControl' /\ HeartbeatSound'
      BY <1>1, <1>2, <1>4, <3>7 DEF RaceIInv, RaceControl, HeartbeatSound, Before
    <3>11. CallsSound'
      BY <1>2, <2>1, <3>7 DEF CallsSound
    <3>12. MeasurementsSound'
      BY <1>1, <3>3, <3>4, <3>7, <3>8 DEF MeasurementsSound
    <3>13. AnswersSound'
      BY <3>7, CallAnswersKept DEF RaceIInv
    <3>14. QED
      BY <3>9, <3>10, <3>11, <3>12, <3>13 DEF RaceIInv
  <2>9. QED
    BY <2>6, <2>7, <2>8
<1>5. QED
  BY <1>3, <1>4

LEMMA RaceNextIInv ==
  ASSUME RaceIInv, [RaceNext]_raceVars PROVE RaceIInv'
<1>1. ASSUME NEW i \in DOMAIN item, FinishCall(i)
      PROVE  RaceIInv'
  BY <1>1, FinishCallStep
<1>2. QED
  BY <1>1, CreateHeartbeatStep, StartHeartbeatStep, BeatStep, StartWorkloadStep, RunBlockingStep,
     FinishWorkloadStep, TimeOutStep, WorkerDiesStep, JoinPoolStep, CloseMeasurementStep, EndingStep
  DEF RaceNext

(* The invariant holds in every reachable state.                           *)
THEOREM RaceInvariant == RaceSpec => []RaceIInv
BY RaceInitIInv, RaceNextIInv, PTL DEF RaceSpec

(* The delay reported for a strategy that blocks the loop is at least the  *)
(* time it blocked beyond one interval, for any scenario and any lag.      *)
THEOREM BlockingIsReported == RaceSpec => []BlockingIsSeen
<1>1. RaceIInv => BlockingIsSeen
  BY DEF RaceIInv, MeasurementsSound, BlockingIsSeen, SpanSeen
<1>2. QED
  BY <1>1, RaceInvariant, PTL

(* In whatever order the calls finish, the results put together from their *)
(* answers are those of the inputs in their order, none missing and none   *)
(* twice, and the race's comparisons of them never raise.                  *)
THEOREM InputOrderIsKept == RaceSpec => []ResultsInInputOrder
<1>1. RaceIInv => ResultsInInputOrder
  <2>1. RaceIInv => strategy \in 1 .. 6
    BY DEF RaceIInv, RaceTypeOK
  <2>2. QED
    BY <2>1, StrategyTable DEF RaceIInv, MeasurementsSound, ResultsInInputOrder, Outputs
<1>2. QED
  BY <1>1, RaceInvariant, PTL

(* Nothing of a measurement is left when another begins, nor of the race   *)
(* when it is over, whatever was cancelled, has died or ran on.            *)
THEOREM NothingIsLeft == RaceSpec => []NothingOutlives
<1>1. RaceIInv => NothingOutlives
  BY DEF RaceIInv, HeartbeatSound, CallsSound, NothingOutlives, RaceOver, Busy, Queued
<1>2. QED
  BY <1>1, RaceInvariant, PTL

-----------------------------------------------------------------------------
InStack(c) == IF c = "client" THEN Len(stack) >= 1 ELSE Len(stack) = 2

StackShape ==
  /\ Len(stack) <= 2
  /\ Len(stack) >= 1 => stack[1] = "client"
  /\ Len(stack) = 2 => stack[2] = "resource"

StackKnown ==
  /\ StackShape
  /\ \A c \in Components :
       /\ InStack(c) => c \in entered
       /\ closeCalls[c] = IF c \in entered /\ ~InStack(c) THEN 1 ELSE 0
       /\ c \in active /\ c \in entered <=> InStack(c)
       /\ diskErrors = 0 /\ c \in active => c \in entered
  /\ phase = "client" => Len(stack) = 0 /\ entered = {}
  /\ phase = "resource" => Len(stack) = 1 /\ entered = {"client"}
  /\ phase \in {"announce", "serving", "draining"} => Len(stack) = 2
  /\ phase = "ended" => Len(stack) = 0

Closes(e) == e.event \in {"closed", "close_failed"}
Stops(e) == e.event = "application_stopping" \/ Closes(e)
OfJob(e) == e.event \in {"job_started", "job_completed"}

Begun == ~Down => pid > 0

PidsKnown == \A i \in DOMAIN journal : journal[i].pid <= pid

ClosingsShown ==
  diskErrors = 0 =>
    /\ \A c \in Components :
         /\ c \in entered <=>
              \E i \in DOMAIN journal :
                journal[i].pid = pid /\ journal[i].event = "started" /\ journal[i].who = c
         /\ closeCalls[c] = 1 <=>
              \E i \in DOMAIN journal :
                journal[i].pid = pid /\ Closes(journal[i]) /\ journal[i].who = c
    /\ \A i, k \in DOMAIN journal :
         /\ journal[i].pid = pid /\ Closes(journal[i])
         /\ journal[k].pid = pid /\ Closes(journal[k])
         => /\ journal[i].who = journal[k].who => i = k
            /\ journal[i].who = "client" /\ journal[k].who = "resource" => i > k

NotYetDown ==
  phase \in {"client", "resource", "announce", "serving", "draining"} =>
    \A i \in DOMAIN journal : journal[i].pid = pid => ~Stops(journal[i])

Announced ==
  Serving => \E i \in DOMAIN journal :
               journal[i].pid = pid /\ journal[i].event = "application_started"

AppEntries ==
  \A i \in DOMAIN journal :
    /\ journal[i].event \in {"application_started", "application_stopping"}
         => journal[i].who = "app"
    /\ journal[i].event = "started" \/ Closes(journal[i]) => journal[i].who \in Components

Bracketed ==
  \A i \in DOMAIN journal :
    OfJob(journal[i]) =>
      /\ \E k \in DOMAIN journal :
           k < i /\ journal[k].pid = journal[i].pid /\ journal[k].event = "application_started"
      /\ \A k \in DOMAIN journal :
           journal[k].pid = journal[i].pid /\ Stops(journal[k]) => k > i

Starts(j) == {i \in DOMAIN journal : journal[i].event = "job_started" /\ journal[i].who = j}
Ends(j) == {i \in DOMAIN journal : journal[i].event = "job_completed" /\ journal[i].who = j}

KnownOf(j) ==
  /\ job[j] \in {"none", "accepted"} => Starts(j) = {}
  /\ job[j] \in {"none", "accepted", "running", "lost"} => Ends(j) = {}
  /\ job[j] = "done" => Ends(j) # {}
  /\ job[j] = "running" => Starts(j) # {} /\ \A i \in Starts(j) : journal[i].pid = pid
  /\ \A i, k \in Starts(j) : i = k
  /\ \A i, k \in Ends(j) : i = k
  /\ \A i \in Ends(j) : \E k \in Starts(j) : k < i /\ journal[k].pid = journal[i].pid
  /\ job[j] \in {"accepted", "running"} => Serving
JobKnown == \A j \in Jobs : KnownOf(j)

LifespanIInv ==
  /\ TypeOK
  /\ StackKnown
  /\ Begun
  /\ PidsKnown
  /\ ClosingsShown
  /\ NotYetDown
  /\ Announced
  /\ AppEntries
  /\ Bracketed
  /\ JobKnown

-----------------------------------------------------------------------------
(* The journal.                                                            *)

LEMMA EntriesAreRecords ==
  ASSUME TypeOK
  PROVE  \A i \in DOMAIN journal :
           journal[i] = [pid |-> journal[i].pid, event |-> journal[i].event, who |-> journal[i].who]
<1>1. ASSUME NEW e \in JournalEntry
      PROVE  e = [pid |-> e.pid, event |-> e.event, who |-> e.who]
  BY DEF JournalEntry
<1>2. \A i \in DOMAIN journal : journal[i] \in JournalEntry
  BY DEF TypeOK
<1> QED BY <1>1, <1>2

LEMMA EntriesArePids ==
  ASSUME TypeOK
  PROVE  \A i \in DOMAIN journal : journal[i].pid \in Int
<1>1. \A e \in JournalEntry : e.pid \in Int
  BY DEF JournalEntry
<1>2. \A i \in DOMAIN journal : journal[i] \in JournalEntry
  BY DEF TypeOK
<1> QED BY <1>1, <1>2

(* A journal with one entry more.                                          *)
LEMMA OneMore ==
  ASSUME TypeOK, NEW e \in JournalEntry, journal' = Append(journal, e)
  PROVE  /\ journal' \in Seq(JournalEntry)
         /\ DOMAIN journal' = DOMAIN journal \union {Len(journal) + 1}
         /\ Len(journal) + 1 \in Int
         /\ journal'[Len(journal) + 1] = e
         /\ \A i \in DOMAIN journal : i \in Int /\ i < Len(journal) + 1 /\ journal'[i] = journal[i]
  BY DEF TypeOK

(* An entry of the current process is a record of the journal.             *)
LEMMA EntryType ==
  ASSUME TypeOK, pid \in 1 .. MaxProcesses,
         NEW event \in {"start_failed", "started", "application_started", "application_stopping",
                        "closed", "close_failed", "job_started", "job_completed"},
         NEW who \in Components \union {"app"} \union Jobs
  PROVE  /\ Entry(event, who) \in JournalEntry
         /\ Entry(event, who).pid = pid
         /\ Entry(event, who).event = event
         /\ Entry(event, who).who = who
  BY DEF Entry, JournalEntry

(* EventJournal.append, whatever the disk did.                             *)
LEMMA AppendFacts ==
  ASSUME TypeOK, NEW event, NEW who, Written(event, who) \/ DiskError(event, who)
  PROVE  /\ journal' = journal \/ journal' = Append(journal, Entry(event, who))
         /\ diskErrors' \in 0 .. MaxDiskErrors
         /\ diskErrors' = 0 => diskErrors = 0 /\ journal' = Append(journal, Entry(event, who))
  BY LifespanAssumption DEF Written, DiskError, TypeOK

(* What one entry more leaves true, if an entry of a job is written while  *)
(* its process serves.                                                     *)
LEMMA JournalKept ==
  ASSUME LifespanIInv, NEW e \in JournalEntry, e.pid = pid, pid' = pid,
         journal' = journal \/ journal' = Append(journal, e),
         OfJob(e) => Serving,
         e.event \in {"application_started", "application_stopping"} => e.who = "app",
         e.event = "started" \/ Closes(e) => e.who \in Components
  PROVE  journal' \in Seq(JournalEntry) /\ PidsKnown' /\ AppEntries' /\ Bracketed'
<1>0. TypeOK /\ PidsKnown /\ AppEntries /\ Bracketed /\ NotYetDown /\ Announced
  BY DEF LifespanIInv
<1>1. CASE journal' = journal
  BY <1>0, <1>1 DEF TypeOK, PidsKnown, AppEntries, Bracketed, OfJob, Stops, Closes
<1>2. CASE journal' = Append(journal, e)
  <2> DEFINE n == Len(journal) + 1
  <2>1. /\ journal' \in Seq(JournalEntry)
        /\ DOMAIN journal' = DOMAIN journal \union {n}
        /\ n \in Int
        /\ journal'[n] = e
        /\ \A i \in DOMAIN journal : i \in Int /\ i < n /\ journal'[i] = journal[i]
    BY <1>0, <1>2, OneMore
  <2> HIDE DEF n
  <2>2. PidsKnown'
    BY <1>0, <2>1 DEF PidsKnown, TypeOK
  <2>3. AppEntries'
    BY <1>0, <2>1 DEF AppEntries, Closes
  <2>4. Bracketed'
    <3> SUFFICES ASSUME NEW i \in DOMAIN journal', OfJob(journal'[i])
                 PROVE  /\ \E k \in DOMAIN journal' :
                             /\ k < i /\ journal'[k].pid = journal'[i].pid
                             /\ journal'[k].event = "application_started"
                        /\ \A k \in DOMAIN journal' :
                             journal'[k].pid = journal'[i].pid /\ Stops(journal'[k]) => k > i
      BY DEF Bracketed, OfJob, Stops, Closes
    <3>1. CASE i = n
      <4>1. Serving
        BY <2>1, <3>1
      <4>2. PICK k \in DOMAIN journal :
              journal[k].pid = pid /\ journal[k].event = "application_started"
        BY <1>0, <4>1 DEF Announced
      <4>3. k \in DOMAIN journal' /\ k < i /\ journal'[k] = journal[k]
        BY <2>1, <3>1
      <4>4. \A m \in DOMAIN journal : journal[m].pid = pid => ~Stops(journal[m])
        BY <1>0, <4>1 DEF NotYetDown, Serving
      <4>5. ~Stops(e)
        BY <2>1, <3>1 DEF Stops, Closes, OfJob
      <4> QED BY <2>1, <3>1, <4>2, <4>3, <4>4, <4>5
    <3>2. CASE i # n
      <4>1. i \in DOMAIN journal /\ journal'[i] = journal[i] /\ OfJob(journal[i])
        BY <2>1, <3>2
      <4> QED BY <1>0, <2>1, <4>1 DEF Bracketed
    <3> QED BY <3>1, <3>2
  <2> QED BY <2>1, <2>2, <2>3, <2>4
<1> QED BY <1>1, <1>2

(* An entry that is not of a job changes nothing known of the jobs.        *)
LEMMA JobsKept ==
  ASSUME LifespanIInv, NEW e \in JournalEntry, ~OfJob(e), pid' = pid, job' = job,
         journal' = journal \/ journal' = Append(journal, e),
         \A j \in Jobs : job[j] \in {"accepted", "running"} => Serving'
  PROVE  JobKnown'
<1>0. TypeOK /\ JobKnown
  BY DEF LifespanIInv
<1>1. \A i \in DOMAIN journal : i \in DOMAIN journal' /\ journal'[i] = journal[i]
  BY <1>0, OneMore
<1>2. \A i \in DOMAIN journal' \ DOMAIN journal : journal'[i] = e
  BY <1>0, OneMore
<1>3. ASSUME NEW j \in Jobs
      PROVE  Starts(j)' = Starts(j) /\ Ends(j)' = Ends(j)
  BY <1>1, <1>2 DEF Starts, Ends, OfJob
<1>4. \A j \in Jobs : \A i \in Starts(j) \union Ends(j) : journal'[i] = journal[i]
  BY <1>1 DEF Starts, Ends
<1> QED BY <1>0, <1>3, <1>4 DEF JobKnown, KnownOf

(* An entry that neither starts nor closes a component leaves what the     *)
(* journal shows of them.                                                  *)
LEMMA ClosingsKept ==
  ASSUME LifespanIInv, NEW e \in JournalEntry, ~Closes(e), e.event # "started",
         pid' = pid, UNCHANGED <<entered, closeCalls>>,
         diskErrors' = 0 => diskErrors = 0,
         journal' = journal \/ journal' = Append(journal, e)
  PROVE  ClosingsShown'
<1>0. TypeOK /\ ClosingsShown
  BY DEF LifespanIInv
<1>1. \A i \in DOMAIN journal : i \in DOMAIN journal' /\ journal'[i] = journal[i]
  BY <1>0, OneMore
<1>2. \A i \in DOMAIN journal' : i \notin DOMAIN journal => journal'[i] = e
  BY <1>0, OneMore
<1>3. \A i \in DOMAIN journal' :
        Closes(journal'[i]) \/ journal'[i].event = "started" =>
          i \in DOMAIN journal /\ journal'[i] = journal[i]
  BY <1>1, <1>2 DEF Closes
<1> QED BY <1>0, <1>1, <1>3 DEF ClosingsShown, Closes

(* Nothing is known of the stack that depends on more than its own         *)
(* components and on the phase.                                            *)
LEMMA StackKept ==
  ASSUME LifespanIInv, UNCHANGED <<stack, entered, active, closeCalls>>,
         diskErrors' = 0 => diskErrors = 0,
         phase' \notin {"client", "resource"},
         phase' \in {"announce", "serving", "draining"} => Len(stack) = 2,
         phase' = "ended" => Len(stack) = 0
  PROVE  StackKnown'
<1>0. StackKnown
  BY DEF LifespanIInv
<1>1. StackShape' /\ \A c \in Components : InStack(c)' <=> InStack(c)
  BY <1>0 DEF StackKnown, StackShape, InStack
<1> QED BY <1>0, <1>1 DEF StackKnown

-----------------------------------------------------------------------------
(* What LifespanIInv implies.                                              *)

LEMMA InvClosedOnce == LifespanIInv => ClosedOnce
<1> SUFFICES ASSUME LifespanIInv, phase = "ended"
             PROVE  /\ \A c \in Components : closeCalls[c] = IF c \in entered THEN 1 ELSE 0
                    /\ active \intersect entered = {}
                    /\ diskErrors = 0 =>
                         /\ active = {}
                         /\ \A c \in Components :
                              /\ Closings(pid, c) = {} <=> At(pid, "started", c) = {}
                              /\ \A i, k \in Closings(pid, c) : i = k
                         /\ \A i \in Closings(pid, "client"), k \in Closings(pid, "resource") : i > k
  BY DEF ClosedOnce
<1> USE DEF Components
<1>1. \A c \in Components : ~InStack(c)
  BY DEF LifespanIInv, StackKnown, InStack
<1>2. active \subseteq Components /\ entered \subseteq Components
  BY DEF LifespanIInv, TypeOK
<1>3. active \intersect entered = {}
  BY <1>1, <1>2 DEF LifespanIInv, StackKnown
<1>4. \A c \in Components : closeCalls[c] = IF c \in entered THEN 1 ELSE 0
  BY <1>1 DEF LifespanIInv, StackKnown
<1>5. ASSUME diskErrors = 0
      PROVE  /\ active = {}
             /\ \A c \in Components :
                  /\ Closings(pid, c) = {} <=> At(pid, "started", c) = {}
                  /\ \A i, k \in Closings(pid, c) : i = k
             /\ \A i \in Closings(pid, "client"), k \in Closings(pid, "resource") : i > k
  <2>1. active = {}
    BY <1>1, <1>2, <1>5 DEF LifespanIInv, StackKnown
  <2>2. \A i \in DOMAIN journal :
          journal[i] = [pid |-> journal[i].pid, event |-> journal[i].event, who |-> journal[i].who]
    BY EntriesAreRecords DEF LifespanIInv
  <2>3. \A c \in Components :
          /\ Closings(pid, c) =
               {i \in DOMAIN journal : journal[i].pid = pid /\ Closes(journal[i]) /\ journal[i].who = c}
          /\ At(pid, "started", c) =
               {i \in DOMAIN journal :
                  journal[i].pid = pid /\ journal[i].event = "started" /\ journal[i].who = c}
    BY <2>2 DEF Closings, At, Closes
  <2>4. ASSUME NEW c \in Components
        PROVE  /\ Closings(pid, c) = {} <=> At(pid, "started", c) = {}
               /\ \A i, k \in Closings(pid, c) : i = k
    BY <2>3, <1>4, <1>5 DEF LifespanIInv, ClosingsShown
  <2>5. \A i \in Closings(pid, "client"), k \in Closings(pid, "resource") : i > k
    BY <2>3, <1>5 DEF LifespanIInv, ClosingsShown
  <2> QED BY <2>1, <2>4, <2>5
<1> QED BY <1>3, <1>4, <1>5

LEMMA InvJobsAccountedFor == LifespanIInv => JobsAccountedFor
<1> SUFFICES ASSUME LifespanIInv, NEW j \in Jobs
             PROVE  /\ \A i, k \in Starts(j) : i = k
                    /\ \A i, k \in Ends(j) : i = k
                    /\ \A i \in Starts(j) \union Ends(j) :
                         /\ \E k \in At(journal[i].pid, "application_started", "app") : k < i
                         /\ \A k \in At(journal[i].pid, "application_stopping", "app")
                                       \union Closings(journal[i].pid, "client")
                                       \union Closings(journal[i].pid, "resource") : k > i
                    /\ \A i \in Ends(j) : \E k \in Starts(j) : k < i /\ journal[k].pid = journal[i].pid
                    /\ \A i \in Starts(j) :
                         Ends(j) = {} => \/ job[j] \in {"lost", "failed"}
                                         \/ job[j] = "running" /\ journal[i].pid = pid /\ Serving
  BY DEF JobsAccountedFor, Starts, Ends
<1>1. \A i \in DOMAIN journal :
        journal[i] = [pid |-> journal[i].pid, event |-> journal[i].event, who |-> journal[i].who]
  BY EntriesAreRecords DEF LifespanIInv
<1>2. ASSUME NEW i \in Starts(j) \union Ends(j)
      PROVE  /\ \E k \in At(journal[i].pid, "application_started", "app") : k < i
             /\ \A k \in At(journal[i].pid, "application_stopping", "app")
                           \union Closings(journal[i].pid, "client")
                           \union Closings(journal[i].pid, "resource") : k > i
  <2>1. i \in DOMAIN journal /\ OfJob(journal[i])
    BY DEF Starts, Ends, OfJob
  <2>2. PICK k \in DOMAIN journal :
          k < i /\ journal[k].pid = journal[i].pid /\ journal[k].event = "application_started"
    BY <2>1 DEF LifespanIInv, Bracketed
  <2>3. k \in At(journal[i].pid, "application_started", "app")
    BY <2>2, <1>1 DEF LifespanIInv, AppEntries, At
  <2>4. \A m \in At(journal[i].pid, "application_stopping", "app")
                   \union Closings(journal[i].pid, "client")
                   \union Closings(journal[i].pid, "resource") :
          m \in DOMAIN journal /\ journal[m].pid = journal[i].pid /\ Stops(journal[m])
    BY <1>1 DEF At, Closings, Stops, Closes
  <2> QED BY <2>1, <2>2, <2>3, <2>4 DEF LifespanIInv, Bracketed
<1>3. ASSUME NEW i \in Starts(j), Ends(j) = {}
      PROVE  \/ job[j] \in {"lost", "failed"}
             \/ job[j] = "running" /\ journal[i].pid = pid /\ Serving
  <2>1. job[j] \in {"none", "accepted", "running", "done", "failed", "lost"}
    BY DEF LifespanIInv, TypeOK
  <2>2. job[j] \notin {"none", "accepted", "done"}
    BY <1>3 DEF LifespanIInv, JobKnown, KnownOf
  <2> QED BY <2>1, <2>2, <1>3 DEF LifespanIInv, JobKnown, KnownOf
<1> QED BY <1>2, <1>3 DEF LifespanIInv, JobKnown, KnownOf

-----------------------------------------------------------------------------
LEMMA InitInv == Init => LifespanIInv
  BY LifespanAssumption
     DEF Init, LifespanIInv, TypeOK, Begun, Down, StackKnown, StackShape, InStack, PidsKnown, ClosingsShown,
         NotYetDown, Announced, AppEntries, Bracketed, JobKnown, KnownOf, Starts, Ends, Components, Serving

(* The first process has begun when the phase is one of a lifespan.        *)
LEMMA PidPositive ==
  ASSUME LifespanIInv, ~Down
  PROVE  pid \in 1 .. MaxProcesses
  BY LifespanAssumption DEF LifespanIInv, TypeOK, Begun

-----------------------------------------------------------------------------
(* One lemma per action.                                                   *)

LEMMA StartProcessInv == ASSUME LifespanIInv, StartProcess PROVE LifespanIInv'
<1>0. TypeOK /\ PidsKnown /\ AppEntries /\ Bracketed /\ JobKnown /\ ~Serving
  BY DEF LifespanIInv, StartProcess, Down, Serving
<1>1. TypeOK'
  <2>1. pid' \in 0 .. MaxProcesses /\ phase' \in Components
    BY <1>0, LifespanAssumption DEF StartProcess, TypeOK, Components
  <2>2. /\ stack' \in Seq(Components) /\ \A i \in DOMAIN stack' : stack'[i] \in active'
        /\ active' \subseteq Components
    BY DEF StartProcess
  <2>3. closeCalls' \in [Components -> Nat]
    BY DEF StartProcess
  <2>4. entered' \subseteq active' \union {c \in Components : closeCalls'[c] > 0}
    BY DEF StartProcess
  <2>5. faulty' \subseteq Components \X {"enter", "close"}
    BY DEF StartProcess
  <2>6. UNCHANGED <<job, journal, diskErrors>>
    BY DEF StartProcess
  <2> QED BY <1>0, <2>1, <2>2, <2>3, <2>4, <2>5, <2>6 DEF TypeOK
<1>2. StackKnown'
  BY DEF StartProcess, StackKnown, StackShape, InStack, Components
<1>3. \A i \in DOMAIN journal : journal[i].pid \in Int /\ journal[i].pid < pid'
  <2>1. \A i \in DOMAIN journal : journal[i].pid \in Int
    BY <1>0, EntriesArePids
  <2> QED BY <1>0, <2>1 DEF StartProcess, PidsKnown, TypeOK
<1>4. PidsKnown'
  BY <1>0, <1>3 DEF StartProcess, PidsKnown, TypeOK
<1>5. ClosingsShown'
  BY <1>3 DEF StartProcess, ClosingsShown, Closes
<1>6. NotYetDown'
  BY <1>3 DEF StartProcess, NotYetDown
<1>7. Announced' /\ AppEntries' /\ Bracketed'
  BY <1>0 DEF StartProcess, Announced, Serving, AppEntries, Bracketed, OfJob, Stops, Closes
<1>8. JobKnown'
  BY <1>0 DEF StartProcess, JobKnown, KnownOf, Starts, Ends
<1>9. Begun'
  BY <1>0 DEF StartProcess, Begun, TypeOK
<1> QED BY <1>1, <1>2, <1>4, <1>5, <1>6, <1>7, <1>8, <1>9 DEF LifespanIInv

LEMMA OpenComponentInv ==
  ASSUME LifespanIInv, NEW c \in Components, OpenComponent(c) PROVE LifespanIInv'
<1> DEFINE event == IF <<c, "enter">> \in faulty THEN "start_failed" ELSE "started"
           e == Entry(event, c)
<1>0. TypeOK /\ StackKnown /\ NotYetDown /\ ClosingsShown /\ Begun /\ phase = c
  BY DEF LifespanIInv, OpenComponent
<1>1. /\ pid \in 1 .. MaxProcesses /\ pid' = pid /\ job' = job
      /\ closeCalls' = closeCalls /\ faulty' = faulty
  BY <1>0, PidPositive DEF OpenComponent, Down, Components
<1>2. /\ e \in JournalEntry /\ e.pid = pid /\ e.event = event /\ e.who = c
      /\ e.event \in {"start_failed", "started"}
  BY <1>0, <1>1, EntryType
<1>3. /\ journal' = journal \/ journal' = Append(journal, e)
      /\ diskErrors' \in 0 .. MaxDiskErrors
      /\ diskErrors' = 0 => diskErrors = 0 /\ journal' = Append(journal, e)
  BY <1>0, AppendFacts DEF OpenComponent
<1> HIDE DEF event, e
<1>4. journal' \in Seq(JournalEntry) /\ PidsKnown' /\ AppEntries' /\ Bracketed'
  BY <1>1, <1>2, <1>3, JournalKept DEF OfJob, Closes
<1>5. ~Serving /\ phase' \in {"resource", "announce", "unwind"} /\ Begun'
  BY <1>0, <1>1 DEF OpenComponent, Serving, AfterOpen, Components, Begun
<1>6. JobKnown'
  BY <1>1, <1>2, <1>3, <1>5, JobsKept DEF LifespanIInv, JobKnown, KnownOf, OfJob
<1>7. \/ /\ phase' = "unwind" /\ UNCHANGED <<stack, entered>>
         /\ active \subseteq active' /\ active' \subseteq active \union {c}
         /\ diskErrors' = 0 => active' = active /\ event = "start_failed"
      \/ /\ event = "started" /\ active' = active \union {c}
         /\ stack' = Append(stack, c) /\ entered' = entered \union {c}
         /\ phase' = AfterOpen(c) /\ journal' = Append(journal, e)
  BY <1>0 DEF OpenComponent, Written, DiskError, TypeOK, e, event
<1>8. TypeOK'
  <2>1. /\ stack' \in Seq(Components) /\ \A i \in DOMAIN stack' : stack'[i] \in active'
    <3>1. stack \in Seq(Components) /\ \A i \in DOMAIN stack : stack[i] \in active
      BY <1>0 DEF TypeOK
    <3>2. CASE stack' = stack /\ active \subseteq active'
      BY <3>1, <3>2
    <3>3. CASE stack' = Append(stack, c) /\ active' = active \union {c}
      <4>1. /\ stack' \in Seq(Components) /\ DOMAIN stack' = 1 .. (Len(stack) + 1)
            /\ \A i \in DOMAIN stack' : stack'[i] = IF i = Len(stack) + 1 THEN c ELSE stack[i]
            /\ DOMAIN stack = 1 .. Len(stack) /\ Len(stack) \in Nat
        BY <3>1, <3>3
      <4> QED BY <3>1, <3>3, <4>1
    <3> QED BY <1>7, <3>2, <3>3
  <2>2. active' \subseteq Components
    BY <1>0, <1>7 DEF TypeOK
  <2>3. entered' \subseteq active' \union {d \in Components : closeCalls'[d] > 0}
    BY <1>0, <1>1, <1>7 DEF TypeOK
  <2>4. phase' \in Components \union {"announce", "serving", "draining", "unwind", "ended", "killed"}
    BY <1>5 DEF Components
  <2>5. closeCalls' \in [Components -> Nat] /\ faulty' \subseteq Components \X {"enter", "close"}
    BY <1>0, <1>1 DEF TypeOK
  <2>6. job' \in [Jobs -> {"none", "accepted", "running", "done", "failed", "lost"}]
    BY <1>0, <1>1 DEF TypeOK
  <2> QED BY <1>0, <1>1, <1>3, <1>4, <2>1, <2>2, <2>3, <2>4, <2>5, <2>6 DEF TypeOK
<1>9. StackKnown'
  <2>0. /\ "client" \in Components /\ "resource" \in Components
        /\ \A d \in Components : d = "client" \/ d = "resource"
    BY DEF Components
  <2>1. stack \in Seq(Components) /\ Len(stack) \in Nat /\ diskErrors \in Nat
    BY <1>0, LifespanAssumption DEF TypeOK
  <2>2. CASE phase' = "unwind" /\ UNCHANGED <<stack, entered>>
    <3>1. \A d \in Components :
            /\ d \in entered => (d \in active' <=> d \in active)
            /\ diskErrors' = 0 => (d \in active' <=> d \in active) /\ diskErrors = 0
      BY <1>0, <1>3, <1>7, <2>0, <2>2 DEF StackKnown, InStack
    <3> QED BY <1>0, <1>1, <2>0, <2>1, <2>2, <3>1 DEF StackKnown, StackShape, InStack
  <2>3. CASE /\ active' = active \union {c}
             /\ stack' = Append(stack, c) /\ entered' = entered \union {c}
             /\ phase' = AfterOpen(c)
    <3>1. CASE c = "client"
      <4>1. /\ Len(stack) = 0 /\ entered = {}
            /\ closeCalls["client"] = 0 /\ closeCalls["resource"] = 0
            /\ "resource" \notin active \/ diskErrors # 0
        BY <1>0, <2>0, <3>1 DEF StackKnown, InStack
      <4>2. /\ stack' = Append(stack, "client") /\ phase' = "resource"
            /\ entered' = {"client"} /\ active' = active \union {"client"}
        BY <2>3, <3>1, <4>1 DEF AfterOpen
      <4>3. Len(stack') = 1 /\ stack'[1] = "client"
        BY <2>0, <2>1, <4>1, <4>2
      <4>4. StackShape' /\ InStack("client")' /\ ~InStack("resource")'
        BY <4>3 DEF StackShape, InStack
      <4> QED BY <1>1, <1>3, <2>0, <4>1, <4>2, <4>3, <4>4 DEF StackKnown
    <3>2. CASE c = "resource"
      <4>1. /\ Len(stack) = 1 /\ entered = {"client"} /\ stack[1] = "client"
            /\ closeCalls["client"] = 0 /\ closeCalls["resource"] = 0
            /\ "client" \in active
        BY <1>0, <2>0, <3>2 DEF StackKnown, StackShape, InStack
      <4>2. /\ stack' = Append(stack, "resource") /\ phase' = "announce"
            /\ entered' = {"client", "resource"} /\ active' = active \union {"resource"}
        BY <2>3, <3>2, <4>1 DEF AfterOpen
      <4>3. Len(stack') = 2 /\ stack'[1] = "client" /\ stack'[2] = "resource"
        <5>1. /\ Len(stack') = Len(stack) + 1 /\ stack'[Len(stack) + 1] = "resource"
              /\ \A i \in 1 .. Len(stack) : stack'[i] = stack[i]
          BY <2>0, <2>1, <4>2
        <5> QED BY <4>1, <5>1
      <4>4. StackShape' /\ InStack("client")' /\ InStack("resource")'
        BY <4>3 DEF StackShape, InStack
      <4> QED BY <1>1, <1>3, <2>0, <4>1, <4>2, <4>3, <4>4 DEF StackKnown
    <3> QED BY <2>0, <3>1, <3>2
  <2> QED BY <1>7, <2>2, <2>3
<1>10. Announced'
  BY <1>5 DEF Announced, Serving
<1>11. NotYetDown'
  BY <1>0, <1>1, <1>2, <1>3, OneMore DEF NotYetDown, Stops, Closes, Components
<1>12. ClosingsShown'
  <2> SUFFICES ASSUME diskErrors' = 0 PROVE ClosingsShown'
    BY DEF ClosingsShown
  <2> DEFINE n == Len(journal) + 1
  <2>1. /\ DOMAIN journal' = DOMAIN journal \union {n}
        /\ n \in Int /\ journal'[n] = e
        /\ \A i \in DOMAIN journal : i \in Int /\ i < n /\ journal'[i] = journal[i]
    BY <1>0, <1>2, <1>3, OneMore
  <2> HIDE DEF n
  <2>2. diskErrors = 0 /\ ~Closes(e)
    BY <1>2, <1>3 DEF Closes
  <2>3. \A d \in Components : d \in entered' <=> d \in entered \/ (d = c /\ event = "started")
    BY <1>7
  <2>4. n \notin DOMAIN journal
    BY <2>1
  <2> QED BY <1>0, <1>1, <1>2, <2>1, <2>2, <2>3, <2>4 DEF ClosingsShown, Closes
<1> QED BY <1>4, <1>5, <1>6, <1>8, <1>9, <1>10, <1>11, <1>12 DEF LifespanIInv

LEMMA AnnounceInv == ASSUME LifespanIInv, Announce PROVE LifespanIInv'
<1> DEFINE e == Entry("application_started", "app")
<1>0. /\ TypeOK /\ StackKnown /\ NotYetDown /\ Begun /\ phase = "announce"
      /\ pid' = pid /\ job' = job /\ faulty' = faulty
      /\ UNCHANGED <<stack, entered, active, closeCalls>>
  BY DEF LifespanIInv, Announce
<1>1. pid \in 1 .. MaxProcesses
  BY <1>0, PidPositive DEF Down
<1>2. e \in JournalEntry /\ e.pid = pid /\ e.event = "application_started" /\ e.who = "app"
  BY <1>0, <1>1, EntryType
<1>3. /\ journal' = journal \/ journal' = Append(journal, e)
      /\ diskErrors' \in 0 .. MaxDiskErrors
      /\ diskErrors' = 0 => diskErrors = 0
  BY <1>0, AppendFacts DEF Announce
<1>4. \/ journal' = Append(journal, e) /\ phase' = "serving"
      \/ phase' = "unwind"
  BY DEF Announce, Written, e
<1> HIDE DEF e
<1>5. journal' \in Seq(JournalEntry) /\ PidsKnown' /\ AppEntries' /\ Bracketed'
  BY <1>0, <1>2, <1>3, JournalKept DEF OfJob, Closes
<1>6. ~Serving /\ Begun'
  BY <1>0, <1>1 DEF Serving, Begun
<1>7. JobKnown'
  BY <1>0, <1>2, <1>3, <1>6, JobsKept DEF LifespanIInv, JobKnown, KnownOf, OfJob
<1>8. ClosingsShown'
  BY <1>0, <1>2, <1>3, ClosingsKept DEF Closes
<1>9. StackKnown'
  BY <1>0, <1>3, <1>4, StackKept DEF StackKnown
<1>10. TypeOK'
  BY <1>0, <1>3, <1>4, <1>5 DEF TypeOK
<1>11. NotYetDown'
  BY <1>0, <1>2, <1>3, <1>4, OneMore DEF NotYetDown, Stops, Closes
<1>12. Announced'
  BY <1>0, <1>2, <1>4, OneMore DEF Announced, Serving
<1> QED BY <1>5, <1>6, <1>7, <1>8, <1>9, <1>10, <1>11, <1>12 DEF LifespanIInv

LEMMA StopApplicationInv == ASSUME LifespanIInv, StopApplication PROVE LifespanIInv'
<1> DEFINE e == Entry("application_stopping", "app")
<1>0. /\ TypeOK /\ StackKnown /\ Begun /\ phase = "draining" /\ phase' = "unwind"
      /\ pid' = pid /\ job' = job /\ faulty' = faulty
      /\ UNCHANGED <<stack, entered, active, closeCalls>>
      /\ \A j \in Jobs : job[j] \notin {"accepted", "running"}
  BY DEF LifespanIInv, StopApplication, MayStop, Underway
<1>1. pid \in 1 .. MaxProcesses
  BY <1>0, PidPositive DEF Down
<1>2. e \in JournalEntry /\ e.pid = pid /\ e.event = "application_stopping" /\ e.who = "app"
  BY <1>0, <1>1, EntryType
<1>3. /\ journal' = journal \/ journal' = Append(journal, e)
      /\ diskErrors' \in 0 .. MaxDiskErrors
      /\ diskErrors' = 0 => diskErrors = 0
  BY <1>0, AppendFacts DEF StopApplication
<1> HIDE DEF e
<1>4. journal' \in Seq(JournalEntry) /\ PidsKnown' /\ AppEntries' /\ Bracketed'
  BY <1>0, <1>2, <1>3, JournalKept DEF OfJob, Closes
<1>5. JobKnown'
  BY <1>0, <1>2, <1>3, JobsKept DEF OfJob
<1>6. ClosingsShown'
  BY <1>0, <1>2, <1>3, ClosingsKept DEF Closes
<1>7. StackKnown'
  BY <1>0, <1>3, StackKept
<1>8. TypeOK'
  BY <1>0, <1>3, <1>4 DEF TypeOK
<1>9. NotYetDown' /\ Announced' /\ Begun'
  BY <1>0, <1>1 DEF NotYetDown, Announced, Serving, Begun
<1> QED BY <1>4, <1>5, <1>6, <1>7, <1>8, <1>9 DEF LifespanIInv

LEMMA CloseComponentInv == ASSUME LifespanIInv, CloseComponent PROVE LifespanIInv'
<1> DEFINE c == stack[Len(stack)]
           event == IF <<c, "close">> \in faulty THEN "close_failed" ELSE "closed"
           e == Entry(event, c)
<1>0. /\ TypeOK /\ StackKnown /\ ClosingsShown /\ Begun /\ phase = "unwind" /\ stack # <<>>
      /\ pid' = pid /\ job' = job /\ faulty' = faulty /\ phase' = phase /\ entered' = entered
      /\ closeCalls' = [closeCalls EXCEPT ![c] = @ + 1]
      /\ active' = active \ {c}
      /\ stack' = SubSeq(stack, 1, Len(stack) - 1)
      /\ Written(event, c) \/ DiskError(event, c)
  BY DEF LifespanIInv, CloseComponent, LeftAfter
<1>a. /\ "client" \in Components /\ "resource" \in Components
      /\ \A d \in Components : d = "client" \/ d = "resource"
  BY DEF Components
<1>b. stack \in Seq(Components) /\ Len(stack) \in 1 .. 2 /\ c \in Components /\ c \in active
  <2>1. stack \in Seq(Components) /\ Len(stack) <= 2 /\ \A i \in DOMAIN stack : stack[i] \in active
    BY <1>0 DEF TypeOK, StackKnown, StackShape
  <2>2. Len(stack) \in Nat /\ Len(stack) # 0 /\ DOMAIN stack = 1 .. Len(stack)
    BY <1>0, <2>1
  <2>3. Len(stack) \in 1 .. 2 /\ Len(stack) \in DOMAIN stack
    BY <2>1, <2>2
  <2> QED BY <2>1, <2>3
<1>1. pid \in 1 .. MaxProcesses
  BY <1>0, PidPositive DEF Down
<1>2. /\ e \in JournalEntry /\ e.pid = pid /\ e.event = event /\ e.who = c
      /\ Closes(e)
  BY <1>0, <1>1, <1>b, EntryType DEF Closes
<1>3. /\ journal' = journal \/ journal' = Append(journal, e)
      /\ diskErrors' \in 0 .. MaxDiskErrors
      /\ diskErrors' = 0 => diskErrors = 0 /\ journal' = Append(journal, e)
  BY <1>0, AppendFacts
<1>c. /\ c = "client" => Len(stack) = 1 /\ stack[1] = "client"
      /\ c = "resource" => Len(stack) = 2 /\ stack[1] = "client" /\ stack[2] = "resource"
  BY <1>0, <1>b DEF StackKnown, StackShape
<1>d. /\ InStack(c) /\ closeCalls[c] = 0
      /\ c = "resource" => InStack("client") /\ closeCalls["client"] = 0
  BY <1>0, <1>a, <1>b, <1>c DEF StackKnown, InStack
<1>e. /\ stack' \in Seq(Components) /\ Len(stack') = Len(stack) - 1
      /\ \A i \in DOMAIN stack' : i \in DOMAIN stack /\ i < Len(stack) /\ stack'[i] = stack[i]
  BY <1>0, <1>b
<1>f. \/ c = "client" /\ Len(stack) = 1 /\ Len(stack') = 0 /\ DOMAIN stack' = {}
      \/ /\ c = "resource" /\ Len(stack) = 2 /\ Len(stack') = 1 /\ DOMAIN stack' = {1}
         /\ stack'[1] = "client" /\ stack[1] = "client" /\ 1 \in DOMAIN stack
  <2>1. \/ c = "client" /\ Len(stack) = 1 /\ Len(stack') = 0
        \/ c = "resource" /\ Len(stack) = 2 /\ Len(stack') = 1 /\ stack[1] = "client"
    BY <1>a, <1>b, <1>c, <1>e
  <2>2. DOMAIN stack' = 1 .. Len(stack')
    BY <1>e
  <2> QED BY <1>e, <2>1, <2>2
<1> HIDE DEF c, event, e
<1>4. journal' \in Seq(JournalEntry) /\ PidsKnown' /\ AppEntries' /\ Bracketed'
  BY <1>0, <1>2, <1>3, <1>b, JournalKept DEF OfJob, Closes
<1>5. JobKnown'
  BY <1>0, <1>2, <1>3, JobsKept DEF OfJob, Closes, LifespanIInv, JobKnown, KnownOf, Serving
<1>6. closeCalls' \in [Components -> Nat] /\ closeCalls'[c] = 1
      /\ \A d \in Components : d # c => closeCalls'[d] = closeCalls[d]
  BY <1>0, <1>b, <1>d DEF TypeOK
<1>7. ClosingsShown'
  <2> SUFFICES ASSUME diskErrors' = 0 PROVE ClosingsShown'
    BY DEF ClosingsShown
  <2> DEFINE n == Len(journal) + 1
  <2>1. /\ DOMAIN journal' = DOMAIN journal \union {n}
        /\ n \in Int /\ journal'[n] = e
        /\ \A i \in DOMAIN journal : i \in Int /\ i < n /\ journal'[i] = journal[i]
    BY <1>0, <1>2, <1>3, OneMore
  <2> HIDE DEF n
  <2>2. diskErrors = 0 /\ n \notin DOMAIN journal /\ e.event # "started"
    BY <1>2, <1>3, <2>1 DEF Closes
  <2>3. \A i \in DOMAIN journal :
          journal[i].pid = pid /\ Closes(journal[i]) => journal[i].who # c
    BY <1>0, <1>b, <1>d, <2>2 DEF ClosingsShown
  <2>4. c = "resource" =>
          \A i \in DOMAIN journal :
            journal[i].pid = pid /\ Closes(journal[i]) => journal[i].who # "client"
    BY <1>0, <1>a, <1>d, <2>2 DEF ClosingsShown
  <2>5. \A d \in Components :
          d \in entered' <=>
            \E i \in DOMAIN journal' :
              journal'[i].pid = pid' /\ journal'[i].event = "started" /\ journal'[i].who = d
    BY <1>0, <2>1, <2>2 DEF ClosingsShown
  <2>6. \A d \in Components :
          closeCalls'[d] = 1 <=>
            \E i \in DOMAIN journal' :
              journal'[i].pid = pid' /\ Closes(journal'[i]) /\ journal'[i].who = d
    BY <1>0, <1>2, <1>6, <2>1, <2>2 DEF ClosingsShown
  <2>7. \A i, k \in DOMAIN journal' :
          /\ journal'[i].pid = pid' /\ Closes(journal'[i])
          /\ journal'[k].pid = pid' /\ Closes(journal'[k])
          => /\ journal'[i].who = journal'[k].who => i = k
             /\ journal'[i].who = "client" /\ journal'[k].who = "resource" => i > k
    BY <1>0, <1>2, <2>1, <2>2, <2>3, <2>4 DEF ClosingsShown
  <2> QED BY <2>5, <2>6, <2>7 DEF ClosingsShown, Closes
<1>8. StackKnown'
  <2>1. \A d \in Components : InStack(d)' <=> InStack(d) /\ d # c
    BY <1>a, <1>f DEF InStack
  <2>2. StackShape'
    BY <1>f DEF StackShape
  <2>3. c \in entered
    BY <1>0, <1>b, <1>d DEF StackKnown
  <2> QED BY <1>0, <1>3, <1>6, <1>d, <2>1, <2>2, <2>3 DEF StackKnown
<1>9. TypeOK'
  <2>1. \A i \in DOMAIN stack' : stack'[i] \in active'
    <3>1. 1 \in DOMAIN stack => stack[1] \in active
      BY <1>0 DEF TypeOK
    <3> QED BY <1>0, <1>f, <3>1
  <2>2. entered' \subseteq active' \union {d \in Components : closeCalls'[d] > 0}
    BY <1>0, <1>6, <1>b DEF TypeOK
  <2>3. active' \subseteq Components
    BY <1>0 DEF TypeOK
  <2> QED BY <1>0, <1>3, <1>4, <1>6, <1>e, <2>1, <2>2, <2>3 DEF TypeOK
<1>10. NotYetDown' /\ Announced' /\ Begun'
  BY <1>0, <1>1 DEF NotYetDown, Announced, Serving, Begun
<1> QED BY <1>4, <1>5, <1>7, <1>8, <1>9, <1>10 DEF LifespanIInv

(* An action that writes no entry.                                         *)
LEMMA UnwrittenKept ==
  ASSUME LifespanIInv, UNCHANGED <<pid, faulty, stack, active, entered, closeCalls, journal, diskErrors>>,
         phase' \notin {"client", "resource", "announce"}, ~Down,
         Serving' => Serving,
         phase' = "ended" => Len(stack) = 0
  PROVE  /\ StackKnown' /\ Begun' /\ PidsKnown' /\ ClosingsShown' /\ NotYetDown'
         /\ Announced' /\ AppEntries' /\ Bracketed'
<1>0. /\ StackKnown /\ Begun /\ PidsKnown /\ ClosingsShown /\ NotYetDown
      /\ Announced /\ AppEntries /\ Bracketed
  BY DEF LifespanIInv
<1>1. StackKnown'
  BY <1>0, StackKept DEF StackKnown, Serving
<1>2. PidsKnown' /\ AppEntries' /\ Bracketed' /\ Begun'
  BY <1>0 DEF PidsKnown, AppEntries, Bracketed, OfJob, Stops, Closes, Begun
<1>3. ClosingsShown'
  BY <1>0 DEF ClosingsShown, Closes
<1>4. NotYetDown' /\ Announced'
  BY <1>0 DEF NotYetDown, Announced, Serving, Stops, Closes
<1> QED BY <1>1, <1>2, <1>3, <1>4

LEMMA TerminateInv == ASSUME LifespanIInv, Terminate PROVE LifespanIInv'
<1>1. TypeOK' /\ JobKnown'
  BY DEF LifespanIInv, Terminate, TypeOK, JobKnown, KnownOf, Starts, Ends, Serving
<1> QED BY <1>1, UnwrittenKept DEF LifespanIInv, Terminate, Serving, Down

LEMMA EndLifespanInv == ASSUME LifespanIInv, EndLifespan PROVE LifespanIInv'
<1>1. TypeOK' /\ JobKnown'
  BY DEF LifespanIInv, EndLifespan, TypeOK, JobKnown, KnownOf, Starts, Ends, Serving
<1>2. Len(stack) = 0
  BY DEF EndLifespan
<1> QED BY <1>1, <1>2, UnwrittenKept DEF LifespanIInv, EndLifespan, Serving, Down

LEMMA KillInv == ASSUME LifespanIInv, Kill PROVE LifespanIInv'
<1>0. TypeOK /\ JobKnown
  BY DEF LifespanIInv
<1>1. \A j \in Jobs :
        job'[j] = IF job[j] \in {"accepted", "running"} THEN "lost" ELSE job[j]
  BY DEF Kill, Underway
<1>2. job' \in [Jobs -> {"none", "accepted", "running", "done", "failed", "lost"}]
  BY <1>0 DEF Kill, TypeOK
<1>3. TypeOK'
  BY <1>0, <1>2 DEF Kill, TypeOK
<1>4. \A j \in Jobs : Starts(j)' = Starts(j) /\ Ends(j)' = Ends(j)
  BY DEF Kill, Starts, Ends
<1>5. JobKnown'
  BY <1>0, <1>1, <1>4 DEF JobKnown, KnownOf, Kill
<1> QED BY <1>3, <1>5, UnwrittenKept DEF LifespanIInv, Kill, Serving, Down

LEMMA ScheduleJobInv == ASSUME LifespanIInv, NEW j \in Jobs, ScheduleJob(j) PROVE LifespanIInv'
<1>0. TypeOK /\ JobKnown
  BY DEF LifespanIInv
<1>1. /\ job'[j] = "accepted" /\ job[j] = "none"
      /\ \A k \in Jobs : k # j => job'[k] = job[k]
  BY <1>0 DEF ScheduleJob, TypeOK
<1>2. TypeOK'
  BY <1>0 DEF ScheduleJob, TypeOK
<1>3. \A k \in Jobs : Starts(k)' = Starts(k) /\ Ends(k)' = Ends(k)
  BY DEF ScheduleJob, Starts, Ends
<1>4. JobKnown'
  BY <1>0, <1>1, <1>3 DEF JobKnown, KnownOf, ScheduleJob, Serving
<1> QED BY <1>2, <1>4, UnwrittenKept DEF LifespanIInv, ScheduleJob, Serving, Down

(* An entry of a job, by the process that serves.                          *)
LEMMA JobEntryKept ==
  ASSUME LifespanIInv, NEW j \in Jobs, NEW event \in {"job_started", "job_completed"},
         Serving, Written(event, j) \/ DiskError(event, j),
         UNCHANGED <<pid, phase, faulty, stack, active, entered, closeCalls>>,
         job' \in [Jobs -> {"none", "accepted", "running", "done", "failed", "lost"}]
  PROVE  /\ TypeOK' /\ StackKnown' /\ Begun' /\ PidsKnown' /\ ClosingsShown' /\ NotYetDown'
         /\ Announced' /\ AppEntries' /\ Bracketed'
<1> DEFINE e == Entry(event, j)
<1>0. TypeOK /\ StackKnown /\ NotYetDown /\ Announced
  BY DEF LifespanIInv
<1>1. pid \in 1 .. MaxProcesses
  BY PidPositive DEF Down, Serving
<1>2. e \in JournalEntry /\ e.pid = pid /\ e.event = event /\ e.who = j
  BY <1>0, <1>1, EntryType
<1>3. /\ journal' = journal \/ journal' = Append(journal, e)
      /\ diskErrors' \in 0 .. MaxDiskErrors
      /\ diskErrors' = 0 => diskErrors = 0
  BY <1>0, AppendFacts
<1> HIDE DEF e
<1>4. journal' \in Seq(JournalEntry) /\ PidsKnown' /\ AppEntries' /\ Bracketed'
  BY <1>2, <1>3, JournalKept DEF Closes
<1>5. ClosingsShown'
  BY <1>2, <1>3, ClosingsKept DEF Closes
<1>6. StackKnown'
  BY <1>0, <1>3, StackKept DEF StackKnown, Serving
<1>7. TypeOK'
  BY <1>0, <1>3, <1>4 DEF TypeOK
<1>8. /\ \A i \in DOMAIN journal : i \in DOMAIN journal' /\ journal'[i] = journal[i]
      /\ \A i \in DOMAIN journal' : i \in DOMAIN journal \/ journal'[i] = e
  BY <1>0, <1>2, <1>3, OneMore
<1>9. NotYetDown'
  BY <1>0, <1>2, <1>8 DEF NotYetDown, Stops, Closes
<1>10. Announced' /\ Begun'
  BY <1>0, <1>1, <1>8 DEF Announced, Begun
<1> QED BY <1>4, <1>5, <1>6, <1>7, <1>9, <1>10

LEMMA StartJobInv == ASSUME LifespanIInv, NEW j \in Jobs, StartJob(j) PROVE LifespanIInv'
<1> DEFINE e == Entry("job_started", j)
<1>0. TypeOK /\ JobKnown /\ Serving /\ job[j] = "accepted" /\ phase' = phase /\ pid' = pid
  BY DEF LifespanIInv, StartJob
<1>1. /\ job' \in [Jobs -> {"none", "accepted", "running", "done", "failed", "lost"}]
      /\ \A k \in Jobs : k # j => job'[k] = job[k]
      /\ \/ job'[j] = "running" /\ journal' = Append(journal, e)
         \/ job'[j] = "failed" /\ (journal' = journal \/ journal' = Append(journal, e))
  BY <1>0 DEF StartJob, TypeOK, Written, DiskError
<1>2. pid \in 1 .. MaxProcesses
  BY <1>0, PidPositive DEF Down, Serving
<1>3. e \in JournalEntry /\ e.pid = pid /\ e.event = "job_started" /\ e.who = j
  BY <1>0, <1>2, EntryType
<1> HIDE DEF e
<1>4. JobKnown'
  <2>1. /\ Starts(j) = {} /\ Ends(j) = {}
    BY <1>0 DEF JobKnown, KnownOf
  <2>2. CASE journal' = journal
    <3>1. \A k \in Jobs : Starts(k)' = Starts(k) /\ Ends(k)' = Ends(k)
      BY <2>2 DEF Starts, Ends
    <3>2. job'[j] = "failed" \/ journal' # journal
      BY <1>0, <1>1, <1>3, <2>2, OneMore
    <3> QED BY <1>0, <1>1, <2>1, <2>2, <3>1, <3>2 DEF JobKnown, KnownOf, Serving
  <2>3. CASE journal' = Append(journal, e)
    <3> DEFINE n == Len(journal) + 1
    <3>1. /\ DOMAIN journal' = DOMAIN journal \union {n}
          /\ n \in Int /\ journal'[n] = e
          /\ \A i \in DOMAIN journal : i \in Int /\ i < n /\ journal'[i] = journal[i]
      BY <1>0, <1>3, <2>3, OneMore
    <3> HIDE DEF n
    <3>2. Starts(j)' = {n} /\ Ends(j)' = {}
      BY <1>3, <2>1, <3>1 DEF Starts, Ends
    <3>3. \A k \in Jobs : k # j => Starts(k)' = Starts(k) /\ Ends(k)' = Ends(k)
      BY <1>3, <3>1 DEF Starts, Ends
    <3>4. \A k \in Jobs : \A i \in Starts(k) \union Ends(k) : journal'[i] = journal[i]
      BY <3>1 DEF Starts, Ends
    <3>5. KnownOf(j)'
      BY <1>0, <1>1, <1>3, <3>1, <3>2, <2>3 DEF KnownOf, Serving
    <3>6. ASSUME NEW k \in Jobs, k # j PROVE KnownOf(k)'
      BY <1>0, <1>1, <3>3, <3>4, <3>6 DEF JobKnown, KnownOf, Serving
    <3> QED BY <3>5, <3>6 DEF JobKnown
  <2> QED BY <1>1, <2>2, <2>3
<1> QED BY <1>0, <1>1, <1>4, JobEntryKept DEF LifespanIInv, StartJob

LEMMA CompleteJobInv == ASSUME LifespanIInv, NEW j \in Jobs, CompleteJob(j) PROVE LifespanIInv'
<1> DEFINE e == Entry("job_completed", j)
<1>0. TypeOK /\ JobKnown /\ Serving /\ job[j] = "running" /\ phase' = phase /\ pid' = pid
  BY DEF LifespanIInv, CompleteJob
<1>1. /\ job' \in [Jobs -> {"none", "accepted", "running", "done", "failed", "lost"}]
      /\ \A k \in Jobs : k # j => job'[k] = job[k]
      /\ \/ job'[j] = "done" /\ journal' = Append(journal, e)
         \/ job'[j] = "failed" /\ (journal' = journal \/ journal' = Append(journal, e))
  BY <1>0 DEF CompleteJob, TypeOK, Written, DiskError
<1>2. pid \in 1 .. MaxProcesses
  BY <1>0, PidPositive DEF Down, Serving
<1>3. e \in JournalEntry /\ e.pid = pid /\ e.event = "job_completed" /\ e.who = j
  BY <1>0, <1>2, EntryType
<1> HIDE DEF e
<1>4. JobKnown'
  <2>1. /\ Starts(j) # {} /\ Ends(j) = {}
        /\ \A i \in Starts(j) : i \in DOMAIN journal /\ journal[i].pid = pid
    BY <1>0 DEF JobKnown, KnownOf, Starts
  <2>2. CASE journal' = journal /\ job'[j] = "failed"
    <3>1. \A k \in Jobs : Starts(k)' = Starts(k) /\ Ends(k)' = Ends(k)
      BY <2>2 DEF Starts, Ends
    <3> QED BY <1>0, <1>1, <2>1, <2>2, <3>1 DEF JobKnown, KnownOf, Serving
  <2>3. CASE journal' = Append(journal, e)
    <3> DEFINE n == Len(journal) + 1
    <3>1. /\ DOMAIN journal' = DOMAIN journal \union {n}
          /\ n \in Int /\ journal'[n] = e
          /\ \A i \in DOMAIN journal : i \in Int /\ i < n /\ journal'[i] = journal[i]
      BY <1>0, <1>3, <2>3, OneMore
    <3> HIDE DEF n
    <3>2. Ends(j)' = {n} /\ Starts(j)' = Starts(j)
      BY <1>3, <2>1, <3>1 DEF Starts, Ends
    <3>3. \A k \in Jobs : k # j => Starts(k)' = Starts(k) /\ Ends(k)' = Ends(k)
      BY <1>3, <3>1 DEF Starts, Ends
    <3>4. \A k \in Jobs : \A i \in Starts(k) \union Ends(k) : journal'[i] = journal[i]
      BY <3>1 DEF Starts, Ends
    <3>5. \A i \in Ends(j)' : \E k \in Starts(j)' : k < i /\ journal'[k].pid = journal'[i].pid
      BY <1>3, <2>1, <3>1, <3>2
    <3>6. KnownOf(j)
      BY <1>0 DEF JobKnown
    <3>7. KnownOf(j)'
      BY <1>0, <1>1, <2>1, <3>1, <3>2, <3>4, <3>5, <3>6 DEF KnownOf, Serving
    <3>8. ASSUME NEW k \in Jobs, k # j PROVE KnownOf(k)'
      BY <1>0, <1>1, <3>3, <3>4, <3>8 DEF JobKnown, KnownOf, Serving
    <3> QED BY <3>7, <3>8 DEF JobKnown
  <2> QED BY <1>1, <2>2, <2>3
<1> QED BY <1>0, <1>1, <1>4, JobEntryKept DEF LifespanIInv, CompleteJob

LEMMA LifespanStepInv ==
  ASSUME LifespanIInv, [Next]_vars PROVE LifespanIInv'
<1>1. CASE UNCHANGED vars
  <2>1. TypeOK' /\ StackKnown' /\ Begun'
    BY <1>1 DEF vars, LifespanIInv, TypeOK, StackKnown, StackShape, InStack, Begun, Down
  <2>2. PidsKnown' /\ ClosingsShown' /\ NotYetDown' /\ Announced'
    BY <1>1 DEF vars, LifespanIInv, PidsKnown, ClosingsShown, NotYetDown, Announced, Serving, Stops, Closes
  <2>3. AppEntries' /\ Bracketed' /\ JobKnown'
    BY <1>1 DEF vars, LifespanIInv, AppEntries, Bracketed, JobKnown, KnownOf, Serving, Starts, Ends,
                OfJob, Stops, Closes
  <2> QED BY <2>1, <2>2, <2>3 DEF LifespanIInv
<1>2. CASE StartProcess
  BY <1>2, StartProcessInv
<1>3. CASE Announce
  BY <1>3, AnnounceInv
<1>4. CASE Terminate
  BY <1>4, TerminateInv
<1>5. CASE StopApplication
  BY <1>5, StopApplicationInv
<1>6. ASSUME NEW c \in Components, OpenComponent(c) PROVE LifespanIInv'
  BY <1>6, OpenComponentInv
<1>7. CASE CloseComponent
  BY <1>7, CloseComponentInv
<1>8. CASE EndLifespan
  BY <1>8, EndLifespanInv
<1>9. CASE Kill
  BY <1>9, KillInv
<1>10. ASSUME NEW j \in Jobs, ScheduleJob(j) PROVE LifespanIInv'
  BY <1>10, ScheduleJobInv
<1>11. ASSUME NEW j \in Jobs, StartJob(j) PROVE LifespanIInv'
  BY <1>11, StartJobInv
<1>12. ASSUME NEW j \in Jobs, CompleteJob(j) PROVE LifespanIInv'
  BY <1>12, CompleteJobInv
<1> QED BY <1>1, <1>2, <1>3, <1>4, <1>5, <1>6, <1>7, <1>8, <1>9, <1>10, <1>11, <1>12 DEF Next

-----------------------------------------------------------------------------
(* Theorems.                                                               *)

(* Every reachable state of the lifespan satisfies the inductive           *)
(* invariant: the phase, the stack, the journal and the jobs agree.        *)
THEOREM LifespanInvariant == Spec => []LifespanIInv
BY InitInv, LifespanStepInv, PTL DEF Spec

(* The variables have their types, and only active components are on the   *)
(* stack.                                                                  *)
THEOREM LifespanTypes == Spec => []TypeOK
<1>1. LifespanIInv => TypeOK
  BY DEF LifespanIInv
<1> QED BY <1>1, LifespanInvariant, PTL

(* Each component a lifespan entered is closed once, whichever of them,    *)
(* and whichever journal entry, fails (open, in components.py).            *)
THEOREM ComponentsClosedOnce == Spec => []ClosedOnce
BY InvClosedOnce, LifespanInvariant, PTL

(* What the journal tells of a job is what became of it, across any number *)
(* of processes and kills (run_background_job).                            *)
THEOREM EveryJobAccountedFor == Spec => []JobsAccountedFor
BY InvJobsAccountedFor, LifespanInvariant, PTL

-----------------------------------------------------------------------------
(* The script of P04, which drives the server through four scenarios.     *)

(* A process that has served, and has not been killed.                     *)
InService == {"serving", "draining", "unwind", "ended"}

Matches(i, p, event, whose) ==
  journal[i].pid = p /\ journal[i].event = event /\ journal[i].who \in whose

(* What the entries of the current process tell of its components.         *)
ClosingsMeant ==
  \A i \in DOMAIN journal :
    journal[i].pid = pid /\ Closes(journal[i]) =>
      LET c == journal[i].who IN
      /\ closeCalls[c] = 1
      /\ journal[i].event = IF <<c, "close">> \in faulty THEN "close_failed" ELSE "closed"

StartFailuresMeant ==
  /\ \A c \in Components : <<c, "enter">> \in faulty => c \notin active /\ c \notin entered
  /\ \A i \in DOMAIN journal :
       journal[i].pid = pid /\ journal[i].event = "start_failed" =>
         /\ phase \in {"unwind", "ended", "killed"}
         /\ <<journal[i].who, "enter">> \in faulty
         /\ journal[i].who = "resource" => entered = {"client"}
         /\ \A k \in DOMAIN journal :
              journal[k].pid = pid /\ journal[k].event = "start_failed" => k = i
  /\ pid > 0 /\ phase \in {"unwind", "ended"} /\ diskErrors = 0 /\ entered # Components =>
       \E i \in DOMAIN journal : journal[i].pid = pid /\ journal[i].event = "start_failed"

(* What the entries of jobs are of, and why a job failed.                  *)
JobsMeant ==
  /\ \A i \in DOMAIN journal : OfJob(journal[i]) => journal[i].who \in Jobs
  /\ \A j \in Jobs : job[j] = "failed" => diskErrors > 0

JournalMeant == ClosingsMeant /\ StartFailuresMeant /\ JobsMeant

-----------------------------------------------------------------------------
(* Only the second scenario has a job, and it has one.                     *)
OneJobPosted ==
  /\ pid < 2 \/ (pid = 2 /\ driver \in {"ready", "body"}) => \A j \in Jobs : job[j] = "none"
  /\ \A j \in Jobs : job[j] \in {"accepted", "running"} => pid = 2
  /\ \A j, k \in Jobs : job[j] # "none" /\ job[k] # "none" => j = k
  /\ \A i \in DOMAIN journal : OfJob(journal[i]) => journal[i].pid = 2

(* How a scenario leaves its server when no exception is on its way.       *)
LeftWell ==
  /\ pid = 1 => entered = Components /\ (phase \in InService \/ (phase = "killed" /\ forced # {}))
  /\ pid = 2 => phase = "killed" /\ JobStarts # {}
  /\ pid = 3 => phase = "ended"
  /\ pid = 4 => phase = "ended" /\ entered = Components

Driving == driver \in {"ready", "body", "await job", "crash", "await exit"}
Leaving == driver \in {"finally", "stopping", "down"}

ScriptStands ==
  /\ driver \in {"start", "down", "judge", "over"} => Down
  /\ driver = "ready" => pid # 3
  /\ driver = "body" =>
       /\ pid = 3 => phase \in {"client", "resource", "unwind", "ended"}
       /\ pid # 3 => phase = "serving"
  /\ driver \in {"await job", "crash"} => pid = 2 /\ phase = "serving"
  /\ driver = "crash" => JobStarts # {}
  /\ driver = "await exit" => pid = 4 /\ phase \in InService /\ entered = Components
  /\ Leaving /\ raised = "none" => LeftWell

Unasked == driver \in {"ready", "body", "await job", "crash"} => ~signalled

(* The snapshots are of the scenarios that were read.                      *)
Snapshots ==
  [closed : [Components -> Nat], active : SUBSET Components, entered : SUBSET Components,
   jobs : SUBSET {"accepted", "running", "done", "failed", "lost"}]
ScriptExceptions == {"RuntimeError", "TimeoutError", "HTTPError", "TimeoutExpired"}
DriverStates ==
  {"start", "ready", "body", "await job", "crash", "await exit", "finally", "stopping", "down",
   "judge", "over"}
ScriptTypeOK ==
  /\ pid \in 0 .. 4
  /\ driver \in DriverStates
  /\ raised \in ScriptExceptions \union {"none"}
  /\ signalled \in BOOLEAN /\ forced \subseteq 0 .. 4
  /\ final \in Seq(Snapshots)
  /\ verdict \in ScriptExceptions \union {"none", "report", "AssertionError", "NotSerialized"}
ScriptCounts ==
  /\ driver \in {"start", "judge"} => Len(final) = pid /\ raised = "none"
  /\ driver = "start" => pid < 4
  /\ driver = "judge" => pid = 4
  /\ Driving => raised = "none"
  /\ Driving \/ Leaving => pid > 0 /\ Len(final) = pid - 1
  /\ driver # "over" => verdict = "none"
  /\ driver = "over" => IF verdict \in ScriptExceptions THEN Len(final) = pid - 1 ELSE pid = 4 /\ Len(final) = 4
  /\ pid > 0 => faulty = FaultsOf(Scenarios[pid])

(* What is required of the journal of a scenario, and what that means.     *)
Once(p, event, who) == EventCount(p, event, {who}) = 1
RequiredOf(k) ==
  /\ k = 1 => \A c \in Components : Once(1, "closed", c)
  /\ k = 2 => EventCount(2, "job_started", Jobs) = 1 /\ EventCount(2, "job_completed", Jobs) = 0
  /\ k = 3 => Once(3, "start_failed", "resource") /\ Once(3, "closed", "client")
  /\ k = 4 => Once(4, "close_failed", "resource") /\ Once(4, "closed", "client")
Promised(k, seen) ==
  /\ k \in {1, 4} => seen.active = {} /\ \A c \in Components : seen.closed[c] = 1
  /\ k = 2 => seen.jobs = {"lost"} \/ (seen.jobs = {"failed"} /\ diskErrors > 0)
  /\ k = 3 => seen.active = {} /\ seen.entered = {"client"} /\ seen.closed["client"] = 1
Excused(k, seen) == diskErrors > 0 \/ forced # {} \/ (k = 2 /\ "done" \in seen.jobs)

Settled(k, seen) ==
  /\ RequiredOf(k) => Promised(k, seen)
  /\ ~RequiredOf(k) => Excused(k, seen)
ScenariosSettled == \A k \in DOMAIN final : k <= 4 /\ Settled(k, final[k])
SnapshotKept == \A k \in DOMAIN final : k <= pid /\ (k = pid => final[k] = Snapshot /\ Down)

DriverIInv ==
  /\ ScriptTypeOK /\ ScriptCounts /\ ScriptStands /\ Unasked
  /\ OneJobPosted /\ SnapshotKept /\ ScenariosSettled /\ VerdictJustified

(* The disk fails no less often than it did.                               *)
LEMMA DiskErrorsGrow ==
  ASSUME LifespanIInv, [Next]_vars
  PROVE  diskErrors \in Nat /\ diskErrors' \in Nat /\ diskErrors <= diskErrors'
<1>1. diskErrors \in Nat
  BY LifespanAssumption DEF LifespanIInv, TypeOK
<1>2. diskErrors' = diskErrors \/ diskErrors' = diskErrors + 1
  BY DEF Next, vars, StartProcess, Announce, Terminate, StopApplication, OpenComponent,
         CloseComponent, EndLifespan, Kill, ScheduleJob, StartJob, CompleteJob, Written, DiskError
<1> QED BY <1>1, <1>2

(* Who writes, and when: the process that is not down.                     *)
LEMMA JournalGrows ==
  ASSUME LifespanIInv, [Next]_vars
  PROVE  \/ journal' = journal
         \/ /\ ~Down /\ pid' = pid
            /\ \E e \in JournalEntry :
                 /\ e.pid = pid /\ journal' = Append(journal, e)
                 /\ OfJob(e) => \E j \in Jobs : StartJob(j) \/ CompleteJob(j)
<1>1. CASE StartProcess \/ Terminate \/ EndLifespan \/ Kill \/ UNCHANGED vars
           \/ \E j \in Jobs : ScheduleJob(j)
  BY <1>1 DEF StartProcess, Terminate, EndLifespan, Kill, vars, ScheduleJob
<1>2. ASSUME NEW event \in {"start_failed", "started", "application_started",
                            "application_stopping", "closed", "close_failed", "job_started",
                            "job_completed"},
             NEW who \in Components \union {"app"} \union Jobs,
             Written(event, who) \/ DiskError(event, who), pid' = pid, ~Down,
             event \in {"job_started", "job_completed"} =>
               \E j \in Jobs : StartJob(j) \/ CompleteJob(j)
      PROVE  \/ journal' = journal
             \/ \E e \in JournalEntry :
                  /\ e.pid = pid /\ journal' = Append(journal, e)
                  /\ OfJob(e) => \E j \in Jobs : StartJob(j) \/ CompleteJob(j)
  <2>1. Entry(event, who) \in JournalEntry /\ Entry(event, who).pid = pid
        /\ Entry(event, who).event = event
    BY <1>2, PidPositive, EntryType DEF LifespanIInv
  <2>2. OfJob(Entry(event, who)) => \E j \in Jobs : StartJob(j) \/ CompleteJob(j)
    BY <1>2, <2>1 DEF OfJob
  <2> QED BY <1>2, <2>1, <2>2 DEF Written, DiskError
<1>3. CASE Announce
  <2>1. ~Down /\ pid' = pid
        /\ (Written("application_started", "app") \/ DiskError("application_started", "app"))
    BY <1>3 DEF Announce, Down
  <2> QED BY <1>2, <2>1
<1>4. CASE StopApplication
  <2>1. ~Down /\ pid' = pid
        /\ (Written("application_stopping", "app") \/ DiskError("application_stopping", "app"))
    BY <1>4 DEF StopApplication, MayStop, Down
  <2> QED BY <1>2, <2>1
<1>5. CASE CloseComponent
  <2> DEFINE c == stack[Len(stack)]
             event == IF <<c, "close">> \in faulty THEN "close_failed" ELSE "closed"
  <2>1. ~Down /\ pid' = pid /\ (Written(event, c) \/ DiskError(event, c))
    BY <1>5 DEF CloseComponent, Down
  <2>2. c \in Components
    <3>1. stack \in Seq(Components) /\ stack # <<>>
      BY <1>5 DEF CloseComponent, LifespanIInv, TypeOK
    <3> QED BY <3>1
  <2> HIDE DEF c
  <2> QED BY <1>2, <2>1, <2>2
<1>6. ASSUME NEW c \in Components, OpenComponent(c)
      PROVE  ~Down /\ pid' = pid /\ \E event \in {"start_failed", "started"} :
                Written(event, c) \/ DiskError(event, c)
  BY <1>6 DEF OpenComponent, Down, Components
<1>7. ASSUME NEW j \in Jobs, StartJob(j) \/ CompleteJob(j)
      PROVE  ~Down /\ pid' = pid /\ \E event \in {"job_started", "job_completed"} :
                Written(event, j) \/ DiskError(event, j)
  BY <1>7 DEF StartJob, CompleteJob, Serving, Down
<1>8. CASE \E c \in Components : OpenComponent(c)
  BY <1>2, <1>6, <1>8
<1>9. CASE \E j \in Jobs : StartJob(j) \/ CompleteJob(j)
  BY <1>2, <1>7, <1>9
<1> QED BY <1>1, <1>3, <1>4, <1>5, <1>8, <1>9 DEF Next

(* A process that is down does nothing.                                    *)
LEMMA DownStays ==
  ASSUME Down, Next
  PROVE  StartProcess
BY DEF Next, Down, Announce, Terminate, StopApplication, MayStop, OpenComponent, Components,
       CloseComponent, EndLifespan, Kill, ScheduleJob, StartJob, CompleteJob, Serving

-----------------------------------------------------------------------------
(* What entries mean, one action after another.                            *)

(* An action that neither opens nor closes a component.                    *)
LEMMA QuietKept ==
  ASSUME LifespanIInv, JournalMeant, pid' = pid,
         UNCHANGED <<faulty, entered, active, closeCalls>>,
         \/ journal' = journal
         \/ \E e \in JournalEntry : /\ e.pid = pid /\ ~Closes(e) /\ e.event # "start_failed"
                                    /\ journal' = Append(journal, e),
         phase \in {"unwind", "ended", "killed"} => phase' \in {"unwind", "ended", "killed"},
         phase' \in {"unwind", "ended"} /\ diskErrors' = 0 /\ entered # Components =>
           phase \in {"unwind", "ended"} /\ diskErrors = 0
  PROVE  ClosingsMeant' /\ StartFailuresMeant'
<1>0. TypeOK /\ ClosingsMeant /\ StartFailuresMeant
  BY DEF LifespanIInv, JournalMeant
<1>1. /\ \A i \in DOMAIN journal : i \in DOMAIN journal' /\ journal'[i] = journal[i]
      /\ \A i \in DOMAIN journal' :
           (Closes(journal'[i]) \/ journal'[i].event = "start_failed") =>
             i \in DOMAIN journal /\ journal'[i] = journal[i]
  <2>1. CASE journal' = journal
    BY <2>1
  <2>2. ASSUME NEW e \in JournalEntry, ~Closes(e), e.event # "start_failed",
               journal' = Append(journal, e)
        PROVE  /\ \A i \in DOMAIN journal : i \in DOMAIN journal' /\ journal'[i] = journal[i]
               /\ \A i \in DOMAIN journal' :
                    (Closes(journal'[i]) \/ journal'[i].event = "start_failed") =>
                      i \in DOMAIN journal /\ journal'[i] = journal[i]
    BY <1>0, <2>2, OneMore
  <2> QED BY <2>1, <2>2
<1>2. ClosingsMeant'
  BY <1>0, <1>1 DEF ClosingsMeant, Closes
<1>3. StartFailuresMeant'
  BY <1>0, <1>1 DEF StartFailuresMeant
<1> QED BY <1>2, <1>3

LEMMA JobEntriesKept ==
  ASSUME LifespanIInv, JobsMeant,
         \/ journal' = journal
         \/ \E e \in JournalEntry : (OfJob(e) => e.who \in Jobs) /\ journal' = Append(journal, e),
         diskErrors' \in Nat, diskErrors <= diskErrors',
         \A j \in Jobs : job'[j] = "failed" => job[j] = "failed" \/ diskErrors' > 0
  PROVE  JobsMeant'
<1>0. TypeOK /\ diskErrors \in Nat
  BY LifespanAssumption DEF LifespanIInv, TypeOK
<1>1. \A i \in DOMAIN journal' : OfJob(journal'[i]) => journal'[i].who \in Jobs
  <2>1. CASE journal' = journal
    BY <2>1 DEF JobsMeant
  <2>2. ASSUME NEW e \in JournalEntry, OfJob(e) => e.who \in Jobs, journal' = Append(journal, e)
        PROVE  \A i \in DOMAIN journal' : OfJob(journal'[i]) => journal'[i].who \in Jobs
    BY <1>0, <2>2, OneMore DEF JobsMeant
  <2> QED BY <2>1, <2>2
<1>2. \A j \in Jobs : job'[j] = "failed" => diskErrors' > 0
  BY <1>0 DEF JobsMeant
<1> QED BY <1>1, <1>2 DEF JobsMeant, OfJob

LEMMA StartProcessMeant ==
  ASSUME LifespanIInv, JournalMeant, StartProcess PROVE JournalMeant'
<1>0. TypeOK /\ PidsKnown /\ JobsMeant
  BY DEF LifespanIInv, JournalMeant
<1>1. \A i \in DOMAIN journal' : journal'[i].pid # pid'
  <2>1. \A i \in DOMAIN journal : journal[i].pid \in Int
    BY <1>0, EntriesArePids
  <2> QED BY <1>0, <2>1 DEF StartProcess, PidsKnown, TypeOK
<1>2. ClosingsMeant' /\ StartFailuresMeant'
  BY <1>1 DEF ClosingsMeant, StartFailuresMeant, StartProcess
<1>3. JobsMeant'
  BY <1>0 DEF JobsMeant, StartProcess, OfJob
<1> QED BY <1>2, <1>3 DEF JournalMeant

LEMMA OpenComponentMeant ==
  ASSUME LifespanIInv, JournalMeant, NEW c \in Components, OpenComponent(c) PROVE JournalMeant'
<1> DEFINE event == IF <<c, "enter">> \in faulty THEN "start_failed" ELSE "started"
           e == Entry(event, c)
<1>0. TypeOK /\ StackKnown /\ ClosingsMeant /\ StartFailuresMeant /\ JobsMeant /\ ~Down /\ phase = c
  BY DEF LifespanIInv, OpenComponent, JournalMeant, Down, Components
<1>1. /\ pid \in 1 .. MaxProcesses /\ pid' = pid /\ job' = job
      /\ closeCalls' = closeCalls /\ faulty' = faulty
  BY <1>0, PidPositive DEF OpenComponent
<1>2. /\ e \in JournalEntry /\ e.pid = pid /\ e.event = event /\ e.who = c
  BY <1>0, <1>1, EntryType
<1>3. /\ journal' = journal \/ journal' = Append(journal, e)
      /\ diskErrors' \in 0 .. MaxDiskErrors
      /\ diskErrors' = 0 => diskErrors = 0 /\ journal' = Append(journal, e)
  BY <1>0, AppendFacts DEF OpenComponent
<1>4. \/ /\ <<c, "enter">> \in faulty /\ phase' = "unwind" /\ UNCHANGED <<active, entered>>
      \/ /\ <<c, "enter">> \notin faulty /\ active' = active \union {c}
         /\ \/ entered' = entered \union {c} /\ phase' = AfterOpen(c)
            \/ entered' = entered /\ phase' = "unwind" /\ diskErrors' > 0
  BY <1>0, LifespanAssumption DEF OpenComponent, DiskError, TypeOK
<1>5. diskErrors' \in Nat /\ diskErrors <= diskErrors' /\ diskErrors \in Nat
  BY DiskErrorsGrow, <1>0 DEF Next
<1>6. event \in {"start_failed", "started"} /\ (event = "start_failed" <=> <<c, "enter">> \in faulty)
  OBVIOUS
<1> HIDE DEF event, e
<1>7. /\ \A i \in DOMAIN journal : i \in DOMAIN journal' /\ journal'[i] = journal[i]
      /\ \A i \in DOMAIN journal' : i \in DOMAIN journal \/ (i = Len(journal) + 1 /\ journal'[i] = e)
  BY <1>0, <1>2, <1>3, OneMore
<1>8. ClosingsMeant'
  BY <1>0, <1>1, <1>2, <1>6, <1>7 DEF ClosingsMeant, Closes
<1>9. \A i \in DOMAIN journal : journal[i].pid = pid => journal[i].event # "start_failed"
  BY <1>0 DEF StartFailuresMeant, Components
<1>10. StartFailuresMeant'
  <2>1. \A d \in Components : <<d, "enter">> \in faulty' => d \notin active' /\ d \notin entered'
    BY <1>0, <1>1, <1>4 DEF StartFailuresMeant
  <2>2. ASSUME NEW i \in DOMAIN journal', journal'[i].pid = pid', journal'[i].event = "start_failed"
        PROVE  /\ phase' \in {"unwind", "ended", "killed"}
               /\ <<journal'[i].who, "enter">> \in faulty'
               /\ journal'[i].who = "resource" => entered' = {"client"}
               /\ \A k \in DOMAIN journal' :
                    journal'[k].pid = pid' /\ journal'[k].event = "start_failed" => k = i
    <3>1. i = Len(journal) + 1 /\ journal'[i] = e /\ event = "start_failed"
      BY <1>1, <1>2, <1>7, <1>9, <2>2
    <3>2. phase' = "unwind" /\ entered' = entered /\ <<c, "enter">> \in faulty
      BY <1>4, <1>6, <3>1
    <3>3. c = "resource" => entered = {"client"}
      BY <1>0 DEF StackKnown
    <3> QED BY <1>1, <1>2, <1>7, <1>9, <3>1, <3>2, <3>3
  <2>3. ASSUME phase' \in {"unwind", "ended"}, diskErrors' = 0
        PROVE  \E i \in DOMAIN journal' : journal'[i].pid = pid' /\ journal'[i].event = "start_failed"
    <3>1. event = "start_failed" /\ journal' = Append(journal, e)
      BY <1>0, <1>3, <1>4, <1>5, <1>6, <2>3 DEF AfterOpen, Components
    <3>2. Len(journal) + 1 \in DOMAIN journal' /\ journal'[Len(journal) + 1] = e
      BY <1>0, <1>2, <3>1, OneMore
    <3> QED BY <1>1, <1>2, <3>1, <3>2
  <2> QED BY <2>1, <2>2, <2>3 DEF StartFailuresMeant
<1>11. JobsMeant'
  <2>1. ~OfJob(e)
    BY <1>2, <1>6 DEF OfJob
  <2> QED BY <1>0, <1>1, <1>2, <1>3, <1>5, <2>1, JobEntriesKept
<1> QED BY <1>8, <1>10, <1>11 DEF JournalMeant

LEMMA CloseComponentMeant ==
  ASSUME LifespanIInv, JournalMeant, CloseComponent PROVE JournalMeant'
<1> DEFINE c == stack[Len(stack)]
           event == IF <<c, "close">> \in faulty THEN "close_failed" ELSE "closed"
           e == Entry(event, c)
<1>0. /\ TypeOK /\ StackKnown /\ ClosingsMeant /\ StartFailuresMeant /\ JobsMeant /\ ~Down
      /\ phase = "unwind" /\ stack # <<>>
  BY DEF LifespanIInv, CloseComponent, JournalMeant, Down
<1>1. /\ pid \in 1 .. MaxProcesses
      /\ UNCHANGED <<pid, phase, faulty, entered, job>>
      /\ closeCalls' = [closeCalls EXCEPT ![c] = @ + 1] /\ active' = active \ {c}
      /\ Written(event, c) \/ DiskError(event, c)
  BY <1>0, PidPositive DEF CloseComponent
<1>2. c \in Components /\ InStack(c)
  <2>0. stack \in Seq(Components) /\ Len(stack) <= 2 /\ Len(stack) # 0
    BY <1>0, EmptySeq DEF TypeOK, StackKnown, StackShape
  <2>1. stack \in Seq(Components) /\ (Len(stack) = 1 \/ Len(stack) = 2)
    <3>1. Len(stack) \in Nat
      BY <2>0, LenProperties
    <3>2. \A n \in Nat : n <= 2 /\ n # 0 => n = 1 \/ n = 2
      OBVIOUS
    <3> HIDE DEF c
    <3> QED BY <2>0, <3>1, <3>2
  <2>2. c = IF Len(stack) = 1 THEN "client" ELSE "resource"
    BY <1>0, <2>1 DEF StackKnown, StackShape
  <2> QED BY <2>1, <2>2 DEF InStack, Components
<1>3. /\ e \in JournalEntry /\ e.pid = pid /\ e.event = event /\ e.who = c
  BY <1>0, <1>1, <1>2, EntryType
<1>4. /\ journal' = journal \/ journal' = Append(journal, e)
      /\ diskErrors' = 0 => diskErrors = 0
  BY <1>0, <1>1, AppendFacts
<1>5. diskErrors' \in Nat /\ diskErrors <= diskErrors' /\ diskErrors \in Nat
  BY DiskErrorsGrow DEF Next
<1>6. event \in {"close_failed", "closed"} /\ (event = "close_failed" <=> <<c, "close">> \in faulty)
  OBVIOUS
<1>7. /\ closeCalls[c] = 0 /\ closeCalls'[c] = 1
      /\ \A d \in Components : d # c => closeCalls'[d] = closeCalls[d]
  <2> HIDE DEF c
  <2>1. closeCalls[c] = 0
    BY <1>0, <1>2 DEF StackKnown
  <2>2. closeCalls \in [Components -> Nat]
    BY <1>0 DEF TypeOK
  <2> QED BY <1>1, <1>2, <2>1, <2>2
<1> HIDE DEF event, e, c
<1>8. /\ \A i \in DOMAIN journal : i \in DOMAIN journal' /\ journal'[i] = journal[i]
      /\ \A i \in DOMAIN journal' : i \in DOMAIN journal \/ (i = Len(journal) + 1 /\ journal'[i] = e)
  BY <1>0, <1>3, <1>4, OneMore
<1>9. ClosingsMeant'
  <2> SUFFICES ASSUME NEW i \in DOMAIN journal', journal'[i].pid = pid', Closes(journal'[i])
               PROVE  /\ closeCalls'[journal'[i].who] = 1
                      /\ journal'[i].event = IF <<journal'[i].who, "close">> \in faulty'
                                             THEN "close_failed" ELSE "closed"
    BY DEF ClosingsMeant, Closes
  <2>1. CASE journal'[i] = e
    BY <1>1, <1>3, <1>6, <1>7, <2>1
  <2>2. CASE i \in DOMAIN journal /\ journal'[i] = journal[i]
    <3>1. journal[i].who \in Components
      BY <2>2 DEF LifespanIInv, AppEntries, Closes
    <3>2. closeCalls[journal[i].who] = 1
      BY <1>0, <1>1, <2>2 DEF ClosingsMeant
    <3>3. journal[i].event = IF <<journal[i].who, "close">> \in faulty
                             THEN "close_failed" ELSE "closed"
      BY <1>0, <1>1, <2>2 DEF ClosingsMeant
    <3> QED BY <1>1, <1>7, <2>2, <3>1, <3>2, <3>3
  <2> QED BY <1>8, <2>1, <2>2
<1>10. StartFailuresMeant'
  <2>1. \A i \in DOMAIN journal' :
          journal'[i].event = "start_failed" => i \in DOMAIN journal /\ journal'[i] = journal[i]
    BY <1>3, <1>6, <1>8
  <2>2. \A d \in Components : <<d, "enter">> \in faulty' => d \notin active' /\ d \notin entered'
    BY <1>0, <1>1 DEF StartFailuresMeant
  <2> QED BY <1>0, <1>1, <1>4, <1>8, <2>1, <2>2 DEF StartFailuresMeant
<1>11. JobsMeant'
  <2>1. ~OfJob(e)
    BY <1>3, <1>6 DEF OfJob
  <2> QED BY <1>0, <1>1, <1>3, <1>4, <1>5, <2>1, JobEntriesKept
<1> QED BY <1>9, <1>10, <1>11 DEF JournalMeant

(* What becomes of the journal and the jobs by every other step.           *)
LEMMA OtherStepsMeant ==
  ASSUME LifespanIInv, JournalMeant,
         \/ UNCHANGED vars \/ Announce \/ Terminate \/ StopApplication \/ EndLifespan \/ Kill
         \/ \E j \in Jobs : ScheduleJob(j) \/ StartJob(j) \/ CompleteJob(j)
  PROVE  JournalMeant'
<1>0. TypeOK /\ StackKnown /\ JobsMeant
  BY DEF LifespanIInv, JournalMeant
<1>1. diskErrors \in Nat /\ diskErrors' \in Nat /\ diskErrors <= diskErrors'
  BY DiskErrorsGrow DEF Next
<1>2. ASSUME NEW event \in {"application_started", "application_stopping", "job_started",
                            "job_completed"},
             NEW who \in {"app"} \union Jobs, event \in {"job_started", "job_completed"} => who \in Jobs,
             Written(event, who) \/ DiskError(event, who), ~Down,
             pid' = pid, UNCHANGED <<faulty, entered, active, closeCalls>>,
             phase \notin {"unwind", "ended", "killed"},
             phase' \in {"unwind", "ended"} /\ diskErrors' = 0 => entered = Components,
             \A j \in Jobs : job'[j] = "failed" => job[j] = "failed" \/ diskErrors' > 0
      PROVE  JournalMeant'
  <2> DEFINE e == Entry(event, who)
  <2>1. e \in JournalEntry /\ e.pid = pid /\ e.event = event /\ e.who = who
    BY <1>0, <1>2, PidPositive, EntryType
  <2>2. journal' = journal \/ journal' = Append(journal, e)
    BY <1>0, <1>2, AppendFacts
  <2> HIDE DEF e
  <2>3. ~Closes(e) /\ e.event # "start_failed" /\ (OfJob(e) => e.who \in Jobs)
    BY <1>2, <2>1 DEF Closes, OfJob
  <2>4. ClosingsMeant' /\ StartFailuresMeant'
    BY <1>2, <2>1, <2>2, <2>3, QuietKept
  <2>5. JobsMeant'
    BY <1>0, <1>1, <1>2, <2>1, <2>2, <2>3, JobEntriesKept
  <2> QED BY <2>4, <2>5 DEF JournalMeant
<1>3. ASSUME pid' = pid, UNCHANGED <<faulty, entered, active, closeCalls, journal, diskErrors>>,
             phase \in {"unwind", "ended", "killed"} => phase' \in {"unwind", "ended", "killed"},
             phase' \in {"unwind", "ended"} => phase \in {"unwind", "ended"},
             \A j \in Jobs : job'[j] = "failed" => job[j] = "failed"
      PROVE  JournalMeant'
  <2>1. ClosingsMeant' /\ StartFailuresMeant'
    BY <1>3, QuietKept
  <2>2. JobsMeant'
    BY <1>0, <1>1, <1>3, JobEntriesKept
  <2> QED BY <2>1, <2>2 DEF JournalMeant
<1>4. CASE UNCHANGED vars \/ Terminate \/ EndLifespan
  BY <1>3, <1>4 DEF vars, Terminate, EndLifespan
<1>5. CASE Kill
  <2>1. \A j \in Jobs : job'[j] = "failed" => job[j] = "failed"
    BY <1>5 DEF Kill
  <2> QED BY <1>3, <1>5, <2>1 DEF Kill, Down
<1>6. CASE Announce
  <2>1. phase' \in {"unwind", "ended"} /\ diskErrors' = 0 => FALSE
    BY <1>1, <1>6 DEF Announce, DiskError
  <2> QED BY <1>2, <1>6, <2>1 DEF Announce, Down
<1>7. CASE StopApplication
  <2>1. entered = Components
    <3>0. Len(stack) = 2
      BY <1>0, <1>7 DEF StopApplication, MayStop, StackKnown
    <3>1. \A c \in Components : c \in entered
      BY <1>0, <3>0 DEF StackKnown, InStack
    <3>2. entered \subseteq Components
      BY <1>0 DEF TypeOK
    <3> QED BY <3>1, <3>2
  <2> QED BY <1>2, <1>7, <2>1 DEF StopApplication, MayStop, Down
<1>8. ASSUME NEW j \in Jobs, ScheduleJob(j) PROVE JournalMeant'
  <2>1. \A k \in Jobs : job'[k] = "failed" => job[k] = "failed"
    BY <1>0, <1>8 DEF ScheduleJob, TypeOK
  <2> QED BY <1>3, <1>8, <2>1 DEF ScheduleJob
<1>9. ASSUME NEW j \in Jobs, StartJob(j) \/ CompleteJob(j) PROVE JournalMeant'
  <2>1. \A k \in Jobs : job'[k] = "failed" => job[k] = "failed" \/ diskErrors' > 0
    BY <1>0, <1>1, <1>9 DEF StartJob, CompleteJob, TypeOK, DiskError
  <2>2. /\ ~Down /\ phase \notin {"unwind", "ended", "killed"} /\ phase' = phase
        /\ pid' = pid /\ UNCHANGED <<faulty, entered, active, closeCalls>>
        /\ \E event \in {"job_started", "job_completed"} : Written(event, j) \/ DiskError(event, j)
    BY <1>9 DEF StartJob, CompleteJob, Serving, Down
  <2> QED BY <1>2, <2>1, <2>2
<1> QED BY <1>4, <1>5, <1>6, <1>7, <1>8, <1>9

LEMMA JournalMeantInit == Init => JournalMeant
BY DEF Init, JournalMeant, ClosingsMeant, StartFailuresMeant, JobsMeant

LEMMA JournalMeantStep ==
  ASSUME LifespanIInv, JournalMeant, [Next]_vars PROVE JournalMeant'
BY StartProcessMeant, OpenComponentMeant, CloseComponentMeant, OtherStepsMeant DEF Next

(* What the journal tells is what the server does and has done: a closing  *)
(* entry is of a component that was closed, a failed start is told once    *)
(* and of the component that failed, and a job fails of a disk error.      *)
THEOREM JournalTells == Spec => []JournalMeant
BY JournalMeantInit, JournalMeantStep, LifespanInvariant, PTL DEF Spec

-----------------------------------------------------------------------------
(* The script.                                                             *)

(* Whatever the script does, the server goes on as one of Lifespan.        *)
LEMMA DriverNextIsNext ==
  ASSUME [DriverNext]_allDriverVars PROVE [Next]_vars
<1>1. CASE UNCHANGED allDriverVars
  BY <1>1 DEF allDriverVars
<1>2. CASE ServerStep
  BY <1>2 DEF ServerStep, Next
<1>3. CASE DriverStep
  BY <1>3 DEF DriverStep, Launch, WaitUntilReady, MeasureRequests, PostJob, WaitForEvent,
              CrashServer, StopInBody, WaitForExit, Finally, AwaitStop, StopByForce, ReadEvents,
              Judge, Next
<1> QED BY <1>1, <1>2, <1>3 DEF DriverNext

LEMMA ScenarioNames ==
  /\ Len(Scenarios) = 4
  /\ Scenarios[1] = "graceful" /\ Scenarios[2] = "crash"
  /\ Scenarios[3] = "startup-failure" /\ Scenarios[4] = "shutdown-failure"
BY DEF Scenarios

LEMMA ScenarioFaults ==
  /\ FaultsOf(Scenarios[1]) = {} /\ FaultsOf(Scenarios[2]) = {}
  /\ FaultsOf(Scenarios[3]) = {<<"resource", "enter">>}
  /\ FaultsOf(Scenarios[4]) = {<<"resource", "close">>}
<1>1. /\ FaultsOf("graceful") = {} /\ FaultsOf("crash") = {}
      /\ FaultsOf("startup-failure") = {<<"resource", "enter">>}
      /\ FaultsOf("shutdown-failure") = {<<"resource", "close">>}
  BY Zenon DEF FaultsOf
<1> QED BY <1>1, ScenarioNames

-----------------------------------------------------------------------------
(* Counting entries.                                                       *)

EventsAt(p, event, whose) == {i \in DOMAIN journal : Matches(i, p, event, whose)}

LEMMA CountIsOfEvents ==
  ASSUME TypeOK, NEW p, NEW event, NEW whose
  PROVE  /\ EventCount(p, event, whose) = Cardinality(EventsAt(p, event, whose))
         /\ IsFiniteSet(EventsAt(p, event, whose))
<1>1. EventCount(p, event, whose) = Cardinality(EventsAt(p, event, whose))
  BY DEF EventCount, EventsAt, Matches
<1>2. Len(journal) \in Nat /\ DOMAIN journal = 1 .. Len(journal)
  BY LenProperties DEF TypeOK
<1>3. IsFiniteSet(DOMAIN journal)
  BY <1>2, FS_Interval
<1>4. EventsAt(p, event, whose) \subseteq DOMAIN journal
  BY DEF EventsAt
<1> QED BY <1>1, <1>3, <1>4, FS_Subset

LEMMA CountNone ==
  ASSUME TypeOK, NEW p, NEW event, NEW whose
  PROVE  EventCount(p, event, whose) = 0 <=> \A i \in DOMAIN journal : ~Matches(i, p, event, whose)
<1>1. EventCount(p, event, whose) = 0 <=> EventsAt(p, event, whose) = {}
  BY CountIsOfEvents, FS_EmptySet
<1> QED BY <1>1 DEF EventsAt

LEMMA CountOne ==
  ASSUME TypeOK, NEW p, NEW event, NEW whose
  PROVE  EventCount(p, event, whose) = 1 <=>
           \E i \in DOMAIN journal :
             /\ Matches(i, p, event, whose)
             /\ \A k \in DOMAIN journal : Matches(k, p, event, whose) => k = i
<1> DEFINE S == EventsAt(p, event, whose)
<1>1. EventCount(p, event, whose) = Cardinality(S) /\ IsFiniteSet(S)
  BY CountIsOfEvents
<1> HIDE DEF S
<1>2. Cardinality(S) = 1 <=> \E i : S = {i}
  BY <1>1, FS_Singleton
<1>3. ASSUME NEW i
      PROVE  S = {i} <=> /\ i \in DOMAIN journal /\ Matches(i, p, event, whose)
                         /\ \A k \in DOMAIN journal : Matches(k, p, event, whose) => k = i
  BY DEF S, EventsAt
<1> QED BY <1>1, <1>2, <1>3

(* What a scenario wrote is final once its server is down.                 *)
LEMMA CountsKept ==
  ASSUME LifespanIInv, [Next]_vars, NEW p, p # pid \/ Down, NEW event, NEW whose
  PROVE  EventCount(p, event, whose)' = EventCount(p, event, whose)
<1>1. CASE journal' = journal
  BY <1>1 DEF EventCount
<1>2. ASSUME NEW e \in JournalEntry, ~Down, e.pid = pid, journal' = Append(journal, e)
      PROVE  EventCount(p, event, whose)' = EventCount(p, event, whose)
  <2>1. /\ DOMAIN journal' = DOMAIN journal \union {Len(journal) + 1}
        /\ journal'[Len(journal) + 1] = e
        /\ \A i \in DOMAIN journal : journal'[i] = journal[i]
    BY <1>2, OneMore DEF LifespanIInv
  <2>2. {i \in DOMAIN journal' :
           journal'[i].pid = p /\ journal'[i].event = event /\ journal'[i].who \in whose}
        = {i \in DOMAIN journal :
             journal[i].pid = p /\ journal[i].event = event /\ journal[i].who \in whose}
    BY <1>2, <2>1
  <2> QED BY <2>2 DEF EventCount
<1> QED BY <1>1, <1>2, JournalGrows

LEMMA RequiredKept ==
  ASSUME LifespanIInv, [Next]_vars, NEW k, k # pid \/ Down
  PROVE  RequiredOf(k)' <=> RequiredOf(k)
<1>1. CASE k = 1
  BY <1>1, CountsKept DEF RequiredOf, Once
<1>2. CASE k = 2
  BY <1>2, CountsKept DEF RequiredOf, Once
<1>3. CASE k = 3
  BY <1>3, CountsKept DEF RequiredOf, Once
<1>4. CASE k = 4
  BY <1>4, CountsKept DEF RequiredOf, Once
<1>5. CASE k \notin {1, 2, 3, 4}
  BY <1>5 DEF RequiredOf
<1> QED BY <1>1, <1>2, <1>3, <1>4, <1>5

(* What has been read stays as it was.                                     *)
LEMMA SnapshotsKept ==
  ASSUME LifespanIInv, [Next]_vars, ScriptTypeOK, SnapshotKept, final' = final
  PROVE  SnapshotKept'
<1>1. \A k \in DOMAIN final : k \in Int
  BY LenProperties DEF ScriptTypeOK
<1>2. pid \in Nat
  BY LifespanAssumption DEF LifespanIInv, TypeOK
<1>3. CASE UNCHANGED vars
  BY <1>3 DEF SnapshotKept, Snapshot, Down, vars
<1>4. CASE StartProcess
  BY <1>1, <1>2, <1>4 DEF SnapshotKept, StartProcess
<1>5. CASE ~Down
  <2>1. pid' = pid
    BY <1>5 DEF Next, vars, StartProcess, Announce, Terminate, StopApplication, OpenComponent,
           CloseComponent, EndLifespan, Kill, ScheduleJob, StartJob, CompleteJob
  <2> QED BY <1>5, <2>1 DEF SnapshotKept
<1> QED BY <1>3, <1>4, <1>5, DownStays

LEMMA SettledKept ==
  ASSUME LifespanIInv, [Next]_vars, SnapshotKept, ScenariosSettled, final' = final,
         forced \subseteq forced'
  PROVE  ScenariosSettled'
<1>1. diskErrors \in Nat /\ diskErrors' \in Nat /\ diskErrors <= diskErrors'
  BY DiskErrorsGrow
<1> SUFFICES ASSUME NEW k \in DOMAIN final
             PROVE  Settled(k, final[k])'
  BY DEF ScenariosSettled, Settled, RequiredOf, Promised, Excused, Once, EventCount
<1>2. Settled(k, final[k])
  BY DEF ScenariosSettled
<1>3. RequiredOf(k)' <=> RequiredOf(k)
  BY RequiredKept DEF SnapshotKept
<1>4. Promised(k, final[k]) => Promised(k, final[k])'
  BY <1>1 DEF Promised
<1>5. Excused(k, final[k]) => Excused(k, final[k])'
  BY <1>1 DEF Excused
<1> QED BY <1>2, <1>3, <1>4, <1>5 DEF Settled

LEMMA ReadingsKept ==
  ASSUME LifespanIInv, DriverIInv, [Next]_vars, final' = final, forced \subseteq forced',
         verdict = "none", verdict' = "none"
  PROVE  SnapshotKept' /\ ScenariosSettled' /\ VerdictJustified'
<1>1. SnapshotKept' /\ ScenariosSettled'
  BY SnapshotsKept, SettledKept DEF DriverIInv
<1>2. VerdictJustified'
  BY DEF VerdictJustified
<1> QED BY <1>1, <1>2

-----------------------------------------------------------------------------
(* One lemma per action: first those that only move the script on.         *)

LEMMA DriverMoves ==
  ASSUME LifespanIInv, DriverIInv, UNCHANGED <<vars, final, forced, verdict>>,
         Driving \/ Leaving, Driving' \/ Leaving', Driving' => raised' = "none",
         raised' \in ScriptExceptions \union {"none"}, signalled' \in BOOLEAN,
         pid = 2 /\ driver' \in {"ready", "body"} => driver \in {"ready", "body"},
         ScriptStands', Unasked'
  PROVE  DriverIInv'
<1>0. driver \notin {"start", "judge", "over"} /\ driver' \notin {"start", "judge", "over"}
  BY DEF Driving, Leaving
<1>1. verdict = "none" /\ verdict' = "none"
  BY <1>0 DEF DriverIInv, ScriptCounts
<1>2. SnapshotKept' /\ ScenariosSettled' /\ VerdictJustified'
  BY <1>1, ReadingsKept
<1>3. ScriptTypeOK'
  BY DEF DriverIInv, ScriptTypeOK, vars, DriverStates, Driving, Leaving
<1>4. ScriptCounts'
  BY <1>0 DEF DriverIInv, ScriptCounts, vars
<1>5. OneJobPosted'
  BY DEF DriverIInv, OneJobPosted, vars, OfJob
<1> QED BY <1>2, <1>3, <1>4, <1>5 DEF DriverIInv

LEMMA PidType == DriverIInv => pid \in Int /\ pid \in 0 .. 4
<1>1. DriverIInv => pid \in 0 .. 4
  BY DEF DriverIInv, ScriptTypeOK
<1> QED BY <1>1

LEMMA ScenarioOf ==
  ASSUME DriverIInv, Driving \/ Leaving
  PROVE  /\ pid \in 1 .. 4
         /\ Name = "graceful" <=> pid = 1 
         /\ Name = "crash" <=> pid = 2
         /\ Name = "startup-failure" <=> pid = 3
         /\ Name = "shutdown-failure" <=> pid = 4
<1>1. pid \in 1 .. 4
  BY DEF DriverIInv, ScriptTypeOK, ScriptCounts
<1> QED BY <1>1, ScenarioNames DEF Name

(* While it serves, both components are entered.                           *)
LEMMA ServingEntered ==
  ASSUME LifespanIInv, Serving
  PROVE  entered = Components
<1>1. Len(stack) = 2
  BY DEF LifespanIInv, StackKnown, Serving
<1>2. \A c \in Components : c \in entered
  BY <1>1 DEF LifespanIInv, StackKnown, InStack
<1>3. entered \subseteq Components
  BY DEF LifespanIInv, TypeOK
<1> QED BY <1>2, <1>3

LEMMA WaitUntilReadyKept ==
  ASSUME LifespanIInv, DriverIInv, WaitUntilReady PROVE DriverIInv'
<1>1. UNCHANGED <<vars, signalled, final, forced, verdict>> /\ driver = "ready"
  BY DEF WaitUntilReady
<1>2. \/ driver' = "body" /\ phase = "serving" /\ raised' = raised
      \/ driver' = "finally" /\ raised' \in ScriptExceptions
  BY DEF WaitUntilReady, Leave, ScriptExceptions
<1>3. raised = "none" /\ pid # 3
  BY <1>1 DEF DriverIInv, ScriptCounts, ScriptStands, Driving
<1>4. ScriptStands'
  BY <1>1, <1>2, <1>3 DEF ScriptStands, Leaving, ScriptExceptions, vars
<1>9. Unasked'
  BY DEF DriverIInv, Unasked, WaitUntilReady, Leave
<1> QED BY <1>1, <1>9, <1>2, <1>3, <1>4, DriverMoves
        DEF Driving, Leaving, DriverIInv, ScriptTypeOK, ScriptExceptions

LEMMA MeasureRequestsKept ==
  ASSUME LifespanIInv, DriverIInv, MeasureRequests PROVE DriverIInv'
<1>1. /\ UNCHANGED <<vars, signalled, final, forced, verdict>> /\ driver = "body" /\ pid = 1
      /\ driver' = "finally"
      /\ (raised' = "none" /\ phase = "serving") \/ raised' = "HTTPError"
  BY ScenarioOf DEF MeasureRequests, Leave, Driving
<1>2. phase = "serving" => entered = Components
  BY ServingEntered DEF Serving
<1>3. ScriptStands'
  BY <1>1, <1>2 DEF ScriptStands, Leaving, LeftWell, InService, vars
<1>9. Unasked'
  BY DEF DriverIInv, Unasked, MeasureRequests, Leave
<1> QED BY <1>1, <1>9, <1>3, DriverMoves
        DEF Driving, Leaving, DriverIInv, ScriptTypeOK, ScriptExceptions

LEMMA WaitForEventKept ==
  ASSUME LifespanIInv, DriverIInv, WaitForEvent PROVE DriverIInv'
<1>1. /\ UNCHANGED <<vars, signalled, final, forced, verdict>> /\ driver = "await job"
      /\ \/ driver' = "crash" /\ raised' = raised /\ JobStarts # {}
         \/ driver' = "finally" /\ raised' = "TimeoutError"
  BY DEF WaitForEvent, Leave
<1>2. raised = "none" /\ pid = 2 /\ phase = "serving"
  BY <1>1 DEF DriverIInv, ScriptCounts, ScriptStands, Driving
<1>3. JobStarts' = JobStarts
  BY <1>1 DEF JobStarts, vars
<1>4. ScriptStands'
  BY <1>1, <1>2, <1>3 DEF ScriptStands, Leaving, vars
<1>9. Unasked'
  BY DEF DriverIInv, Unasked, WaitForEvent, Leave
<1> QED BY <1>1, <1>9, <1>2, <1>4, DriverMoves
        DEF Driving, Leaving, DriverIInv, ScriptTypeOK, ScriptExceptions

LEMMA StopInBodyKept ==
  ASSUME LifespanIInv, DriverIInv, StopInBody PROVE DriverIInv'
<1>1. /\ UNCHANGED <<vars, raised, final, forced, verdict>> /\ driver = "body" /\ pid = 4
      /\ driver' = "await exit"
  BY ScenarioOf DEF StopInBody, Driving
<1>2. raised = "none" /\ (pid # 3 => phase = "serving") /\ pid \in Int
  BY <1>1, PidType DEF DriverIInv, ScriptCounts, ScriptStands, Driving
<1>3. pid # 3
  <2>1. pid = 4
    BY <1>1
  <2> QED BY <2>1
<1>4. entered = Components
  BY <1>2, <1>3, ServingEntered DEF Serving
<1>5. signalled' \in BOOLEAN
  BY DEF StopInBody
<1>6. ScriptStands'
  BY <1>1, <1>2, <1>3, <1>4 DEF ScriptStands, Leaving, InService, vars
<1>9. Unasked'
  BY DEF DriverIInv, Unasked, StopInBody, Leave
<1> QED BY <1>1, <1>9, <1>2, <1>5, <1>6, DriverMoves
        DEF Driving, Leaving, DriverIInv, ScriptTypeOK, ScriptExceptions

LEMMA WaitForExitKept ==
  ASSUME LifespanIInv, DriverIInv, WaitForExit PROVE DriverIInv'
<1>1. /\ UNCHANGED <<vars, signalled, final, forced, verdict>>
      /\ driver = "await exit" \/ (driver = "body" /\ pid = 3)
      /\ driver' = "finally"
      /\ (raised' = "none" /\ Down) \/ raised' = "TimeoutExpired"
  BY ScenarioOf DEF WaitForExit, Leave, Driving
<1>2. \/ pid = 4 /\ phase \in InService /\ entered = Components
      \/ pid = 3 /\ phase \in {"client", "resource", "unwind", "ended"}
  BY <1>1 DEF DriverIInv, ScriptStands
<1>3. ScriptStands'
  <2>1. raised' = "none" => LeftWell
    <3>1. raised' = "none" => phase = "ended"
      BY <1>1, <1>2 DEF InService, Down
    <3>2. CASE pid = 3
      BY <3>1, <3>2 DEF LeftWell
    <3>3. CASE pid = 4 /\ entered = Components
      BY <3>1, <3>3 DEF LeftWell
    <3> QED BY <1>2, <3>2, <3>3
  <2>2. LeftWell' <=> LeftWell
    BY <1>1 DEF LeftWell, JobStarts, vars
  <2> QED BY <1>1, <2>1, <2>2 DEF ScriptStands, Leaving
<1>9. Unasked'
  BY DEF DriverIInv, Unasked, WaitForExit, Leave
<1> QED BY <1>1, <1>9, <1>3, DriverMoves
        DEF Driving, Leaving, DriverIInv, ScriptTypeOK, ScriptExceptions

LEMMA FinallyKept ==
  ASSUME LifespanIInv, DriverIInv, Finally PROVE DriverIInv'
<1>1. /\ UNCHANGED <<vars, raised, final, forced, verdict>> /\ driver = "finally"
      /\ signalled' \in BOOLEAN
      /\ driver' = "stopping" \/ (driver' = "down" /\ Down)
  BY DEF Finally, DriverIInv, ScriptTypeOK
<1>2. raised = "none" => LeftWell
  BY <1>1 DEF DriverIInv, ScriptStands, Leaving
<1>3. LeftWell' <=> LeftWell
  BY <1>1 DEF LeftWell, JobStarts, vars
<1>4. ScriptStands'
  BY <1>1, <1>2, <1>3 DEF ScriptStands, Leaving, Down, vars
<1>9. Unasked'
  BY DEF DriverIInv, Unasked, Finally, Leave
<1> QED BY <1>1, <1>9, <1>4, DriverMoves
        DEF Driving, Leaving, DriverIInv, ScriptTypeOK, ScriptExceptions

-----------------------------------------------------------------------------
(* The actions that start and stop a server.                               *)

LEMMA LaunchKept ==
  ASSUME LifespanIInv, DriverIInv, Launch PROVE DriverIInv'
<1>1. /\ driver = "start" /\ pid < 4 /\ StartProcess
      /\ faulty' = FaultsOf(Scenarios[pid + 1])
      /\ driver' = IF Scenarios[pid + 1] = "startup-failure" THEN "body" ELSE "ready"
      /\ signalled' = FALSE /\ UNCHANGED <<raised, final, forced, verdict>>
  BY ScenarioNames DEF Launch
<1>2. /\ Down /\ pid \in 0 .. 3 /\ pid' = pid + 1 /\ phase' = "client"
      /\ UNCHANGED <<job, journal, diskErrors>>
  BY <1>1 DEF StartProcess, DriverIInv, ScriptTypeOK
<1>3. raised = "none" /\ verdict = "none" /\ Len(final) = pid
  BY <1>1 DEF DriverIInv, ScriptCounts
<1>4. /\ pid' \in 1 .. 4 /\ Scenarios[pid'] = Scenarios[pid + 1]
      /\ Scenarios[pid'] = "startup-failure" <=> pid' = 3
  BY <1>2, ScenarioNames
<1>5. driver' = IF pid' = 3 THEN "body" ELSE "ready"
  BY <1>1, <1>4
<1>6. SnapshotKept' /\ ScenariosSettled' /\ VerdictJustified'
  BY <1>1, <1>3, ReadingsKept DEF Next
<1>7. ScriptTypeOK'
  <2>1. signalled' \in BOOLEAN
    BY <1>1
  <2>2. pid' \in 0 .. 4
    BY <1>4
  <2>3. driver' \in DriverStates
    BY <1>5 DEF DriverStates
  <2> QED BY <1>1, <2>1, <2>2, <2>3 DEF DriverIInv, ScriptTypeOK
<1>8. ScriptCounts'
  BY <1>1, <1>2, <1>3, <1>4, <1>5 DEF ScriptCounts, Driving, Leaving
<1>9. ScriptStands'
  BY <1>1, <1>2, <1>4, <1>5 DEF ScriptStands, Leaving
<1>10. OneJobPosted'
  <2>1. \A j \in Jobs : job[j] \notin {"accepted", "running"}
    BY <1>2 DEF LifespanIInv, JobKnown, KnownOf, Serving, Down
  <2>2. pid' <= 2 => \A j \in Jobs : job[j] = "none"
    BY <1>2 DEF DriverIInv, OneJobPosted
  <2> QED BY <1>2, <1>4, <2>1, <2>2 DEF DriverIInv, OneJobPosted, OfJob
<1>11. Unasked'
  BY DEF DriverIInv, Unasked, Launch, Leave
<1> QED BY <1>11, <1>6, <1>7, <1>8, <1>9, <1>10 DEF DriverIInv

LEMMA PostJobKept ==
  ASSUME LifespanIInv, DriverIInv, PostJob PROVE DriverIInv'
<1>1. /\ driver = "body" /\ pid = 2 /\ UNCHANGED <<signalled, final, forced, verdict>>
      /\ \/ driver' = "await job" /\ raised' = raised /\ phase = "serving"
         \/ driver' = "finally" /\ raised' = "HTTPError"
  BY ScenarioOf DEF PostJob, Leave, Driving
<1>2. UNCHANGED vars \/ \E j \in Jobs : ScheduleJob(j)
  BY DEF PostJob
<1>3. raised = "none" /\ verdict = "none" /\ pid \in Int
  BY <1>1, PidType DEF DriverIInv, ScriptCounts, ScriptStands, Driving
<1>4. UNCHANGED <<pid, phase, faulty, journal, diskErrors>>
  BY <1>2 DEF vars, ScheduleJob
<1>5. SnapshotKept' /\ ScenariosSettled' /\ VerdictJustified'
  BY <1>1, <1>2, <1>3, ReadingsKept DEF Next
<1>6. ScriptTypeOK'
  BY <1>1, <1>4 DEF DriverIInv, ScriptTypeOK, DriverStates, ScriptExceptions
<1>7. ScriptCounts'
  BY <1>1, <1>3, <1>4 DEF DriverIInv, ScriptCounts, Driving, Leaving
<1>8. ScriptStands'
  BY <1>1, <1>3, <1>4 DEF ScriptStands, Leaving
<1>9. OneJobPosted'
  <2>1. \A j \in Jobs : job[j] = "none"
    BY <1>1 DEF DriverIInv, OneJobPosted
  <2>2. \A j, k \in Jobs : job'[j] # "none" /\ job'[k] # "none" => j = k
    <3>1. CASE UNCHANGED vars
      BY <2>1, <3>1 DEF vars
    <3>2. ASSUME NEW j \in Jobs, ScheduleJob(j)
          PROVE  \A k \in Jobs : job'[k] # "none" => k = j
      BY <2>1, <3>2 DEF ScheduleJob, LifespanIInv, TypeOK
    <3> QED BY <1>2, <3>1, <3>2
  <2>3. pid' = 2 /\ driver' \notin {"ready", "body"} /\ journal' = journal
    BY <1>1, <1>4
  <2>4. \A i \in DOMAIN journal : OfJob(journal[i]) => journal[i].pid = 2
    BY DEF DriverIInv, OneJobPosted
  <2> QED BY <2>2, <2>3, <2>4 DEF OneJobPosted, OfJob
<1>11. Unasked'
  BY DEF DriverIInv, Unasked, PostJob, Leave
<1> QED BY <1>11, <1>5, <1>6, <1>7, <1>8, <1>9 DEF DriverIInv

(* A kill leaves the jobs posted as few, and none underway.                *)
LEMMA KillPostsNone ==
  ASSUME LifespanIInv, DriverIInv, Kill, driver' \notin {"ready", "body"} \/ pid # 2
  PROVE  OneJobPosted'
<1>1. \A j \in Jobs : job'[j] = IF j \in Underway THEN "lost" ELSE job[j]
  BY DEF Kill
<1>2. \A j \in Jobs : (job'[j] # "none" <=> job[j] # "none")
                      /\ (job'[j] \in {"accepted", "running"} => job[j] \in {"accepted", "running"})
  BY <1>1 DEF Underway
<1>3. pid' = pid /\ journal' = journal /\ pid \in Int
  BY DEF Kill, DriverIInv, ScriptTypeOK
<1>4. pid < 2 => \A j \in Jobs : job[j] = "none"
  BY DEF DriverIInv, OneJobPosted
<1> QED BY <1>2, <1>3, <1>4 DEF DriverIInv, OneJobPosted, OfJob

LEMMA CrashServerKept ==
  ASSUME LifespanIInv, DriverIInv, CrashServer PROVE DriverIInv'
<1>1. /\ driver = "crash" /\ driver' = "finally" /\ raised' \in {"none", "TimeoutExpired"}
      /\ UNCHANGED <<signalled, final, forced, verdict>>
  BY DEF CrashServer, Leave
<1>2. pid = 2 /\ phase = "serving" /\ JobStarts # {} /\ verdict = "none" /\ Len(final) = pid - 1
  BY <1>1 DEF DriverIInv, ScriptStands, ScriptCounts, Driving
<1>3. Kill
  BY <1>2 DEF CrashServer, Down
<1>4. UNCHANGED <<pid, faulty, journal, diskErrors>> /\ phase' = "killed"
  BY <1>3 DEF Kill
<1>5. SnapshotKept' /\ ScenariosSettled' /\ VerdictJustified'
  BY <1>1, <1>2, <1>3, ReadingsKept DEF Next
<1>6. ScriptTypeOK'
  BY <1>1, <1>4 DEF DriverIInv, ScriptTypeOK, DriverStates, ScriptExceptions
<1>7. ScriptCounts'
  BY <1>1, <1>2, <1>4 DEF DriverIInv, ScriptCounts, Driving, Leaving
<1>8. LeftWell'
  <2>1. JobStarts' = JobStarts
    BY <1>4 DEF JobStarts
  <2>2. pid' \in Int
    BY <1>6 DEF ScriptTypeOK
  <2> QED BY <1>2, <1>4, <2>1, <2>2 DEF LeftWell
<1>9. ScriptStands'
  BY <1>1, <1>8 DEF ScriptStands, Leaving
<1>10. OneJobPosted'
  BY <1>1, <1>3, KillPostsNone
<1>11. Unasked'
  BY DEF DriverIInv, Unasked, CrashServer, Leave
<1> QED BY <1>11, <1>5, <1>6, <1>7, <1>9, <1>10 DEF DriverIInv

LEMMA AwaitStopKept ==
  ASSUME LifespanIInv, DriverIInv, AwaitStop PROVE DriverIInv'
<1>1. /\ driver = "stopping" /\ driver' = "down"
      /\ UNCHANGED <<signalled, final, verdict>>
  BY DEF AwaitStop
<1>0. Unasked'
  BY DEF Unasked, AwaitStop
<1>2. CASE Down /\ UNCHANGED <<vars, forced, raised>>
  <2>1. LeftWell' <=> LeftWell
    BY <1>2 DEF LeftWell, JobStarts, vars
  <2>2. raised = "none" => LeftWell
    BY <1>1 DEF DriverIInv, ScriptStands, Leaving
  <2>3. ScriptStands'
    BY <1>1, <1>2, <2>1, <2>2 DEF ScriptStands, Leaving, Down, vars
  <2> QED BY <1>0, <1>1, <1>2, <2>3, DriverMoves DEF Driving, Leaving, DriverIInv, ScriptTypeOK
<1>3. CASE /\ ~Down /\ Kill /\ forced' = forced \union {pid}
           /\ raised' \in {raised, "TimeoutExpired"}
  <2>1. UNCHANGED <<pid, faulty, entered, journal, diskErrors>> /\ phase' = "killed" /\ forced' # {}
    BY <1>3 DEF Kill
  <2>2. verdict = "none" /\ pid > 0 /\ Len(final) = pid - 1 /\ pid \in 0 .. 4
    BY <1>1 DEF DriverIInv, ScriptCounts, ScriptTypeOK, Leaving
  <2>3. SnapshotKept' /\ ScenariosSettled' /\ VerdictJustified'
    BY <1>1, <1>3, <2>2, ReadingsKept DEF Next
  <2>4. ScriptTypeOK'
    BY <1>1, <1>3, <2>1, <2>2 DEF DriverIInv, ScriptTypeOK, DriverStates, ScriptExceptions
  <2>5. ScriptCounts'
    BY <1>1, <2>1, <2>2 DEF DriverIInv, ScriptCounts, Driving, Leaving
  <2>6. raised = "none" => pid = 1 /\ entered = Components
    <3> SUFFICES ASSUME raised = "none" PROVE pid = 1 /\ entered = Components
      OBVIOUS
    <3>1. LeftWell
      BY <1>1 DEF DriverIInv, ScriptStands, Leaving
    <3>2. pid \notin {2, 3, 4}
      BY <1>3, <3>1 DEF LeftWell, Down
    <3> QED BY <2>2, <3>1, <3>2 DEF LeftWell
  <2>7. raised' = "none" => LeftWell'
    BY <1>3, <2>1, <2>6 DEF LeftWell
  <2>8. ScriptStands'
    BY <1>1, <2>1, <2>7 DEF ScriptStands, Leaving, Down
  <2>9. OneJobPosted'
    BY <1>1, <1>3, KillPostsNone
  <2> QED BY <1>0, <2>3, <2>4, <2>5, <2>8, <2>9 DEF DriverIInv
<1> QED BY <1>2, <1>3 DEF AwaitStop, StopByForce

-----------------------------------------------------------------------------
(* What the server does by itself.                                         *)

(* A server that serves goes on until it is told to stop, and one that     *)
(* stops goes on to its end.                                               *)
LEMMA ServiceGoesOn ==
  ASSUME ServerStep
  PROVE  /\ ~Down /\ pid' = pid /\ faulty' = faulty /\ UNCHANGED driverVars
         /\ phase \in InService => phase' \in InService /\ entered' = entered
         /\ phase = "serving" /\ ~signalled /\ driver # "ready" => phase' = "serving"
<1>1. CASE \E j \in Jobs : StartJob(j) \/ CompleteJob(j)
  BY <1>1 DEF ServerStep, StartJob, CompleteJob, Serving, Down, InService
<1>2. CASE \E c \in Components : OpenComponent(c)
  BY <1>2 DEF ServerStep, OpenComponent, Components, Down, InService
<1>3. CASE Announce \/ StopApplication \/ CloseComponent \/ EndLifespan
  BY <1>3 DEF ServerStep, Announce, StopApplication, MayStop, CloseComponent, EndLifespan, Down, InService
<1>4. CASE (signalled \/ PortTaken) /\ Terminate
  BY <1>4 DEF ServerStep, PortTaken, Terminate, Down, InService
<1>5. CASE signalled /\ phase = "client" /\ Kill
  BY <1>5 DEF ServerStep, Kill, Down, InService
<1> QED BY <1>1, <1>2, <1>3, <1>4, <1>5 DEF ServerStep

(* A start that will fail does not serve.                                  *)
LEMMA FailedStartEnds ==
  ASSUME ServerStep, phase \in {"client", "resource", "unwind", "ended"}, ~signalled,
         <<"resource", "enter">> \in faulty
  PROVE  phase' \in {"client", "resource", "unwind", "ended"}
<1>1. CASE \E j \in Jobs : StartJob(j) \/ CompleteJob(j)
  BY <1>1 DEF StartJob, CompleteJob, Serving
<1>2. CASE \E c \in Components : OpenComponent(c)
  BY <1>2 DEF OpenComponent, Components, AfterOpen
<1>3. CASE Announce \/ StopApplication \/ CloseComponent \/ EndLifespan
  BY <1>3 DEF Announce, StopApplication, MayStop, CloseComponent, EndLifespan
<1>4. CASE Terminate
  BY <1>4 DEF Terminate
<1> QED BY <1>1, <1>2, <1>3, <1>4 DEF ServerStep

LEMMA StartsStay ==
  ASSUME LifespanIInv, [Next]_vars, pid' = pid, JobStarts # {}
  PROVE  JobStarts' # {}
<1>1. CASE journal' = journal
  BY <1>1 DEF JobStarts
<1>2. ASSUME NEW e \in JournalEntry, journal' = Append(journal, e)
      PROVE  JobStarts' # {}
  <2>1. \A i \in DOMAIN journal : i \in DOMAIN journal' /\ journal'[i] = journal[i]
    BY <1>2, OneMore DEF LifespanIInv
  <2> QED BY <2>1 DEF JobStarts
<1> QED BY <1>1, <1>2, JournalGrows

LEMMA ServerStepPosts ==
  ASSUME LifespanIInv, DriverIInv, ServerStep PROVE OneJobPosted'
<1>0. pid' = pid /\ driver' = driver /\ Next /\ pid \in Int
  BY ServiceGoesOn, PidType DEF driverVars, ServerStep, Next
<1>1. CASE \E j \in Jobs : StartJob(j) \/ CompleteJob(j)
  <2>1. PICK j \in Jobs : StartJob(j) \/ CompleteJob(j)
    BY <1>1
  <2>2. /\ job[j] \in {"accepted", "running"} /\ job'[j] # "none"
        /\ \A k \in Jobs : k # j => job'[k] = job[k]
    BY <2>1 DEF StartJob, CompleteJob, LifespanIInv, TypeOK
  <2>3. pid = 2 /\ driver \notin {"ready", "body"}
    BY <2>2 DEF DriverIInv, OneJobPosted
  <2>4. \A i \in DOMAIN journal' : OfJob(journal'[i]) => journal'[i].pid = 2
    <3>1. CASE journal' = journal
      BY <3>1 DEF DriverIInv, OneJobPosted
    <3>2. ASSUME NEW e \in JournalEntry, e.pid = pid, journal' = Append(journal, e)
          PROVE  \A i \in DOMAIN journal' : OfJob(journal'[i]) => journal'[i].pid = 2
      BY <2>3, <3>2, OneMore DEF DriverIInv, OneJobPosted, LifespanIInv
    <3> QED BY <1>0, <3>1, <3>2, JournalGrows
  <2>5. \A k \in Jobs : job'[k] # "none" => k = j
    BY <2>2 DEF DriverIInv, OneJobPosted
  <2> QED BY <1>0, <2>3, <2>4, <2>5 DEF OneJobPosted, OfJob
<1>2. CASE Kill
  <2>1. driver \notin {"ready", "body"}
    <3>1. phase' = "killed" /\ phase # "killed"
      BY <1>2 DEF Kill, Down
    <3>2. ~\E c \in Components : OpenComponent(c)
      BY <3>1 DEF OpenComponent, AfterOpen
    <3>3. ~\E j \in Jobs : StartJob(j) \/ CompleteJob(j)
      BY <3>1 DEF StartJob, CompleteJob
    <3>4. signalled
      BY <3>1, <3>2, <3>3 DEF ServerStep, Announce, StopApplication, CloseComponent, EndLifespan,
                              Terminate
    <3> QED BY <3>4 DEF DriverIInv, Unasked
  <2> QED BY <1>0, <1>2, <2>1, KillPostsNone
<1>3. CASE ~Kill /\ ~\E j \in Jobs : StartJob(j) \/ CompleteJob(j)
  <2>1. job' = job
    BY <1>3 DEF ServerStep, Announce, StopApplication, CloseComponent, EndLifespan, OpenComponent,
                Terminate
  <2>2. \A i \in DOMAIN journal' : OfJob(journal'[i]) => journal'[i].pid = 2
    <3>1. CASE journal' = journal
      BY <3>1 DEF DriverIInv, OneJobPosted
    <3>2. ASSUME NEW e \in JournalEntry, ~OfJob(e), journal' = Append(journal, e)
          PROVE  \A i \in DOMAIN journal' : OfJob(journal'[i]) => journal'[i].pid = 2
      BY <3>2, OneMore DEF DriverIInv, OneJobPosted, LifespanIInv
    <3> QED BY <1>0, <1>3, <3>1, <3>2, JournalGrows
  <2> QED BY <1>0, <2>1, <2>2 DEF DriverIInv, OneJobPosted, OfJob
<1> QED BY <1>1, <1>2, <1>3

LEMMA ServerStepKept ==
  ASSUME LifespanIInv, DriverIInv, ServerStep PROVE DriverIInv'
<1>1. /\ ~Down /\ pid' = pid /\ faulty' = faulty
      /\ UNCHANGED <<driver, raised, signalled, final, forced, verdict>>
      /\ phase \in InService => phase' \in InService /\ entered' = entered
      /\ phase = "serving" /\ ~signalled /\ driver # "ready" => phase' = "serving"
  BY ServiceGoesOn DEF driverVars
<1>2. Next
  BY DEF ServerStep, Next
<1>0. Unasked'
  BY <1>1 DEF DriverIInv, Unasked
<1>3. driver \notin {"start", "down", "judge", "over"}
  BY <1>1 DEF DriverIInv, ScriptStands
<1>4. verdict = "none"
  BY <1>3 DEF DriverIInv, ScriptCounts
<1>5. SnapshotKept' /\ ScenariosSettled' /\ VerdictJustified'
  BY <1>1, <1>2, <1>4, ReadingsKept
<1>6. ScriptTypeOK'
  BY <1>1 DEF DriverIInv, ScriptTypeOK
<1>7. ScriptCounts'
  BY <1>1 DEF DriverIInv, ScriptCounts, Driving, Leaving
<1>p. pid' = pid /\ driver' = driver /\ raised' = raised
  BY <1>1
<1>8. JobStarts # {} => JobStarts' # {}
  BY <1>1, <1>2, StartsStay
<1>14. ScriptStands'
  <2>9. CASE driver = "ready"
    BY <1>p, <2>9 DEF DriverIInv, ScriptStands, Leaving
  <2>10. CASE driver = "body"
    <3>1. ~signalled
      BY <2>10 DEF DriverIInv, Unasked
    <3>2. CASE pid = 3
      <4>1. <<"resource", "enter">> \in faulty
        BY <3>2, ScenarioFaults DEF DriverIInv, ScriptCounts
      <4>2. phase' \in {"client", "resource", "unwind", "ended"}
        BY <2>10, <3>1, <3>2, <4>1, FailedStartEnds DEF DriverIInv, ScriptStands
      <4> QED BY <1>p, <2>10, <3>2, <4>2 DEF ScriptStands, Leaving
    <3>3. CASE pid # 3
      <4>1. phase' = "serving"
        <5>1. phase = "serving" /\ driver # "ready"
          BY <2>10, <3>3 DEF DriverIInv, ScriptStands
        <5> QED BY <1>1, <3>1, <5>1
      <4> QED BY <1>p, <2>10, <3>3, <4>1 DEF ScriptStands, Leaving
    <3> QED BY <3>2, <3>3
  <2>11. CASE driver \in {"await job", "crash"}
    <3>1. phase' = "serving"
      BY <1>1, <2>11 DEF DriverIInv, ScriptStands, Unasked
    <3> QED BY <1>p, <1>8, <2>11, <3>1 DEF DriverIInv, ScriptStands, Leaving
  <2>12. CASE driver = "await exit"
    <3>1. phase' \in InService /\ entered' = entered
      BY <1>1, <2>12 DEF DriverIInv, ScriptStands
    <3> QED BY <1>p, <2>12, <3>1 DEF DriverIInv, ScriptStands, Leaving
  <2>13. CASE driver \in {"finally", "stopping"}
    <3>1. raised = "none" => pid = 1 /\ entered = Components /\ phase \in InService
      <4> SUFFICES ASSUME raised = "none"
                   PROVE  pid = 1 /\ entered = Components /\ phase \in InService
        OBVIOUS
      <4>1. LeftWell
        BY <2>13 DEF DriverIInv, ScriptStands, Leaving
      <4>2. pid \in 1 .. 4
        BY <2>13, ScenarioOf DEF Leaving
      <4>3. pid \notin {2, 3, 4}
        BY <1>1, <4>1 DEF LeftWell, Down
      <4> QED BY <1>1, <4>1, <4>2, <4>3 DEF LeftWell, Down
    <3>2. raised' = "none" => LeftWell'
      BY <1>1, <3>1 DEF LeftWell
    <3> QED BY <1>p, <2>13, <3>2 DEF ScriptStands
  <2> QED BY <1>3, <2>9, <2>10, <2>11, <2>12, <2>13 DEF DriverIInv, ScriptTypeOK, DriverStates
<1> QED BY <1>0, <1>5, <1>6, <1>7, <1>14, ServerStepPosts DEF DriverIInv

-----------------------------------------------------------------------------
(* What a journal tells of the server that wrote it.                       *)

(* A closing entry is of a component that is closed.                       *)
LEMMA ClosedEntry ==
  ASSUME LifespanIInv, JournalMeant, NEW c \in Components, NEW i \in DOMAIN journal,
         journal[i].pid = pid, Closes(journal[i]), journal[i].who = c
  PROVE  closeCalls[c] = 1 /\ c \in entered /\ c \notin active
<1>1. closeCalls[c] = 1
  BY DEF JournalMeant, ClosingsMeant
<1> QED BY <1>1 DEF LifespanIInv, StackKnown

(* After a lifespan whose disk never failed, the journal has one closing   *)
(* of each component entered.                                              *)
LEMMA ClosingFound ==
  ASSUME LifespanIInv, JournalMeant, phase = "ended", diskErrors = 0,
         NEW c \in Components, c \in entered
  PROVE  EventCount(pid, IF <<c, "close">> \in faulty THEN "close_failed" ELSE "closed", {c}) = 1
<1> DEFINE event == IF <<c, "close">> \in faulty THEN "close_failed" ELSE "closed"
<1>1. closeCalls[c] = 1
  BY InvClosedOnce DEF ClosedOnce
<1>2. PICK i \in DOMAIN journal : journal[i].pid = pid /\ Closes(journal[i]) /\ journal[i].who = c
  BY <1>1 DEF LifespanIInv, ClosingsShown
<1>3. journal[i].event = event
  BY <1>2 DEF JournalMeant, ClosingsMeant
<1>4. event \in {"close_failed", "closed"}
  OBVIOUS
<1> HIDE DEF event
<1>5. Matches(i, pid, event, {c})
  BY <1>2, <1>3 DEF Matches
<1>6. ASSUME NEW k \in DOMAIN journal, Matches(k, pid, event, {c}) PROVE k = i
  <2>1. journal[k].pid = pid /\ Closes(journal[k]) /\ journal[k].who = c
    BY <1>4, <1>6 DEF Matches, Closes
  <2> QED BY <1>2, <2>1 DEF LifespanIInv, ClosingsShown
<1>7. EventCount(pid, event, {c}) = 1
  BY <1>5, <1>6, CountOne DEF LifespanIInv
<1> QED BY <1>7 DEF event

(* One entry counted is one found.                                         *)
LEMMA ClosingCounted ==
  ASSUME LifespanIInv, JournalMeant, NEW c \in Components, NEW event \in {"closed", "close_failed"},
         EventCount(pid, event, {c}) = 1
  PROVE  closeCalls[c] = 1 /\ c \in entered /\ c \notin active
<1>1. PICK i \in DOMAIN journal : Matches(i, pid, event, {c})
  BY CountOne DEF LifespanIInv
<1>2. journal[i].pid = pid /\ Closes(journal[i]) /\ journal[i].who = c
  BY <1>1 DEF Matches, Closes
<1> QED BY <1>2, ClosedEntry

LEMMA SnapshotFields ==
  /\ Snapshot.closed = closeCalls /\ Snapshot.active = active /\ Snapshot.entered = entered
  /\ Snapshot.jobs = {job[j] : j \in {k \in Jobs : job[k] # "none"}}
BY DEF Snapshot

LEMMA GracefulSettled ==
  ASSUME LifespanIInv, JournalMeant, DriverIInv, driver = "down", raised = "none", pid = 1
  PROVE  Settled(pid, Snapshot)
<1>1. Down /\ faulty = {} /\ entered = Components /\ diskErrors \in Nat /\ active \subseteq Components
      /\ (phase \in InService \/ (phase = "killed" /\ forced # {}))
  BY ScenarioFaults, LifespanAssumption
     DEF DriverIInv, ScriptStands, ScriptCounts, Leaving, LeftWell, LifespanIInv, TypeOK
<1>2. ASSUME RequiredOf(pid) PROVE Promised(pid, Snapshot)
  <2>1. \A c \in Components : EventCount(pid, "closed", {c}) = 1
    BY <1>2 DEF RequiredOf, Once
  <2>2. \A c \in Components : closeCalls[c] = 1 /\ c \notin active
    BY <2>1, ClosingCounted
  <2>3. active = {} /\ \A c \in Components : closeCalls[c] = 1
    BY <1>1, <2>2
  <2> QED BY <2>3, SnapshotFields DEF Promised
<1>3. ASSUME ~Excused(pid, Snapshot) PROVE RequiredOf(pid)
  <2>1. diskErrors = 0 /\ forced = {}
    BY <1>1, <1>3 DEF Excused
  <2>2. phase = "ended"
    BY <1>1, <2>1 DEF Down, InService
  <2>3. \A c \in Components : EventCount(pid, "closed", {c}) = 1
    BY <1>1, <2>1, <2>2, ClosingFound
  <2> QED BY <2>3 DEF RequiredOf, Once
<1> QED BY <1>2, <1>3 DEF Settled

LEMMA CrashSettled ==
  ASSUME LifespanIInv, JournalMeant, DriverIInv, driver = "down", raised = "none", pid = 2
  PROVE  Settled(pid, Snapshot)
<1>1. TypeOK /\ JobKnown /\ phase = "killed" /\ JobStarts # {} /\ diskErrors \in Nat
  BY LifespanAssumption
     DEF DriverIInv, ScriptStands, Leaving, LeftWell, LifespanIInv, TypeOK
<1>2. PICK i \in DOMAIN journal : journal[i].pid = pid /\ journal[i].event = "job_started"
  BY <1>1 DEF JobStarts
<1> DEFINE j == journal[i].who
<1>3. j \in Jobs
  BY <1>2 DEF JournalMeant, JobsMeant, OfJob
<1> HIDE DEF j
<1>4. i \in Starts(j) /\ Matches(i, pid, "job_started", Jobs)
  BY <1>2, <1>3 DEF Starts, Matches, j
<1>5. job[j] \in {"done", "failed", "lost"}
  <2>1. job[j] \notin {"none", "accepted"}
    BY <1>1, <1>3, <1>4 DEF JobKnown, KnownOf
  <2>2. job[j] # "running"
    BY <1>1, <1>3 DEF JobKnown, KnownOf, Serving
  <2> QED BY <1>1, <1>3, <2>1, <2>2 DEF TypeOK
<1>6. \A k \in Jobs : job[k] # "none" => k = j
  BY <1>3, <1>5 DEF DriverIInv, OneJobPosted
<1>7. Snapshot.jobs = {job[j]}
  BY <1>3, <1>5, <1>6, SnapshotFields
<1>8. \A k \in DOMAIN journal : Matches(k, pid, "job_completed", Jobs) <=> k \in Ends(j)
  <2> TAKE k \in DOMAIN journal
  <2>1. ASSUME Matches(k, pid, "job_completed", Jobs) PROVE k \in Ends(j)
    <3> DEFINE m == journal[k].who
    <3>1. m \in Jobs /\ k \in Ends(m)
      BY <2>1 DEF Matches, Ends
    <3> HIDE DEF m
    <3>2. job[m] # "none"
      BY <1>1, <3>1 DEF JobKnown, KnownOf
    <3> QED BY <1>6, <3>1, <3>2
  <2>2. ASSUME k \in Ends(j) PROVE Matches(k, pid, "job_completed", Jobs)
    BY <1>3, <2>2 DEF Matches, Ends, DriverIInv, OneJobPosted, OfJob
  <2> QED BY <2>1, <2>2
<1>9. \A k \in DOMAIN journal : Matches(k, pid, "job_started", Jobs) => k = i
  <2> TAKE k \in DOMAIN journal
  <2> HAVE Matches(k, pid, "job_started", Jobs)
  <2> DEFINE m == journal[k].who
  <2>1. m \in Jobs /\ k \in Starts(m)
    BY DEF Matches, Starts
  <2> HIDE DEF m
  <2>2. job[m] # "none"
    BY <1>1, <2>1 DEF JobKnown, KnownOf
  <2>3. m = j
    BY <1>6, <2>1, <2>2
  <2> QED BY <1>1, <1>3, <1>4, <2>1, <2>3 DEF JobKnown, KnownOf
<1>10. EventCount(pid, "job_started", Jobs) = 1
  BY <1>1, <1>4, <1>9, CountOne
<1>11. EventCount(pid, "job_completed", Jobs) = 0 <=> Ends(j) = {}
  <2>1. Ends(j) \subseteq DOMAIN journal
    BY DEF Ends
  <2> QED BY <1>1, <1>8, <2>1, CountNone
<1>12. RequiredOf(pid) <=> Ends(j) = {}
  BY <1>10, <1>11 DEF RequiredOf
<1>13. job[j] = "failed" => diskErrors > 0
  BY <1>3 DEF JournalMeant, JobsMeant
<1>14. ASSUME RequiredOf(pid) PROVE Promised(pid, Snapshot)
  <2>1. job[j] # "done"
    BY <1>1, <1>3, <1>12, <1>14 DEF JobKnown, KnownOf
  <2>2. Snapshot.jobs = {"lost"} \/ (Snapshot.jobs = {"failed"} /\ diskErrors > 0)
    BY <1>5, <1>7, <1>13, <2>1
  <2> QED BY <2>2 DEF Promised
<1>15. ASSUME ~Excused(pid, Snapshot) PROVE RequiredOf(pid)
  <2>1. job[j] = "lost"
    BY <1>1, <1>5, <1>7, <1>13, <1>15 DEF Excused
  <2> QED BY <1>1, <1>3, <1>12, <2>1 DEF JobKnown, KnownOf
<1> QED BY <1>14, <1>15 DEF Settled

LEMMA FailedStartSettled ==
  ASSUME LifespanIInv, JournalMeant, DriverIInv, driver = "down", raised = "none", pid = 3
  PROVE  Settled(pid, Snapshot)
<1>1. /\ phase = "ended" /\ faulty = {<<"resource", "enter">>} /\ diskErrors \in Nat
      /\ active \subseteq Components /\ entered \subseteq Components
      /\ "client" \in Components /\ "resource" \in Components
      /\ \A c \in Components : c = "client" \/ c = "resource"
  BY ScenarioFaults, LifespanAssumption
     DEF DriverIInv, ScriptStands, ScriptCounts, Leaving, LeftWell, LifespanIInv, TypeOK, Components
<1>2. "resource" \notin active /\ "resource" \notin entered
  BY <1>1 DEF JournalMeant, StartFailuresMeant
<1>3. ASSUME RequiredOf(pid) PROVE Promised(pid, Snapshot)
  <2>1. EventCount(pid, "closed", {"client"}) = 1
    BY <1>3 DEF RequiredOf, Once
  <2>2. closeCalls["client"] = 1 /\ "client" \in entered /\ "client" \notin active
    BY <1>1, <2>1, ClosingCounted
  <2>3. active = {} /\ entered = {"client"}
    BY <1>1, <1>2, <2>2
  <2> QED BY <2>2, <2>3, SnapshotFields DEF Promised
<1>4. ASSUME ~Excused(pid, Snapshot) PROVE RequiredOf(pid)
  <2>1. diskErrors = 0
    BY <1>1, <1>4 DEF Excused
  <2>2. entered # Components
    BY <1>1, <1>2
  <2>3. PICK i \in DOMAIN journal : journal[i].pid = pid /\ journal[i].event = "start_failed"
    BY <1>1, <2>1, <2>2 DEF JournalMeant, StartFailuresMeant
  <2>4. /\ <<journal[i].who, "enter">> \in faulty
        /\ journal[i].who = "resource" => entered = {"client"}
        /\ \A k \in DOMAIN journal :
             journal[k].pid = pid /\ journal[k].event = "start_failed" => k = i
    BY <2>3 DEF JournalMeant, StartFailuresMeant
  <2>5. journal[i].who = "resource"
    BY <1>1, <2>4
  <2>6. EventCount(pid, "start_failed", {"resource"}) = 1
    <3>1. Matches(i, pid, "start_failed", {"resource"})
      BY <2>3, <2>5 DEF Matches
    <3>2. \A k \in DOMAIN journal : Matches(k, pid, "start_failed", {"resource"}) => k = i
      BY <2>4 DEF Matches
    <3> QED BY <3>1, <3>2, CountOne DEF LifespanIInv
  <2>7. <<"client", "close">> \notin faulty
    BY <1>1
  <2>8. EventCount(pid, "closed", {"client"}) = 1
    BY <1>1, <2>1, <2>4, <2>5, <2>7, ClosingFound
  <2> QED BY <2>6, <2>8 DEF RequiredOf, Once
<1> QED BY <1>3, <1>4 DEF Settled

LEMMA FailedStopSettled ==
  ASSUME LifespanIInv, JournalMeant, DriverIInv, driver = "down", raised = "none", pid = 4
  PROVE  Settled(pid, Snapshot)
<1>1. /\ phase = "ended" /\ faulty = {<<"resource", "close">>} /\ diskErrors \in Nat
      /\ entered = Components /\ active \subseteq Components
      /\ "client" \in Components /\ "resource" \in Components
      /\ \A c \in Components : c = "client" \/ c = "resource"
  BY ScenarioFaults, LifespanAssumption
     DEF DriverIInv, ScriptStands, ScriptCounts, Leaving, LeftWell, LifespanIInv, TypeOK, Components
<1>2. ASSUME RequiredOf(pid) PROVE Promised(pid, Snapshot)
  <2>1. EventCount(pid, "close_failed", {"resource"}) = 1 /\ EventCount(pid, "closed", {"client"}) = 1
    BY <1>2 DEF RequiredOf, Once
  <2>2. \A c \in Components : closeCalls[c] = 1 /\ c \notin active
    BY <1>1, <2>1, ClosingCounted
  <2>3. active = {}
    BY <1>1, <2>2
  <2> QED BY <2>2, <2>3, SnapshotFields DEF Promised
<1>3. ASSUME ~Excused(pid, Snapshot) PROVE RequiredOf(pid)
  <2>1. diskErrors = 0
    BY <1>1, <1>3 DEF Excused
  <2>2. <<"client", "close">> \notin faulty /\ <<"resource", "close">> \in faulty
    BY <1>1
  <2>3. EventCount(pid, "close_failed", {"resource"}) = 1
    BY <1>1, <2>1, <2>2, ClosingFound
  <2>4. EventCount(pid, "closed", {"client"}) = 1
    BY <1>1, <2>1, <2>2, ClosingFound
  <2> QED BY <2>3, <2>4 DEF RequiredOf, Once
<1> QED BY <1>2, <1>3 DEF Settled

LEMMA EveryScenarioSettled ==
  ASSUME LifespanIInv, JournalMeant, DriverIInv, driver = "down", raised = "none"
  PROVE  Settled(pid, Snapshot)
<1>1. pid \in 1 .. 4
  BY ScenarioOf DEF Leaving
<1>2. pid = 1 \/ pid = 2 \/ pid = 3 \/ pid = 4
  BY <1>1
<1> QED BY <1>2, GracefulSettled, CrashSettled, FailedStartSettled, FailedStopSettled

-----------------------------------------------------------------------------
(* Reading and judging.                                                    *)

LEMMA ReadEventsKept ==
  ASSUME LifespanIInv, JournalMeant, DriverIInv, ReadEvents PROVE DriverIInv'
<1>1. /\ driver = "down" /\ Down /\ UNCHANGED <<vars, raised, forced>>
      /\ pid \in 1 .. 4 /\ Len(final) = pid - 1 /\ verdict = "none"
      /\ raised \in ScriptExceptions \union {"none"} /\ final \in Seq(Snapshots)
  BY ScenarioOf DEF ReadEvents, DriverIInv, ScriptStands, ScriptCounts, ScriptTypeOK, Leaving
<1>2. OneJobPosted'
  <2>1. driver' \notin {"ready", "body"}
    BY DEF ReadEvents
  <2> QED BY <1>1, <2>1 DEF DriverIInv, OneJobPosted, vars, OfJob
<1>3. Unasked'
  BY DEF ReadEvents, Unasked
<1>4. UNCHANGED <<pid, phase, faulty, stack, active, entered, closeCalls, job, journal, diskErrors>>
  BY <1>1 DEF vars
<1>5. CASE raised # "none"
  <2>1. driver' = "over" /\ verdict' = raised /\ final' = final
    BY <1>5 DEF ReadEvents
  <2>2. raised \in ScriptExceptions
    BY <1>1, <1>5
  <2>3. SnapshotKept' /\ ScenariosSettled'
    BY <1>1, <2>1, SnapshotsKept, SettledKept DEF DriverIInv
  <2>4. ScriptTypeOK'
    BY <1>1, <1>4, <2>1, <2>2 DEF ReadEvents, DriverIInv, ScriptTypeOK, DriverStates
  <2>5. ScriptCounts'
    BY <1>1, <1>4, <2>1, <2>2 DEF DriverIInv, ScriptCounts, Driving, Leaving
  <2>6. ScriptStands'
    BY <1>1, <1>4, <2>1 DEF ScriptStands, Down, Leaving
  <2>7. VerdictJustified'
    BY <2>1, <2>2 DEF VerdictJustified, ScriptExceptions
  <2> QED BY <1>2, <1>3, <2>3, <2>4, <2>5, <2>6, <2>7 DEF DriverIInv
<1>6. CASE raised = "none"
  <2>1. /\ final' = Append(final, Snapshot) /\ verdict' = verdict
        /\ driver' = IF pid < 4 THEN "start" ELSE "judge"
    BY <1>6, ScenarioNames DEF ReadEvents
  <2>2. Snapshot \in Snapshots
    <3>1. {job[j] : j \in {k \in Jobs : job[k] # "none"}}
            \subseteq {"accepted", "running", "done", "failed", "lost"}
      BY DEF LifespanIInv, TypeOK
    <3>2. closeCalls \in [Components -> Nat] /\ active \subseteq Components
          /\ entered \subseteq Components
      BY DEF LifespanIInv, TypeOK
    <3> QED BY <3>1, <3>2 DEF Snapshot, Snapshots
  <2>3. /\ final' \in Seq(Snapshots) /\ Len(final') = pid
        /\ DOMAIN final' = DOMAIN final \union {pid} /\ pid \notin DOMAIN final
        /\ final'[pid] = Snapshot
        /\ \A k \in DOMAIN final : final'[k] = final[k]
    <3>1. \A s \in Seq(Snapshots), x \in Snapshots, n \in Nat :
            Len(s) = n - 1 => /\ Append(s, x) \in Seq(Snapshots) /\ Len(Append(s, x)) = n
                              /\ DOMAIN Append(s, x) = DOMAIN s \union {n} /\ n \notin DOMAIN s
                              /\ Append(s, x)[n] = x
                              /\ \A k \in DOMAIN s : Append(s, x)[k] = s[k]
      OBVIOUS
    <3>2. pid \in Nat
      BY <1>1
    <3> QED BY <1>1, <2>1, <2>2, <3>1, <3>2
  <2>4. Snapshot' = Snapshot /\ (Down' <=> Down)
    BY <1>4 DEF Snapshot, Down
  <2>5. SnapshotKept'
    <3>1. pid' = pid /\ pid <= pid
      BY <1>1, <1>4
    <3> QED BY <1>1, <2>3, <2>4, <3>1 DEF DriverIInv, SnapshotKept
  <2>6. ScenariosSettled'
    <3>2. Settled(pid, Snapshot) /\ pid <= 4
      BY <1>1, <1>6, EveryScenarioSettled
    <3>3. \A k \in DOMAIN final' : k <= 4 /\ Settled(k, final'[k])
      BY <2>3, <3>2 DEF DriverIInv, ScenariosSettled
    <3>4. ASSUME NEW k \in DOMAIN final' PROVE k <= 4 /\ Settled(k, final[k])'
      <4>1. k <= 4 /\ Settled(k, final'[k])
        BY <3>3
      <4>2. RequiredOf(k)' <=> RequiredOf(k)
        BY <1>1, RequiredKept
      <4>3. /\ Promised(k, final[k])' <=> Promised(k, final'[k])
            /\ Excused(k, final[k])' <=> Excused(k, final'[k])
        BY <1>1, <1>4 DEF Promised, Excused
      <4> QED BY <4>1, <4>2, <4>3 DEF Settled
    <3> QED BY <3>4 DEF ScenariosSettled
  <2>7. ScriptTypeOK'
    BY <1>1, <1>4, <2>1, <2>3 DEF ReadEvents, DriverIInv, ScriptTypeOK, DriverStates
  <2>8. ScriptCounts'
    BY <1>1, <1>4, <1>6, <2>1, <2>3 DEF DriverIInv, ScriptCounts, Driving, Leaving
  <2>9. ScriptStands'
    BY <1>1, <2>1, <2>4 DEF ScriptStands, Leaving
  <2>10. VerdictJustified'
    BY <1>1, <2>1 DEF VerdictJustified
  <2> QED BY <1>2, <1>3, <2>5, <2>6, <2>7, <2>8, <2>9, <2>10 DEF DriverIInv
<1> QED BY <1>5, <1>6

LEMMA RequiredOfEach == Required <=> \A k \in 1 .. 4 : RequiredOf(k)
<1>1. \A k \in 1 .. 4 : k = 1 \/ k = 2 \/ k = 3 \/ k = 4
  OBVIOUS
<1> QED BY <1>1 DEF Required, RequiredOf, Once

LEMMA JudgeKept ==
  ASSUME LifespanIInv, DriverIInv, Judge PROVE DriverIInv'
<1>1. /\ driver = "judge" /\ driver' = "over" /\ Down
      /\ UNCHANGED <<vars, raised, forced, final>>
      /\ pid = 4 /\ Len(final) = 4 /\ final \in Seq(Snapshots)
      /\ \/ verdict' = IF Required THEN "report" ELSE "AssertionError"
         \/ verdict' = "NotSerialized"
  BY DEF Judge, DriverIInv, ScriptStands, ScriptCounts, ScriptTypeOK
<1>2. UNCHANGED <<pid, phase, faulty, stack, active, entered, closeCalls, job, journal, diskErrors>>
  BY <1>1 DEF vars
<1>3. SnapshotKept' /\ ScenariosSettled'
  BY <1>1, SnapshotsKept, SettledKept DEF DriverIInv
<1>4. ScriptTypeOK'
  BY <1>1, <1>2 DEF Judge, DriverIInv, ScriptTypeOK, DriverStates
<1>5. ScriptCounts'
  BY <1>1, <1>2 DEF DriverIInv, ScriptCounts, Driving, Leaving, ScriptExceptions
<1>6. ScriptStands'
  BY <1>1, <1>2 DEF ScriptStands, Down, Leaving
<1>7. OneJobPosted' /\ Unasked'
  BY <1>1, <1>2 DEF DriverIInv, OneJobPosted, OfJob, Unasked
<1>8. \A k \in 1 .. 4 : Settled(k, final[k])
  BY <1>1 DEF DriverIInv, ScenariosSettled
<1>9. VerdictJustified'
  <2>1. CASE Required /\ verdict' = "report"
    <3>1. Promised(1, final[1]) /\ Promised(2, final[2]) /\ Promised(3, final[3]) /\ Promised(4, final[4])
      BY <1>8, <2>1, RequiredOfEach DEF Settled
    <3> QED BY <1>1, <1>2, <2>1, <3>1 DEF VerdictJustified, Promised
  <2>2. CASE ~Required /\ verdict' = "AssertionError"
    <3>1. PICK k \in 1 .. 4 : Excused(k, final[k])
      BY <1>8, <2>2, RequiredOfEach DEF Settled
    <3> QED BY <1>1, <1>2, <2>2, <3>1 DEF VerdictJustified, Excused
  <2>3. CASE verdict' = "NotSerialized"
    BY <2>3 DEF VerdictJustified
  <2> QED BY <1>1, <2>1, <2>2, <2>3
<1> QED BY <1>3, <1>4, <1>5, <1>6, <1>7, <1>9 DEF DriverIInv

-----------------------------------------------------------------------------
LEMMA DriverInitInv == DriverInit => DriverIInv
<1> SUFFICES ASSUME DriverInit PROVE DriverIInv
  OBVIOUS
<1>1. /\ pid = 0 /\ phase = "ended" /\ job = [j \in Jobs |-> "none"] /\ journal = <<>>
      /\ driver = "start" /\ raised = "none" /\ signalled = FALSE
      /\ forced = {} /\ final = <<>> /\ verdict = "none"
  BY DEF DriverInit, Init
<1>2. ScriptTypeOK
  <2>1. signalled \in BOOLEAN
    BY <1>1
  <2>2. final \in Seq(Snapshots)
    BY <1>1, EmptySeq
  <2>3. pid \in 0 .. 4 /\ forced \subseteq 0 .. 4
    BY <1>1
  <2> QED BY <1>1, <2>1, <2>2, <2>3 DEF ScriptTypeOK, DriverStates
<1>3. ScriptCounts
  BY <1>1 DEF ScriptCounts, Driving, Leaving
<1>4. ScriptStands /\ Unasked
  BY <1>1 DEF ScriptStands, Unasked, Down, Leaving
<1>5. OneJobPosted
  BY <1>1 DEF OneJobPosted
<1>6. SnapshotKept /\ ScenariosSettled /\ VerdictJustified
  BY <1>1 DEF SnapshotKept, ScenariosSettled, VerdictJustified
<1> QED BY <1>2, <1>3, <1>4, <1>5, <1>6 DEF DriverIInv

LEMMA DriverStutters ==
  ASSUME LifespanIInv, DriverIInv, UNCHANGED allDriverVars PROVE DriverIInv'
<1>1. UNCHANGED <<pid, phase, faulty, stack, active, entered, closeCalls, job, journal, diskErrors>>
      /\ UNCHANGED <<driver, raised, signalled, forced, final, verdict>>
  BY DEF allDriverVars, vars, driverVars
<1>2. ScriptTypeOK' /\ ScriptCounts' /\ Unasked'
  BY <1>1 DEF DriverIInv, ScriptTypeOK, ScriptCounts, Unasked, Driving, Leaving
<1>3. ScriptStands' /\ OneJobPosted'
  BY <1>1 DEF DriverIInv, ScriptStands, OneJobPosted, Down, Leaving, LeftWell, JobStarts, OfJob
<1>4. SnapshotKept' /\ ScenariosSettled'
  BY <1>1, SnapshotsKept, SettledKept DEF DriverIInv, vars
<1>5. VerdictJustified'
  BY <1>1 DEF DriverIInv, VerdictJustified
<1> QED BY <1>2, <1>3, <1>4, <1>5 DEF DriverIInv

LEMMA DriverStepInv ==
  ASSUME LifespanIInv, JournalMeant, DriverIInv, [DriverNext]_allDriverVars PROVE DriverIInv'
BY LaunchKept, WaitUntilReadyKept, MeasureRequestsKept, PostJobKept, WaitForEventKept,
   CrashServerKept, StopInBodyKept, WaitForExitKept, FinallyKept, AwaitStopKept, ReadEventsKept,
   JudgeKept, ServerStepKept, DriverStutters
   DEF DriverNext, DriverStep

-----------------------------------------------------------------------------
(* Theorems about the script.                                              *)

(* The server the script runs is the server of Lifespan: whatever the      *)
(* script does with its processes, each step is one of theirs.             *)
THEOREM ScriptRunsTheServer == DriverSpec => Spec
<1>1. DriverInit => Init
  BY DEF DriverInit
<1> QED BY <1>1, DriverNextIsNext, PTL DEF DriverSpec, Spec

(* Every reachable state of the script satisfies the inductive invariant:  *)
(* where run() stands tells how far its server is, and each journal that   *)
(* was read is settled with what its server had done.                      *)
THEOREM DriverInvariant == DriverSpec => []DriverIInv
<1>1. DriverSpec => []LifespanIInv /\ []JournalMeant
  BY ScriptRunsTheServer, LifespanInvariant, JournalTells, PTL
<1>2. LifespanIInv /\ JournalMeant /\ DriverIInv /\ [DriverNext]_allDriverVars => DriverIInv'
  BY DriverStepInv
<1> QED BY <1>1, <1>2, DriverInitInv, PTL DEF DriverSpec

(* Whatever a scenario ends in, its server is down before the next begins  *)
(* and when the script is over (running_server, in run_experiment.py).     *)
THEOREM ServersAreStopped == DriverSpec => []NoServerOutlives
<1>1. DriverIInv => NoServerOutlives
  BY DEF DriverIInv, ScriptStands, SnapshotKept, NoServerOutlives
<1> QED BY <1>1, DriverInvariant, PTL

(* The report tells what became of the components and of the job, and the  *)
(* journals are refused only over a disk error, a server that was killed   *)
(* to stop, or a job done before the crash (run, in run_experiment.py).    *)
THEOREM VerdictIsJustified == DriverSpec => []VerdictJustified
<1>1. DriverIInv => VerdictJustified
  BY DEF DriverIInv
<1> QED BY <1>1, DriverInvariant, PTL

(* The script and its server, where no other part runs.                    *)
ServerWithinScript == lab # "server" => LifespanIInv /\ JournalMeant /\ DriverIInv

LEMMA LabInitInv == LabInit => ServerWithinScript
<1> SUFFICES ASSUME LabInit PROVE ServerWithinScript
  OBVIOUS
<1>1. DriverInit
  BY DEF LabInit
<1>2. LifespanIInv /\ JournalMeant
  BY <1>1, InitInv, JournalMeantInit DEF DriverInit
<1> QED BY <1>1, <1>2, DriverInitInv DEF ServerWithinScript

LEMMA LabStepInv == ServerWithinScript /\ [LabNext]_allVars => ServerWithinScript'
<1> SUFFICES ASSUME ServerWithinScript, [LabNext]_allVars, lab' # "server"
             PROVE  LifespanIInv' /\ JournalMeant' /\ DriverIInv'
  BY DEF ServerWithinScript
<1>1. lab' = lab /\ [DriverNext]_allDriverVars
  BY DEF LabNext, allVars, OnlyRace, OnlyServer, OnlyDriver, OnlySchema, OnlyClinic
<1>2. LifespanIInv /\ JournalMeant /\ DriverIInv
  BY <1>1 DEF ServerWithinScript
<1>3. [Next]_vars
  BY <1>1, DriverNextIsNext
<1> QED BY <1>1, <1>2, <1>3, LifespanStepInv, JournalMeantStep, DriverStepInv

(* The same beside the other parts, as they are checked together: a server *)
(* that the script runs is down whenever run() moves on.                   *)
THEOREM NoServerIsLeft == LabSpec => []NoServerOutlivesItsScript
<1>1. ServerWithinScript => NoServerOutlivesItsScript
  BY DEF ServerWithinScript, NoServerOutlivesItsScript, DriverIInv, ScriptStands, SnapshotKept,
         NoServerOutlives
<1> QED BY <1>1, LabInitInv, LabStepInv, PTL DEF LabSpec

-----------------------------------------------------------------------------
(* What a run of P09's script reports.                                     *)

(* Rows are of the two tenants and of the one external id, and the row the *)
(* script inserts first is there until it migrates again.                  *)
RowsKnown ==
  /\ tenants \subseteq {TenantA, TenantB}
  /\ \A i \in DOMAIN orders : orders[i].external = ExternalId
  /\ \A c \in Consumers : writer[c] # Free => writer[c].row.external = ExternalId
  /\ tx # Closed =>
       /\ tx.tenants \subseteq {TenantA, TenantB}
       /\ \A i \in DOMAIN tx.rows : tx.rows[i].external = ExternalId
  /\ stage = "commit-setup" => tx.rows[1].tenant = TenantA
  /\ stage \in {"count", "commit-other"} => tx.rows[1].tenant = TenantB
  /\ stage \in {"probe", "insert-other", "count"} => \E i \in DOMAIN orders : orders[i].tenant = TenantA

Cycling == {"downgrade-again", "inspect-gone", "upgrade-again", "inspect-back"}
Probed == {"insert-other", "count", "commit-other"} \union Cycling

NamedSoFar == \A i \in DOMAIN violations : violations[i] = Probes[i].case
AllNamed == Len(violations) = 4 /\ NamedSoFar

(* What has been reported when the script has come as far as it has.       *)
ProbesSound ==
  /\ stage # "idle" => ending \in {"none", "probing"}
  /\ stage = "probe" => NamedSoFar
  /\ stage \in Probed => AllNamed
  /\ stage \in {"commit-other"} \union Cycling => sameId = 2
  /\ stage = "inspect-gone" => version = "base"
  /\ stage = "inspect-back" => version = "head"
  /\ stage \in {"upgrade-again", "inspect-back"} => cycle = << {} >>
  /\ stage \notin {"idle", "upgrade-again", "inspect-back"} => cycle = <<>>
  /\ ending # "AssertionError"
  /\ ending \in {"probed", "done"} => AllNamed /\ sameId = 2
  /\ ending = "done" => cycle = << {}, {"tenants", "orders"} >>

ReportIInv == RowsKnown /\ ProbesSound

LEMMA ReportInit == SchemaInit => ReportIInv
<1> SUFFICES ASSUME SchemaInit PROVE ReportIInv
  OBVIOUS
<1>1. RowsKnown
  BY DEF SchemaInit, RowsKnown
<1>2. ProbesSound
  BY DEF SchemaInit, ProbesSound, Probed, Cycling
<1> QED BY <1>1, <1>2 DEF ReportIInv

(* A consumer's step says nothing of the report.                           *)
LEMMA ReportKept ==
  ASSUME ProbesSound, UNCHANGED <<stage, violations, sameId, version, cycle, ending>>
  PROVE  ProbesSound'
BY DEF ProbesSound, AllNamed, NamedSoFar

(* A step of the script that writes no order and inserts none.             *)
LEMMA RowsKept ==
  ASSUME RowsKnown, UNCHANGED <<database, writer>>, tx' \in {tx, Closed},
         \/ stage' = stage /\ tx' = tx
         \/ stage' \notin {"commit-setup", "count", "commit-other", "probe", "insert-other"}
  PROVE  RowsKnown'
BY DEF RowsKnown, database

(* An exception or a kill ends the run with nothing more to report.        *)
LEMMA RaisedReport ==
  ASSUME ReportIInv, NEW error, Raise(error), error \notin {"AssertionError", "probed", "done"},
         UNCHANGED <<database, writer>>
  PROVE  ReportIInv'
<1>1. stage' = "idle" /\ ending' = error /\ tx' = Closed
  BY DEF Raise
<1>2. RowsKnown'
  BY <1>1, RowsKept DEF ReportIInv
<1>3. ProbesSound'
  BY <1>1 DEF ProbesSound, Probed, Cycling
<1> QED BY <1>2, <1>3 DEF ReportIInv

LEMMA StartReport == ASSUME ReportIInv, StartScript \/ StartProbes PROVE ReportIInv'
<1>1. /\ stage' \in {"downgrade", "delete-orders"} /\ ending' \in {"none", "probing"}
      /\ cycle' = <<>> /\ UNCHANGED <<database, tx, writer>>
  BY DEF StartScript, StartProbes
<1>2. RowsKnown'
  BY <1>1, RowsKept DEF ReportIInv
<1>3. ProbesSound'
  BY <1>1 DEF ProbesSound, Probed, Cycling
<1> QED BY <1>2, <1>3 DEF ReportIInv

LEMMA KillReport == ASSUME ReportIInv, KillScript PROVE ReportIInv'
BY RaisedReport DEF KillScript

(* A migration that has nothing to do leaves the version its target.       *)
LEMMA BeginMigrationReport == ASSUME ReportIInv, BeginMigration PROVE ReportIInv'
<1>1. /\ stage \in {"downgrade", "upgrade", "downgrade-again", "upgrade-again"}
      /\ UNCHANGED <<database, tx, violations, sameId, cycle, ending, writer>>
      /\ stage' = stage \/ (stage' = After(stage) /\ version = Target(stage))
  BY DEF BeginMigration, Migrating, Proceed, reported
<1>2. version' = version
  BY <1>1 DEF database
<1>3. CASE stage' = stage
  BY <1>1, <1>2, <1>3, ReportKept, RowsKept DEF ReportIInv
<1>4. CASE stage' = After(stage) /\ version = Target(stage)
  <2>1. \/ stage = "downgrade" /\ stage' = "upgrade"
        \/ stage = "upgrade" /\ stage' = "delete-orders"
        \/ stage = "downgrade-again" /\ stage' = "inspect-gone" /\ version = "base"
        \/ stage = "upgrade-again" /\ stage' = "inspect-back" /\ version = "head"
    BY <1>1, <1>4, AfterFacts DEF Target
  <2>2. RowsKnown'
    BY <1>1, <2>1, RowsKept DEF ReportIInv
  <2>3. ProbesSound'
    BY <1>1, <1>2, <2>1 DEF ReportIInv, ProbesSound, Probed, Cycling, AllNamed, NamedSoFar
  <2> QED BY <2>2, <2>3 DEF ReportIInv
<1> QED BY <1>1, <1>3, <1>4

LEMMA RunStatementReport == ASSUME ReportIInv, RunStatement PROVE ReportIInv'
<1>1. UNCHANGED <<database, violations, sameId, cycle, writer>>
  BY DEF RunStatement
<1>2. CASE Raise("ProgrammingError")
  BY <1>1, <1>2, RaisedReport
<1>3. CASE UNCHANGED <<ending, stage, tx>>
  BY <1>1, <1>3, ReportKept, RowsKept DEF ReportIInv, database
<1> QED BY <1>2, <1>3 DEF RunStatement

(* A migration leaves no row, and the script goes on to the next stage.    *)
LEMMA CommitMigrationReport == ASSUME SchemaIInv, ReportIInv, CommitMigration PROVE ReportIInv'
<1>1. /\ version' = Target(stage) /\ tenants' = {} /\ orders' = <<>> /\ stage' = After(stage)
      /\ UNCHANGED <<tx, violations, sameId, cycle, ending, writer>>
  BY DEF CommitMigration, Proceed, reported
<1>2. stage \in {"downgrade", "upgrade", "downgrade-again", "upgrade-again"}
  BY DEF CommitMigration, SchemaIInv, MigrationSound, Migrating
<1>3. \/ stage = "downgrade" /\ stage' = "upgrade"
      \/ stage = "upgrade" /\ stage' = "delete-orders"
      \/ stage = "downgrade-again" /\ stage' = "inspect-gone" /\ version' = "base"
      \/ stage = "upgrade-again" /\ stage' = "inspect-back" /\ version' = "head"
  BY <1>1, <1>2, AfterFacts DEF Target
<1>4. RowsKnown'
  BY <1>1, <1>3 DEF ReportIInv, RowsKnown
<1>5. ProbesSound'
  BY <1>1, <1>3 DEF ReportIInv, ProbesSound, Probed, Cycling, AllNamed, NamedSoFar
<1> QED BY <1>4, <1>5 DEF ReportIInv

LEMMA AppendToOne ==
  ASSUME NEW S, NEW x \in S, NEW y \in S
  PROVE  Append(<<x>>, y) = <<x, y>>
<1>1. <<x>> \in Seq(S) /\ Len(<<x>>) = 1 /\ <<x>>[1] = x
  OBVIOUS
<1>2. <<x, y>> \in Seq(S) /\ Len(<<x, y>>) = 2 /\ <<x, y>>[1] = x /\ <<x, y>>[2] = y
  OBVIOUS
<1>3. /\ Append(<<x>>, y) \in Seq(S) /\ Len(Append(<<x>>, y)) = 2
      /\ Append(<<x>>, y)[1] = x /\ Append(<<x>>, y)[2] = y
  BY <1>1, AppendProperties
<1>4. \A i \in 1 .. 2 : i = 1 \/ i = 2
  OBVIOUS
<1> QED BY <1>2, <1>3, <1>4, SeqEqual

LEMMA InspectReport == ASSUME SchemaIInv, ReportIInv, Inspect PROVE ReportIInv'
<1>1. /\ cycle' = Append(cycle, tables) /\ UNCHANGED <<database, tx, violations, sameId, writer>>
      /\ \/ stage = "inspect-gone" /\ stage' = "upgrade-again" /\ ending' = ending
         \/ stage = "inspect-back" /\ stage' = "idle" /\ ending' = "done"
  BY AfterFacts DEF Inspect, Proceed
<1>2. RowsKnown'
  BY <1>1, RowsKept DEF ReportIInv
<1>3. CASE stage = "inspect-gone"
  <2>1. tables = {} /\ cycle = <<>>
    BY <1>3 DEF SchemaIInv, VersionMatchesSchema, ReportIInv, ProbesSound
  <2>2. cycle' = << {} >>
    BY <1>1, <2>1
  <2>3. ProbesSound'
    BY <1>1, <1>3, <2>2 DEF ReportIInv, ProbesSound, Probed, Cycling, AllNamed, NamedSoFar
  <2> QED BY <1>2, <2>3 DEF ReportIInv
<1>4. CASE stage = "inspect-back"
  <2>1. tables = {"tenants", "orders"} /\ cycle = << {} >>
    BY <1>4 DEF SchemaIInv, VersionMatchesSchema, ReportIInv, ProbesSound
  <2>2. cycle' = << {}, {"tenants", "orders"} >>
    <3>1. {} \in SUBSET {"tenants", "orders"} /\ {"tenants", "orders"} \in SUBSET {"tenants", "orders"}
      OBVIOUS
    <3> QED BY <1>1, <2>1, <3>1, AppendToOne
  <2>3. ProbesSound'
    BY <1>1, <1>4, <2>2 DEF ReportIInv, ProbesSound, Probed, Cycling, AllNamed, NamedSoFar
  <2> QED BY <1>2, <2>3 DEF ReportIInv
<1> QED BY <1>1, <1>3, <1>4

-----------------------------------------------------------------------------
(* The report, and the script's transactions.                              *)

(* The script goes on in its transaction, with rows of the one external id. *)
LEMMA TransactionReport ==
  ASSUME ReportIInv, UNCHANGED <<database, writer, violations, cycle, ending>>,
         stage' = After(stage) \/ stage' = stage,
         stage \in {"delete-orders", "delete-tenants", "insert-tenants", "insert-order", "insert-other"},
         tx'.tenants \subseteq {TenantA, TenantB},
         \A i \in DOMAIN tx'.rows : tx'.rows[i].external = ExternalId,
         stage' = "commit-setup" => tx'.rows[1].tenant = TenantA,
         stage' = "count" => tx'.rows[1].tenant = TenantB
  PROVE  ReportIInv'
<1>1. \/ stage' = stage
      \/ stage = "delete-orders" /\ stage' = "delete-tenants"
      \/ stage = "delete-tenants" /\ stage' = "insert-tenants"
      \/ stage = "insert-tenants" /\ stage' = "insert-order"
      \/ stage = "insert-order" /\ stage' = "commit-setup"
      \/ stage = "insert-other" /\ stage' = "count"
  BY AfterFacts
<1>2. tenants' = tenants /\ orders' = orders /\ writer' = writer /\ version' = version
  BY DEF database
<1>3. RowsKnown'
  BY <1>1, <1>2 DEF ReportIInv, RowsKnown
<1>4. ProbesSound'
  BY <1>1, <1>2 DEF ReportIInv, ProbesSound, Probed, Cycling, AllNamed, NamedSoFar
<1> QED BY <1>3, <1>4 DEF ReportIInv

LEMMA DeleteOrdersReport == ASSUME ReportIInv, DeleteOrders PROVE ReportIInv'
<1>1. tx' = [Open(tenants) EXCEPT !.deleted = Len(orders)]
  BY DEF DeleteOrders
<1>2. tx'.tenants = tenants /\ tx'.rows = <<>>
  BY <1>1 DEF Open
<1>3. stage = "delete-orders" /\ stage' = "delete-tenants" /\ stage' = After(stage)
      /\ UNCHANGED <<database, writer, violations, cycle, ending>>
  BY AfterFacts DEF DeleteOrders, Proceed, ScriptOnly
<1> QED BY <1>2, <1>3, TransactionReport DEF ReportIInv, RowsKnown

LEMMA DeleteTenantsReport == ASSUME SchemaIInv, ReportIInv, DeleteTenants PROVE ReportIInv'
<1>1. stage = "delete-tenants" /\ UNCHANGED <<database, writer, violations, cycle>>
  BY DEF DeleteTenants, ScriptOnly
<1>2. CASE Raise("IntegrityError")
  BY <1>1, <1>2, RaisedReport
<1>3. CASE ~Raise("IntegrityError")
  <2>1. tx' = [tx EXCEPT !.tenants = {}, !.gone = tx.tenants] /\ stage' = After(stage) /\ UNCHANGED ending
    BY <1>3 DEF DeleteTenants, Proceed
  <2>2. tx \in Transaction /\ tx # Closed
    BY <1>1, TypeFacts DEF SchemaIInv, TransactionSound
  <2>3. tx'.tenants = {} /\ tx'.rows = tx.rows
    BY <2>1, <2>2 DEF Transaction
  <2>4. stage' = "insert-tenants"
    BY <1>1, <2>1, AfterFacts
  <2>5. \A i \in DOMAIN tx'.rows : tx'.rows[i].external = ExternalId
    BY <2>2, <2>3 DEF ReportIInv, RowsKnown
  <2> QED BY <1>1, <2>1, <2>3, <2>4, <2>5, TransactionReport
<1> QED BY <1>2, <1>3

LEMMA InsertTenantsReport == ASSUME SchemaIInv, ReportIInv, InsertTenants PROVE ReportIInv'
<1>1. /\ stage = "insert-tenants" /\ UNCHANGED <<database, writer, violations, cycle, ending>>
      /\ stage' = After(stage) /\ tx' = [tx EXCEPT !.tenants = {TenantA, TenantB}]
  BY DEF InsertTenants, ScriptOnly, Proceed
<1>2. tx \in Transaction /\ tx # Closed
  BY <1>1, TypeFacts DEF SchemaIInv, TransactionSound, Cleared
<1>3. tx'.tenants = {TenantA, TenantB} /\ tx'.rows = tx.rows
  BY <1>1, <1>2 DEF Transaction
<1>4. stage' = "insert-order"
  BY <1>1, AfterFacts
<1>5. \A i \in DOMAIN tx'.rows : tx'.rows[i].external = ExternalId
  BY <1>2, <1>3 DEF ReportIInv, RowsKnown
<1> QED BY <1>1, <1>3, <1>4, <1>5, TransactionReport

(* The first row of a transaction.                                         *)
LEMMA FirstInsertReport ==
  ASSUME SchemaIInv, ReportIInv, tx # Closed, tx.rows = <<>>,
         UNCHANGED <<database, writer, violations, cycle>>,
         NEW r \in OrderRow, r.external = ExternalId, Insert(r),
         stage \in {"insert-order", "insert-other"},
         r.tenant = IF stage = "insert-order" THEN TenantA ELSE TenantB
  PROVE  ReportIInv'
<1>1. CASE Raise("IntegrityError")
  BY <1>1, RaisedReport
<1>2. CASE ~Raise("IntegrityError")
  <2>1. /\ stage' = After(stage) /\ UNCHANGED ending /\ tx' \in Transaction
        /\ tx'.tenants = tx.tenants /\ Len(tx'.rows) = 1 /\ tx'.rows[1] = r
    BY <1>2, FirstInsert
  <2>2. PICK rows \in Seq(OrderRow) : rows = tx'.rows
    BY <2>1 DEF Transaction
  <2>3. DOMAIN tx'.rows = {1}
    BY <2>1, <2>2, SingleOrder
  <2>4. tx.tenants \subseteq {TenantA, TenantB}
    BY DEF ReportIInv, RowsKnown
  <2>5. \/ stage = "insert-order" /\ stage' = "commit-setup"
        \/ stage = "insert-other" /\ stage' = "count"
    BY <2>1, AfterFacts
  <2> QED BY <2>1, <2>3, <2>4, <2>5, TransactionReport
<1> QED BY <1>1, <1>2

LEMMA InsertOrderReport == ASSUME SchemaIInv, ReportIInv, InsertOrder PROVE ReportIInv'
<1>1. stage = "insert-order" /\ UNCHANGED <<database, writer, violations, cycle>>
  BY DEF InsertOrder, ScriptOnly
<1>2. tx # Closed /\ tx.rows = <<>>
  BY <1>1 DEF SchemaIInv, TransactionSound, Cleared
<1>3. PICK r \in OrderRow : r = Row(TenantA, ExternalId, 1)
  BY DEF Row, OrderRow, Tenants
<1>4. r.external = ExternalId /\ r.tenant = TenantA
  BY <1>3 DEF Row
<1>5. Insert(r)
  BY <1>3 DEF InsertOrder
<1> QED BY <1>1, <1>2, <1>4, <1>5, FirstInsertReport

LEMMA InsertOtherReport == ASSUME SchemaIInv, ReportIInv, InsertOther PROVE ReportIInv'
<1>1. stage = "insert-other" /\ UNCHANGED <<database, writer, violations, cycle>>
  BY DEF InsertOther, ScriptOnly
<1>2. CASE tx = Closed
  <2>1. tx' = Open(tenants) /\ UNCHANGED <<stage, ending>>
    BY <1>2 DEF InsertOther
  <2>2. tx'.tenants = tenants /\ tx'.rows = <<>>
    BY <2>1 DEF Open
  <2> QED BY <1>1, <2>1, <2>2, TransactionReport DEF ReportIInv, RowsKnown
<1>3. CASE tx # Closed
  <2>1. tx.rows = <<>>
    BY <1>1, <1>3 DEF SchemaIInv, TransactionSound
  <2>2. PICK r \in OrderRow : r = Row(TenantB, ExternalId, 1)
    BY DEF Row, OrderRow, Tenants
  <2>3. r.external = ExternalId /\ r.tenant = TenantB
    BY <2>2 DEF Row
  <2>4. Insert(r)
    BY <1>3, <2>2 DEF InsertOther
  <2> QED BY <1>1, <1>3, <2>1, <2>3, <2>4, FirstInsertReport
<1> QED BY <1>2, <1>3

LEMMA CommitSetupReport == ASSUME SchemaIInv, ReportIInv, Commit, stage = "commit-setup" PROVE ReportIInv'
<1>1. /\ stage' = "probe" /\ tenants' = tx.tenants /\ orders' = Seen /\ tx' = Closed
      /\ UNCHANGED <<version, violations, cycle, ending, writer>>
  BY AfterFacts DEF Commit, Proceed
<1>2. orders' = tx.rows /\ DOMAIN tx.rows = {1} /\ tx # Closed
  BY <1>1, SeenBySetup
<1>3. RowsKnown'
  BY <1>1, <1>2 DEF ReportIInv, RowsKnown
<1>4. violations = <<>>
  BY NothingRefusedYet DEF BeforeProbes
<1>5. ProbesSound'
  BY <1>1, <1>4 DEF ReportIInv, ProbesSound, Probed, Cycling, NamedSoFar
<1> QED BY <1>3, <1>5 DEF ReportIInv

(* An order of the one external id is committed.                           *)
LEMMA OrderAppended ==
  ASSUME SchemaIInv, RowsKnown, NEW r \in OrderRow, r.external = ExternalId, orders' = Append(orders, r),
         tenants' = tenants
  PROVE  /\ tenants' \subseteq {TenantA, TenantB}
         /\ \A i \in DOMAIN orders' : orders'[i].external = ExternalId
         /\ (\E i \in DOMAIN orders : orders[i].tenant = TenantA) =>
              \E i \in DOMAIN orders' : orders'[i].tenant = TenantA
<1>1. orders \in Seq(OrderRow)
  BY DEF SchemaIInv, SchemaTypeOK
<1>2. /\ DOMAIN orders = 1 .. Len(orders) /\ Len(orders) \in Nat
      /\ DOMAIN orders' = 1 .. Len(orders) + 1
      /\ \A i \in 1 .. Len(orders) : orders'[i] = orders[i]
      /\ orders'[Len(orders) + 1] = r
  BY <1>1
<1> QED BY <1>2 DEF RowsKnown

LEMMA CommitOtherReport == ASSUME SchemaIInv, ReportIInv, Commit, stage = "commit-other" PROVE ReportIInv'
<1>1. /\ tenants' = tx.tenants /\ orders' = Seen /\ tx' = Closed
      /\ UNCHANGED <<violations, sameId, cycle, version, writer>>
      /\ \/ stage' = "idle" /\ ending' = "probed"
         \/ stage' = "downgrade-again" /\ ending' = ending
  BY AfterFacts DEF Commit, Proceed
<1>2. PICK r \in OrderRow : r = tx.rows[1] /\ orders' = Append(orders, r) /\ 1 \in DOMAIN tx.rows /\ tx # Closed
  BY <1>1, SeenWithOther
<1>3. r.external = ExternalId
  BY <1>2 DEF ReportIInv, RowsKnown
<1>4. tenants' = tenants
  BY <1>1 DEF SchemaIInv, TransactionSound, OtherOrder, OtherOpen
<1>5. RowsKnown'
  BY <1>1, <1>2, <1>3, <1>4, OrderAppended DEF ReportIInv, RowsKnown
<1>6. ProbesSound'
  BY <1>1 DEF ReportIInv, ProbesSound, Probed, Cycling, AllNamed, NamedSoFar
<1> QED BY <1>5, <1>6 DEF ReportIInv

LEMMA TwoNumbers == Cardinality(1 .. 2) = 2
<1>1. \A a, b \in Int : a <= b => Cardinality(a .. b) = b - a + 1
  BY FS_Interval
<1>2. 1 \in Int /\ 2 \in Int /\ 1 <= 2 /\ 2 - 1 + 1 = 2
  OBVIOUS
<1> QED BY <1>1, <1>2

(* One order in each of the two tenants: two with the external id.         *)
LEMMA TwoOrders ==
  ASSUME NEW s \in Seq(OrderRow), NEW r \in OrderRow,
         \A i \in DOMAIN s : s[i].external = ExternalId, r.external = ExternalId,
         NEW k \in DOMAIN s, \A i, j \in DOMAIN s : i = j
  PROVE  Cardinality({i \in DOMAIN Append(s, r) : Append(s, r)[i].external = ExternalId}) = 2
<1>1. Len(s) = 1
  <2>1. DOMAIN s = 1 .. Len(s) /\ Len(s) \in Nat
    OBVIOUS
  <2>2. Len(s) \in DOMAIN s /\ 1 \in DOMAIN s
    BY <2>1
  <2> QED BY <2>2
<1>2. DOMAIN Append(s, r) = 1 .. 2 /\ Append(s, r)[1] = s[1] /\ Append(s, r)[2] = r /\ 1 \in DOMAIN s
  BY <1>1
<1>3. {i \in DOMAIN Append(s, r) : Append(s, r)[i].external = ExternalId} = 1 .. 2
  <2>1. \A i \in 1 .. 2 : i = 1 \/ i = 2
    OBVIOUS
  <2> QED BY <1>2, <2>1
<1> QED BY <1>3, TwoNumbers

(* The domain leaves TenantA one order with the external id, and TenantB   *)
(* none but the one just inserted.                                         *)
LEMMA CountIsTwo ==
  ASSUME SchemaIInv, RowsKnown, stage = "count"
  PROVE  Cardinality({i \in DOMAIN Seen : Seen[i].external = ExternalId}) = 2
<1>1. /\ OtherOrder /\ tx.rows[1].tenant = TenantB
      /\ \E i \in DOMAIN orders : orders[i].tenant = TenantA
  BY DEF SchemaIInv, TransactionSound, RowsKnown
<1>2. PICK r \in OrderRow : r = tx.rows[1] /\ Seen = Append(orders, r) /\ 1 \in DOMAIN tx.rows /\ tx # Closed
  BY SeenWithOther
<1>3. r.external = ExternalId
  BY <1>2 DEF RowsKnown
<1>4. \A i \in DOMAIN orders : orders[i].external = ExternalId /\ orders[i].tenant = TenantA
  <2> SUFFICES ASSUME NEW i \in DOMAIN orders
               PROVE  orders[i].external = ExternalId /\ orders[i].tenant = TenantA
    OBVIOUS
  <2>1. orders[i].external = ExternalId /\ orders[i].tenant \in {TenantA, TenantB}
    BY DEF SchemaIInv, DomainHolds, RowsKnown
  <2>2. ~Same(r, orders[i])
    BY <1>1, <1>2 DEF OtherOrder
  <2> QED BY <1>1, <1>2, <1>3, <2>1, <2>2 DEF Same
<1>5. \A i, j \in DOMAIN orders : i = j
  BY <1>4 DEF SchemaIInv, DomainHolds
<1>6. orders \in Seq(OrderRow)
  BY DEF SchemaIInv, SchemaTypeOK
<1>7. PICK k \in DOMAIN orders : orders[k].tenant = TenantA
  BY <1>1
<1> QED BY <1>2, <1>3, <1>4, <1>5, <1>6, <1>7, TwoOrders

LEMMA CountReport == ASSUME SchemaIInv, ReportIInv, CountSameId PROVE ReportIInv'
<1>1. /\ stage = "count" /\ stage' = "commit-other" /\ UNCHANGED <<database, tx, violations, cycle, ending, writer>>
      /\ sameId' = Cardinality({i \in DOMAIN Seen : Seen[i].external = ExternalId})
  BY AfterFacts DEF CountSameId, Proceed
<1>2. sameId' = 2
  BY <1>1, CountIsTwo DEF ReportIInv
<1>3. RowsKnown'
  BY <1>1 DEF ReportIInv, RowsKnown, database
<1>4. ProbesSound'
  BY <1>1, <1>2 DEF ReportIInv, ProbesSound, Probed, Cycling, AllNamed, NamedSoFar
<1> QED BY <1>3, <1>4 DEF ReportIInv

-----------------------------------------------------------------------------
(* Each probe meets the constraint it was made for.                        *)

LEMMA ProbeNames ==
  /\ Probes[1].case = "ForeignKeyViolation" /\ Probes[2].case = "NotNullViolation"
  /\ Probes[3].case = "CheckViolation" /\ Probes[4].case = "UniqueViolation"
  /\ Probes[1].row = Row(Orphan, "orphan", 1) /\ Probes[2].row = Row(TenantA, Null, 1)
  /\ Probes[3].row = Row(TenantA, "free-order", 0) /\ Probes[4].row = Row(TenantA, ExternalId, 1)
  /\ Len(Probes) = 4
BY DEF Probes

(* What makes a row complete and what the check asks of it.                *)
LEMMA RowFacts ==
  ASSUME NEW t \in {TenantA, TenantB, Orphan}, NEW external, NEW total \in {0, 1}
  PROVE  LET r == Row(t, external, total) IN
         /\ Complete(r) <=> external # Null
         /\ Checked(r) <=> total = 1
         /\ r.tenant = t /\ r.external = external
<1> DEFINE r == Row(t, external, total)
<1>1. r.tenant = t /\ r.external = external /\ r.total = total /\ r.status = "pending"
      /\ r["tenant"] = t /\ r["external"] = external /\ r["total"] = total /\ r["status"] = "pending"
  BY DEF Row
<1>2. t # Null /\ total # Null /\ "pending" # Null
  BY SchemaAssumption
<1> HIDE DEF r
<1>3. Complete(r) <=> external # Null
  BY <1>1, <1>2 DEF Complete, NotNulls
<1>4. Checked(r) <=> total = 1
  BY <1>1 DEF Checked
<1> QED BY <1>1, <1>3, <1>4 DEF r

LEMMA ProbeIsRefused ==
  ASSUME SchemaIInv, RowsKnown, stage = "probe", NEW k \in 1 .. 4
  PROVE  Refusal(Probes[k].row, RowsOf(orders), tenants) = Probes[k].case
<1>1. /\ tenants \subseteq {TenantA, TenantB} /\ Orphan \notin tenants
      /\ \A i \in DOMAIN orders : orders[i].external = ExternalId /\ orders[i].tenant # Orphan
      /\ \E i \in DOMAIN orders : orders[i].tenant = TenantA
  BY SchemaAssumption DEF SchemaIInv, DomainHolds, RowsKnown
<1>2. CASE k = 1
  <2> DEFINE r == Row(Orphan, "orphan", 1)
  <2>1. Complete(r) /\ Checked(r) /\ r.tenant = Orphan
    BY RowFacts, SchemaAssumption
  <2>2. ~Clashes(r, RowsOf(orders))
    BY <1>1, <2>1 DEF Clashes, RowsOf
  <2> HIDE DEF r
  <2>3. Refusal(r, RowsOf(orders), tenants) = "ForeignKeyViolation"
    BY <1>1, <2>1, <2>2 DEF Refusal
  <2> QED BY <1>2, <2>3, ProbeNames DEF r
<1>3. CASE k = 2
  <2> DEFINE r == Row(TenantA, Null, 1)
  <2>1. ~Complete(r)
    BY RowFacts
  <2> HIDE DEF r
  <2>2. Refusal(r, RowsOf(orders), tenants) = "NotNullViolation"
    BY <2>1 DEF Refusal
  <2> QED BY <1>3, <2>2, ProbeNames DEF r
<1>4. CASE k = 3
  <2> DEFINE r == Row(TenantA, "free-order", 0)
  <2>1. Complete(r) /\ ~Checked(r)
    BY RowFacts, SchemaAssumption
  <2> HIDE DEF r
  <2>2. Refusal(r, RowsOf(orders), tenants) = "CheckViolation"
    BY <2>1 DEF Refusal
  <2> QED BY <1>4, <2>2, ProbeNames DEF r
<1>5. CASE k = 4
  <2> DEFINE r == Row(TenantA, ExternalId, 1)
  <2>1. Complete(r) /\ Checked(r) /\ r.tenant = TenantA /\ r.external = ExternalId
    BY RowFacts, SchemaAssumption
  <2>2. Clashes(r, RowsOf(orders))
    BY <1>1, <2>1 DEF Clashes, RowsOf
  <2> HIDE DEF r
  <2>3. Refusal(r, RowsOf(orders), tenants) = "UniqueViolation"
    BY <2>1, <2>2 DEF Refusal
  <2> QED BY <1>5, <2>3, ProbeNames DEF r
<1> QED BY <1>2, <1>3, <1>4, <1>5

LEMMA ProbeReport == ASSUME SchemaIInv, ReportIInv, Probe PROVE ReportIInv'
<1>1. stage = "probe" /\ NamedSoFar /\ UNCHANGED <<sameId, cycle, writer>>
  BY DEF Probe, ReportIInv, ProbesSound
<1>2. PICK v \in Seq(Errors) : v = violations /\ Len(v) < 4
  BY <1>1 DEF SchemaIInv, SchemaTypeOK
<1>3. PICK k \in 1 .. 4 : k = Len(v) + 1
  BY <1>2
<1>4. Refusal(Probes[k].row, RowsOf(orders), tenants) = Probes[k].case
  BY <1>1, ProbeIsRefused DEF ReportIInv
<1>5. Probes[k].case \in Errors /\ Probes[k].case # "none"
  <2>1. k = 1 \/ k = 2 \/ k = 3 \/ k = 4
    OBVIOUS
  <2> QED BY <2>1, ProbeNames DEF Errors
<1>6. /\ violations' = Append(violations, Probes[k].case)
      /\ Len(violations') = Len(Probes) => stage' = After(stage)
      /\ Len(violations') # Len(Probes) => stage' = stage
      /\ UNCHANGED <<database, tx, ending>>
  BY <1>2, <1>3, <1>4, <1>5 DEF Probe, Proceed
<1>7. Len(violations') = k /\ NamedSoFar'
  <2>1. PICK e \in Errors : e = Probes[k].case
    BY <1>5
  <2>2. /\ DOMAIN Append(v, e) = 1 .. k /\ Len(Append(v, e)) = k
        /\ \A i \in 1 .. Len(v) : Append(v, e)[i] = v[i]
        /\ Append(v, e)[k] = e
    BY <1>3
  <2>3. DOMAIN v = 1 .. Len(v) /\ \A i \in 1 .. k : i \in 1 .. Len(v) \/ i = k
    BY <1>3
  <2>4. violations' = Append(v, e)
    BY <1>2, <1>6, <2>1
  <2>5. Len(violations') = k /\ DOMAIN violations' = 1 .. k
    BY <2>2, <2>4
  <2>6. ASSUME NEW i \in 1 .. k PROVE violations'[i] = Probes[i].case
    <3>1. CASE i = k
      BY <2>1, <2>2, <2>4, <3>1
    <3>2. CASE i \in 1 .. Len(v)
      BY <1>1, <1>2, <2>2, <2>4, <2>3, <3>2 DEF NamedSoFar
    <3> QED BY <2>3, <3>1, <3>2
  <2> QED BY <2>5, <2>6 DEF NamedSoFar
<1>8. stage' = "probe" \/ (stage' = "insert-other" /\ Len(violations') = 4)
  <2>1. After(stage) = "insert-other"
    BY <1>1, AfterFacts
  <2>2. Len(Probes) = 4
    BY ProbeNames
  <2>3. CASE Len(violations') = 4
    BY <1>6, <2>1, <2>2, <2>3
  <2>4. CASE Len(violations') # 4
    BY <1>1, <1>6, <2>2, <2>4
  <2> QED BY <2>3, <2>4
<1>9. RowsKnown'
  BY <1>1, <1>6, <1>8 DEF ReportIInv, RowsKnown, database
<1>10. ProbesSound'
  BY <1>1, <1>6, <1>7, <1>8 DEF ReportIInv, ProbesSound, Probed, Cycling, AllNamed
<1> QED BY <1>9, <1>10 DEF ReportIInv

-----------------------------------------------------------------------------
(* The report, and the consumers.                                          *)

(* A consumer changes nothing but what it holds.                           *)
LEMMA ConsumerReport ==
  ASSUME SchemaIInv, ReportIInv, NEW c \in Consumers, NEW w, w # Free => w.row.external = ExternalId,
         writer' = [writer EXCEPT ![c] = w], UNCHANGED <<database, stage, tx, reported>>
  PROVE  ReportIInv'
<1>1. writer \in [Consumers -> Writer]
  BY DEF SchemaIInv, SchemaTypeOK
<1>2. \A d \in Consumers : writer'[d] # Free => writer'[d].row.external = ExternalId
  BY <1>1 DEF ReportIInv, RowsKnown
<1>3. RowsKnown'
  BY <1>2 DEF ReportIInv, RowsKnown, database
<1> QED BY <1>3, ReportKept DEF ReportIInv, database, reported

LEMMA LookUpReport == ASSUME SchemaIInv, ReportIInv, NEW c \in Consumers, LookUp(c) PROVE ReportIInv'
<1>1. PICK t \in {TenantA, TenantB} :
        writer' = [writer EXCEPT ![c] = [pc |-> "absent", row |-> Row(t, ExternalId, 1)]]
  BY DEF LookUp
<1>2. [pc |-> "absent", row |-> Row(t, ExternalId, 1)].row.external = ExternalId
  BY DEF Row
<1>3. UNCHANGED <<database, stage, tx, reported>>
  BY DEF LookUp
<1> QED BY <1>1, <1>2, <1>3, ConsumerReport

LEMMA WriterInsertReport ==
  ASSUME SchemaIInv, ReportIInv, NEW c \in Consumers, WriterInsert(c) PROVE ReportIInv'
<1>1. /\ writer[c].pc = "absent" /\ UNCHANGED <<database, stage, tx, reported>>
      /\ \/ writer' = [writer EXCEPT ![c] = [@ EXCEPT !.pc = "inserted"]]
         \/ writer' = [writer EXCEPT ![c] = Free]
  BY DEF WriterInsert
<1>2. writer[c] # Free /\ writer \in [Consumers -> Writer]
  BY <1>1 DEF Free, SchemaIInv, SchemaTypeOK
<1>3. writer[c] \in [pc : {"absent", "inserted"}, row : OrderRow]
  BY <1>2 DEF Writer
<1>4. CASE writer' = [writer EXCEPT ![c] = [@ EXCEPT !.pc = "inserted"]]
  <2>1. writer' = [writer EXCEPT ![c] = [writer[c] EXCEPT !.pc = "inserted"]]
    BY <1>2, <1>4
  <2>2. [writer[c] EXCEPT !.pc = "inserted"].row = writer[c].row
    BY <1>3
  <2>3. writer[c].row.external = ExternalId
    BY <1>2 DEF ReportIInv, RowsKnown
  <2> QED BY <1>1, <2>1, <2>2, <2>3, ConsumerReport
<1>5. CASE writer' = [writer EXCEPT ![c] = Free]
  BY <1>1, <1>5, ConsumerReport
<1> QED BY <1>1, <1>4, <1>5

LEMMA WriterCommitReport ==
  ASSUME SchemaIInv, ReportIInv, NEW c \in Consumers, WriterCommit(c) PROVE ReportIInv'
<1>1. /\ writer[c].pc = "inserted" /\ writer' = [writer EXCEPT ![c] = Free]
      /\ orders' = Append(orders, writer[c].row)
      /\ UNCHANGED <<version, tenants, stage, tx, violations, sameId, cycle, ending>>
  BY DEF WriterCommit, reported
<1>2. writer[c] # Free /\ writer \in [Consumers -> Writer]
  BY <1>1 DEF Free, SchemaIInv, SchemaTypeOK
<1>3. PICK r \in OrderRow : r = writer[c].row
  BY <1>2 DEF Writer
<1>4. r.external = ExternalId
  BY <1>2, <1>3 DEF ReportIInv, RowsKnown
<1>5. \A d \in Consumers : writer'[d] # Free => writer'[d].row.external = ExternalId
  BY <1>1, <1>2 DEF ReportIInv, RowsKnown
<1>6. RowsKnown'
  BY <1>1, <1>3, <1>4, <1>5, OrderAppended DEF ReportIInv, RowsKnown
<1> QED BY <1>1, <1>6, ReportKept DEF ReportIInv

LEMMA WriterRollbackReport ==
  ASSUME SchemaIInv, ReportIInv, NEW c \in Consumers, WriterRollback(c) PROVE ReportIInv'
<1>1. writer' = [writer EXCEPT ![c] = Free] /\ UNCHANGED <<database, stage, tx, reported>>
  BY DEF WriterRollback
<1> QED BY <1>1, ConsumerReport

LEMMA ReportStep == SchemaIInv /\ ReportIInv /\ [SchemaNext]_schemaVars => ReportIInv'
<1> SUFFICES ASSUME SchemaIInv, ReportIInv, [SchemaNext]_schemaVars PROVE ReportIInv'
  OBVIOUS
<1>1. CASE StartScript \/ StartProbes \/ KillScript
  BY <1>1, StartReport, KillReport
<1>2. CASE BeginMigration \/ RunStatement \/ CommitMigration \/ Inspect
  BY <1>2, BeginMigrationReport, RunStatementReport, CommitMigrationReport, InspectReport
<1>3. CASE DeleteOrders \/ DeleteTenants \/ InsertTenants \/ InsertOrder
  BY <1>3, DeleteOrdersReport, DeleteTenantsReport, InsertTenantsReport, InsertOrderReport
<1>4. CASE Commit
  <2>1. stage \in {"commit-setup", "commit-other"}
    BY <1>4 DEF Commit
  <2> QED BY <1>4, <2>1, CommitSetupReport, CommitOtherReport
<1>5. CASE Probe \/ InsertOther \/ CountSameId
  BY <1>5, ProbeReport, InsertOtherReport, CountReport
<1>6. ASSUME NEW c \in Consumers, LookUp(c) \/ WriterInsert(c) \/ WriterCommit(c) \/ WriterRollback(c)
      PROVE  ReportIInv'
  BY <1>6, LookUpReport, WriterInsertReport, WriterCommitReport, WriterRollbackReport
<1>7. CASE UNCHANGED schemaVars
  BY <1>7, RowsKept, ReportKept DEF schemaVars, reported, database, ReportIInv
<1> QED BY <1>1, <1>2, <1>3, <1>4, <1>5, <1>6, <1>7 DEF SchemaNext

(* A run that comes to its end has seen each probe refused by the very     *)
(* constraint it was made for, the external id once in each of the two     *)
(* tenants, and the tables go and come back, whatever the consumers insert *)
(* meanwhile (run_constraint_probes, and main in run_experiment.py).       *)
THEOREM EachProbeMeetsItsConstraint == SchemaSpec => []ProbesNamed
<1>1. SchemaIInv /\ ReportIInv => ProbesNamed
  <2> SUFFICES ASSUME SchemaIInv, ProbesSound, ending \in {"probed", "done"}
               PROVE  violations = [i \in DOMAIN Probes |-> Probes[i].case]
    BY DEF ReportIInv, ProbesSound, ProbesNamed
  <2>1. violations \in Seq(Errors) /\ Len(violations) = 4 /\ NamedSoFar
    BY DEF SchemaIInv, SchemaTypeOK, ProbesSound, AllNamed
  <2>2. DOMAIN Probes = 1 .. 4
    BY DEF Probes
  <2>3. DOMAIN violations = 1 .. 4 /\ violations = [i \in 1 .. 4 |-> violations[i]]
    BY <2>1
  <2> QED BY <2>1, <2>2, <2>3 DEF NamedSoFar
<1> QED BY <1>1, ReportInit, ReportStep, SchemaInvariant, PTL DEF SchemaSpec

-----------------------------------------------------------------------------
(* The query clinic: its arithmetic.                                       *)

LEMMA Division ==
  ASSUME NEW a \in Nat, NEW b \in Nat \ {0}, NEW r \in 0 .. b - 1
  PROVE  (a * b + r) % b = r /\ (a * b + r) \div b = a
BY SMT

LEMMA Remainder ==
  ASSUME NEW a \in Nat, NEW b \in Nat \ {0}
  PROVE  (a % b) \in 0 .. b - 1 /\ a = (b * (a \div b)) + (a % b) /\ a \div b \in Nat
BY SMT

(* Every scenario that is run has counts, and was validated.               *)
ScenarioSound ==
  /\ scenario.rows \in Nat \ {0} /\ scenario.customers \in Nat \ {0}
  /\ scenario.tenants \in Nat \ {0, 1} /\ scenario.every \in Nat \ {0, 1}
  /\ scenario.tenant \in Nat \ {0} /\ scenario.page \in Nat \ {0} /\ scenario.few \in Nat \ {0}
  /\ Valid(scenario)

LEMMA CandidatesSound ==
  ASSUME scenario \in {s \in Candidates : Valid(s)} PROVE ScenarioSound
<1>1. PICK s \in Candidates : s = scenario /\ Valid(s)
  OBVIOUS
<1>2. /\ s.rows \in RowCounts /\ s.customers \in CustomerCounts /\ s.tenants \in TenantCounts
      /\ s.every \in PendingEvery /\ s.page \in PageSizes /\ s.few \in NPlusOneRows
      /\ \E t \in TenantCounts : s.tenant \in 1 .. t
  BY <1>1 DEF Candidates
<1>3. s.tenant \in Nat \ {0}
  BY <1>2, ClinicAssumption
<1> QED BY <1>1, <1>2, <1>3, ClinicAssumption DEF ScenarioSound

(* The seed refers to customers that are there.                            *)
LEMMA CustomersExist ==
  ASSUME ScenarioSound, NEW n \in Nat \ {0}
  PROVE  CustomerOf(scenario, n) \in 1 .. scenario.customers
<1>1. PICK c \in Nat \ {0} : c = scenario.customers
  BY DEF ScenarioSound
<1>2. PICK a \in Nat : a = (n - 1) * 17
  OBVIOUS
<1>3. (a % c) \in 0 .. c - 1
  BY Remainder
<1>4. 1 + (a % c) \in 1 .. c
  BY <1>3
<1> QED BY <1>1, <1>2, <1>4 DEF CustomerOf

(* What tenant u has pending of r rows, with t tenants and every e-th of   *)
(* each one's orders pending.                                              *)
Due(r, t, e, u) == {n \in 1 .. r : 1 + ((n - 1) % t) = u /\ ((n - 1) \div t) % e = 0}

(* The k-th of them.                                                       *)
LEMMA PickMatches ==
  ASSUME NEW r \in Nat, NEW t \in Nat \ {0, 1}, NEW e \in Nat \ {0, 1},
         NEW u \in 1 .. t, NEW m \in Nat, r = (t * e) * m, NEW k \in 1 .. m
  PROVE  u + (k - 1) * (t * e) \in Due(r, t, e, u)
<1>0. PICK n \in Nat : n = u + (k - 1) * (t * e)
  OBVIOUS
<1>1. PICK c \in Nat : c = t * e
  OBVIOUS
<1>2. t <= c
  BY <1>1
<1>3. PICK a \in Nat : a = (k - 1) * e
  OBVIOUS
<1>4. (k - 1) * c = a * t /\ (k - 1) * c \in Nat
  BY <1>1, <1>3
<1>5. n - 1 = a * t + (u - 1) /\ n \in Nat /\ n >= 1
  BY <1>0, <1>1, <1>4
<1>6. (n - 1) % t = u - 1 /\ (n - 1) \div t = a
  <2>1. PICK v \in 0 .. t - 1 : v = u - 1
    OBVIOUS
  <2> QED BY <1>5, <2>1, Division
<1>7. a % e = 0
  <2>1. PICK j \in Nat : j = k - 1
    OBVIOUS
  <2>2. (j * e + 0) % e = 0
    BY Division
  <2> QED BY <1>3, <2>1, <2>2
<1>8. n <= r
  <2>0. n = u + (k - 1) * c
    BY <1>0, <1>1
  <2>1. k * c <= m * c
    BY <1>1
  <2>2. (k - 1) * c + c = k * c
    BY <1>1
  <2>3. r = m * c
    BY <1>1
  <2>4. PICK x \in Nat, y \in Nat, z \in Nat : x = (k - 1) * c /\ y = k * c /\ z = m * c
    BY <1>1, <1>4
  <2>5. n = u + x /\ x + c = y /\ r = z /\ y <= z
    BY <2>0, <2>1, <2>2, <2>3, <2>4
  <2> QED BY <1>2, <2>5
<1>9. n \in Due(r, t, e, u)
  BY <1>5, <1>6, <1>7, <1>8 DEF Due
<1> QED BY <1>0, <1>9
(* Of rows that close cycles of tenants and statuses, a tenant has one     *)
(* pending order in each cycle.                                            *)
LEMMA CyclesCounted ==
  ASSUME NEW r \in Nat \ {0}, NEW t \in Nat \ {0, 1}, NEW e \in Nat \ {0, 1}, NEW u \in 1 .. t,
         r % (t * e) = 0
  PROVE  /\ Cardinality(Due(r, t, e, u)) \in Nat /\ Due(r, t, e, u) \subseteq Nat \ {0}
         /\ r \div (t * e) \in Nat /\ Cardinality(Due(r, t, e, u)) >= r \div (t * e)
<1>1. PICK c \in Nat \ {0} : c = t * e
  OBVIOUS
<1>2. PICK m \in Nat : m = r \div (t * e) /\ r = (t * e) * m
  <2>1. r % c = 0 /\ r = (c * (r \div c)) + (r % c) /\ r \div c \in Nat
    BY <1>1, Remainder
  <2>2. PICK q \in Nat : q = r \div c
    BY <2>1
  <2>3. r = c * q + 0 /\ c * q \in Nat
    BY <2>1, <2>2
  <2>4. q = r \div (t * e)
    BY <1>1, <2>2
  <2>5. r = c * q
    BY <2>2, <2>3
  <2>6. r = (t * e) * q
    BY <1>1, <2>5
  <2> QED BY <2>4, <2>6
<1> DEFINE M == Due(r, t, e, u)
<1>3. IsFiniteSet(M) /\ M \subseteq Nat \ {0}
  <2>1. IsFiniteSet(1 .. r)
    BY FS_Interval
  <2>2. M \subseteq 1 .. r
    BY DEF Due
  <2> HIDE DEF M
  <2>3. 1 .. r \subseteq Nat \ {0}
    OBVIOUS
  <2>4. IsFiniteSet(M)
    BY <2>1, <2>2, FS_Subset
  <2> QED BY <2>2, <2>3, <2>4
<1> DEFINE g == [k \in 1 .. m |-> u + (k - 1) * (t * e)]
<1>4. ASSUME NEW k \in 1 .. m PROVE g[k] \in M
  <2>1. r = (t * e) * m
    BY <1>2
  <2>2. u + (k - 1) * (t * e) \in Due(r, t, e, u)
    BY <2>1, PickMatches
  <2> QED BY <2>2
<1>5. ASSUME NEW k \in 1 .. m, NEW l \in 1 .. m, k < l PROVE g[k] # g[l]
  <2>1. (l - 1) * c = (k - 1) * c + (l - k) * c
    BY <1>1
  <2>2. (l - k) * c > 0
    BY <1>1, <1>5
  <2> QED BY <1>1, <2>1, <2>2
<1>6. g \in [1 .. m -> M]
  BY <1>4
<1> HIDE DEF g, M
<1>7. g \in Injection(1 .. m, M)
  <2>1. ASSUME NEW k \in 1 .. m, NEW l \in 1 .. m, k # l PROVE g[k] # g[l]
    <3>1. k < l \/ l < k
      BY <2>1
    <3> QED BY <1>5, <3>1
  <2> QED BY <1>6, <2>1 DEF Injection, IsInjective
<1>8. Cardinality(1 .. m) = m /\ IsFiniteSet(1 .. m)
  BY FS_Interval
<1>9. Cardinality(1 .. m) <= Cardinality(M) /\ Cardinality(M) \in Nat
  BY <1>3, <1>7, FS_Injection, FS_CardinalityType
<1> QED BY <1>2, <1>3, <1>8, <1>9 DEF M

LEMMA MatchingCounted ==
  ASSUME ScenarioSound, db.orders = scenario.rows
  PROVE  /\ Cardinality(Matching) \in Nat /\ Matching \subseteq Nat \ {0}
         /\ Cardinality(Matching) >= scenario.page /\ Cardinality(Matching) >= scenario.few
<1>1. PICK r \in Nat \ {0}, t \in Nat \ {0, 1}, e \in Nat \ {0, 1}, u \in Nat \ {0} :
        r = scenario.rows /\ t = scenario.tenants /\ e = scenario.every /\ u = scenario.tenant
  BY DEF ScenarioSound
<1>2. /\ u \in 1 .. t /\ r % (t * e) = 0
      /\ scenario.page <= r \div (t * e) /\ scenario.few <= r \div (t * e)
  BY <1>1 DEF ScenarioSound, Valid, Cycle
<1>3. Matching = Due(r, t, e, u)
  BY <1>1 DEF Matching, TenantOf, Pending, Due
<1>4. /\ Cardinality(Due(r, t, e, u)) \in Nat /\ Due(r, t, e, u) \subseteq Nat \ {0}
      /\ r \div (t * e) \in Nat /\ Cardinality(Due(r, t, e, u)) >= r \div (t * e)
  BY <1>2, CyclesCounted
<1>5. PICK m \in Nat, c \in Nat : m = r \div (t * e) /\ c = Cardinality(Matching)
  BY <1>3, <1>4
<1>6. scenario.page \in Nat /\ scenario.few \in Nat
  BY DEF ScenarioSound
<1>7. c >= m /\ scenario.page <= m /\ scenario.few <= m
  BY <1>2, <1>3, <1>4, <1>5
<1> QED BY <1>3, <1>4, <1>5, <1>6, <1>7

(* With all its rows there, a query answers as many as it was asked for.   *)
LEMMA AnswersFull ==
  ASSUME ScenarioSound, db.orders = scenario.rows, NEW limit \in {scenario.page, scenario.few},
         NEW rows \in Answers(limit)
  PROVE  /\ rows \in Seq(Nat \ {0}) /\ DOMAIN rows = 1 .. limit /\ Len(rows) = limit
         /\ limit \in Nat /\ \A i \in 1 .. limit : rows[i] \in Matching
<1>1. limit \in Nat /\ Cardinality(Matching) \in Nat /\ Cardinality(Matching) >= limit
  BY MatchingCounted DEF ScenarioSound
<1>2. Min({limit, Cardinality(Matching)}) = limit
  <2>1. PICK c \in Nat : c = Cardinality(Matching)
    BY <1>1
  <2>2. Min({limit, c}) = limit
    BY <1>1, <2>1 DEF Min
  <2> QED BY <2>1, <2>2
<1>3. rows \in [1 .. limit -> Matching]
  BY <1>2 DEF Answers
<1>4. Matching \subseteq Nat \ {0}
  BY MatchingCounted
<1>5. rows \in [1 .. limit -> Nat \ {0}]
  BY <1>3, <1>4
<1> QED BY <1>1, <1>3, <1>5

(* An answer lists the newest, and newest first.                           *)
LEMMA AnswerSorted ==
  ASSUME Matching \subseteq Nat, NEW limit, NEW rows \in Answers(limit),
         NEW D, D = 1 .. Min({limit, Cardinality(Matching)})
  PROVE  /\ rows \in [D -> Matching] /\ D \subseteq Nat
         /\ \A i, j \in D : i < j => rows[i] > rows[j]
         /\ \A n \in Matching : (\E i \in D : rows[i] = n) \/ \A i \in D : rows[i] >= n
<1>1. /\ rows \in [D -> Matching]
      /\ \A i, j \in D : i < j => rows[i] # rows[j] /\ rows[i] >= rows[j]
      /\ \A n \in Matching : (\E i \in D : rows[i] = n) \/ \A i \in D : rows[i] >= n
  BY DEF Answers, CreatedAt
<1>2. D \subseteq Nat
  OBVIOUS
<1>3. \A i, j \in D : i < j => rows[i] > rows[j]
  <2> SUFFICES ASSUME NEW i \in D, NEW j \in D, i < j PROVE rows[i] > rows[j]
    OBVIOUS
  <2>1. rows[i] \in Nat /\ rows[j] \in Nat /\ rows[i] # rows[j] /\ rows[i] >= rows[j]
    BY <1>1
  <2> QED BY <2>1
<1> QED BY <1>1, <1>2, <1>3

(* Two answers to the same query are the same: no two orders tie.          *)
LEMMA AnswersAlike ==
  ASSUME Matching \subseteq Nat, NEW limit, NEW f \in Answers(limit), NEW g \in Answers(limit)
  PROVE  f = g
<1>1. PICK D : D = 1 .. Min({limit, Cardinality(Matching)})
  OBVIOUS
<1>2. /\ f \in [D -> Matching] /\ g \in [D -> Matching] /\ D \subseteq Nat
      /\ \A i, j \in D : i < j => f[i] > f[j] /\ g[i] > g[j]
      /\ \A n \in Matching : (\E i \in D : f[i] = n) \/ \A i \in D : f[i] >= n
      /\ \A n \in Matching : (\E i \in D : g[i] = n) \/ \A i \in D : g[i] >= n
  BY <1>1, AnswerSorted
<1> SUFFICES ASSUME f # g PROVE FALSE
  OBVIOUS
<1>3. PICK Apart : Apart = {i \in D : f[i] # g[i]}
  OBVIOUS
<1>4. Apart # {} /\ Apart \subseteq Nat
  <2>1. f = [i \in D |-> f[i]] /\ g = [i \in D |-> g[i]]
    BY <1>2
  <2>2. \E i \in D : f[i] # g[i]
    BY <2>1
  <2> QED BY <1>2, <1>3, <2>2
<1>5. PICK i \in Apart : \A j \in Apart : i <= j
  BY <1>4, LeastNatural
<1>6. /\ i \in D /\ i \in Nat /\ f[i] # g[i] /\ f[i] \in Matching /\ g[i] \in Matching
      /\ f[i] \in Nat /\ g[i] \in Nat
  BY <1>2, <1>3, <1>4, <1>5
<1>7. \A j \in D : j < i => f[j] = g[j]
  BY <1>2, <1>3, <1>5, <1>6
<1>8. \A j \in D : j \in Nat /\ f[j] \in Nat /\ g[j] \in Nat
  BY <1>2
<1>9. CASE f[i] > g[i]
  <2>1. PICK j \in D : g[j] = f[i]
    BY <1>2, <1>6, <1>9
  <2>2. CASE j < i
    BY <1>2, <1>6, <1>7, <1>8, <2>1, <2>2
  <2>3. CASE j = i
    BY <1>6, <2>1, <2>3
  <2>4. CASE j > i
    BY <1>2, <1>6, <1>8, <1>9, <2>1, <2>4
  <2> QED BY <1>6, <1>8, <2>2, <2>3, <2>4
<1>10. CASE g[i] > f[i]
  <2>1. PICK j \in D : f[j] = g[i]
    BY <1>2, <1>6, <1>10
  <2>2. CASE j < i
    BY <1>2, <1>6, <1>7, <1>8, <2>1, <2>2
  <2>3. CASE j = i
    BY <1>6, <2>1, <2>3
  <2>4. CASE j > i
    BY <1>2, <1>6, <1>8, <1>10, <2>1, <2>4
  <2> QED BY <1>6, <1>8, <2>2, <2>3, <2>4
<1> QED BY <1>6, <1>9, <1>10
-----------------------------------------------------------------------------
(* The query clinic: its run.                                              *)

Databases ==
  [schema : BOOLEAN, customers : Int, orders : Int,
   indexes : SUBSET {"status", "composed"}, analyzed : Int]

(* Nothing is left of an earlier run once its schema is dropped, and the   *)
(* indexes, the rows and the statistics are those of the statements so     *)
(* far.                                                                    *)
DatabaseSound ==
  /\ db \in Databases /\ step \in 0 .. 23
  /\ step = 2 => db = NoSchema
  /\ step \in 3 .. 12 \/ step = 17 => db.indexes = {}
  /\ step \in 13 .. 16 => db.indexes = {"status"}
  /\ step \in 18 .. 23 => db.indexes = {"composed"}
  /\ step \in 5 .. 6 => db.orders = 0
  /\ step \in 6 .. 23 => db.customers = scenario.customers
  /\ step \in 7 .. 23 => db.orders = scenario.rows
  /\ step \in 8 .. 23 => db.analyzed = scenario.rows

Labels == {"sem_indice", "indice_inadequado", "sequential_scan_legitimo", "indice_composto_alinhado"}
Chains ==
  {<<"Aggregate", "SeqScan">>, <<"Aggregate", "IndexScan">>,
   <<"Aggregate", "BitmapHeapScan", "BitmapIndexScan">>,
   <<"Limit", "Sort", "SeqScan">>, <<"Limit", "Sort", "IndexScan">>,
   <<"Limit", "Sort", "BitmapHeapScan", "BitmapIndexScan">>, <<"Limit", "IndexOnlyScan">>}

(* A plan taken as its label says.                                         *)
PlanTaken(label, nodes) ==
  [label |-> label, nodes |-> nodes, returned |-> scenario.page,
   indexes |-> Intended(label), table |-> scenario.rows, analyzed |-> scenario.rows]
SoundPlans == {PlanTaken(label, nodes) : label \in Labels, nodes \in Chains}

PlansSound ==
  /\ plans \in Seq(SoundPlans)
  /\ plans # <<>> => plans[1].nodes = <<"Limit", "Sort", "SeqScan">>
  /\ step \in 1 .. 11 => Len(plans) = 0
  /\ step \in 12 .. 14 => Len(plans) = 1
  /\ step = 15 => Len(plans) = 2
  /\ step \in 16 .. 19 => Len(plans) = 3
  /\ step \in 20 .. 23 => Len(plans) = 4

(* Both access patterns read the one answer there is.                      *)
AccessSound ==
  /\ step \in 1 .. 20 => assembled = <<>>
  /\ step \in 21 .. 23 =>
       /\ listed \in Answers(scenario.few)
       /\ assembled \in Seq([id : Nat, name : Nat]) /\ Len(assembled) <= scenario.few
       /\ \A i \in 1 .. Len(assembled) : assembled[i] = Joined(listed[i])
       /\ queryCount = 1 + Len(assembled)
  /\ step \in 22 .. 23 => Len(assembled) = scenario.few
  /\ step = 23 => joined = [i \in 1 .. scenario.few |-> Joined(listed[i])]

(* What a run that is over reports, or failed with.                        *)
OutcomeSound ==
  /\ step # 0 => clinicReport = <<>> /\ failure = "none"
  /\ clinicReport # <<>> => Len(plans) = 4 /\ clinicReport[1].scans[1] = <<"SeqScan">>
  /\ AccessAgrees

ClinicIInv == ScenarioSound /\ DatabaseSound /\ PlansSound /\ AccessSound /\ OutcomeSound

-----------------------------------------------------------------------------
LEMMA ClinicInitial == ClinicInit => ClinicIInv
<1> SUFFICES ASSUME ClinicInit PROVE ClinicIInv
  OBVIOUS
<1>1. ScenarioSound
  BY CandidatesSound DEF ClinicInit
<1>2. DatabaseSound
  BY DEF ClinicInit, DatabaseSound, Databases, NoSchema, Absent
<1>3. PlansSound
  BY DEF ClinicInit, PlansSound
<1>4. AccessSound
  BY DEF ClinicInit, AccessSound
<1>5. OutcomeSound
  BY DEF ClinicInit, OutcomeSound, AccessAgrees
<1> QED BY <1>1, <1>2, <1>3, <1>4, <1>5 DEF ClinicIInv

(* The statements in their order.                                          *)
LEMMA TuplesAreSequences ==
  ASSUME NEW S, NEW s
  PROVE  /\ (\A i \in 1 .. 4 : s[i] \in S) => <<s[1], s[2], s[3], s[4]>> \in Seq(S)
         /\ (\A i \in 1 .. 7 : s[i] \in S) => <<s[1], s[2], s[3], s[4], s[5], s[6], s[7]>> \in Seq(S)
         /\ (\A i \in 1 .. 12 : s[i] \in S) =>
              <<s[1], s[2], s[3], s[4], s[5], s[6], s[7],
                s[8], s[9], s[10], s[11], s[12]>>
                \in Seq(S)
OBVIOUS

LEMMA Schedule ==
  /\ Statements[1] = <<"drop-schema", "query_clinic">> /\ Statements[2] = <<"create-schema", "query_clinic">>
  /\ Statements[3] = <<"create-table", "customers">>
  /\ Statements[4] = <<"create-table", "orders">>
  /\ Statements[5] = <<"insert-customers", "customers">> /\ Statements[6] = <<"insert-orders", "orders">>
  /\ Statements[7] = <<"analyze", "orders">>
  /\ Statements[8] = <<"drop-index-if-exists", "status">>
  /\ Statements[9] = <<"drop-index-if-exists", "composed">>
  /\ Statements[10] = <<"analyze", "orders">> /\ Statements[11] = <<"explain", "sem_indice">>
  /\ Statements[12] = <<"create-index", "status">> /\ Statements[13] = <<"analyze", "orders">>
  /\ Statements[14] = <<"explain", "indice_inadequado">>
  /\ Statements[15] = <<"explain", "sequential_scan_legitimo">>
  /\ Statements[16] = <<"drop-index", "status">>
  /\ Statements[17] = <<"create-index", "composed">> /\ Statements[18] = <<"analyze", "orders">>
  /\ Statements[19] = <<"explain", "indice_composto_alinhado">>
  /\ Statements[20] = <<"select-orders", "orders">> /\ Statements[21] = <<"select-customers", "customers">>
  /\ Statements[22] = <<"select-join", "orders">> /\ Statements[23] = <<"report", "plans">>
<1> DEFINE S == UNION {{Reset[k] : k \in 1 .. 7}, {Collect[k] : k \in 1 .. 12}, {Compare[k] : k \in 1 .. 4}}
<1>1. /\ \A k \in 1 .. 7 : Reset[k] \in S
      /\ \A k \in 1 .. 12 : Collect[k] \in S
      /\ \A k \in 1 .. 4 : Compare[k] \in S
  OBVIOUS
<1> HIDE DEF S
<1>2. Reset \in Seq(S) /\ Len(Reset) = 7
  <2>1. Reset = <<Reset[1], Reset[2], Reset[3], Reset[4], Reset[5], Reset[6], Reset[7]>> /\ Len(Reset) = 7
    BY DEF Reset
  <2> QED BY <1>1, <2>1, TuplesAreSequences
<1>3. Collect \in Seq(S) /\ Len(Collect) = 12
  <2>1. /\ Collect = <<Collect[1], Collect[2], Collect[3], Collect[4], Collect[5], Collect[6], Collect[7],
                       Collect[8], Collect[9], Collect[10], Collect[11], Collect[12]>>
        /\ Len(Collect) = 12
    BY DEF Collect
  <2> QED BY <1>1, <2>1, TuplesAreSequences
<1>4. Compare \in Seq(S) /\ Len(Compare) = 4
  <2>1. Compare = <<Compare[1], Compare[2], Compare[3], Compare[4]>> /\ Len(Compare) = 4
    BY DEF Compare
  <2> QED BY <1>1, <2>1, TuplesAreSequences
<1>5. \A s, t \in Seq(S) :
        /\ s \o t \in Seq(S) /\ Len(s \o t) = Len(s) + Len(t)
        /\ \A k \in 1 .. Len(s) : (s \o t)[k] = s[k]
        /\ \A k \in 1 .. Len(t) : (s \o t)[Len(s) + k] = t[k]
  OBVIOUS
<1>6. PICK r \in Seq(S) : r = Reset \o Collect
  BY <1>2, <1>3, <1>5
<1>7. Len(r) = 19 /\ \A k \in 1 .. 7 : r[k] = Reset[k]
  <2>1. Len(Reset \o Collect) = Len(Reset) + Len(Collect)
    BY <1>2, <1>3, <1>5
  <2>2. \A k \in 1 .. Len(Reset) : (Reset \o Collect)[k] = Reset[k]
    BY <1>2, <1>3, <1>5
  <2>3. Len(r) = Len(Reset) + Len(Collect) /\ \A k \in 1 .. Len(Reset) : r[k] = Reset[k]
    BY <1>6, <2>1, <2>2
  <2> QED BY <1>2, <1>3, <2>3
<1>8. \A k \in 1 .. 12 : r[7 + k] = Collect[k]
  <2>1. \A k \in 1 .. Len(Collect) : (Reset \o Collect)[Len(Reset) + k] = Collect[k]
    BY <1>2, <1>3, <1>5
  <2> QED BY <1>2, <1>3, <1>6, <2>1
<1>9. /\ \A k \in 1 .. Len(r) : Statements[k] = r[k]
      /\ \A k \in 1 .. Len(Compare) : Statements[Len(r) + k] = Compare[k]
  BY <1>4, <1>5, <1>6 DEF Statements
<1>10. \A k \in 1 .. 7 : Statements[k] = Reset[k]
  BY <1>7, <1>9
<1>11. ASSUME NEW k \in 8 .. 19 PROVE Statements[k] = Collect[k - 7]
  <2>1. k \in 1 .. Len(r) /\ k - 7 \in 1 .. 12 /\ 7 + (k - 7) = k
    BY <1>7
  <2>2. Statements[k] = r[k] /\ r[7 + (k - 7)] = Collect[k - 7]
    BY <1>8, <1>9, <2>1
  <2> QED BY <2>1, <2>2
<1>12. ASSUME NEW k \in 20 .. 23 PROVE Statements[k] = Compare[k - 19]
  <2>1. k - 19 \in 1 .. Len(Compare) /\ 19 + (k - 19) = k
    BY <1>4
  <2>2. Statements[Len(r) + (k - 19)] = Compare[k - 19]
    BY <1>9, <2>1
  <2> QED BY <1>7, <2>1, <2>2
<1> DEFINE T == Statements
<1> HIDE DEF T
<1>13. /\ T[1] = Reset[1] /\ T[2] = Reset[2] /\ T[3] = Reset[3] /\ T[4] = Reset[4]
       /\ T[5] = Reset[5] /\ T[6] = Reset[6] /\ T[7] = Reset[7]
  BY <1>10 DEF T
<1>14. /\ T[8] = Collect[1] /\ T[9] = Collect[2] /\ T[10] = Collect[3] /\ T[11] = Collect[4]
       /\ T[12] = Collect[5] /\ T[13] = Collect[6] /\ T[14] = Collect[7] /\ T[15] = Collect[8]
       /\ T[16] = Collect[9] /\ T[17] = Collect[10] /\ T[18] = Collect[11] /\ T[19] = Collect[12]
  BY <1>11 DEF T
<1>15. T[20] = Compare[1] /\ T[21] = Compare[2] /\ T[22] = Compare[3] /\ T[23] = Compare[4]
  BY <1>12 DEF T
<1> QED BY <1>13, <1>14, <1>15 DEF T, Reset, Collect, Compare

(* Which statement, and of what, the run is at.                            *)
LEMMA WhatIsDone ==
  ASSUME step \in 0 .. 23
  PROVE  /\ Doing("drop-schema") => step = 1
         /\ Doing("create-schema") => step = 2
         /\ Doing("create-table") => (step = 3 /\ Object = "customers") \/ (step = 4 /\ Object = "orders")
         /\ Doing("insert-customers") => step = 5
         /\ Doing("insert-orders") => step = 6
         /\ Doing("analyze") => step \in {7, 10, 13, 18}
         /\ Doing("drop-index-if-exists") => step \in {8, 9} /\ Object \in {"status", "composed"}
         /\ Doing("drop-index") => step = 16 /\ Object = "status"
         /\ Doing("create-index") =>
              (step = 12 /\ Object = "status") \/ (step = 17 /\ Object = "composed")
         /\ Doing("explain") =>
              \/ step = 11 /\ Object = "sem_indice"
              \/ step = 14 /\ Object = "indice_inadequado"
              \/ step = 15 /\ Object = "sequential_scan_legitimo"
              \/ step = 19 /\ Object = "indice_composto_alinhado"
         /\ Doing("select-orders") => step = 20
         /\ Doing("select-customers") => step = 21
         /\ Doing("select-join") => step = 22
         /\ Doing("report") => step = 23
<1> USE DEF Doing, Object
<1>1. CASE step \in 0 .. 7
  <2>1. step = 0 \/ step = 1 \/ step = 2 \/ step = 3 \/ step = 4 \/ step = 5 \/ step = 6 \/ step = 7
    BY <1>1
  <2> QED BY <2>1, Schedule
<1>2. CASE step \in 8 .. 15
  <2>1. \/ step = 8 \/ step = 9 \/ step = 10 \/ step = 11 \/ step = 12 \/ step = 13 \/ step = 14
        \/ step = 15
    BY <1>2
  <2> QED BY <2>1, Schedule
<1>3. CASE step \in 16 .. 23
  <2>1. \/ step = 16 \/ step = 17 \/ step = 18 \/ step = 19 \/ step = 20 \/ step = 21 \/ step = 22
        \/ step = 23
    BY <1>3
  <2> QED BY <2>1, Schedule
<1> QED BY <1>1, <1>2, <1>3

-----------------------------------------------------------------------------
(* The steps of the clinic.                                                *)

LEMMA ScenarioKept == ASSUME ScenarioSound, UNCHANGED scenario PROVE ScenarioSound'
BY DEF ScenarioSound, Valid, Cycle

LEMMA StartClinicStep == ASSUME ClinicIInv, StartClinic PROVE ClinicIInv'
<1>1. /\ step' = 1 /\ failure' = "none" /\ plans' = <<>> /\ assembled' = <<>> /\ clinicReport' = <<>>
      /\ UNCHANGED <<scenario, db>>
  BY DEF StartClinic
<1>2. DatabaseSound'
  BY <1>1 DEF ClinicIInv, DatabaseSound, Databases
<1>3. PlansSound'
  BY <1>1 DEF PlansSound
<1>4. AccessSound'
  BY <1>1 DEF AccessSound
<1>5. OutcomeSound'
  BY <1>1 DEF OutcomeSound, AccessAgrees
<1> QED BY <1>1, <1>2, <1>3, <1>4, <1>5, ScenarioKept DEF ClinicIInv

LEMMA KillClinicStep == ASSUME ClinicIInv, KillClinic PROVE ClinicIInv'
<1>1. /\ step > 0 /\ step' = 0 /\ failure' = "killed"
      /\ UNCHANGED <<scenario, db, plans, clinicReport>>
  BY DEF KillClinic, Fail, local
<1>2. DatabaseSound'
  BY <1>1 DEF ClinicIInv, DatabaseSound, Databases
<1>3. PlansSound'
  BY <1>1 DEF ClinicIInv, PlansSound, SoundPlans, PlanTaken
<1>4. AccessSound'
  BY <1>1 DEF AccessSound
<1>5. OutcomeSound'
  BY <1>1 DEF ClinicIInv, OutcomeSound, AccessAgrees
<1> QED BY <1>1, <1>2, <1>3, <1>4, <1>5, ScenarioKept DEF ClinicIInv

(* A statement about the schema that succeeds changes only the schema.     *)
LEMMA SchemaStatement ==
  ASSUME ClinicIInv, step \in (1 .. 10) \union {12, 13, 16, 17, 18}, step' = step + 1,
         DatabaseSound', UNCHANGED <<scenario, plans, assembled, clinicReport, failure>>
  PROVE  ClinicIInv'
<1>1. PlansSound'
  <2>1. plans' \in Seq(SoundPlans)' /\ (plans # <<>> => plans'[1].nodes = <<"Limit", "Sort", "SeqScan">>)
    BY DEF ClinicIInv, PlansSound, SoundPlans, PlanTaken
  <2>2. /\ step' \in 1 .. 11 => Len(plans) = 0
        /\ step' \in 12 .. 14 => Len(plans) = 1
        /\ step' = 15 => Len(plans) = 2
        /\ step' \in 16 .. 19 => Len(plans) = 3
        /\ step' \in 20 .. 23 => Len(plans) = 4
    BY DEF ClinicIInv, PlansSound
  <2> QED BY <2>1, <2>2 DEF PlansSound
<1>2. AccessSound'
  BY DEF ClinicIInv, AccessSound
<1>3. OutcomeSound'
  BY DEF ClinicIInv, OutcomeSound, AccessAgrees
<1> QED BY <1>1, <1>2, <1>3, ScenarioKept DEF ClinicIInv

LEMMA ChangeSchemaStep == ASSUME ClinicIInv, ChangeSchema PROVE ClinicIInv'
<1>1. step \in 0 .. 23 /\ db \in Databases /\ UNCHANGED <<scenario, plans, assembled, clinicReport>>
  BY DEF ChangeSchema, ClinicIInv, DatabaseSound, local
<1>2. CASE step = 1 /\ Run(NoSchema)
  <2>1. step' = 2 /\ db' = NoSchema /\ UNCHANGED failure
    BY <1>2 DEF Run, Next1
  <2>2. NoSchema \in Databases
    BY DEF NoSchema, Databases, Absent
  <2>3. DatabaseSound'
    BY <2>1, <2>2 DEF DatabaseSound, Databases
  <2> QED BY <1>1, <1>2, <2>1, <2>3, SchemaStatement
<1>3. CASE step = 2 /\ Run([db EXCEPT !.schema = TRUE])
  <2>1. step' = 3 /\ db' = [db EXCEPT !.schema = TRUE] /\ UNCHANGED failure
    BY <1>3 DEF Run, Next1
  <2>2. db' \in Databases /\ db'.indexes = {}
    <3>1. db = NoSchema
      BY <1>3 DEF ClinicIInv, DatabaseSound
    <3>2. db' = [schema |-> TRUE, customers |-> Absent, orders |-> Absent, indexes |-> {}, analyzed |-> Absent]
      BY <2>1, <3>1 DEF NoSchema
    <3> QED BY <3>2 DEF Databases, Absent
  <2>3. DatabaseSound'
    BY <2>1, <2>2 DEF DatabaseSound, Databases
  <2> QED BY <1>1, <1>3, <2>1, <2>3, SchemaStatement
<1>4. CASE step \in {3, 4} /\ Object = (IF step = 3 THEN "customers" ELSE "orders")
           /\ Run([db EXCEPT ![Object] = 0])
  <2>1. step' = step + 1 /\ db' = [db EXCEPT ![Object] = 0] /\ UNCHANGED failure
    BY <1>4 DEF Run, Next1
  <2>2. db' = IF step = 3 THEN [db EXCEPT !.customers = 0] ELSE [db EXCEPT !.orders = 0]
    BY <1>4, <2>1
  <2>3. db' \in Databases /\ db'.indexes = {} /\ (step = 4 => db'.orders = 0)
    BY <1>1, <1>4, <2>2 DEF Databases, ClinicIInv, DatabaseSound
  <2>4. DatabaseSound'
    BY <1>4, <2>1, <2>3 DEF DatabaseSound, Databases
  <2> QED BY <1>1, <1>4, <2>1, <2>4, SchemaStatement
<1>5. \/ Doing("drop-schema") /\ Run(NoSchema)
      \/ Doing("create-schema") /\ (db.schema = FALSE => Run([db EXCEPT !.schema = TRUE]))
      \/ Doing("create-table") /\ Run([db EXCEPT ![Object] = 0])
  BY DEF ChangeSchema
<1>6. step = 2 => db.schema = FALSE
  BY DEF ClinicIInv, DatabaseSound, NoSchema
<1> QED BY <1>1, <1>2, <1>3, <1>4, <1>5, <1>6, WhatIsDone

LEMMA SeedTablesStep == ASSUME ClinicIInv, SeedTables PROVE ClinicIInv'
<1>1. step \in 0 .. 23 /\ db \in Databases /\ UNCHANGED <<scenario, plans, assembled, clinicReport>>
  BY DEF SeedTables, ClinicIInv, DatabaseSound, local
<1>2. scenario.customers \in Nat /\ scenario.rows \in Nat
  BY DEF ClinicIInv, ScenarioSound
<1>3. CASE step = 5 /\ Run([db EXCEPT !.customers = scenario.customers])
  <2>1. step' = 6 /\ db' = [db EXCEPT !.customers = scenario.customers] /\ UNCHANGED failure
    BY <1>3 DEF Run, Next1
  <2>2. db' \in Databases /\ db'.indexes = {} /\ db'.orders = 0 /\ db'.customers = scenario.customers
    BY <1>1, <1>2, <1>3, <2>1 DEF Databases, ClinicIInv, DatabaseSound
  <2>3. DatabaseSound'
    BY <1>1, <2>1, <2>2 DEF DatabaseSound, Databases
  <2> QED BY <1>1, <1>3, <2>1, <2>3, SchemaStatement
<1>4. CASE step = 6 /\ Run([db EXCEPT !.orders = scenario.rows])
  <2>1. step' = 7 /\ db' = [db EXCEPT !.orders = scenario.rows] /\ UNCHANGED failure
    BY <1>4 DEF Run, Next1
  <2>2. db' \in Databases /\ db'.indexes = {} /\ db'.orders = scenario.rows /\ db'.customers = scenario.customers
    BY <1>1, <1>2, <1>4, <2>1 DEF Databases, ClinicIInv, DatabaseSound
  <2>3. DatabaseSound'
    BY <1>1, <2>1, <2>2 DEF DatabaseSound, Databases
  <2> QED BY <1>1, <1>4, <2>1, <2>3, SchemaStatement
<1>5. CASE step \in {7, 10, 13, 18} /\ Run([db EXCEPT !.analyzed = db.orders])
  <2>1. step' = step + 1 /\ db' = [db EXCEPT !.analyzed = db.orders] /\ UNCHANGED failure
    BY <1>5 DEF Run, Next1
  <2>2. /\ db' \in Databases /\ db'.indexes = db.indexes /\ db'.orders = db.orders
        /\ db'.customers = db.customers /\ db'.analyzed = db.orders
    BY <1>1, <2>1 DEF Databases
  <2>3. db.orders = scenario.rows /\ db.customers = scenario.customers
    BY <1>5 DEF ClinicIInv, DatabaseSound
  <2>4. /\ step' \in {8, 11} => db.indexes = {}
        /\ step' = 14 => db.indexes = {"status"}
        /\ step' = 19 => db.indexes = {"composed"}
    BY <1>5, <2>1 DEF ClinicIInv, DatabaseSound
  <2>5. DatabaseSound'
    BY <1>1, <1>5, <2>1, <2>2, <2>3, <2>4 DEF DatabaseSound, Databases
  <2> QED BY <1>1, <1>5, <2>1, <2>5, SchemaStatement
<1>6. CASE step = 6 /\ Overflows(scenario) /\ Fail("NumericValueOutOfRange") /\ UNCHANGED db
  <2>1. step' = 0 /\ failure' = "NumericValueOutOfRange" /\ db.orders = 0
    BY <1>6 DEF Fail, ClinicIInv, DatabaseSound
  <2>2. scenario.rows * 97 > IntMax
    BY <1>2, <1>6, ClinicAssumption DEF Overflows
  <2>3. DatabaseSound' /\ AccessSound'
    BY <1>1, <1>6, <2>1 DEF DatabaseSound, Databases, AccessSound
  <2>4. PlansSound'
    BY <1>1, <2>1 DEF ClinicIInv, PlansSound, SoundPlans, PlanTaken
  <2>5. OutcomeSound'
    BY <1>1, <1>6, <2>1, <2>2 DEF ClinicIInv, OutcomeSound, AccessAgrees
  <2> QED BY <1>1, <2>3, <2>4, <2>5, ScenarioKept DEF ClinicIInv
<1>7. step = 6 => \A n \in 1 .. scenario.rows : CustomerOf(scenario, n) \in 1 .. db.customers
  <2> SUFFICES ASSUME step = 6, NEW n \in 1 .. scenario.rows
               PROVE  CustomerOf(scenario, n) \in 1 .. db.customers
    OBVIOUS
  <2>1. n \in Nat \ {0} /\ db.customers = scenario.customers
    BY <1>2 DEF ClinicIInv, DatabaseSound
  <2> QED BY <2>1, CustomersExist DEF ClinicIInv
<1>8. \/ Doing("insert-customers") /\ Run([db EXCEPT !.customers = scenario.customers])
      \/ /\ Doing("insert-orders")
         /\ \/ Overflows(scenario) /\ Fail("NumericValueOutOfRange") /\ UNCHANGED db
            \/ \E n \in 1 .. scenario.rows : CustomerOf(scenario, n) \notin 1 .. db.customers
            \/ Run([db EXCEPT !.orders = scenario.rows])
      \/ Doing("analyze") /\ Run([db EXCEPT !.analyzed = db.orders])
  BY DEF SeedTables
<1> QED BY <1>1, <1>3, <1>4, <1>5, <1>6, <1>7, <1>8, WhatIsDone

LEMMA ChangeIndexesStep == ASSUME ClinicIInv, ChangeIndexes PROVE ClinicIInv'
<1>1. step \in 0 .. 23 /\ db \in Databases /\ UNCHANGED <<scenario, plans, assembled, clinicReport>>
  BY DEF ChangeIndexes, ClinicIInv, DatabaseSound, local
<1>2. ASSUME NEW there, there \in SUBSET {"status", "composed"}, Run([db EXCEPT !.indexes = there]),
             \/ step \in {8, 9, 16} /\ there = {}
             \/ step = 12 /\ there = {"status"}
             \/ step = 17 /\ there = {"composed"}
      PROVE  ClinicIInv'
  <2>1. step' = step + 1 /\ db' = [db EXCEPT !.indexes = there] /\ UNCHANGED failure
    BY <1>2 DEF Run, Next1
  <2>2. /\ db' \in Databases /\ db'.indexes = there /\ db'.orders = db.orders
        /\ db'.customers = db.customers /\ db'.analyzed = db.analyzed
    BY <1>1, <1>2, <2>1 DEF Databases
  <2>3. /\ db.orders = scenario.rows /\ db.customers = scenario.customers
        /\ db.analyzed = scenario.rows
    BY <1>2 DEF ClinicIInv, DatabaseSound
  <2>4. /\ step' \in {9, 10, 17} => there = {}
        /\ step' = 13 => there = {"status"}
        /\ step' = 18 => there = {"composed"}
        /\ step' \in {9, 10, 17, 13, 18}
    BY <1>2, <2>1
  <2>5. DatabaseSound'
    BY <1>1, <2>2, <2>3, <2>4 DEF DatabaseSound
  <2> QED BY <1>1, <1>2, <2>1, <2>5, SchemaStatement
<1>3. /\ step \in {8, 9, 12, 17} => db.indexes = {}
      /\ step = 16 => db.indexes = {"status"}
  BY DEF ClinicIInv, DatabaseSound
<1>4. CASE step \in {8, 9} /\ Run([db EXCEPT !.indexes = @ \ {Object}])
  <2>1. [db EXCEPT !.indexes = @ \ {Object}] = [db EXCEPT !.indexes = {}]
    BY <1>1, <1>3, <1>4 DEF Databases
  <2> QED BY <1>2, <1>4, <2>1
<1>5. CASE step = 16 /\ Object = "status" /\ Run([db EXCEPT !.indexes = @ \ {Object}])
  <2>1. [db EXCEPT !.indexes = @ \ {Object}] = [db EXCEPT !.indexes = {}]
    BY <1>1, <1>3, <1>5 DEF Databases
  <2> QED BY <1>2, <1>5, <2>1
<1>6. CASE step \in {12, 17} /\ Object = (IF step = 12 THEN "status" ELSE "composed")
           /\ Run([db EXCEPT !.indexes = @ \union {Object}])
  <2>1. PICK there \in SUBSET {"status", "composed"} :
          there = IF step = 12 THEN {"status"} ELSE {"composed"}
    OBVIOUS
  <2>2. [db EXCEPT !.indexes = @ \union {Object}] = [db EXCEPT !.indexes = there]
    BY <1>1, <1>3, <1>6, <2>1 DEF Databases
  <2> QED BY <1>2, <1>6, <2>1, <2>2
<1>7. \/ Doing("drop-index-if-exists") /\ Run([db EXCEPT !.indexes = @ \ {Object}])
      \/ Doing("drop-index") /\ (Object \in db.indexes => Run([db EXCEPT !.indexes = @ \ {Object}]))
      \/ Doing("create-index") /\ (Object \notin db.indexes => Run([db EXCEPT !.indexes = @ \union {Object}]))
  BY DEF ChangeIndexes
<1> QED BY <1>1, <1>3, <1>4, <1>5, <1>6, <1>7, WhatIsDone

LEMMA FirstPlanScans == ScanTypes(<<"Limit", "Sort", "SeqScan">>) = <<"SeqScan">>
<1> DEFINE n == <<"Limit", "Sort", "SeqScan">>
           P(f) == f = [i \in 0 .. Len(n) |->
                          IF i = 0 THEN <<>>
                          ELSE IF n[i] \in Scans THEN Append(f[i - 1], n[i]) ELSE f[i - 1]]
           w == [i \in 0 .. 3 |-> IF i = 3 THEN <<"SeqScan">> ELSE <<>>]
           g == CHOOSE f : P(f)
<1>1. /\ Len(n) = 3 /\ n[1] = "Limit" /\ n[2] = "Sort" /\ n[3] = "SeqScan"
      /\ "Limit" \notin Scans /\ "Sort" \notin Scans /\ "SeqScan" \in Scans
  BY DEF Scans
<1>2. Append(<<>>, "SeqScan") = <<"SeqScan">>
  OBVIOUS
<1>3. ScanTypes(n) = g[Len(n)]
  BY DEF ScanTypes
<1> HIDE DEF n
<1>4. P(w)
  <2>1. ASSUME NEW i \in 0 .. 3
        PROVE  w[i] = IF i = 0 THEN <<>>
                      ELSE IF n[i] \in Scans THEN Append(w[i - 1], n[i]) ELSE w[i - 1]
    <3>1. i = 0 \/ i = 1 \/ i = 2 \/ i = 3
      OBVIOUS
    <3>2. /\ w[0] = <<>> /\ w[1] = <<>> /\ w[2] = <<>> /\ w[3] = <<"SeqScan">>
          /\ 1 - 1 = 0 /\ 2 - 1 = 1 /\ 3 - 1 = 2
      OBVIOUS
    <3> HIDE DEF w
    <3>3. i = 0 => w[i] = <<>>
      BY <3>2
    <3>4. i = 1 => n[i] \notin Scans /\ w[i] = w[i - 1]
      BY <1>1, <3>2
    <3>5. i = 2 => n[i] \notin Scans /\ w[i] = w[i - 1]
      BY <1>1, <3>2
    <3>6. i = 3 => n[i] \in Scans /\ w[i] = Append(w[i - 1], n[i])
      BY <1>1, <1>2, <3>2
    <3>7. i = 1 \/ i = 2 \/ i = 3 => i # 0
      OBVIOUS
    <3> QED BY <3>1, <3>3, <3>4, <3>5, <3>6, <3>7
  <2> QED BY <1>1, <2>1
<1>5. P(g)
  <2> HIDE DEF P
  <2> QED BY <1>4
<1> HIDE DEF g
<1>6. g[0] = <<>>
  BY <1>1, <1>5
<1>7. g[1] = <<>>
  BY <1>1, <1>5, <1>6
<1>8. g[2] = <<>>
  BY <1>1, <1>5, <1>7
<1>9. g[3] = <<"SeqScan">>
  <2>1. g[3] = IF n[3] \in Scans THEN Append(g[2], n[3]) ELSE g[2]
    BY <1>1, <1>5
  <2> QED BY <1>1, <1>2, <1>8, <2>1
<1> QED BY <1>1, <1>3, <1>9 DEF n

(* A statement that keeps the plans and the outcome.                       *)
LEMMA AccessStatement ==
  ASSUME ClinicIInv, step \in 20 .. 22, step' \in 21 .. 23, AccessSound',
         UNCHANGED <<scenario, db, plans, clinicReport, failure>>
  PROVE  ClinicIInv'
<1>1. DatabaseSound'
  BY DEF ClinicIInv, DatabaseSound, Databases
<1>2. PlansSound'
  BY DEF ClinicIInv, PlansSound, SoundPlans, PlanTaken
<1>3. OutcomeSound'
  BY DEF ClinicIInv, OutcomeSound, AccessAgrees
<1> QED BY <1>1, <1>2, <1>3, ScenarioKept DEF ClinicIInv

LEMMA AnswersKept ==
  ASSUME UNCHANGED <<scenario, db>>
  PROVE  Answers(scenario.few)' = Answers(scenario.few)
BY DEF Answers, Matching, TenantOf, Pending, CreatedAt

LEMMA ExplainStep == ASSUME ClinicIInv, Explain PROVE ClinicIInv'
<1>1. PICK nodes \in MayPlan(Object), rows \in Answers(scenario.page) :
        plans' = Append(plans,
          [label |-> Object, nodes |-> nodes, returned |-> Len(rows),
           indexes |-> db.indexes, table |-> db.orders, analyzed |-> db.analyzed])
  BY DEF Explain
<1>2. /\ step \in 0 .. 23 /\ step' = step + 1
      /\ UNCHANGED <<scenario, db, assembled, clinicReport, failure>>
  BY DEF Explain, Next1, ClinicIInv, DatabaseSound
<1>3. \/ step = 11 /\ Object = "sem_indice"
      \/ step = 14 /\ Object = "indice_inadequado"
      \/ step = 15 /\ Object = "sequential_scan_legitimo"
      \/ step = 19 /\ Object = "indice_composto_alinhado"
  BY <1>2, WhatIsDone DEF Explain
<1>4. /\ db.orders = scenario.rows /\ db.analyzed = scenario.rows /\ db.indexes = Intended(Object)
      /\ step = 11 => db.indexes = {}
  BY <1>3 DEF ClinicIInv, DatabaseSound, Intended
<1>5. Len(rows) = scenario.page
  BY <1>4, AnswersFull DEF ClinicIInv
<1>6. nodes \in Chains /\ (step = 11 => nodes = <<"Limit", "Sort", "SeqScan">>)
  <2>1. nodes \in Chains
    BY <1>1 DEF MayPlan, Chains
  <2>2. step = 11 => nodes = <<"Limit", "Sort", "SeqScan">>
    BY <1>1, <1>3, <1>4 DEF MayPlan
  <2> QED BY <2>1, <2>2
<1>7. PICK p \in SoundPlans : p = PlanTaken(Object, nodes)
  BY <1>3, <1>6 DEF SoundPlans, Labels
<1>8. plans' = Append(plans, p) /\ p.nodes = nodes
  BY <1>1, <1>4, <1>5, <1>7 DEF PlanTaken
<1>9. PlansSound'
  <2>1. plans \in Seq(SoundPlans)
    BY DEF ClinicIInv, PlansSound
  <2>2. SoundPlans' = SoundPlans
    BY <1>2 DEF SoundPlans, PlanTaken
  <2>3. /\ plans' \in Seq(SoundPlans) /\ Len(plans') = Len(plans) + 1
        /\ plans'[1] = IF Len(plans) = 0 THEN p ELSE plans[1]
    <3> HIDE DEF SoundPlans
    <3> QED BY <1>8, <2>1
  <2>4. /\ step = 11 => Len(plans) = 0
        /\ step = 14 => Len(plans) = 1
        /\ step = 15 => Len(plans) = 2
        /\ step = 19 => Len(plans) = 3
    BY DEF ClinicIInv, PlansSound
  <2>5. step # 11 => plans # <<>> /\ Len(plans) # 0
    BY <1>3, <2>4
  <2>6. step = 11 => plans'[1].nodes = <<"Limit", "Sort", "SeqScan">>
    BY <1>6, <1>8, <2>3, <2>4
  <2>7. step # 11 => plans'[1].nodes = <<"Limit", "Sort", "SeqScan">>
    BY <2>3, <2>5 DEF ClinicIInv, PlansSound
  <2>8. /\ step' \in 1 .. 11 => Len(plans') = 0
        /\ step' \in 12 .. 14 => Len(plans') = 1
        /\ step' = 15 => Len(plans') = 2
        /\ step' \in 16 .. 19 => Len(plans') = 3
        /\ step' \in 20 .. 23 => Len(plans') = 4
    <3>1. PICK m \in Nat, q \in Nat : m = Len(plans) /\ q = Len(plans') /\ q = m + 1
      <4>1. Len(plans) \in Nat
        BY <2>1
      <4> QED BY <2>3, <4>1
    <3>2. CASE step = 11
      <4>1. m = 0
        BY <2>4, <3>1, <3>2
      <4>2. q = 1 /\ step' = 12
        BY <1>2, <3>1, <3>2, <4>1
      <4> QED BY <3>1, <4>2
    <3>3. CASE step = 14
      <4>1. m = 1
        BY <2>4, <3>1, <3>3
      <4>2. q = 2 /\ step' = 15
        BY <1>2, <3>1, <3>3, <4>1
      <4> QED BY <3>1, <4>2
    <3>4. CASE step = 15
      <4>1. m = 2
        BY <2>4, <3>1, <3>4
      <4>2. q = 3 /\ step' = 16
        BY <1>2, <3>1, <3>4, <4>1
      <4> QED BY <3>1, <4>2
    <3>5. CASE step = 19
      <4>1. m = 3
        BY <2>4, <3>1, <3>5
      <4>2. q = 4 /\ step' = 20
        BY <1>2, <3>1, <3>5, <4>1
      <4> QED BY <3>1, <4>2
    <3> QED BY <1>3, <3>2, <3>3, <3>4, <3>5
  <2> QED BY <2>2, <2>3, <2>6, <2>7, <2>8 DEF PlansSound
<1>10. DatabaseSound'
  BY <1>2, <1>3 DEF ClinicIInv, DatabaseSound, Databases
<1>11. AccessSound'
  BY <1>2, <1>3 DEF ClinicIInv, AccessSound
<1>12. OutcomeSound'
  BY <1>2, <1>3 DEF ClinicIInv, OutcomeSound, AccessAgrees
<1> QED BY <1>2, <1>9, <1>10, <1>11, <1>12, ScenarioKept DEF ClinicIInv

LEMMA SelectOrdersStep == ASSUME ClinicIInv, SelectOrders PROVE ClinicIInv'
<1>1. /\ step = 20 /\ step' = 21 /\ listed' \in Answers(scenario.few) /\ queryCount' = 1
      /\ UNCHANGED <<scenario, db, plans, assembled, clinicReport, failure>>
  BY WhatIsDone DEF SelectOrders, Next1, ClinicIInv, DatabaseSound
<1>2. assembled = <<>> /\ scenario.few \in Nat
  BY <1>1 DEF ClinicIInv, AccessSound, ScenarioSound
<1>3. AccessSound'
  BY <1>1, <1>2, AnswersKept DEF AccessSound
<1> QED BY <1>1, <1>3, AccessStatement

(* The rows both patterns list.                                            *)
LEMMA ListedFull ==
  ASSUME ClinicIInv, step \in 21 .. 23
  PROVE  /\ listed \in Seq(Nat \ {0}) /\ DOMAIN listed = 1 .. scenario.few
         /\ Len(listed) = scenario.few /\ scenario.few \in Nat
         /\ \A i \in 1 .. scenario.few :
              /\ listed[i] \in Nat \ {0}
              /\ CustomerOf(scenario, listed[i]) \in 1 .. db.customers
              /\ Joined(listed[i]) \in [id : Nat, name : Nat]
<1>1. /\ listed \in Answers(scenario.few) /\ ScenarioSound
      /\ db.orders = scenario.rows /\ db.customers = scenario.customers
  BY DEF ClinicIInv, AccessSound, DatabaseSound
<1>2. /\ listed \in Seq(Nat \ {0}) /\ DOMAIN listed = 1 .. scenario.few
      /\ Len(listed) = scenario.few /\ scenario.few \in Nat
  BY <1>1, AnswersFull
<1>3. ASSUME NEW i \in 1 .. scenario.few
      PROVE  /\ listed[i] \in Nat \ {0}
             /\ CustomerOf(scenario, listed[i]) \in 1 .. scenario.customers
  <2>1. PICK n \in Nat \ {0} : n = listed[i]
    BY <1>2
  <2>2. CustomerOf(scenario, n) \in 1 .. scenario.customers
    BY <1>1, CustomersExist
  <2> QED BY <2>1, <2>2
<1>4. scenario.customers \in Nat
  BY <1>1 DEF ScenarioSound
<1>5. ASSUME NEW i \in 1 .. scenario.few PROVE Joined(listed[i]) \in [id : Nat, name : Nat]
  <2>1. listed[i] \in Nat /\ CustomerOf(scenario, listed[i]) \in Nat
    BY <1>3, <1>4
  <2> QED BY <2>1 DEF Joined
<1> QED BY <1>1, <1>2, <1>3, <1>5

LEMMA SelectCustomerStep == ASSUME ClinicIInv, SelectCustomer PROVE ClinicIInv'
<1>1. step = 21 /\ UNCHANGED <<scenario, db, plans, listed, clinicReport>>
  BY WhatIsDone DEF SelectCustomer, ClinicIInv, DatabaseSound
<1>2. /\ listed \in Answers(scenario.few)
      /\ assembled \in Seq([id : Nat, name : Nat]) /\ Len(assembled) <= scenario.few
      /\ \A i \in 1 .. Len(assembled) : assembled[i] = Joined(listed[i])
      /\ queryCount = 1 + Len(assembled)
  BY <1>1 DEF ClinicIInv, AccessSound
<1>3. /\ Len(listed) = scenario.few /\ scenario.few \in Nat
      /\ \A i \in 1 .. scenario.few :
           /\ CustomerOf(scenario, listed[i]) \in 1 .. db.customers
           /\ Joined(listed[i]) \in [id : Nat, name : Nat]
  BY <1>1, ListedFull
<1>4. \A n : Joined(n)' = Joined(n)
  BY <1>1 DEF Joined, CustomerOf
<1>5. CASE Len(assembled) = Len(listed)
  <2>1. step' = 22 /\ UNCHANGED <<assembled, queryCount, failure>>
    BY <1>1, <1>5 DEF SelectCustomer, Next1
  <2>2. AccessSound'
    BY <1>1, <1>2, <1>3, <1>5, <2>1, AnswersKept DEF AccessSound, Joined, CustomerOf
  <2> QED BY <1>1, <2>1, <2>2, AccessStatement
<1>6. CASE Len(assembled) # Len(listed)
  <2>1. PICK k \in Nat : k = Len(assembled) + 1
    BY <1>2
  <2>2. k \in 1 .. scenario.few
    BY <1>2, <1>3, <1>6, <2>1
  <2>3. CustomerOf(scenario, listed[k]) \in 1 .. db.customers
    BY <1>3, <2>2
  <2>4. /\ queryCount' = queryCount + 1 /\ assembled' = Append(assembled, Joined(listed[k]))
        /\ UNCHANGED <<step, failure>>
    BY <1>6, <2>1, <2>3 DEF SelectCustomer
  <2>5. PICK j \in [id : Nat, name : Nat] : j = Joined(listed[k])
    BY <1>3, <2>2
  <2>6. /\ assembled' \in Seq([id : Nat, name : Nat]) /\ Len(assembled') = k
        /\ \A i \in 1 .. k : assembled'[i] = IF i = k THEN j ELSE assembled[i]
    BY <1>2, <2>1, <2>4, <2>5
  <2>7. \A i \in 1 .. k : assembled'[i] = Joined(listed[i])
    <3> SUFFICES ASSUME NEW i \in 1 .. k PROVE assembled'[i] = Joined(listed[i])
      OBVIOUS
    <3>1. CASE i = k
      BY <2>5, <2>6, <3>1
    <3>2. CASE i # k
      <4>1. i \in 1 .. Len(assembled)
        BY <1>2, <2>1, <3>2
      <4> QED BY <1>2, <2>6, <3>2, <4>1
    <3> QED BY <3>1, <3>2
  <2>8. queryCount' = 1 + Len(assembled') /\ Len(assembled') <= scenario.few
    BY <1>2, <1>3, <2>1, <2>2, <2>4, <2>6
  <2>9. AccessSound'
    BY <1>1, <1>2, <2>4, <2>6, <2>7, <2>8, AnswersKept DEF AccessSound, Joined, CustomerOf
  <2> QED BY <1>1, <2>4, <2>9, AccessStatement
<1> QED BY <1>5, <1>6

LEMMA SelectJoinStep == ASSUME ClinicIInv, SelectJoin PROVE ClinicIInv'
<1>1. /\ step = 22 /\ step' = 23
      /\ UNCHANGED <<scenario, db, plans, listed, assembled, queryCount, clinicReport, failure>>
  BY WhatIsDone DEF SelectJoin, Next1, ClinicIInv, DatabaseSound
<1>2. PICK rows \in Answers(scenario.few) : joined' = [i \in DOMAIN rows |-> Joined(rows[i])]
  BY DEF SelectJoin
<1>3. listed \in Answers(scenario.few) /\ ScenarioSound /\ db.orders = scenario.rows
  BY <1>1 DEF ClinicIInv, AccessSound, DatabaseSound
<1>4. rows = listed
  <2>1. Matching \subseteq Nat
    BY <1>3, MatchingCounted
  <2> QED BY <1>2, <1>3, <2>1, AnswersAlike
<1>5. joined' = [i \in 1 .. scenario.few |-> Joined(listed[i])]
  BY <1>1, <1>2, <1>4, ListedFull
<1>6. AccessSound'
  BY <1>1, <1>5, AnswersKept DEF ClinicIInv, AccessSound, Joined, CustomerOf
<1> QED BY <1>1, <1>6, AccessStatement

LEMMA WriteReportStep == ASSUME ClinicIInv, WriteReport PROVE ClinicIInv'
<1>1. step = 23 /\ step' = 0 /\ UNCHANGED <<scenario, db, plans, failure>>
  BY WhatIsDone DEF WriteReport, local, ClinicIInv, DatabaseSound
<1>2. clinicReport' = <<[rows |-> Len(joined), equal |-> assembled = joined, queries |-> queryCount,
                         scans |-> [i \in DOMAIN plans |-> ScanTypes(plans[i].nodes)]]>>
  BY DEF WriteReport
<1>3. /\ assembled \in Seq([id : Nat, name : Nat]) /\ Len(assembled) = scenario.few
      /\ \A i \in 1 .. Len(assembled) : assembled[i] = Joined(listed[i])
      /\ queryCount = 1 + Len(assembled)
      /\ joined = [i \in 1 .. scenario.few |-> Joined(listed[i])] /\ scenario.few \in Nat
  BY <1>1, ListedFull DEF ClinicIInv, AccessSound
<1>4. assembled = joined
  <2>1. assembled = [i \in 1 .. scenario.few |-> assembled[i]]
    BY <1>3
  <2>2. \A i \in 1 .. scenario.few : assembled[i] = Joined(listed[i])
    BY <1>3
  <2> QED BY <1>3, <2>1, <2>2
<1>5. Len(joined) = scenario.few /\ queryCount = scenario.few + 1
  BY <1>3, <1>4
<1>6. Len(plans) = 4 /\ 1 \in DOMAIN plans /\ ScanTypes(plans[1].nodes) = <<"SeqScan">>
  <2>1. plans \in Seq(SoundPlans) /\ Len(plans) = 4
    BY <1>1 DEF ClinicIInv, PlansSound
  <2>2. plans # <<>> /\ 1 \in DOMAIN plans
    BY <2>1
  <2>3. plans[1].nodes = <<"Limit", "Sort", "SeqScan">>
    BY <2>2 DEF ClinicIInv, PlansSound
  <2> QED BY <2>1, <2>2, <2>3, FirstPlanScans
<1>7. clinicReport'[1].scans[1] = <<"SeqScan">>
  BY <1>2, <1>6
<1>8. failure' = "none"
  BY <1>1 DEF ClinicIInv, OutcomeSound
<1>9. /\ clinicReport'[1].rows = scenario.few /\ clinicReport'[1].queries = scenario.few + 1
      /\ clinicReport'[1].equal
  BY <1>2, <1>4, <1>5
<1>10. OutcomeSound'
  BY <1>1, <1>6, <1>7, <1>8, <1>9 DEF OutcomeSound, AccessAgrees
<1>11. DatabaseSound' /\ AccessSound'
  BY <1>1 DEF ClinicIInv, DatabaseSound, Databases, AccessSound
<1>12. PlansSound'
  BY <1>1 DEF ClinicIInv, PlansSound, SoundPlans, PlanTaken
<1> QED BY <1>1, <1>10, <1>11, <1>12, ScenarioKept DEF ClinicIInv

LEMMA ClinicStutter == ASSUME ClinicIInv, UNCHANGED clinicVars PROVE ClinicIInv'
<1>1. UNCHANGED <<scenario, step, db, plans, listed, assembled, queryCount, joined,
                  clinicReport, failure>>
  BY DEF clinicVars, local
<1>2. DatabaseSound' /\ OutcomeSound'
  BY <1>1 DEF ClinicIInv, DatabaseSound, Databases, OutcomeSound, AccessAgrees
<1>3. PlansSound'
  BY <1>1 DEF ClinicIInv, PlansSound, SoundPlans, PlanTaken
<1>4. AccessSound'
  BY <1>1, AnswersKept DEF ClinicIInv, AccessSound, Joined, CustomerOf
<1> QED BY <1>1, <1>2, <1>3, <1>4, ScenarioKept DEF ClinicIInv

LEMMA ClinicStep == ClinicIInv /\ [ClinicNext]_clinicVars => ClinicIInv'
<1> SUFFICES ASSUME ClinicIInv, [ClinicNext]_clinicVars PROVE ClinicIInv'
  OBVIOUS
<1>1. CASE StartClinic
  BY <1>1, StartClinicStep
<1>2. CASE KillClinic
  BY <1>2, KillClinicStep
<1>3. CASE ChangeSchema
  BY <1>3, ChangeSchemaStep
<1>4. CASE SeedTables
  BY <1>4, SeedTablesStep
<1>5. CASE ChangeIndexes
  BY <1>5, ChangeIndexesStep
<1>6. CASE Explain
  BY <1>6, ExplainStep
<1>7. CASE SelectOrders
  BY <1>7, SelectOrdersStep
<1>8. CASE SelectCustomer
  BY <1>8, SelectCustomerStep
<1>9. CASE SelectJoin
  BY <1>9, SelectJoinStep
<1>10. CASE WriteReport
  BY <1>10, WriteReportStep
<1>11. CASE UNCHANGED clinicVars
  BY <1>11, ClinicStutter
<1> QED BY <1>1, <1>2, <1>3, <1>4, <1>5, <1>6, <1>7, <1>8, <1>9, <1>10, <1>11 DEF ClinicNext

(* P10's database is as the statements so far leave it, whatever an        *)
(* earlier run was cut off at.                                             *)
THEOREM ClinicInvariant == ClinicSpec => []ClinicIInv
<1>1. ClinicInit => ClinicIInv
  BY ClinicInitial
<1>2. ClinicIInv /\ [ClinicNext]_clinicVars => ClinicIInv'
  BY ClinicStep
<1> QED BY <1>1, <1>2, PTL DEF ClinicSpec

(* Each plan P10 reports was taken under the indexes its label names, over *)
(* the whole seed, and with a full page to find.                           *)
THEOREM PlansTakenAsLabelled == ClinicSpec => []PlansUnderTheirIndexes
<1>1. ClinicIInv => PlansUnderTheirIndexes
  <2> SUFFICES ASSUME ClinicIInv PROVE PlansUnderTheirIndexes
    OBVIOUS
  <2>1. ASSUME NEW i \in DOMAIN plans
        PROVE  /\ plans[i].indexes = Intended(plans[i].label)
               /\ plans[i].table = scenario.rows /\ plans[i].analyzed = scenario.rows
               /\ plans[i].returned = scenario.page
    <3>1. plans \in Seq(SoundPlans)
      BY DEF ClinicIInv, PlansSound
    <3>2. plans[i] \in SoundPlans
      BY <3>1
    <3>3. PICK label \in Labels, nodes \in Chains : plans[i] = PlanTaken(label, nodes)
      BY <3>2 DEF SoundPlans
    <3> QED BY <3>3 DEF PlanTaken
  <2>2. clinicReport # <<>> => Len(plans) = 4 /\ clinicReport[1].scans[1] = <<"SeqScan">>
    BY DEF ClinicIInv, OutcomeSound
  <2> QED BY <2>1, <2>2 DEF PlansUnderTheirIndexes
<1> QED BY <1>1, ClinicInvariant, PTL

(* The N + 1 queries and the JOIN of P10 give the same rows in the same    *)
(* order, and a run that is not killed fails only where the seed's         *)
(* arithmetic leaves the integers.                                         *)
THEOREM AccessPatternsAgree == ClinicSpec => []AccessAgrees
<1>1. ClinicIInv => AccessAgrees
  BY DEF ClinicIInv, OutcomeSound
<1> QED BY <1>1, ClinicInvariant, PTL
=============================================================================
