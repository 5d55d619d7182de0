----------------------------- MODULE SchemaGuard ------------------------------
(***************************************************************************)
(* P09-postgresql-constraints-e-migrations: scripts/run_experiment.py      *)
(* takes the schema down and up again by its migration, probes the         *)
(* constraints with rows that must be refused, and repeats the cycle; or   *)
(* the probes are run alone, on a schema that is there, as the tests do.   *)
(* Meanwhile the consumers of the README look an order up and insert it.   *)
(*                                                                         *)
(* PostgreSQL, Alembic and the consumers are external.  Transactions are   *)
(* READ COMMITTED: a statement sees what is committed and what its own     *)
(* transaction did, and waits where it conflicts with another that is      *)
(* still open.  A script that is killed leaves its transaction rolled back *)
(* and can be run again.                                                   *)
(***************************************************************************)
EXTENDS Integers, Sequences, FiniteSets

CONSTANTS
  Consumers,                   (* processes that insert orders on their own *)
  TenantA, TenantB, Orphan,    (* tenant_a_id, tenant_b_id, orphan_tenant_id *)
  ExternalId,                  (* Scenario.external_id                     *)
  Null,
  MaxRuns                      (* bound: times the script is started       *)

ASSUME SchemaAssumption ==
  /\ Orphan \notin {TenantA, TenantB} /\ TenantA # TenantB
  /\ Null \notin {TenantA, TenantB, Orphan, ExternalId, "orphan", "free-order", "pending"}
  /\ Null \notin {0, 1}
  /\ MaxRuns \in Nat

VARIABLES
  version,      (* alembic_version, as committed                           *)
  tables,       (* the tables there are                                    *)
  tenants,      (* the rows of tenants: their ids                          *)
  orders,       (* the rows of orders, as inserted                         *)
  stage,        (* what the script does next                               *)
  ddl,          (* its open migration                                      *)
  tx,           (* its open transaction                                    *)
  violations,   (* what the probes were refused with                       *)
  sameId,       (* same_external_id_across_tenants                         *)
  cycle,        (* what inspect() saw after each migration of the end      *)
  ending,       (* how the run of the script ended                         *)
  runs,
  writer        (* what each consumer is doing                             *)

database == <<version, tables, tenants, orders>>
reported == <<violations, sameId, cycle, ending>>
schemaVars == <<database, stage, ddl, tx, reported, runs, writer>>

Closed == [state |-> "none"]
Free == [pc |-> "idle"]

SchemaInit ==
  /\ version = "base" /\ tables = {} /\ tenants = {} /\ orders = <<>>
  /\ stage = "idle" /\ ddl = Closed /\ tx = Closed
  /\ violations = <<>> /\ sameId = 0 /\ cycle = <<>> /\ ending = "none"
  /\ runs = 0
  /\ writer = [c \in Consumers |-> Free]

(* The steps of main() and run_constraint_probes, in their order.          *)
After(s) ==
  CASE s = "downgrade"        -> "upgrade"
    [] s = "upgrade"          -> "delete-orders"
    [] s = "delete-orders"    -> "delete-tenants"
    [] s = "delete-tenants"   -> "insert-tenants"
    [] s = "insert-tenants"   -> "insert-order"
    [] s = "insert-order"     -> "commit-setup"
    [] s = "commit-setup"     -> "probe"
    [] s = "probe"            -> "insert-other"
    [] s = "insert-other"     -> "count"
    [] s = "count"            -> "commit-other"
    [] s = "commit-other"     -> "downgrade-again"
    [] s = "downgrade-again"  -> "inspect-gone"
    [] s = "inspect-gone"     -> "upgrade-again"
    [] s = "upgrade-again"    -> "inspect-back"
    [] s = "inspect-back"     -> "idle"

Proceed == stage' = After(stage)

(* An exception, or a kill, rolls back what is open.                       *)
Raise(exception) ==
  /\ ending' = exception
  /\ stage' = "idle" /\ ddl' = Closed /\ tx' = Closed

StartScript ==
  /\ stage = "idle" /\ runs < MaxRuns
  /\ runs' = runs + 1
  /\ stage' = "downgrade"
  /\ violations' = <<>> /\ sameId' = 0 /\ cycle' = <<>> /\ ending' = "none"
  /\ UNCHANGED <<database, ddl, tx, writer>>

(* run_constraint_probes by itself.                                        *)
StartProbes ==
  /\ stage = "idle" /\ runs < MaxRuns /\ version = "head"
  /\ runs' = runs + 1
  /\ stage' = "delete-orders"
  /\ violations' = <<>> /\ sameId' = 0 /\ cycle' = <<>> /\ ending' = "probing"
  /\ UNCHANGED <<database, ddl, tx, writer>>

KillScript ==
  /\ stage # "idle"
  /\ Raise("killed")
  /\ UNCHANGED <<database, violations, sameId, cycle, runs, writer>>

-----------------------------------------------------------------------------
(* Migrations: Alembic runs the statements of a revision and its own row   *)
(* of alembic_version in one transaction.                                  *)

Target(s) == IF s \in {"upgrade", "upgrade-again"} THEN "head" ELSE "base"
Migrating == stage \in {"downgrade", "upgrade", "downgrade-again", "upgrade-again"}

Upgrade == << <<"create", "tenants">>, <<"create", "orders">> >>
Downgrade == << <<"drop", "orders">>, <<"drop", "tenants">> >>

BeginMigration ==
  /\ Migrating /\ ddl = Closed
  /\ IF version = Target(stage)
     THEN Proceed /\ UNCHANGED ddl
     ELSE /\ ddl' = [state |-> "open", tables |-> tables,
                     todo |-> IF Target(stage) = "head" THEN Upgrade ELSE Downgrade]
          /\ UNCHANGED stage
  /\ UNCHANGED <<database, tx, reported, runs, writer>>

Using == {c \in Consumers : writer[c].pc = "inserted"}

(* orders refers to tenants: neither may be there without the other one.   *)
Refused(s) ==
  \/ s = <<"drop", "tenants">> /\ "orders" \in ddl.tables
  \/ s = <<"create", "orders">> /\ "tenants" \notin ddl.tables

(* Mutant: each statement takes effect on its own.                         *)
RunStatementAlone ==
  /\ ddl # Closed /\ ddl.todo # <<>> /\ Using = {}
  /\ LET s == Head(ddl.todo) IN
     /\ tables' = IF s[1] = "drop" THEN tables \ {s[2]} ELSE tables \union {s[2]}
     /\ ddl' = [ddl EXCEPT !.todo = Tail(ddl.todo), !.tables = tables']
  /\ UNCHANGED <<version, tenants, orders, stage, tx, reported, runs, writer>>

RunStatement ==
  /\ ddl # Closed /\ ddl.todo # <<>>
  /\ LET s == Head(ddl.todo) IN
     IF Refused(s)
     THEN Raise("ProgrammingError")
     ELSE /\ s[1] = "drop" => Using = {}
          /\ ddl' = [ddl EXCEPT
               !.todo = Tail(ddl.todo),
               !.tables = IF s[1] = "drop" THEN @ \ {s[2]} ELSE @ \union {s[2]}]
          /\ UNCHANGED <<ending, stage, tx>>
  /\ UNCHANGED <<database, violations, sameId, cycle, runs, writer>>

CommitMigration ==
  /\ ddl # Closed /\ ddl.todo = <<>>
  /\ version' = Target(stage) /\ tables' = ddl.tables
  /\ tenants' = {} /\ orders' = <<>>
  /\ ddl' = Closed
  /\ Proceed
  /\ UNCHANGED <<tx, reported, runs, writer>>

(* inspect(engine).has_table                                               *)
Inspect ==
  /\ stage \in {"inspect-gone", "inspect-back"}
  /\ cycle' = Append(cycle, tables)
  /\ Proceed
  /\ ending' = IF stage = "inspect-back" THEN "done" ELSE ending
  /\ UNCHANGED <<database, ddl, tx, violations, sameId, runs, writer>>

-----------------------------------------------------------------------------
(* What an insert into orders meets: the constraints of the migration, in  *)
(* the order PostgreSQL looks at them.                                     *)

Row(t, external, total) ==
  [tenant |-> t, external |-> external, total |-> total, status |-> "pending"]
RowsOf(s) == {s[i] : i \in DOMAIN s}

NotNulls == {"tenant", "external", "total", "status"}
Complete(r) == \A column \in NotNulls : r[column] # Null
(* Mutant: the migration checks total_cents >= 0.                          *)
CheckedFromZero(r) == r.total >= 0 /\ r.status \in {"pending", "paid", "cancelled"}
Checked(r) == r.total > 0 /\ r.status \in {"pending", "paid", "cancelled"}
(* Mutant: the migration declares no UNIQUE (tenant_id, external_id).      *)
ClashesNever(r, rows) == FALSE
Clashes(r, rows) ==
  \E q \in rows : q.tenant = r.tenant /\ q.external = r.external

Refusal(r, rows, known) ==
  IF ~Complete(r)               THEN "NotNullViolation"
  ELSE IF ~Checked(r)           THEN "CheckViolation"
  ELSE IF Clashes(r, rows)      THEN "UniqueViolation"
  ELSE IF r.tenant \notin known THEN "ForeignKeyViolation"
  ELSE "none"

-----------------------------------------------------------------------------
(* The script's transactions.                                              *)

Open(t) == [state |-> "open", deleted |-> 0, gone |-> {}, tenants |-> t, rows |-> <<>>]
Seen == SubSeq(orders, tx.deleted + 1, Len(orders)) \o tx.rows
UncommittedByOthers == {writer[c].row : c \in Using}

(* The rows, and the tenants, of the script's view; an insert waits for    *)
(* whoever has inserted the same key and is still open.                    *)
Insert(r) ==
  /\ Complete(r) /\ Checked(r) => ~Clashes(r, UncommittedByOthers)
  /\ LET error == Refusal(r, RowsOf(Seen), tx.tenants) IN
     IF error = "none"
     THEN /\ tx' = [tx EXCEPT !.rows = Append(@, r)]
          /\ Proceed
          /\ UNCHANGED <<ending, ddl>>
     ELSE Raise("IntegrityError")

ScriptOnly == UNCHANGED <<database, violations, sameId, cycle, runs, writer>>

DeleteOrders ==
  /\ stage = "delete-orders"
  /\ tx' = [Open(tenants) EXCEPT !.deleted = Len(orders)]
  /\ Proceed
  /\ UNCHANGED <<ddl, ending>> /\ ScriptOnly

(* ondelete RESTRICT.  An order inserted and not committed holds its       *)
(* tenant; one committed since the orders were deleted still refers to it. *)
DeleteTenants ==
  /\ stage = "delete-tenants"
  /\ \A r \in UncommittedByOthers : r.tenant \notin tx.tenants
  /\ IF \E r \in RowsOf(Seen) : r.tenant \in tx.tenants
     THEN Raise("IntegrityError")
     ELSE /\ tx' = [tx EXCEPT !.tenants = {}, !.gone = tx.tenants]
          /\ Proceed
          /\ UNCHANGED <<ddl, ending>>
  /\ ScriptOnly

InsertTenants ==
  /\ stage = "insert-tenants"
  /\ tx' = [tx EXCEPT !.tenants = {TenantA, TenantB}]
  /\ Proceed
  /\ UNCHANGED <<ddl, ending>> /\ ScriptOnly

InsertOrder ==
  /\ stage = "insert-order"
  /\ Insert(Row(TenantA, ExternalId, 1)) /\ ScriptOnly

Commit ==
  /\ stage \in {"commit-setup", "commit-other"}
  /\ tenants' = tx.tenants
  /\ orders' = Seen
  /\ tx' = Closed
  /\ IF stage = "commit-other" /\ ending = "probing"
     THEN stage' = "idle" /\ ending' = "probed"
     ELSE Proceed /\ UNCHANGED ending
  /\ UNCHANGED <<version, tables, ddl, violations, sameId, cycle, runs, writer>>

Probes ==
  << [case |-> "ForeignKeyViolation", row |-> Row(Orphan, "orphan", 1)],
     [case |-> "NotNullViolation",    row |-> Row(TenantA, Null, 1)],
     [case |-> "CheckViolation",      row |-> Row(TenantA, "free-order", 0)],
     [case |-> "UniqueViolation",     row |-> Row(TenantA, ExternalId, 1)] >>

(* A row the database accepts is committed before AssertionError is        *)
(* raised.                                                                 *)
Accepted ==
  /\ orders' = Append(orders, Probes[Len(violations) + 1].row)
  /\ Raise("AssertionError")
  /\ UNCHANGED <<version, tables, tenants, violations>>

(* _expect_rejection, with a transaction of its own.                       *)
Probe ==
  /\ stage = "probe"
  /\ LET r == Probes[Len(violations) + 1].row
         error == Refusal(r, RowsOf(orders), tenants) IN
     /\ Complete(r) /\ Checked(r) => ~Clashes(r, UncommittedByOthers)
     /\ IF error = "none"
        THEN Accepted
        ELSE /\ violations' = Append(violations, error)
             /\ IF Len(violations') = Len(Probes) THEN Proceed ELSE UNCHANGED stage
             /\ UNCHANGED <<database, ddl, tx, ending>>
  /\ UNCHANGED <<sameId, cycle, runs, writer>>

InsertOther ==
  /\ stage = "insert-other"
  /\ IF tx = Closed
     THEN tx' = Open(tenants) /\ UNCHANGED <<stage, ddl, ending>>
     ELSE Insert(Row(TenantB, ExternalId, 1))
  /\ ScriptOnly

CountSameId ==
  /\ stage = "count"
  /\ sameId' = Cardinality({i \in DOMAIN Seen : Seen[i].external = ExternalId})
  /\ Proceed
  /\ UNCHANGED <<database, ddl, tx, violations, cycle, ending, runs, writer>>

-----------------------------------------------------------------------------
(* A consumer looks its order up before it inserts it.  It waits for the   *)
(* table if it is being dropped, for the script if that is deleting a row  *)
(* or a tenant it needs, and for whoever inserts the same order.           *)

Dropping == ddl # Closed /\ "orders" \notin ddl.tables /\ "orders" \in tables
DeletedByScript ==
  IF tx = Closed THEN {} ELSE RowsOf(SubSeq(orders, 1, tx.deleted))

LookUp(c) ==
  /\ writer[c].pc = "idle" /\ "orders" \in tables /\ ~Dropping
  /\ \E t \in {TenantA, TenantB} :
       /\ ~Clashes(Row(t, ExternalId, 1), RowsOf(orders))
       /\ writer' = [writer EXCEPT ![c] = [pc |-> "absent", row |-> Row(t, ExternalId, 1)]]
  /\ UNCHANGED <<database, stage, ddl, tx, reported, runs>>

MayInsert(c) ==
  LET r == writer[c].row
      uncommitted == {writer[d].row : d \in Using \ {c}}
                       \union (IF tx = Closed THEN {} ELSE RowsOf(tx.rows))
  IN  /\ ~Dropping
      /\ ~Clashes(r, uncommitted \union DeletedByScript)
      /\ tx # Closed => r.tenant \notin tx.gone

WriterInsert(c) ==
  /\ writer[c].pc = "absent" /\ MayInsert(c)
  /\ LET accepted == "orders" \in tables
                       /\ Refusal(writer[c].row, RowsOf(orders), tenants) = "none"
     IN  writer' = [writer EXCEPT ![c] = IF accepted THEN [@ EXCEPT !.pc = "inserted"] ELSE Free]
  /\ UNCHANGED <<database, stage, ddl, tx, reported, runs>>

WriterCommit(c) ==
  /\ writer[c].pc = "inserted"
  /\ orders' = Append(orders, writer[c].row)
  /\ writer' = [writer EXCEPT ![c] = Free]
  /\ UNCHANGED <<version, tables, tenants, stage, ddl, tx, reported, runs>>

(* The consumer gives up, or is refused because what it waited for has     *)
(* changed.                                                                *)
WriterRollback(c) ==
  /\ writer[c].pc \in {"absent", "inserted"}
  /\ writer' = [writer EXCEPT ![c] = Free]
  /\ UNCHANGED <<database, stage, ddl, tx, reported, runs>>

SchemaNext ==
  \/ StartScript \/ StartProbes \/ KillScript
  \/ BeginMigration \/ RunStatement \/ CommitMigration \/ Inspect
  \/ DeleteOrders \/ DeleteTenants \/ InsertTenants \/ InsertOrder \/ Commit
  \/ Probe \/ InsertOther \/ CountSameId
  \/ \E c \in Consumers :
       LookUp(c) \/ WriterInsert(c) \/ WriterCommit(c) \/ WriterRollback(c)

SchemaSpec == SchemaInit /\ [][SchemaNext]_schemaVars

-----------------------------------------------------------------------------
(* Correctness.                                                            *)

(* What is committed obeys the domain, whoever wrote it: every order has   *)
(* its tenant and its fields, and no tenant has an external_id twice,      *)
(* although consumers look before they insert and several may find nothing. *)
DomainHolds ==
  /\ \A i \in DOMAIN orders :
       /\ orders[i].tenant \in tenants
       /\ Complete(orders[i]) /\ Checked(orders[i])
  /\ \A i, j \in DOMAIN orders :
       orders[i].tenant = orders[j].tenant /\ orders[i].external = orders[j].external => i = j

(* The version the database claims is the schema it has, wherever a        *)
(* migration is cut off: the next run can always take it from there.       *)
VersionMatchesSchema ==
  /\ tables = IF version = "head" THEN {"tenants", "orders"} ELSE {}
  /\ version = "base" => tenants = {} /\ orders = <<>>
  /\ ending # "ProgrammingError"

(* A run that comes to its end has seen each probe refused by the very     *)
(* constraint it was made for, the external_id once in each of two tenants *)
(* and the tables go and come back; consumers can only make it fail        *)
(* openly, and never by an invalid row the database would have accepted.   *)
ProbesNamed ==
  /\ ending # "AssertionError"
  /\ ending \in {"probed", "done"} =>
       /\ violations = [i \in DOMAIN Probes |-> Probes[i].case]
       /\ sameId = 2
  /\ ending = "done" => cycle = << {}, {"tenants", "orders"} >>
=============================================================================
