----------------------------- MODULE QueryClinic ------------------------------
(***************************************************************************)
(* P10-explain-analyze-e-indices: scripts/run_experiment.py seeds a schema *)
(* by arithmetic on the row number, explains two queries under different   *)
(* indexes, reads the same orders by N + 1 queries and by a JOIN, and      *)
(* reports.                                                                *)
(*                                                                         *)
(* PostgreSQL is external: its planner chooses among the plans the indexes *)
(* allow, and orders rows whose sort keys tie as it likes.  The connection *)
(* autocommits, so a run that fails or is killed leaves what it has done,  *)
(* and another run starts from there.                                      *)
(***************************************************************************)
EXTENDS Integers, Sequences, FiniteSetsExt

CONSTANTS
  RowCounts, CustomerCounts, TenantCounts, PendingEvery,  (* SeedConfig    *)
  PageSizes, NPlusOneRows,                                (* TargetConfig  *)
  IntMax,      (* the largest value of a PostgreSQL integer                *)
  MaxStarts    (* bound: times the script is started                       *)

ASSUME ClinicAssumption ==
  /\ RowCounts \subseteq Nat \ {0} /\ CustomerCounts \subseteq Nat \ {0}
  /\ TenantCounts \subseteq Nat \ {0, 1} /\ PendingEvery \subseteq Nat \ {0, 1}
  /\ PageSizes \subseteq Nat \ {0} /\ NPlusOneRows \subseteq Nat \ {0}
  /\ IntMax \in Nat /\ MaxStarts \in Nat

VARIABLES
  scenario,    (* scenario.yaml, as validated                              *)
  step,        (* the statement the script is at, 0 when it does not run   *)
  db,          (* the schema query_clinic                                  *)
  plans,       (* collect_index_plans's plans so far                       *)
  listed,      (* compare_access_patterns: orders, ...                     *)
  assembled,   (* ... assembled                                            *)
  queryCount,  (* ... query_count                                          *)
  joined,      (* ... joined                                               *)
  clinicReport,
  failure,     (* how the last run failed, "none" if it did not            *)
  starts

local == <<plans, listed, assembled, queryCount, joined>>
clinicVars == <<scenario, step, db, local, clinicReport, failure, starts>>

-----------------------------------------------------------------------------
(* The scenario and the rows of its seed.                                  *)

Candidates ==
  [rows : RowCounts, customers : CustomerCounts, tenants : TenantCounts,
   every : PendingEvery, tenant : UNION {1 .. t : t \in TenantCounts},
   page : PageSizes, few : NPlusOneRows]

(* Scenario.validate_deterministic_distribution.                           *)
Cycle(s) == s.tenants * s.every
Valid(s) ==
  /\ s.tenant <= s.tenants
  /\ s.rows % Cycle(s) = 0
  /\ s.page <= s.rows \div Cycle(s) /\ s.few <= s.rows \div Cycle(s)

TenantOf(s, n) == 1 + ((n - 1) % s.tenants)
(* Mutant: customers are numbered from zero.                               *)
CustomerFromZero(s, n) == ((n - 1) * 17) % s.customers
CustomerOf(s, n) == 1 + (((n - 1) * 17) % s.customers)
(* Mutant: every pending_every-th row is pending, whoever's it is.         *)
PendingByRow(s, n) == (n - 1) % s.every = 0
Pending(s, n) == ((n - 1) \div s.tenants) % s.every = 0
CreatedAt(n) == n

(* n is an integer as long as row_count is one, and so is what is computed *)
(* from it.                                                                *)
Overflows(s) ==
  s.rows <= IntMax /\ (s.rows * 97 > IntMax \/ (s.rows - 1) * 17 > IntMax)

Absent == -1
NoSchema == [schema |-> FALSE, customers |-> Absent, orders |-> Absent,
             indexes |-> {}, analyzed |-> Absent]

Matching == {n \in 1 .. db.orders : TenantOf(scenario, n) = scenario.tenant /\ Pending(scenario, n)}
(* TARGET_QUERY: the ids of the newest, by created_at DESC; which of those *)
(* that tie comes first is PostgreSQL's choice, made anew for each query.  *)
Answers(limit) ==
  {rows \in [1 .. Min({limit, Cardinality(Matching)}) -> Matching] :
     /\ \A i, j \in DOMAIN rows :
          i < j => rows[i] # rows[j] /\ CreatedAt(rows[i]) >= CreatedAt(rows[j])
     /\ \A n \in Matching :
          \/ \E i \in DOMAIN rows : rows[i] = n
          \/ \A i \in DOMAIN rows : CreatedAt(rows[i]) >= CreatedAt(n)}

-----------------------------------------------------------------------------
(* The statements of a run, in their order.                                *)

Reset ==
  << <<"drop-schema", "query_clinic">>, <<"create-schema", "query_clinic">>,
     <<"create-table", "customers">>, <<"create-table", "orders">>,
     <<"insert-customers", "customers">>, <<"insert-orders", "orders">>, <<"analyze", "orders">> >>

(* Mutant: idx_orders_status is left where it is.                          *)
CollectLeavingIndex ==
  << <<"drop-index-if-exists", "status">>, <<"drop-index-if-exists", "composed">>,
     <<"analyze", "orders">>, <<"explain", "sem_indice">>,
     <<"create-index", "status">>, <<"analyze", "orders">>,
     <<"explain", "indice_inadequado">>, <<"explain", "sequential_scan_legitimo">>,
     <<"create-index", "composed">>, <<"analyze", "orders">>,
     <<"explain", "indice_composto_alinhado">> >>
Collect ==
  << <<"drop-index-if-exists", "status">>, <<"drop-index-if-exists", "composed">>,
     <<"analyze", "orders">>, <<"explain", "sem_indice">>,
     <<"create-index", "status">>, <<"analyze", "orders">>,
     <<"explain", "indice_inadequado">>, <<"explain", "sequential_scan_legitimo">>,
     <<"drop-index", "status">>, <<"create-index", "composed">>, <<"analyze", "orders">>,
     <<"explain", "indice_composto_alinhado">> >>

Compare ==
  << <<"select-orders", "orders">>, <<"select-customers", "customers">>, <<"select-join", "orders">>,
     <<"report", "plans">> >>

Statements == Reset \o Collect \o Compare
Doing(what) == step > 0 /\ Statements[step][1] = what
Object == Statements[step][2]
Next1 == step' = step + 1

Fail(error) == step' = 0 /\ failure' = error
Run(changed) == db' = changed /\ Next1 /\ UNCHANGED failure

ClinicInit ==
  /\ scenario \in {s \in Candidates : Valid(s)}
  /\ step = 0 /\ db = NoSchema
  /\ plans = <<>> /\ listed = <<>> /\ assembled = <<>> /\ queryCount = 0 /\ joined = <<>>
  /\ clinicReport = <<>> /\ failure = "none" /\ starts = 0

StartClinic ==
  /\ step = 0 /\ starts < MaxStarts
  /\ starts' = starts + 1 /\ step' = 1 /\ failure' = "none"
  /\ plans' = <<>> /\ listed' = <<>> /\ assembled' = <<>> /\ queryCount' = 0 /\ joined' = <<>>
  /\ clinicReport' = <<>>
  /\ UNCHANGED <<scenario, db>>

KillClinic ==
  /\ step > 0 /\ Fail("killed")
  /\ UNCHANGED <<scenario, db, local, clinicReport, starts>>

ChangeSchema ==
  /\ \/ Doing("drop-schema") /\ Run(NoSchema)
     \/ Doing("create-schema") /\ IF db.schema THEN Fail("DuplicateSchema") /\ UNCHANGED db
                               ELSE Run([db EXCEPT !.schema = TRUE])
     \/ Doing("create-table") /\ Run([db EXCEPT ![Object] = 0])
  /\ UNCHANGED <<scenario, local, clinicReport, starts>>

(* INSERT ... SELECT: all of its rows, or none.                            *)
SeedTables ==
  /\ \/ Doing("insert-customers") /\ Run([db EXCEPT !.customers = scenario.customers])
     \/ /\ Doing("insert-orders")
        /\ IF Overflows(scenario) THEN Fail("NumericValueOutOfRange") /\ UNCHANGED db
           ELSE IF \E n \in 1 .. scenario.rows : CustomerOf(scenario, n) \notin 1 .. db.customers
           THEN Fail("ForeignKeyViolation") /\ UNCHANGED db
           ELSE Run([db EXCEPT !.orders = scenario.rows])
     \/ Doing("analyze") /\ Run([db EXCEPT !.analyzed = db.orders])
  /\ UNCHANGED <<scenario, local, clinicReport, starts>>

ChangeIndexes ==
  /\ \/ Doing("drop-index-if-exists") /\ Run([db EXCEPT !.indexes = @ \ {Object}])
     \/ Doing("drop-index") /\ IF Object \in db.indexes THEN Run([db EXCEPT !.indexes = @ \ {Object}])
                            ELSE Fail("UndefinedObject") /\ UNCHANGED db
     \/ Doing("create-index") /\ IF Object \notin db.indexes THEN Run([db EXCEPT !.indexes = @ \union {Object}])
                              ELSE Fail("DuplicateTable") /\ UNCHANGED db
  /\ UNCHANGED <<scenario, local, clinicReport, starts>>

-----------------------------------------------------------------------------
(* _explain and parse_explain.  Each of these queries reads one relation   *)
(* without parallelism: a plan is a chain of nodes, each named by its type *)
(* ("Seq Scan" is SeqScan).                                                *)

MayPlan(label) ==
  IF label = "sequential_scan_legitimo"
  THEN {<<"Aggregate", "SeqScan">>}
         \union (IF "status" \in db.indexes THEN
                   {<<"Aggregate", "IndexScan">>,
                    <<"Aggregate", "BitmapHeapScan", "BitmapIndexScan">>} ELSE {})
  ELSE {<<"Limit", "Sort", "SeqScan">>}
         \union (IF db.indexes # {} THEN
                   {<<"Limit", "Sort", "IndexScan">>,
                    <<"Limit", "Sort", "BitmapHeapScan", "BitmapIndexScan">>} ELSE {})
         \union (IF "composed" \in db.indexes THEN {<<"Limit", "IndexOnlyScan">>} ELSE {})

Scans == {"SeqScan", "IndexScan", "IndexOnlyScan", "BitmapHeapScan", "BitmapIndexScan"}
ScanTypes(nodes) ==
  LET types[i \in 0 .. Len(nodes)] ==
        IF i = 0 THEN <<>>
        ELSE IF nodes[i] \in Scans THEN Append(types[i - 1], nodes[i]) ELSE types[i - 1]
  IN  types[Len(nodes)]

Explain ==
  /\ Doing("explain")
  /\ \E nodes \in MayPlan(Object), rows \in Answers(scenario.page) :
       plans' = Append(plans,
         [label |-> Object, nodes |-> nodes, returned |-> Len(rows),
          indexes |-> db.indexes, table |-> db.orders, analyzed |-> db.analyzed])
  /\ Next1
  /\ UNCHANGED <<scenario, db, listed, assembled, queryCount, joined, clinicReport, failure, starts>>

-----------------------------------------------------------------------------
(* compare_access_patterns.                                                *)

SelectOrders ==
  /\ Doing("select-orders")
  /\ listed' \in Answers(scenario.few)
  /\ queryCount' = 1
  /\ Next1
  /\ UNCHANGED <<scenario, db, plans, assembled, joined, clinicReport, failure, starts>>

Joined(n) == [id |-> n, name |-> CustomerOf(scenario, n)]

SelectCustomer ==
  /\ Doing("select-customers")
  /\ IF Len(assembled) = Len(listed)
     THEN Next1 /\ UNCHANGED <<assembled, queryCount, failure>>
     ELSE LET n == listed[Len(assembled) + 1] IN
          /\ queryCount' = queryCount + 1
          /\ IF CustomerOf(scenario, n) \in 1 .. db.customers
             THEN assembled' = Append(assembled, Joined(n)) /\ UNCHANGED <<step, failure>>
             ELSE Fail("RuntimeError") /\ UNCHANGED assembled
  /\ UNCHANGED <<scenario, db, plans, listed, joined, clinicReport, starts>>

SelectJoin ==
  /\ Doing("select-join")
  /\ \E rows \in Answers(scenario.few) :
       joined' = [i \in DOMAIN rows |-> Joined(rows[i])]
  /\ Next1
  /\ UNCHANGED <<scenario, db, plans, listed, assembled, queryCount, clinicReport, failure, starts>>

WriteReport ==
  /\ Doing("report")
  /\ clinicReport' = <<[rows |-> Len(joined), equal |-> assembled = joined, queries |-> queryCount,
                        scans |-> [i \in DOMAIN plans |-> ScanTypes(plans[i].nodes)]]>>
  /\ step' = 0
  /\ UNCHANGED <<scenario, db, local, failure, starts>>

ClinicNext ==
  \/ StartClinic \/ KillClinic
  \/ ChangeSchema \/ SeedTables \/ ChangeIndexes \/ Explain
  \/ SelectOrders \/ SelectCustomer \/ SelectJoin \/ WriteReport

ClinicSpec == ClinicInit /\ [][ClinicNext]_clinicVars

-----------------------------------------------------------------------------
(* Correctness.                                                            *)

Intended(label) ==
  CASE label = "sem_indice" -> {}
    [] label = "indice_composto_alinhado" -> {"composed"}
    [] OTHER -> {"status"}

(* Each plan that is reported was taken under the indexes its label names, *)
(* over the whole seed, with statistics of it, and with a full page to     *)
(* find, whatever earlier runs were cut off at; so "sem_indice" shows one  *)
(* sequential scan and nothing else.                                       *)
PlansUnderTheirIndexes ==
  /\ \A i \in DOMAIN plans :
       /\ plans[i].indexes = Intended(plans[i].label)
       /\ plans[i].table = scenario.rows /\ plans[i].analyzed = scenario.rows
       /\ plans[i].returned = scenario.page
  /\ clinicReport # <<>> => Len(plans) = 4 /\ clinicReport[1].scans[1] = <<"SeqScan">>

(* The two access patterns are compared on the same rows: for any scenario *)
(* the validator lets through the seed's arithmetic gives the tenant as    *)
(* many pending orders as it computed and each its customer, N + 1 is what *)
(* was asked for plus one, and the results are equal in content and order. *)
(* A run that is not killed fails only where that arithmetic leaves the    *)
(* integers, which no validator excludes, and never over what an earlier   *)
(* run left behind.                                                        *)
AccessAgrees ==
  /\ clinicReport # <<>> =>
       /\ clinicReport[1].rows = scenario.few
       /\ clinicReport[1].queries = scenario.few + 1
       /\ clinicReport[1].equal
  /\ failure \in {"none", "killed", "NumericValueOutOfRange"}
  /\ failure = "NumericValueOutOfRange" => scenario.rows * 97 > IntMax /\ db.orders = 0
=============================================================================
