----------------------------- MODULE TenantPool ------------------------------
(***************************************************************************)
(* P11-postgresql-rls: requests of several tenants share the connections   *)
(* of one pool.  A row-level security policy filters documents by the      *)
(* setting app.tenant_id of the connection, and a connection keeps its     *)
(* settings when it goes back to the pool.                                 *)
(*                                                                         *)
(* PostgreSQL and psycopg_pool are external.  Of a connection's setting    *)
(* the model keeps the value in force, the one a commit would leave and    *)
(* the one a rollback would: the three are equal outside a transaction.    *)
(***************************************************************************)
EXTENDS FiniteSets

CONSTANTS
  Requests,     (* callers, each making one request after another          *)
  Connections,  (* the pool; create_single_connection_pool makes one       *)
  Tenants,
  Titles,
  NoTenant      (* app.tenant_id unset or empty: NULLIF makes them one     *)

ASSUME PoolAssumption == NoTenant \notin Tenants

VARIABLES
  setting,    (* app.tenant_id of each connection                          *)
  documents,  (* the committed titles of each tenant                       *)
  pending,    (* the rows each connection's transaction has inserted       *)
  request,    (* where each caller's request stands                        *)
  insecure    (* history: the <<connection, tenant>> of insecure reads     *)

vars == <<setting, documents, pending, request, insecure>>

Contexts == Tenants \union {NoTenant}
Setting == [value : Contexts, onCommit : Contexts, onRollback : Contexts]
Steady(v) == [value |-> v, onCommit |-> v, onRollback |-> v]

(* The entry points: read_with_session_context, tenant_transaction and     *)
(* observe_without_context.                                                *)
Kinds == {"session", "transaction", "none"}

Idle == [pc |-> "idle"]
Active == {r \in Requests : request[r].pc \in {"held", "cleared", "body"}}
Free(c) == \A r \in Active : request[r].conn # c

-----------------------------------------------------------------------------
(* PostgreSQL.                                                             *)

(* set_config(..., false) is undone by a rollback; set_config(..., true)   *)
(* by either end of the transaction.                                       *)
SetSession(s, v) == [s EXCEPT !.value = v, !.onCommit = v]
SetLocal(s, v) == [s EXCEPT !.value = v]
Commit(s) == Steady(s.onCommit)
Rollback(s) == Steady(s.onRollback)

(* The policy tenant_owns_document: its USING clause, over the committed   *)
(* rows and those of the transaction itself, and its WITH CHECK clause.    *)
Rows(c) == {row \in Tenants \X Titles : row[2] \in documents[row[1]]} \union pending[c]
(* Mutants: the role bypasses the policy; a connection with no tenant sees *)
(* everything; one with a tenant may insert any row.                       *)
VisibleUnfiltered(c) == Rows(c)
VisibleUnlessUnset(c) == {row \in Rows(c) : setting[c].value \in {row[1], NoTenant}}
Visible(c) == {row \in Rows(c) : setting[c].value = row[1]}
MayInsertAny(c, row) == setting[c].value # NoTenant
MayInsert(c, row) == setting[c].value = row[1]

-----------------------------------------------------------------------------
Init ==
  /\ setting = [c \in Connections |-> Steady(NoTenant)]
  /\ documents \in [Tenants -> (SUBSET Titles) \ {{}}]
  /\ pending = [c \in Connections |-> {}]
  /\ request = [r \in Requests |-> Idle]
  /\ insecure = {}

(* A caller uses an entry point, which asks the pool for a connection.     *)
Ask(r) ==
  /\ request[r] = Idle
  /\ \E kind \in Kinds, t \in Tenants :
       request' = [request EXCEPT ![r] = [pc |-> "waiting", kind |-> kind, tenant |-> t]]
  /\ UNCHANGED <<setting, documents, pending, insecure>>

Acquire(r) ==
  /\ request[r].pc = "waiting"
  /\ \E c \in Connections :
       /\ Free(c)
       /\ request' = [request EXCEPT ![r] =
            [pc |-> "held", kind |-> @.kind, tenant |-> @.tenant, conn |-> c, seen |-> {}]]
  /\ UNCHANGED <<setting, documents, pending, insecure>>

(* The connection goes back to the pool with s as its setting.             *)
Return(r, s) ==
  /\ setting' = [setting EXCEPT ![request[r].conn] = s]
  /\ pending' = [pending EXCEPT ![request[r].conn] = {}]
  /\ request' = [request EXCEPT ![r] = Idle]

(* tenant_transaction, first block: a transaction of its own that empties  *)
(* the session value.                                                      *)
(* Mutant: the value is emptied in the transaction of the body.            *)
ClearLegacyUncommitted(r) ==
  LET c == request[r].conn IN
  /\ request[r].pc = "held" /\ request[r].kind = "transaction"
  /\ setting' = [setting EXCEPT ![c] = SetSession(@, NoTenant)]
  /\ request' = [request EXCEPT ![r].pc = "cleared"]
  /\ UNCHANGED <<documents, pending, insecure>>
ClearLegacy(r) ==
  LET c == request[r].conn IN
  /\ request[r].pc = "held" /\ request[r].kind = "transaction"
  /\ setting' = [setting EXCEPT ![c] = Commit(SetSession(@, NoTenant))]
  /\ request' = [request EXCEPT ![r].pc = "cleared"]
  /\ UNCHANGED <<documents, pending, insecure>>

(* The transaction of the request begins and sets its context, if any.     *)
Begin(r) ==
  LET c == request[r].conn  t == request[r].tenant IN
  /\ \/ /\ request[r].pc = "cleared"
        /\ setting' = [setting EXCEPT ![c] = SetLocal(@, t)]
     \/ /\ request[r].pc = "held" /\ request[r].kind = "session"
        /\ setting' = [setting EXCEPT ![c] = SetSession(@, t)]
     \/ /\ request[r].pc = "held" /\ request[r].kind = "none"
        /\ UNCHANGED setting
  /\ request' = [request EXCEPT ![r].pc = "body"]
  /\ UNCHANGED <<documents, pending, insecure>>

(* _observe: a SELECT with no filter of its own.                           *)
Observe(r) ==
  LET c == request[r].conn IN
  /\ request[r].pc = "body"
  /\ request' = [request EXCEPT ![r].seen = {[active |-> setting[c].value, rows |-> Visible(c)]}]
  /\ UNCHANGED <<setting, documents, pending, insecure>>

(* The body of tenant_transaction inserts a document, possibly one of      *)
(* another tenant: refused, the statement aborts the transaction.  The     *)
(* role may update and delete as well, which no statement of P11 does.     *)
Insert(r) ==
  LET c == request[r].conn IN
  /\ request[r].pc = "body" /\ request[r].kind = "transaction"
  /\ \E row \in Tenants \X Titles :
       \/ /\ MayInsert(c, row)
          /\ pending' = [pending EXCEPT ![c] = @ \union {row}]
          /\ UNCHANGED <<setting, request>>
       \/ /\ ~MayInsert(c, row)
          /\ Return(r, Rollback(setting[c]))
  /\ UNCHANGED <<documents, insecure>>

(* The request returns: commit, and the connection goes back.  The two     *)
(* plain readers return their observation.                                 *)
(* Mutant: a reader that sees no document reads again.                     *)
FinishOnceSeen(r) ==
  LET c == request[r].conn IN
  /\ request[r].pc = "body"
  /\ request[r].kind = "transaction" \/ \E o \in request[r].seen : o.rows # {}
  /\ documents' = [t \in Tenants |->
                     documents[t] \union {title \in Titles : <<t, title>> \in pending[c]}]
  /\ insecure' = IF request[r].kind = "session"
                 THEN insecure \union {<<c, request[r].tenant>>} ELSE insecure
  /\ Return(r, Commit(setting[c]))
Finish(r) ==
  LET c == request[r].conn IN
  /\ request[r].pc = "body"
  /\ request[r].kind = "transaction" \/ request[r].seen # {}
  /\ documents' = [t \in Tenants |->
                     documents[t] \union {title \in Titles : <<t, title>> \in pending[c]}]
  /\ insecure' = IF request[r].kind = "session"
                 THEN insecure \union {<<c, request[r].tenant>>} ELSE insecure
  /\ Return(r, Commit(setting[c]))

(* An exception, in the body or in a statement before it: rollback, and    *)
(* the connection goes back.                                               *)
Fail(r) ==
  /\ r \in Active
  /\ Return(r, Rollback(setting[request[r].conn]))
  /\ UNCHANGED <<documents, insecure>>

(* The connection breaks: the server rolls back, and the pool discards it  *)
(* and opens another in its place.                                         *)
Lose(r) ==
  /\ r \in Active
  /\ Return(r, Steady(NoTenant))
  /\ UNCHANGED <<documents, insecure>>

Next ==
  \E r \in Requests :
    \/ Ask(r) \/ Acquire(r) \/ ClearLegacy(r) \/ Begin(r)
    \/ Observe(r) \/ Insert(r) \/ Finish(r) \/ Fail(r) \/ Lose(r)

Spec == Init /\ [][Next]_vars

(* A request runs until it returns, and the pool serves waiting callers in *)
(* turn: none of them loses every race for a connection.                   *)
Fairness ==
  \A r \in Requests :
    /\ SF_vars(Acquire(r))
    /\ WF_vars(ClearLegacy(r)) /\ WF_vars(Begin(r)) /\ WF_vars(Finish(r))
    /\ WF_vars(Observe(r) /\ request[r].seen = {})
FairSpec == Spec /\ Fairness

-----------------------------------------------------------------------------
(* Correctness.                                                            *)

Observation == [active : Contexts, rows : SUBSET (Tenants \X Titles)]
Request ==
  {Idle}
    \union [pc : {"waiting"}, kind : Kinds, tenant : Tenants]
    \union [pc : {"held", "cleared", "body"}, kind : Kinds, tenant : Tenants,
            conn : Connections, seen : SUBSET Observation]

(* Every variable has its type, and no two requests hold one connection.   *)
TypeOK ==
  /\ setting \in [Connections -> Setting]
  /\ documents \in [Tenants -> SUBSET Titles]
  /\ pending \in [Connections -> SUBSET (Tenants \X Titles)]
  /\ request \in [Requests -> Request]
  /\ insecure \subseteq Connections \X Tenants
  /\ \A r, s \in Active : request[r].conn = request[s].conn => r = s

(* Whatever the connection went through before, a request inside           *)
(* tenant_transaction reads as its own tenant, and reads documents of its  *)
(* own tenant, at least one and no others.                                 *)
SafeSeesOwnDocuments ==
  \A r \in Active : \A o \in request[r].seen :
    request[r].kind = "transaction" =>
      /\ o.active = request[r].tenant
      /\ o.rows # {}
      /\ \A row \in o.rows : row[1] = request[r].tenant

(* A reader that sets no context sees nothing, unless an insecure read of  *)
(* the tenant it sees has completed on the same connection before it.      *)
LeakNeedsInsecureRead ==
  \A r \in Active : \A o \in request[r].seen :
    request[r].kind = "none" =>
      IF o.active = NoTenant THEN o.rows = {}
      ELSE <<request[r].conn, o.active>> \in insecure

(* Both: what a request reads is its own tenant's, or was left by a reader *)
(* that is known to be insecure.                                           *)
ReadsExplained == SafeSeesOwnDocuments /\ LeakNeedsInsecureRead

(* However a tenant_transaction ends once it has entered its body (commit, *)
(* exception, refused statement, broken connection), the connection goes   *)
(* back with no tenant, even if it arrived with one.                       *)
ContextDiesWithTransaction ==
  [][\A r \in Active :
       request[r].kind = "transaction" /\ request[r].pc = "body" /\ request'[r] = Idle
         => setting'[request[r].conn] = Steady(NoTenant)]_vars

(* The documents of a tenant change only when a tenant_transaction of that *)
(* very tenant ends, and none is ever lost.                                *)
OnlyOwnersWrite ==
  [][\A t \in Tenants :
       documents'[t] # documents[t] =>
         /\ documents[t] \subseteq documents'[t]
         /\ \E r \in Active :
              /\ request[r].kind = "transaction" /\ request[r].tenant = t
              /\ request'[r] = Idle]_vars

(* Every request ends: the pool's connections always come back.            *)
EveryRequestEnds ==
  \A r \in Requests : request[r].pc = "waiting" ~> request[r].pc = "idle"
=============================================================================
