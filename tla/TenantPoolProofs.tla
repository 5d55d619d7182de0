-------------------------- MODULE TenantPoolProofs ---------------------------
(***************************************************************************)
(* Proofs about TenantPool, for any number of requests, connections,       *)
(* tenants and titles.                                                     *)
(*                                                                         *)
(* The argument: a connection is held by at most one request, so what its  *)
(* holder's program counter says of the connection's setting and rows      *)
(* (Holds) can be disturbed by that holder alone; a connection nobody      *)
(* holds is outside any transaction (Resting); and a tenant that a         *)
(* rollback would leave on a connection was put there by an insecure read  *)
(* (LegacyIsKnown).                                                        *)
(***************************************************************************)
EXTENDS TenantPool, TLAPS

(* What the place of r in its code says of the connection it holds.        *)
Holds(r) ==
  LET q == request[r]  s == setting[q.conn]  inserted == pending[q.conn] IN
  \/ q.pc = "held" /\ inserted = {} /\ s = Steady(s.onRollback)
  \/ q.pc = "cleared" /\ q.kind = "transaction" /\ inserted = {} /\ s = Steady(NoTenant)
  \/ /\ q.pc = "body" /\ q.kind = "transaction"
     /\ s = SetLocal(Steady(NoTenant), q.tenant)
     /\ \A row \in inserted : row[1] = q.tenant
  \/ /\ q.pc = "body" /\ q.kind = "session" /\ inserted = {}
     /\ s = SetSession(Steady(s.onRollback), q.tenant)
  \/ q.pc = "body" /\ q.kind = "none" /\ inserted = {} /\ s = Steady(s.onRollback)

HoldersKnow == \A r \in Active : Holds(r)

Resting ==
  \A c \in Connections :
    Free(c) => setting[c] = Steady(setting[c].onRollback) /\ pending[c] = {}

LegacyIsKnown ==
  \A c \in Connections :
    setting[c].onRollback = NoTenant \/ <<c, setting[c].onRollback>> \in insecure

EveryTenantHasDocuments == \A t \in Tenants : documents[t] # {}

IInv ==
  /\ TypeOK
  /\ HoldersKnow
  /\ Resting
  /\ LegacyIsKnown
  /\ EveryTenantHasDocuments
  /\ SafeSeesOwnDocuments
  /\ LeakNeedsInsecureRead

-----------------------------------------------------------------------------
(* Settings and requests.                                                  *)

LEMMA SettingOps ==
  ASSUME NEW s \in Setting, NEW v \in Contexts
  PROVE  /\ Steady(v) \in Setting
         /\ SetSession(s, v) \in Setting
         /\ SetLocal(s, v) \in Setting
         /\ Commit(s) = Steady(s.onCommit) /\ Commit(s) \in Setting
         /\ Rollback(s) = Steady(s.onRollback) /\ Rollback(s) \in Setting
  BY DEF Setting, Steady, SetSession, SetLocal, Commit, Rollback

LEMMA SteadyFields ==
  ASSUME NEW v
  PROVE  Steady(v).value = v /\ Steady(v).onCommit = v /\ Steady(v).onRollback = v
  BY DEF Steady

(* An active request has a connection, and the setting of it is typed.     *)
LEMMA ActiveHolds ==
  ASSUME TypeOK, NEW r \in Active
  PROVE  /\ r \in Requests
         /\ request[r] \in [pc : {"held", "cleared", "body"}, kind : Kinds,
                            tenant : Tenants, conn : Connections,
                            seen : SUBSET Observation]
         /\ setting[request[r].conn] \in Setting
         /\ pending[request[r].conn] \subseteq Tenants \X Titles
         /\ ~ Free(request[r].conn)
  <1>1. r \in Requests /\ request[r].pc \in {"held", "cleared", "body"}
    BY DEF Active
  <1>2. request[r] \in Request
    BY <1>1 DEF TypeOK
  <1>3. request[r] # Idle
    BY <1>1 DEF Idle
  <1>4. request[r] \in [pc : {"held", "cleared", "body"}, kind : Kinds,
                        tenant : Tenants, conn : Connections, seen : SUBSET Observation]
    BY <1>1, <1>2, <1>3 DEF Request
  <1> QED
    BY <1>1, <1>4 DEF TypeOK, Free

(* What the settings say in terms of their fields.                         *)
LEMMA TransactionBody ==
  ASSUME TypeOK, HoldersKnow, NEW r \in Active,
         request[r].kind = "transaction", request[r].pc = "body"
  PROVE  /\ setting[request[r].conn].value = request[r].tenant
         /\ setting[request[r].conn].onCommit = NoTenant
         /\ setting[request[r].conn].onRollback = NoTenant
         /\ \A row \in pending[request[r].conn] : row[1] = request[r].tenant
  BY DEF HoldersKnow, Holds, Steady, SetLocal

(* Only a tenant_transaction ever inserts.                                 *)
LEMMA OnlyTransactionsInsert ==
  ASSUME TypeOK, HoldersKnow, NEW r \in Active, pending[request[r].conn] # {}
  PROVE  request[r].kind = "transaction" /\ request[r].pc = "body"
  BY DEF HoldersKnow, Holds

-----------------------------------------------------------------------------
(* The connection of r goes back steady, whatever else its end does.       *)

LEMMA ReturnPreserves ==
  ASSUME IInv, NEW r \in Active, NEW v \in Contexts,
         Return(r, Steady(v)),
         v = NoTenant \/ <<request[r].conn, v>> \in insecure',
         insecure \subseteq insecure', insecure' \subseteq Connections \X Tenants,
         documents' \in [Tenants -> SUBSET Titles],
         \A t \in Tenants : documents[t] \subseteq documents'[t]
  PROVE  IInv'
  <1> DEFINE c == request[r].conn
  <1>1. /\ TypeOK /\ HoldersKnow /\ Resting /\ LegacyIsKnown
        /\ EveryTenantHasDocuments /\ SafeSeesOwnDocuments /\ LeakNeedsInsecureRead
    BY DEF IInv
  <1>2. r \in Requests /\ c \in Connections /\ Steady(v) \in Setting
    BY <1>1, ActiveHolds DEF Setting, Steady
  <1>3. /\ request' \in [Requests -> Request]
        /\ request'[r] = Idle
        /\ \A q \in Requests : q # r => request'[q] = request[q]
    BY <1>1, <1>2 DEF Return, TypeOK, Request
  <1>4. /\ setting' \in [Connections -> Setting] /\ setting'[c] = Steady(v)
        /\ \A d \in Connections : d # c => setting'[d] = setting[d]
    BY <1>1, <1>2 DEF Return, TypeOK
  <1>5. /\ pending' \in [Connections -> SUBSET (Tenants \X Titles)] /\ pending'[c] = {}
        /\ \A d \in Connections : d # c => pending'[d] = pending[d]
    BY <1>1, <1>2 DEF Return, TypeOK
  <1>6. ASSUME NEW q \in Active'
        PROVE  /\ q \in Active /\ q # r /\ request'[q] = request[q]
               /\ request[q].conn \in Connections /\ request[q].conn # c
    <2>1. q \in Requests /\ request'[q].pc \in {"held", "cleared", "body"}
      BY DEF Active
    <2>2. q # r
      BY <2>1, <1>3 DEF Idle
    <2> QED
      BY <2>1, <2>2, <1>1, <1>3, ActiveHolds DEF Active, TypeOK
  <1>7. TypeOK'
    BY <1>1, <1>3, <1>4, <1>5, <1>6 DEF TypeOK
  <1>8. HoldersKnow'
    <2> SUFFICES ASSUME NEW q \in Active' PROVE Holds(q)'
      BY DEF HoldersKnow
    <2>1. Holds(q)
      BY <1>1, <1>6 DEF HoldersKnow
    <2> QED
      BY <2>1, <1>4, <1>5, <1>6 DEF Holds
  <1>9. Resting'
    <2> SUFFICES ASSUME NEW d \in Connections, Free(d)'
                 PROVE  setting'[d] = Steady(setting'[d].onRollback) /\ pending'[d] = {}
      BY DEF Resting
    <2>1. CASE d = c
      BY <2>1, <1>4, <1>5, SteadyFields
    <2>2. CASE d # c
      <3>1. Free(d)
        <4> SUFFICES ASSUME NEW q \in Active, request[q].conn = d PROVE FALSE
          BY DEF Free
        <4>1. q # r /\ q \in Requests /\ request[q].pc \in {"held", "cleared", "body"}
          BY <2>2 DEF Active
        <4>2. q \in Active' /\ request'[q].conn = d
          BY <4>1, <1>3 DEF Active
        <4> QED
          BY <4>2 DEF Free
      <3> QED
        BY <3>1, <2>2, <1>1, <1>4, <1>5 DEF Resting
    <2> QED
      BY <2>1, <2>2
  <1>10. LegacyIsKnown'
    BY <1>1, <1>4, SteadyFields DEF LegacyIsKnown
  <1>11. EveryTenantHasDocuments'
    BY <1>1 DEF EveryTenantHasDocuments
  <1>12. SafeSeesOwnDocuments'
    BY <1>1, <1>6 DEF SafeSeesOwnDocuments
  <1>13. LeakNeedsInsecureRead'
    BY <1>1, <1>6 DEF LeakNeedsInsecureRead
  <1> QED
    BY <1>7, <1>8, <1>9, <1>10, <1>11, <1>12, <1>13 DEF IInv

-----------------------------------------------------------------------------
(* The request of r goes on, and keeps its connection.                     *)

SeenIsSafe(q) ==
  \A o \in q.seen :
    q.kind = "transaction" =>
      o.active = q.tenant /\ o.rows # {} /\ \A row \in o.rows : row[1] = q.tenant

SeenIsExplained(q) ==
  \A o \in q.seen :
    q.kind = "none" =>
      IF o.active = NoTenant THEN o.rows = {} ELSE <<q.conn, o.active>> \in insecure

LEMMA MovePreserves ==
  ASSUME IInv, NEW r \in Active,
         NEW q \in [pc : {"held", "cleared", "body"}, kind : Kinds, tenant : Tenants,
                    conn : Connections, seen : SUBSET Observation],
         NEW s \in Setting, NEW rows \in SUBSET (Tenants \X Titles),
         q.conn = request[r].conn,
         request' = [request EXCEPT ![r] = q],
         setting' = [setting EXCEPT ![q.conn] = s],
         pending' = [pending EXCEPT ![q.conn] = rows],
         UNCHANGED <<documents, insecure>>,
         s.onRollback \in {NoTenant, setting[q.conn].onRollback},
         Holds(r)', SeenIsSafe(q), SeenIsExplained(q)
  PROVE  IInv'
  <1>1. /\ TypeOK /\ HoldersKnow /\ Resting /\ LegacyIsKnown
        /\ EveryTenantHasDocuments /\ SafeSeesOwnDocuments /\ LeakNeedsInsecureRead
    BY DEF IInv
  <1>2. r \in Requests /\ request[r].pc \in {"held", "cleared", "body"}
    BY DEF Active
  <1>3. /\ request' \in [Requests -> Request]
        /\ request'[r] = q
        /\ \A p \in Requests : p # r => request'[p] = request[p]
    BY <1>1, <1>2 DEF TypeOK, Request
  <1>4. /\ setting' \in [Connections -> Setting] /\ setting'[q.conn] = s
        /\ \A d \in Connections : d # q.conn => setting'[d] = setting[d]
    BY <1>1 DEF TypeOK
  <1>5. /\ pending' \in [Connections -> SUBSET (Tenants \X Titles)] /\ pending'[q.conn] = rows
        /\ \A d \in Connections : d # q.conn => pending'[d] = pending[d]
    BY <1>1 DEF TypeOK
  <1>6. Active' = Active /\ \A p \in Active : request'[p].conn = request[p].conn
    BY <1>2, <1>3 DEF Active
  <1>7. \A p \in Active : p # r => p \in Requests /\ request[p].conn \in Connections
                                   /\ request[p].conn # q.conn
    BY <1>1, ActiveHolds DEF TypeOK
  <1>8. TypeOK'
    BY <1>1, <1>3, <1>4, <1>5, <1>6 DEF TypeOK
  <1>9. HoldersKnow'
    <2> SUFFICES ASSUME NEW p \in Active, p # r PROVE Holds(p)'
      BY <1>6 DEF HoldersKnow
    <2>1. Holds(p)
      BY <1>1 DEF HoldersKnow
    <2> QED
      BY <2>1, <1>3, <1>4, <1>5, <1>7 DEF Holds
  <1>10. Resting'
    <2> SUFFICES ASSUME NEW d \in Connections, Free(d)'
                 PROVE  setting'[d] = Steady(setting'[d].onRollback) /\ pending'[d] = {}
      BY DEF Resting
    <2>1. Free(d) /\ d # q.conn
      BY <1>6 DEF Free
    <2> QED
      BY <2>1, <1>1, <1>4, <1>5 DEF Resting
  <1>11. LegacyIsKnown'
    BY <1>1, <1>4 DEF LegacyIsKnown
  <1>12. EveryTenantHasDocuments'
    BY <1>1 DEF EveryTenantHasDocuments
  <1>13. SafeSeesOwnDocuments'
    BY <1>1, <1>3, <1>6, <1>7 DEF SafeSeesOwnDocuments, SeenIsSafe
  <1>14. LeakNeedsInsecureRead'
    BY <1>1, <1>3, <1>6, <1>7 DEF LeakNeedsInsecureRead, SeenIsExplained
  <1> QED
    BY <1>8, <1>9, <1>10, <1>11, <1>12, <1>13, <1>14 DEF IInv

-----------------------------------------------------------------------------
(* One lemma per action.                                                   *)

LEMMA AskPreserves ==
  ASSUME IInv, NEW r \in Requests, Ask(r)
  PROVE  IInv'
  <1>1. /\ TypeOK /\ HoldersKnow /\ Resting /\ LegacyIsKnown
        /\ EveryTenantHasDocuments /\ SafeSeesOwnDocuments /\ LeakNeedsInsecureRead
    BY DEF IInv
  <1>2. PICK kind \in Kinds, t \in Tenants :
          request' = [request EXCEPT ![r] = [pc |-> "waiting", kind |-> kind, tenant |-> t]]
    BY DEF Ask
  <1>3. /\ request' \in [Requests -> Request]
        /\ \A p \in Requests : p # r => request'[p] = request[p]
        /\ request'[r].pc = "waiting" /\ request[r].pc = "idle"
    BY <1>1, <1>2 DEF TypeOK, Request, Ask, Idle
  <1>4. Active' = Active /\ \A p \in Active : request'[p] = request[p]
    BY <1>3 DEF Active
  <1>5. \A c \in Connections : Free(c)' <=> Free(c)
    BY <1>4 DEF Free
  <1>6. UNCHANGED <<setting, documents, pending, insecure>>
    BY DEF Ask
  <1>7. TypeOK'
    BY <1>1, <1>3, <1>4, <1>6 DEF TypeOK
  <1>8. HoldersKnow'
    BY <1>1, <1>4, <1>6 DEF HoldersKnow, Holds
  <1>9. Resting' /\ LegacyIsKnown' /\ EveryTenantHasDocuments'
    BY <1>1, <1>5, <1>6 DEF Resting, LegacyIsKnown, EveryTenantHasDocuments
  <1>10. SafeSeesOwnDocuments' /\ LeakNeedsInsecureRead'
    BY <1>1, <1>4, <1>6 DEF SafeSeesOwnDocuments, LeakNeedsInsecureRead
  <1> QED
    BY <1>7, <1>8, <1>9, <1>10 DEF IInv

LEMMA AcquirePreserves ==
  ASSUME IInv, NEW r \in Requests, Acquire(r)
  PROVE  IInv'
  <1>1. /\ TypeOK /\ HoldersKnow /\ Resting /\ LegacyIsKnown
        /\ EveryTenantHasDocuments /\ SafeSeesOwnDocuments /\ LeakNeedsInsecureRead
    BY DEF IInv
  <1> DEFINE q(c) == [pc |-> "held", kind |-> request[r].kind, tenant |-> request[r].tenant,
                      conn |-> c, seen |-> {}]
  <1>2. PICK c \in Connections : Free(c) /\ request' = [request EXCEPT ![r] = q(c)]
    BY DEF Acquire
  <1>3. request[r] \in [pc : {"waiting"}, kind : Kinds, tenant : Tenants]
    BY <1>1 DEF Acquire, TypeOK, Request, Idle
  <1>4. /\ q(c) \in Request
        /\ q(c).pc = "held" /\ q(c).conn = c /\ q(c).seen = {}
    BY <1>3 DEF Request
  <1>5. /\ request' \in [Requests -> Request] /\ request'[r] = q(c)
        /\ \A p \in Requests : p # r => request'[p] = request[p]
    BY <1>1, <1>2, <1>4 DEF TypeOK
  <1>6. Active' = Active \union {r} /\ r \notin Active
    BY <1>3, <1>4, <1>5 DEF Active
  <1>7. \A p \in Active : p # r /\ request'[p] = request[p] /\ request[p].conn # c
    BY <1>2, <1>5, <1>6 DEF Free, Active
  <1>8. UNCHANGED <<setting, documents, pending, insecure>>
    BY DEF Acquire
  <1>9. TypeOK'
    BY <1>1, <1>4, <1>5, <1>6, <1>7, <1>8 DEF TypeOK
  <1>10. HoldersKnow'
    <2>1. Holds(r)'
      BY <1>1, <1>2, <1>4, <1>5, <1>8 DEF Holds, Resting
    <2>2. ASSUME NEW p \in Active PROVE Holds(p)'
      BY <1>1, <1>7, <1>8 DEF HoldersKnow, Holds
    <2> QED
      BY <2>1, <2>2, <1>6 DEF HoldersKnow
  <1>11. Resting'
    BY <1>1, <1>6, <1>7, <1>8 DEF Resting, Free
  <1>12. SafeSeesOwnDocuments' /\ LeakNeedsInsecureRead'
    BY <1>1, <1>4, <1>5, <1>6, <1>7, <1>8 DEF SafeSeesOwnDocuments, LeakNeedsInsecureRead
  <1> QED
    BY <1>1, <1>8, <1>9, <1>10, <1>11, <1>12 DEF IInv, LegacyIsKnown, EveryTenantHasDocuments

(* The observations of r satisfy the two read properties already.          *)
LEMMA SeenSoFar ==
  ASSUME IInv, NEW r \in Active,
         NEW q, q.kind = request[r].kind, q.tenant = request[r].tenant,
         q.conn = request[r].conn, q.seen = request[r].seen
  PROVE  SeenIsSafe(q) /\ SeenIsExplained(q)
  BY DEF IInv, SafeSeesOwnDocuments, LeakNeedsInsecureRead, SeenIsSafe, SeenIsExplained

LEMMA ClearLegacyPreserves ==
  ASSUME IInv, NEW r \in Requests, ClearLegacy(r)
  PROVE  IInv'
  <1> DEFINE c == request[r].conn
             q == [request[r] EXCEPT !.pc = "cleared"]
             s == Commit(SetSession(setting[c], NoTenant))
  <1>1. TypeOK /\ HoldersKnow /\ r \in Active
    BY DEF IInv, ClearLegacy, Active
  <1>2. /\ request[r] \in [pc : {"held", "cleared", "body"}, kind : Kinds, tenant : Tenants,
                           conn : Connections, seen : SUBSET Observation]
        /\ c \in Connections /\ setting[c] \in Setting
    BY <1>1, ActiveHolds
  <1>3. request[r].kind = "transaction" /\ request[r].pc = "held" /\ pending[c] = {}
    BY <1>1, OnlyTransactionsInsert DEF ClearLegacy
  <1>4. /\ q \in [pc : {"held", "cleared", "body"}, kind : Kinds, tenant : Tenants,
                  conn : Connections, seen : SUBSET Observation]
        /\ q.pc = "cleared" /\ q.kind = "transaction" /\ q.tenant = request[r].tenant
        /\ q.conn = c /\ q.seen = request[r].seen
    BY <1>2, <1>3
  <1>5. s = Steady(NoTenant) /\ s \in Setting
    BY <1>2 DEF Commit, SetSession, Steady, Setting, Contexts
  <1>6. /\ request' = [request EXCEPT ![r] = q]
        /\ setting' = [setting EXCEPT ![q.conn] = s]
        /\ pending' = [pending EXCEPT ![q.conn] = pending[c]]
        /\ UNCHANGED <<documents, insecure>>
    BY <1>1, <1>2, <1>4 DEF ClearLegacy, TypeOK
  <1>7. request'[r] = q /\ setting'[q.conn] = s /\ pending'[q.conn] = {}
    BY <1>1, <1>2, <1>3, <1>4, <1>6 DEF TypeOK
  <1>8. Holds(r)'
    BY <1>4, <1>5, <1>7 DEF Holds
  <1>9. SeenIsSafe(q) /\ SeenIsExplained(q)
    BY <1>1, <1>3, <1>4, SeenSoFar
  <1>10. s.onRollback = NoTenant /\ pending[c] \in SUBSET (Tenants \X Titles)
    BY <1>2, <1>3, <1>5, SteadyFields
  <1> HIDE DEF c, q, s
  <1> QED
    BY <1>1, <1>4, <1>5, <1>6, <1>8, <1>9, <1>10, MovePreserves DEF c

LEMMA BeginPreserves ==
  ASSUME IInv, NEW r \in Requests, Begin(r)
  PROVE  IInv'
  <1> DEFINE c == request[r].conn
             t == request[r].tenant
             q == [request[r] EXCEPT !.pc = "body"]
  <1>1. TypeOK /\ HoldersKnow /\ r \in Active
    BY DEF IInv, Begin, Active
  <1>2. /\ request[r] \in [pc : {"held", "cleared", "body"}, kind : Kinds, tenant : Tenants,
                           conn : Connections, seen : SUBSET Observation]
        /\ c \in Connections /\ setting[c] \in Setting /\ t \in Contexts
    BY <1>1, ActiveHolds DEF Contexts
  <1>3. Holds(r) /\ request[r].pc \in {"held", "cleared"} /\ pending[c] = {}
    BY <1>1, OnlyTransactionsInsert DEF Begin, HoldersKnow
  <1>4. /\ q \in [pc : {"held", "cleared", "body"}, kind : Kinds, tenant : Tenants,
                  conn : Connections, seen : SUBSET Observation]
        /\ q.pc = "body" /\ q.kind = request[r].kind /\ q.tenant = t
        /\ q.conn = c /\ q.seen = request[r].seen
    BY <1>2
  <1>5. SeenIsSafe(q) /\ SeenIsExplained(q)
    BY <1>1, <1>4, SeenSoFar
  <1>6. PICK s \in Setting :
          /\ setting' = [setting EXCEPT ![c] = s]
          /\ s.onRollback = setting[c].onRollback
          /\ \/ /\ q.kind = "transaction"
                /\ s = SetLocal(Steady(NoTenant), t)
             \/ /\ q.kind = "session"
                /\ s = SetSession(Steady(s.onRollback), t)
             \/ /\ q.kind = "none"
                /\ s = Steady(s.onRollback)
    <2>1. CASE request[r].pc = "cleared"
      <3>1. setting[c] = Steady(NoTenant) /\ q.kind = "transaction"
        BY <2>1, <1>3, <1>4 DEF Holds
      <3>2. setting' = [setting EXCEPT ![c] = SetLocal(setting[c], t)]
        BY <2>1 DEF Begin
      <3>3. SetLocal(setting[c], t) \in Setting
            /\ SetLocal(setting[c], t).onRollback = setting[c].onRollback
        BY <1>2 DEF SetLocal, Setting
      <3> QED
        BY <3>1, <3>2, <3>3
    <2>2. CASE request[r].pc = "held" /\ request[r].kind = "session"
      <3>1. setting[c] = Steady(setting[c].onRollback)
        BY <2>2, <1>3 DEF Holds
      <3>2. setting' = [setting EXCEPT ![c] = SetSession(setting[c], t)]
        BY <2>2 DEF Begin
      <3>3. SetSession(setting[c], t) \in Setting
            /\ SetSession(setting[c], t).onRollback = setting[c].onRollback
        BY <1>2 DEF SetSession, Setting
      <3> QED
        BY <2>2, <3>1, <3>2, <3>3, <1>4
    <2>3. CASE request[r].pc = "held" /\ request[r].kind = "none"
      <3>1. setting[c] = Steady(setting[c].onRollback)
        BY <2>3, <1>3 DEF Holds
      <3>2. setting' = [setting EXCEPT ![c] = setting[c]]
        BY <2>3, <1>1, <1>2 DEF Begin, TypeOK
      <3> QED
        BY <2>3, <3>1, <3>2, <1>2, <1>4
    <2> QED
      BY <2>1, <2>2, <2>3 DEF Begin
  <1>7. /\ request' = [request EXCEPT ![r] = q]
        /\ setting' = [setting EXCEPT ![q.conn] = s]
        /\ pending' = [pending EXCEPT ![q.conn] = pending[c]]
        /\ UNCHANGED <<documents, insecure>>
    BY <1>1, <1>2, <1>4, <1>6 DEF Begin, TypeOK
  <1>8. request'[r] = q /\ setting'[q.conn] = s /\ pending'[q.conn] = {}
    BY <1>1, <1>2, <1>3, <1>4, <1>7 DEF TypeOK
  <1>9. Holds(r)'
    BY <1>4, <1>6, <1>8 DEF Holds
  <1>10. pending[c] \in SUBSET (Tenants \X Titles) /\ q.conn = request[r].conn
    BY <1>3, <1>4
  <1>11. s \in Setting /\ s.onRollback \in {NoTenant, setting[q.conn].onRollback}
    BY <1>4, <1>6
  <1> HIDE DEF c, q
  <1> QED
    BY <1>1, <1>4, <1>5, <1>7, <1>9, <1>10, <1>11, MovePreserves

LEMMA ObservePreserves ==
  ASSUME IInv, NEW r \in Requests, Observe(r)
  PROVE  IInv'
  <1> DEFINE c == request[r].conn
             o == [active |-> setting[c].value, rows |-> Visible(c)]
             q == [request[r] EXCEPT !.seen = {o}]
  <1>1. TypeOK /\ HoldersKnow /\ r \in Active /\ request[r].pc = "body"
    BY DEF IInv, Observe, Active
  <1>2. /\ request[r] \in [pc : {"held", "cleared", "body"}, kind : Kinds, tenant : Tenants,
                           conn : Connections, seen : SUBSET Observation]
        /\ c \in Connections /\ setting[c] \in Setting
        /\ pending[c] \in SUBSET (Tenants \X Titles)
    BY <1>1, ActiveHolds
  <1>3. o \in Observation
    BY <1>2 DEF Observation, Setting, Visible, Rows
  <1>4. /\ q \in [pc : {"held", "cleared", "body"}, kind : Kinds, tenant : Tenants,
                  conn : Connections, seen : SUBSET Observation]
        /\ q.pc = "body" /\ q.kind = request[r].kind /\ q.tenant = request[r].tenant
        /\ q.conn = c /\ q.seen = {o}
    BY <1>1, <1>2, <1>3
  <1>5. o.active = setting[c].value /\ \A row \in o.rows : row[1] = setting[c].value
    BY DEF Visible
  <1>6. ASSUME q.kind = "transaction"
        PROVE  /\ o.active = q.tenant /\ o.rows # {}
               /\ \A row \in o.rows : row[1] = q.tenant
    <2>1. setting[c].value = q.tenant /\ q.tenant \in Tenants
      BY <1>1, <1>4, <1>6, TransactionBody
    <2>2. PICK title \in Titles : title \in documents[q.tenant]
      BY <1>1, <2>1 DEF IInv, EveryTenantHasDocuments, TypeOK
    <2>3. <<q.tenant, title>> \in o.rows
      BY <2>1, <2>2 DEF Visible, Rows
    <2> QED
      BY <1>5, <2>1, <2>3
  <1>7. ASSUME q.kind = "none"
        PROVE  IF o.active = NoTenant THEN o.rows = {} ELSE <<c, o.active>> \in insecure
    <2>1. setting[c] = Steady(setting[c].onRollback)
      BY <1>1, <1>4, <1>7 DEF HoldersKnow, Holds
    <2>2. o.active = setting[c].onRollback
      BY <2>1, SteadyFields
    <2>3. CASE o.active = NoTenant
      <3>1. \A row \in Rows(c) : row[1] \in Tenants
        BY <1>2 DEF Rows
      <3> QED
        BY <2>3, <3>1, <1>5, PoolAssumption DEF Visible
    <2>4. CASE o.active # NoTenant
      BY <2>4, <2>2, <1>2 DEF IInv, LegacyIsKnown
    <2> QED
      BY <2>3, <2>4
  <1>8. SeenIsSafe(q) /\ SeenIsExplained(q)
    BY <1>4, <1>6, <1>7 DEF SeenIsSafe, SeenIsExplained
  <1>9. /\ request' = [request EXCEPT ![r] = q]
        /\ setting' = [setting EXCEPT ![q.conn] = setting[c]]
        /\ pending' = [pending EXCEPT ![q.conn] = pending[c]]
        /\ UNCHANGED <<documents, insecure, setting, pending>>
    BY <1>1, <1>2, <1>4 DEF Observe, TypeOK
  <1>10. Holds(r)'
    <2>1. request'[r] = q /\ Holds(r)
      BY <1>1, <1>9 DEF TypeOK, HoldersKnow
    <2> QED
      BY <2>1, <1>1, <1>4, <1>9 DEF Holds
  <1>11. setting[c].onRollback \in {NoTenant, setting[q.conn].onRollback}
         /\ q.conn = request[r].conn
    BY <1>4
  <1> HIDE DEF c, q, o
  <1> QED
    BY <1>1, <1>2, <1>4, <1>8, <1>9, <1>10, <1>11, MovePreserves

LEMMA FailPreserves ==
  ASSUME IInv, NEW r \in Requests, r \in Active,
         Return(r, Rollback(setting[request[r].conn])),
         UNCHANGED <<documents, insecure>>
  PROVE  IInv'
  <1> DEFINE v == setting[request[r].conn].onRollback
  <1>1. TypeOK /\ LegacyIsKnown
    BY DEF IInv
  <1>2. request[r].conn \in Connections /\ setting[request[r].conn] \in Setting
    BY <1>1, ActiveHolds
  <1>3. v \in Contexts /\ Rollback(setting[request[r].conn]) = Steady(v)
    BY <1>2 DEF Setting, Rollback
  <1>4. v = NoTenant \/ <<request[r].conn, v>> \in insecure
    BY <1>1, <1>2 DEF LegacyIsKnown
  <1> HIDE DEF v
  <1> QED
    BY <1>1, <1>3, <1>4, ReturnPreserves DEF TypeOK

LEMMA LosePreserves ==
  ASSUME IInv, NEW r \in Requests, Lose(r)
  PROVE  IInv'
  <1>1. TypeOK /\ r \in Active /\ Return(r, Steady(NoTenant)) /\ UNCHANGED <<documents, insecure>>
    BY DEF IInv, Lose
  <1> QED
    BY <1>1, ReturnPreserves DEF TypeOK, Contexts

LEMMA InsertPreserves ==
  ASSUME IInv, NEW r \in Requests, Insert(r)
  PROVE  IInv'
  <1> DEFINE c == request[r].conn
             q == request[r]
  <1>1. /\ TypeOK /\ HoldersKnow /\ r \in Active
        /\ request[r].pc = "body" /\ request[r].kind = "transaction"
    BY DEF IInv, Insert, Active
  <1>2. /\ q \in [pc : {"held", "cleared", "body"}, kind : Kinds, tenant : Tenants,
                  conn : Connections, seen : SUBSET Observation]
        /\ c \in Connections /\ setting[c] \in Setting
        /\ pending[c] \in SUBSET (Tenants \X Titles)
    BY <1>1, ActiveHolds
  <1>3. PICK row \in Tenants \X Titles :
          \/ /\ MayInsert(c, row)
             /\ pending' = [pending EXCEPT ![c] = @ \union {row}]
             /\ UNCHANGED <<setting, request>>
          \/ Return(r, Rollback(setting[c]))
    BY DEF Insert
  <1>4. UNCHANGED <<documents, insecure>>
    BY DEF Insert
  <1>5. CASE Return(r, Rollback(setting[c]))
    BY <1>1, <1>4, <1>5, FailPreserves
  <1>6. CASE /\ MayInsert(c, row)
             /\ pending' = [pending EXCEPT ![c] = @ \union {row}]
             /\ UNCHANGED <<setting, request>>
    <2> DEFINE rows == pending[c] \union {row}
    <2>1. row[1] = q.tenant
      BY <1>1, <1>6, TransactionBody DEF MayInsert
    <2>2. /\ request' = [request EXCEPT ![r] = q]
          /\ setting' = [setting EXCEPT ![c] = setting[c]]
          /\ pending' = [pending EXCEPT ![c] = rows]
      BY <1>1, <1>2, <1>6 DEF TypeOK
    <2>3. Holds(r)'
      <3>1. Holds(r) /\ pending'[c] = rows
        BY <1>1, <1>2, <1>6 DEF HoldersKnow, TypeOK
      <3> QED
        BY <3>1, <2>1, <1>1, <1>6 DEF Holds
    <2>4. SeenIsSafe(q) /\ SeenIsExplained(q)
      BY <1>1, SeenSoFar
    <2>5. rows \in SUBSET (Tenants \X Titles)
      BY <1>2
    <2>6. q.conn = c /\ c = request[r].conn
          /\ setting[c].onRollback \in {NoTenant, setting[c].onRollback}
      OBVIOUS
    <2> HIDE DEF c, q, rows
    <2> QED
      BY <1>1, <1>2, <1>4, <2>2, <2>3, <2>4, <2>5, <2>6, MovePreserves
  <1> QED
    BY <1>3, <1>5, <1>6

LEMMA FinishPreserves ==
  ASSUME IInv, NEW r \in Requests, Finish(r)
  PROVE  IInv'
  <1> DEFINE c == request[r].conn
             v == setting[c].onCommit
  <1>1. /\ TypeOK /\ HoldersKnow /\ LegacyIsKnown
        /\ r \in Active /\ request[r].pc = "body"
    BY DEF IInv, Finish, Active
  <1>2. /\ c \in Connections /\ setting[c] \in Setting
        /\ request[r].tenant \in Tenants /\ request[r].kind \in Kinds
    BY <1>1, ActiveHolds
  <1>3. v \in Contexts /\ Commit(setting[c]) = Steady(v) /\ Return(r, Steady(v))
    BY <1>2 DEF Setting, Commit, Finish
  <1>4. insecure \subseteq insecure' /\ insecure' \subseteq Connections \X Tenants
    BY <1>1, <1>2 DEF Finish, TypeOK
  <1>5. v = NoTenant \/ <<c, v>> \in insecure'
    <2>1. Holds(r)
      BY <1>1 DEF HoldersKnow
    <2>2. CASE request[r].kind = "transaction"
      BY <2>2, <1>1, TransactionBody
    <2>3. CASE request[r].kind = "session"
      <3>1. v = request[r].tenant
        BY <2>1, <2>3, <1>1 DEF Holds, SetSession, Steady
      <3> QED
        BY <3>1, <2>3 DEF Finish
    <2>4. CASE request[r].kind = "none"
      <3>1. v = setting[c].onRollback
        BY <2>1, <2>4, <1>1, SteadyFields DEF Holds
      <3> QED
        BY <3>1, <1>1, <1>2, <1>4 DEF LegacyIsKnown
    <2> QED
      BY <2>2, <2>3, <2>4, <1>2 DEF Kinds
  <1>6. /\ documents' \in [Tenants -> SUBSET Titles]
        /\ \A t \in Tenants : documents[t] \subseteq documents'[t]
    BY <1>1 DEF Finish, TypeOK
  <1> HIDE DEF v
  <1> QED
    BY <1>1, <1>3, <1>4, <1>5, <1>6, ReturnPreserves

-----------------------------------------------------------------------------
LEMMA InitEstablishes ==
  ASSUME Init
  PROVE  IInv
  <1>1. Active = {} /\ request \in [Requests -> Request]
    BY DEF Init, Active, Idle, Request
  <1>2. NoTenant \in Contexts /\ Steady(NoTenant) \in Setting
    BY DEF Contexts, Setting, Steady
  <1>3. TypeOK
    BY <1>1, <1>2 DEF Init, TypeOK
  <1>4. HoldersKnow /\ SafeSeesOwnDocuments /\ LeakNeedsInsecureRead
    BY <1>1 DEF HoldersKnow, SafeSeesOwnDocuments, LeakNeedsInsecureRead
  <1>5. Resting /\ LegacyIsKnown
    BY SteadyFields DEF Init, Resting, LegacyIsKnown
  <1>6. EveryTenantHasDocuments
    BY DEF Init, EveryTenantHasDocuments
  <1> QED
    BY <1>3, <1>4, <1>5, <1>6 DEF IInv

LEMMA StepPreserves ==
  ASSUME IInv, [Next]_vars
  PROVE  IInv'
  <1>1. CASE Next
    <2> PICK r \in Requests :
          \/ Ask(r) \/ Acquire(r) \/ ClearLegacy(r) \/ Begin(r)
          \/ Observe(r) \/ Insert(r) \/ Finish(r) \/ Fail(r) \/ Lose(r)
      BY <1>1 DEF Next
    <2>1. CASE Ask(r)
      BY <2>1, AskPreserves
    <2>2. CASE Acquire(r)
      BY <2>2, AcquirePreserves
    <2>3. CASE ClearLegacy(r)
      BY <2>3, ClearLegacyPreserves
    <2>4. CASE Begin(r)
      BY <2>4, BeginPreserves
    <2>5. CASE Observe(r)
      BY <2>5, ObservePreserves
    <2>6. CASE Insert(r)
      BY <2>6, InsertPreserves
    <2>7. CASE Finish(r)
      BY <2>7, FinishPreserves
    <2>8. CASE Fail(r)
      BY <2>8, FailPreserves DEF Fail
    <2>9. CASE Lose(r)
      BY <2>9, LosePreserves
    <2> QED
      BY <2>1, <2>2, <2>3, <2>4, <2>5, <2>6, <2>7, <2>8, <2>9
  <1>2. CASE UNCHANGED vars
    <2>1. UNCHANGED <<setting, documents, pending, request, insecure>>
      BY <1>2 DEF vars
    <2>2. Active' = Active /\ \A c : Free(c)' <=> Free(c)
      BY <2>1 DEF Active, Free
    <2>3. TypeOK'
      BY <2>1, <2>2 DEF IInv, TypeOK
    <2>4. HoldersKnow'
      BY <2>1, <2>2 DEF IInv, HoldersKnow, Holds
    <2>5. Resting' /\ LegacyIsKnown' /\ EveryTenantHasDocuments'
      BY <2>1, <2>2 DEF IInv, Resting, LegacyIsKnown, EveryTenantHasDocuments
    <2>6. SafeSeesOwnDocuments' /\ LeakNeedsInsecureRead'
      BY <2>1, <2>2 DEF IInv, SafeSeesOwnDocuments, LeakNeedsInsecureRead
    <2> QED
      BY <2>3, <2>4, <2>5, <2>6 DEF IInv
  <1> QED
    BY <1>1, <1>2

(* The inductive invariant: what each request's place in its code says of  *)
(* its connection, what an unheld connection may carry, and the two read   *)
(* properties.                                                             *)
THEOREM PoolInvariant == Spec => []IInv
  BY InitEstablishes, StepPreserves, PTL DEF Spec

(* Every variable keeps its type, and no connection has two holders.       *)
THEOREM PoolTypeCorrect == Spec => []TypeOK
  BY PoolInvariant, PTL DEF IInv

(* A reader of P11's tables is shown its own tenant's documents and no     *)
(* other's, and one that sets no context is shown a tenant's documents     *)
(* only on a connection on which an insecure read of it has completed.     *)
THEOREM ReadsAreExplained == Spec => []ReadsExplained
  BY PoolInvariant, PTL DEF IInv, ReadsExplained

-----------------------------------------------------------------------------
(* What steps may not do.                                                  *)

(* In a step of some request, no other request returns.                    *)
LEMMA OneRequestMoves ==
  ASSUME IInv, NEW r \in Requests, NEW p \in Active, request'[p] = Idle,
         \/ Ask(r) \/ Acquire(r) \/ ClearLegacy(r) \/ Begin(r)
         \/ Observe(r) \/ Insert(r) \/ Finish(r) \/ Fail(r) \/ Lose(r)
  PROVE  p = r /\ (Insert(r) \/ Finish(r) \/ Fail(r) \/ Lose(r))
  <1>1. /\ p \in Requests /\ request[p].pc \in {"held", "cleared", "body"}
        /\ request[p] # Idle /\ request \in [Requests -> Request]
    BY DEF IInv, TypeOK, Active, Idle
  <1>2. p = r
    BY <1>1 DEF Ask, Acquire, ClearLegacy, Begin, Observe, Insert, Finish, Fail, Lose, Return
  <1>3. request'[r].pc = "idle"
    BY <1>2 DEF Idle
  <1>4. ASSUME Ask(r) \/ Acquire(r) \/ ClearLegacy(r) \/ Begin(r) \/ Observe(r)
        PROVE  FALSE
    <2>1. /\ request[r] \in [pc : {"held", "cleared", "body"}, kind : Kinds, tenant : Tenants,
                             conn : Connections, seen : SUBSET Observation]
      BY <1>2, ActiveHolds DEF IInv
    <2>2. CASE Ask(r) \/ Acquire(r)
      BY <2>2, <1>1, <1>2 DEF Ask, Acquire
    <2>3. CASE ClearLegacy(r)
      BY <2>3, <2>1, <1>1, <1>3 DEF ClearLegacy
    <2>4. CASE Begin(r)
      BY <2>4, <2>1, <1>1, <1>3 DEF Begin
    <2>5. CASE Observe(r)
      <3>1. request'[r].pc = request[r].pc
        BY <2>5, <2>1, <1>1 DEF Observe
      <3> QED
        BY <3>1, <1>1, <1>2, <1>3
    <2> QED
      BY <1>4, <2>2, <2>3, <2>4, <2>5
  <1> QED
    BY <1>2, <1>4

LEMMA ContextDiesStep ==
  ASSUME IInv, [Next]_vars, NEW p \in Active,
         request[p].kind = "transaction", request[p].pc = "body", request'[p] = Idle
  PROVE  setting'[request[p].conn] = Steady(NoTenant)
  <1>1. request[p] # Idle
    BY DEF Idle
  <1>2. Next
    BY <1>1 DEF vars
  <1>3. PICK r \in Requests :
          \/ Ask(r) \/ Acquire(r) \/ ClearLegacy(r) \/ Begin(r)
          \/ Observe(r) \/ Insert(r) \/ Finish(r) \/ Fail(r) \/ Lose(r)
    BY <1>2 DEF Next
  <1>4. p = r /\ (Insert(r) \/ Finish(r) \/ Fail(r) \/ Lose(r))
    BY <1>3, OneRequestMoves
  <1> DEFINE c == request[p].conn
  <1>5. /\ TypeOK /\ c \in Connections /\ setting[c] \in Setting
        /\ setting[c].onCommit = NoTenant /\ setting[c].onRollback = NoTenant
    BY ActiveHolds, TransactionBody DEF IInv
  <1>6. Commit(setting[c]) = Steady(NoTenant) /\ Rollback(setting[c]) = Steady(NoTenant)
    BY <1>5 DEF Commit, Rollback
  <1>7. ASSUME NEW s, Return(p, s)
        PROVE  setting'[c] = s
    BY <1>5, <1>7 DEF Return, TypeOK
  <1>8. CASE Insert(r)
    <2>1. Return(p, Rollback(setting[c]))
      BY <1>1, <1>4, <1>8 DEF Insert
    <2> QED
      BY <2>1, <1>6, <1>7
  <1>9. CASE Finish(r) \/ Fail(r) \/ Lose(r)
    BY <1>4, <1>6, <1>7, <1>9 DEF Finish, Fail, Lose
  <1> QED
    BY <1>4, <1>8, <1>9

(* A tenant_transaction leaves its connection with no tenant, however it   *)
(* ends.                                                                   *)
THEOREM ContextDies == Spec => ContextDiesWithTransaction
  <1>1. IInv /\ [Next]_vars =>
          [\A r \in Active :
             request[r].kind = "transaction" /\ request[r].pc = "body" /\ request'[r] = Idle
               => setting'[request[r].conn] = Steady(NoTenant)]_vars
    BY ContextDiesStep
  <1> QED
    BY <1>1, PoolInvariant, PTL DEF Spec, ContextDiesWithTransaction

LEMMA OwnersWriteStep ==
  ASSUME IInv, [Next]_vars, NEW t \in Tenants, documents'[t] # documents[t]
  PROVE  /\ documents[t] \subseteq documents'[t]
         /\ \E r \in Active : /\ request[r].kind = "transaction" /\ request[r].tenant = t
                              /\ request'[r] = Idle
  <1>1. PICK r \in Requests : Finish(r)
    BY DEF vars, Next, Ask, Acquire, ClearLegacy, Begin, Observe, Insert, Fail, Lose
  <1> DEFINE c == request[r].conn
  <1>2. TypeOK /\ HoldersKnow /\ r \in Active /\ request[r].pc = "body"
    BY <1>1 DEF IInv, Finish, Active
  <1>3. documents'[t] = documents[t] \union {title \in Titles : <<t, title>> \in pending[c]}
    BY <1>1 DEF Finish
  <1>4. PICK title \in Titles : <<t, title>> \in pending[c]
    BY <1>3
  <1>5. request[r].kind = "transaction" /\ request[r].tenant = t
    BY <1>2, <1>4, OnlyTransactionsInsert, TransactionBody
  <1>6. request'[r] = Idle
    BY <1>1, <1>2 DEF Finish, Return, TypeOK
  <1> QED
    BY <1>2, <1>3, <1>5, <1>6

(* A tenant's documents change only at the end of its own transactions.    *)
THEOREM OwnersWrite == Spec => OnlyOwnersWrite
  <1>1. IInv /\ [Next]_vars =>
          [\A t \in Tenants :
             documents'[t] # documents[t] =>
               /\ documents[t] \subseteq documents'[t]
               /\ \E r \in Active :
                    /\ request[r].kind = "transaction" /\ request[r].tenant = t
                    /\ request'[r] = Idle]_vars
    BY OwnersWriteStep
  <1> QED
    BY <1>1, PoolInvariant, PTL DEF Spec, OnlyOwnersWrite
=============================================================================
