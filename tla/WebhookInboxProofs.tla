------------------------- MODULE WebhookInboxProofs --------------------------
(***************************************************************************)
(* The safety of WebhookInbox for every set of ids, orders, bodies, signed *)
(* messages and clock readings.                                            *)
(***************************************************************************)
EXTENDS WebhookInbox, TLAPS

(* The two sets of the effect store are what its list of effects says.     *)
StoreAgrees ==
  /\ \A e \in Ids : e \in processed <=> \E i \in DOMAIN effects : effects[i].id = e
  /\ \A o \in Orders :
       o \in authorized <=>
         \E i \in DOMAIN effects : effects[i].kind = "authorized" /\ effects[i].order = o

(* While process() runs, its snapshot is still what the inbox holds, and   *)
(* past apply_once the event has its effect.                               *)
WorkerHoldsRecord ==
  worker # Idle =>
    /\ Pending(worker.id)
    /\ worker.body = records[worker.id].body
    /\ worker.pc = "applied" => worker.id \in processed

IInv ==
  /\ TypeOK
  /\ StoredAreAuthentic
  /\ AnswersConsistent
  /\ StoreAgrees
  /\ WorkerHoldsRecord
  /\ EffectsAtMostOnce
  /\ CapturedAfterAuthorized
  /\ StatusMatchesEffects

-----------------------------------------------------------------------------
(* An event has an id, a kind and an order.                                *)
LEMMA EventFields ==
  ASSUME NEW ev \in Events
  PROVE  ev.id \in Ids /\ ev.kind \in {"authorized", "captured"} /\ ev.order \in Orders
BY DEF Events

(* What a stored body parses to is an event under its own key.             *)
LEMMA StoredEvent ==
  ASSUME TypeOK, StoredAreAuthentic, NEW e \in Stored
  PROVE  records[e] \in InboxRecord /\ EventOf(e) \in Events /\ EventOf(e).id = e
<1>1. records[e] \in InboxRecord
  BY DEF TypeOK, Stored
<1>2. records[e].body \in Bodies
  BY <1>1 DEF InboxRecord
<1>3. QED
  BY <1>1, <1>2, InboxAssumption DEF StoredAreAuthentic, EventOf

(* Appending to a sequence keeps what was there and adds one last element. *)
LEMMA AppendFacts ==
  ASSUME NEW S, NEW s \in Seq(S), NEW x \in S
  PROVE  /\ Append(s, x) \in Seq(S)
         /\ DOMAIN s = 1 .. Len(s) /\ Len(s) \in Nat
         /\ DOMAIN Append(s, x) = 1 .. Len(s) + 1
         /\ \A i \in 1 .. Len(s) : Append(s, x)[i] = s[i]
         /\ Append(s, x)[Len(s) + 1] = x
OBVIOUS

LEMMA InitIInv == Init => IInv
<1> SUFFICES ASSUME Init PROVE IInv
  OBVIOUS
<1>1. Stored = {} /\ DOMAIN arrival = {} /\ DOMAIN effects = {}
  BY DEF Init, Stored
<1>2. TypeOK
  BY <1>1 DEF Init, TypeOK
<1>3. StoredAreAuthentic /\ AnswersConsistent /\ StatusMatchesEffects
  BY <1>1 DEF Init, StoredAreAuthentic, AnswersConsistent, StatusMatchesEffects
<1>4. StoreAgrees /\ EffectsAtMostOnce /\ CapturedAfterAuthorized
  BY <1>1 DEF Init, StoreAgrees, EffectsAtMostOnce, CapturedAfterAuthorized
<1>5. WorkerHoldsRecord
  BY DEF Init, WorkerHoldsRecord
<1>6. QED
  BY <1>2, <1>3, <1>4, <1>5 DEF IInv

(* What passes the check in whole seconds is within the window, but for    *)
(* the fraction dropped.                                                   *)
LEMMA WholeSeconds ==
  ASSUME NEW n \in Nat, NEW t \in Nat \ {0}
  PROVE  n \div t \in Int /\ (n \div t) * t <= n /\ n <= (n \div t) * t + t - 1
OBVIOUS

LEMMA ScaledWindow ==
  ASSUME NEW a \in Int, NEW q \in Int, NEW w \in Nat, NEW t \in Nat, a - q \in -w .. w
  PROVE  /\ a * t \in Int /\ q * t \in Int /\ w * t \in Int
         /\ a * t - q * t <= w * t /\ q * t - a * t <= w * t
<1>1. \A x, y \in Int : x <= y => x * t <= y * t
  OBVIOUS
<1>2. a <= q + w /\ q <= a + w /\ q + w \in Int /\ a + w \in Int
  OBVIOUS
<1>3. a * t <= (q + w) * t /\ q * t <= (a + w) * t
  BY <1>1, <1>2
<1>4. (q + w) * t = q * t + w * t /\ (a + w) * t = a * t + w * t
  OBVIOUS
<1>5. a * t \in Int /\ q * t \in Int /\ w * t \in Int
  OBVIOUS
<1>6. QED
  BY <1>3, <1>4, <1>5

LEMMA FreshIsWithin ==
  ASSUME NEW ts \in Int, NEW now \in Nat, Fresh(ts, now)
  PROVE  WithinWindow(ts, now)
<1>1. PICK q : q = now \div TicksPerSecond
  OBVIOUS
<1>2. PICK t \in Nat \ {0} : t = TicksPerSecond
  BY InboxAssumption
<1>3. q \in Int /\ q * t <= now /\ now <= q * t + t - 1
  BY <1>1, <1>2, WholeSeconds
<1>4. ts - q \in -Window .. Window /\ Window \in Nat
  BY <1>1, InboxAssumption DEF Fresh, Timestamp
<1>5. PICK signed \in Int : signed = ts * t
  BY <1>2
<1>6. PICK width \in Int : width = Window * t
  BY <1>2, <1>4
<1>7. PICK whole \in Int : whole = q * t
  BY <1>2, <1>3
<1>8. signed - whole <= width /\ whole - signed <= width
  BY <1>2, <1>3, <1>4, <1>5, <1>6, <1>7, ScaledWindow
<1>9. whole <= now /\ now <= whole + t - 1
  BY <1>3, <1>7
<1>10. now - signed \in -width .. width + t - 1
  BY <1>2, <1>8, <1>9
<1>11. QED
  BY <1>2, <1>5, <1>6, <1>10 DEF WithinWindow

-----------------------------------------------------------------------------
(* A delivery that parses to a new event adds one RECEIVED record.         *)
LEMMA SaveNewStep ==
  ASSUME IInv, NEW b \in Bodies, NEW ts \in Times, NEW now \in Clock,
         <<ts, b>> \in Signed, Fresh(ts, now), Parse[b] # InvalidPayload,
         ~Known(Parse[b].id), SaveReceived(b, now), UNCHANGED <<storeVars, worker>>
  PROVE  IInv'
<1> DEFINE e == Parse[b].id
           rec == [body |-> b, receivedAt |-> now, status |-> "RECEIVED"]
<1>1. Parse[b] \in Events /\ e \in Ids /\ e \notin Stored
  BY InboxAssumption, EventFields DEF Known, Stored
<1>2. rec \in InboxRecord /\ rec # NoRecord
  BY InboxAssumption DEF InboxRecord, Statuses
<1>3. /\ records' = [records EXCEPT ![e] = rec]
      /\ arrival' = Append(arrival, e)
      /\ answers' = answers \union {<<b, 202>>}
  <2>1. e \notin {arrival[i] : i \in DOMAIN arrival}
    BY <1>1 DEF IInv, TypeOK
  <2>2. QED
    BY <2>1 DEF SaveReceived, Known, Conflicts
<1>4. /\ records'[e] = rec
      /\ \A x \in Ids : x # e => records'[x] = records[x]
      /\ Stored' = Stored \union {e}
  BY <1>1, <1>2, <1>3 DEF IInv, TypeOK, Stored
<1>5. TypeOK'
  <2>1. arrival \in Seq(Ids)
    BY DEF IInv, TypeOK
  <2>2. /\ arrival' \in Seq(Ids)
        /\ DOMAIN arrival = 1 .. Len(arrival) /\ Len(arrival) \in Nat
        /\ DOMAIN arrival' = 1 .. Len(arrival) + 1
        /\ \A i \in 1 .. Len(arrival) : arrival'[i] = arrival[i]
        /\ arrival'[Len(arrival) + 1] = e
    BY <1>1, <1>3, <2>1, AppendFacts
  <2>3. Stored' = {arrival'[i] : i \in DOMAIN arrival'}
    <3>1. Stored = {arrival[i] : i \in DOMAIN arrival}
      BY DEF IInv, TypeOK
    <3>2. \A i \in DOMAIN arrival' : i \in DOMAIN arrival \/ i = Len(arrival) + 1
      BY <2>2
    <3>3. \A i \in DOMAIN arrival' : arrival'[i] \in Stored'
      BY <1>4, <2>2, <3>1, <3>2
    <3>4. \A x \in Stored' : \E i \in DOMAIN arrival' : arrival'[i] = x
      <4> SUFFICES ASSUME NEW x \in Stored'
                   PROVE  \E i \in DOMAIN arrival' : arrival'[i] = x
        OBVIOUS
      <4>1. CASE x = e
        <5>1. Len(arrival) + 1 \in DOMAIN arrival'
          BY <2>2
        <5>2. QED
          BY <2>2, <4>1, <5>1
      <4>2. CASE x \in Stored
        <5>1. PICK i \in DOMAIN arrival : arrival[i] = x
          BY <3>1, <4>2
        <5>2. i \in DOMAIN arrival' /\ arrival'[i] = x
          BY <2>2, <5>1
        <5>3. QED
          BY <5>2
      <4>3. QED
        BY <1>4, <4>1, <4>2
    <3>5. QED
      BY <3>3, <3>4
  <2>4. \A i, j \in DOMAIN arrival' : arrival'[i] = arrival'[j] => i = j
    <3>1. \A i \in DOMAIN arrival : arrival[i] # e
      BY <1>1 DEF IInv, TypeOK
    <3>2. QED
      BY <3>1, <2>2 DEF IInv, TypeOK
  <2>5. records' \in [Ids -> InboxRecord \union {NoRecord}]
    BY <1>2, <1>3 DEF IInv, TypeOK
  <2>6. answers' \subseteq Bodies \X {200, 202, 409}
    BY <1>3 DEF IInv, TypeOK
  <2>7. QED
    BY <2>2, <2>3, <2>4, <2>5, <2>6 DEF IInv, TypeOK, storeVars
<1>6. StoredAreAuthentic'
  <2>1. WithinWindow(ts, now)
    BY FreshIsWithin, InboxAssumption
  <2> SUFFICES ASSUME NEW x \in Stored'
               PROVE  /\ \E m \in Signed : /\ m[2] = records'[x].body
                                           /\ WithinWindow(m[1], records'[x].receivedAt)
                      /\ Parse[records'[x].body] # InvalidPayload
                      /\ Parse[records'[x].body].id = x
    BY DEF StoredAreAuthentic, EventOf
  <2>2. CASE x = e
    <3>1. <<ts, b>>[2] = records'[x].body /\ WithinWindow(<<ts, b>>[1], records'[x].receivedAt)
      BY <1>4, <2>1, <2>2
    <3>2. QED
      BY <1>4, <2>2, <3>1
  <2>3. CASE x # e
    <3>1. x \in Stored /\ records'[x] = records[x]
      BY <1>4, <2>3 DEF Stored
    <3>2. QED
      BY <3>1 DEF IInv, StoredAreAuthentic, EventOf
  <2>4. QED
    BY <2>2, <2>3
<1>7. AnswersConsistent'
  <2> SUFFICES ASSUME NEW a \in answers'
               PROVE  /\ a[2] \in {200, 202} =>
                           Parse[a[1]].id \in Stored' /\ records'[Parse[a[1]].id].body = a[1]
                      /\ a[2] = 409 =>
                           Parse[a[1]].id \in Stored' /\ records'[Parse[a[1]].id].body # a[1]
    BY DEF AnswersConsistent
  <2>1. CASE a = <<b, 202>>
    BY <1>4, <2>1
  <2>2. CASE a \in answers
    <3>1. a[2] \in {200, 202, 409}
      BY <2>2 DEF IInv, TypeOK
    <3>2. Parse[a[1]].id \in Stored
      BY <2>2, <3>1 DEF IInv, AnswersConsistent
    <3>3. records'[Parse[a[1]].id] = records[Parse[a[1]].id]
      BY <1>1, <1>4, <3>2 DEF Stored
    <3>4. QED
      BY <1>4, <2>2, <3>2, <3>3 DEF IInv, AnswersConsistent
  <2>3. QED
    BY <1>3, <2>1, <2>2
<1>8. (WorkerHoldsRecord /\ StatusMatchesEffects)'
  <2>1. \A x \in Stored : records'[x] = records[x]
    BY <1>1, <1>4 DEF Stored
  <2>2. WorkerHoldsRecord'
    <3>1. worker # Idle => worker.id \in Stored /\ worker.id \in Ids
      BY DEF IInv, TypeOK, WorkerHoldsRecord, Pending, Stored
    <3>2. QED
      BY <2>1, <3>1 DEF IInv, WorkerHoldsRecord, Pending, storeVars
  <2>3. \A x \in Stored : EventOf(x)' = EventOf(x)
    BY <2>1 DEF EventOf
  <2>4. QED
    BY <1>4, <2>1, <2>2, <2>3 DEF IInv, StatusMatchesEffects, storeVars
<1>9. QED
  BY <1>5, <1>6, <1>7, <1>8
    DEF IInv, StoreAgrees, EffectsAtMostOnce, CapturedAfterAuthorized, storeVars

(* A delivery of an event already stored changes nothing but the answers.  *)
LEMMA AnswerKnownStep ==
  ASSUME IInv, NEW b \in Bodies, NEW now \in Clock, Parse[b] # InvalidPayload,
         Known(Parse[b].id), SaveReceived(b, now), UNCHANGED <<storeVars, worker>>
  PROVE  IInv'
<1> DEFINE e == Parse[b].id
<1>1. e \in Stored
  BY InboxAssumption, EventFields DEF Known, Stored
<1>2. UNCHANGED <<records, arrival, processed, authorized, effects, worker>>
  BY DEF SaveReceived, Known, inboxVars, storeVars
<1>3. \/ answers' = answers \union {<<b, 200>>} /\ records[e].body = b
      \/ answers' = answers \union {<<b, 409>>} /\ records[e].body # b
  BY DEF SaveReceived, Known, Conflicts
<1>4. TypeOK'
  <2>1. answers' \subseteq Bodies \X {200, 202, 409}
    BY <1>3 DEF IInv, TypeOK
  <2>2. QED
    BY <1>2, <2>1 DEF IInv, TypeOK, Stored
<1>5. AnswersConsistent'
  BY <1>1, <1>2, <1>3 DEF IInv, AnswersConsistent, Stored
<1>6. QED
  BY <1>2, <1>4, <1>5
    DEF IInv, StoredAreAuthentic, StoreAgrees, WorkerHoldsRecord, EffectsAtMostOnce,
        CapturedAfterAuthorized, StatusMatchesEffects, Stored, EventOf, Pending

(* A step that leaves every variable alone.                                *)
LEMMA StutterStep ==
  ASSUME IInv, UNCHANGED <<records, arrival, processed, authorized, effects, worker, answers>>
  PROVE  IInv'
BY DEF IInv, TypeOK, StoredAreAuthentic, AnswersConsistent, StoreAgrees, WorkerHoldsRecord,
       EffectsAtMostOnce, CapturedAfterAuthorized, StatusMatchesEffects, Stored, EventOf, Pending

(* One POST, whatever its headers.                                         *)
LEMMA ReceiveStep ==
  ASSUME IInv, NEW b \in Bodies, NEW ts, NEW sig \in Signed \union {Absent},
         NEW now \in Clock, Receive(b, ts, sig, now)
  PROVE  IInv'
<1>1. CASE UNCHANGED <<inboxVars, answers>>
  BY <1>1, StutterStep DEF Receive, inboxVars, storeVars
<1>2. CASE Authorized(b, ts, sig, now) /\ Parse[b] # InvalidPayload /\ SaveReceived(b, now)
  <2>1. <<ts, b>> \in Signed /\ Fresh(ts, now)
    BY <1>2 DEF Authorized, Authentic
  <2>2. ts \in Times
    BY <2>1, InboxAssumption
  <2>3. UNCHANGED <<storeVars, worker>>
    BY DEF Receive
  <2>4. CASE Known(Parse[b].id)
    BY <1>2, <2>3, <2>4, AnswerKnownStep
  <2>5. CASE ~Known(Parse[b].id)
    BY <1>2, <2>1, <2>2, <2>3, <2>5, SaveNewStep
  <2>6. QED
    BY <2>4, <2>5
<1>3. QED
  BY <1>1, <1>2 DEF Receive

-----------------------------------------------------------------------------
(* process() takes a snapshot of a pending record.                         *)
LEMMA LoadStep ==
  ASSUME IInv, NEW e \in Ids, Load(e)
  PROVE  IInv'
<1>1. UNCHANGED <<records, arrival, processed, authorized, effects, answers>>
  BY DEF Load, inboxVars, storeVars
<1>2. e \in Stored /\ records[e].body \in Bodies
  BY DEF Load, Pending, Stored, IInv, TypeOK, InboxRecord
<1>3. worker' = [pc |-> "loaded", id |-> e, body |-> records[e].body]
  BY DEF Load
<1>4. TypeOK'
  BY <1>1, <1>2, <1>3 DEF IInv, TypeOK, Stored
<1>5. WorkerHoldsRecord'
  BY <1>1, <1>3 DEF Load, WorkerHoldsRecord, Pending
<1>6. QED
  BY <1>1, <1>4, <1>5
    DEF IInv, StoredAreAuthentic, AnswersConsistent, StoreAgrees, EffectsAtMostOnce,
        CapturedAfterAuthorized, StatusMatchesEffects, Stored, EventOf

(* A crash of process() forgets the snapshot and nothing else.             *)
LEMMA CrashStep ==
  ASSUME IInv, CrashBeforeEffect \/ CrashAfterEffect
  PROVE  IInv'
<1>1. /\ UNCHANGED <<records, arrival, processed, authorized, effects, answers>>
      /\ worker' = Idle
  BY DEF CrashBeforeEffect, CrashAfterEffect, inboxVars, storeVars
<1>2. TypeOK' /\ WorkerHoldsRecord'
  BY <1>1 DEF IInv, TypeOK, WorkerHoldsRecord, Stored
<1>3. QED
  BY <1>1, <1>2
    DEF IInv, StoredAreAuthentic, AnswersConsistent, StoreAgrees, EffectsAtMostOnce,
        CapturedAfterAuthorized, StatusMatchesEffects, Stored, EventOf

(* What the worker holds once it has loaded e.                             *)
LEMMA WorkerSnapshot ==
  ASSUME IInv, NEW e \in Ids, worker # Idle, worker.id = e
  PROVE  /\ e \in Stored /\ records[e] \in InboxRecord /\ records[e].status = "RECEIVED"
         /\ worker \in [pc : {"loaded", "applied"}, id : Ids, body : Bodies]
         /\ worker.body = records[e].body
         /\ EventOf(e) \in Events /\ EventOf(e).id = e
<1>1. Pending(e) /\ worker.body = records[e].body
  BY DEF IInv, WorkerHoldsRecord
<1>2. e \in Stored
  BY <1>1 DEF Pending, Stored
<1>3. QED
  BY <1>1, <1>2, StoredEvent DEF IInv, TypeOK, Pending

(* Changing the status of a record that process() holds keeps whatever     *)
(* does not depend on the status.                                          *)
LEMMA SetStatusFacts ==
  ASSUME IInv, NEW e \in Stored, NEW st \in Statuses, SetStatus(e, st)
  PROVE  /\ records' \in [Ids -> InboxRecord \union {NoRecord}]
         /\ Stored' = Stored
         /\ \A x \in Stored : /\ records'[x].body = records[x].body
                              /\ records'[x].receivedAt = records[x].receivedAt
                              /\ EventOf(x)' = EventOf(x)
         /\ records'[e].status = st
         /\ \A x \in Stored : x # e => records'[x] = records[x]
<1> DEFINE new == [records[e] EXCEPT !.status = st]
<1>1. records[e] \in InboxRecord /\ e \in Ids
  BY DEF IInv, TypeOK, Stored
<1>2. /\ new \in InboxRecord /\ new.body = records[e].body
      /\ new.receivedAt = records[e].receivedAt /\ new.status = st
  BY <1>1 DEF InboxRecord
<1>3. new # NoRecord
  BY <1>2, InboxAssumption DEF InboxRecord, Statuses
<1>4. records' = [records EXCEPT ![e] = new]
  BY DEF SetStatus
<1>5. /\ records' \in [Ids -> InboxRecord \union {NoRecord}]
      /\ records'[e] = new
      /\ \A x \in Ids : x # e => records'[x] = records[x]
  BY <1>1, <1>2, <1>4 DEF IInv, TypeOK
<1>6. Stored' = Stored
  BY <1>1, <1>3, <1>5 DEF Stored
<1>7. \A x \in Stored : /\ records'[x].body = records[x].body
                       /\ records'[x].receivedAt = records[x].receivedAt
                       /\ EventOf(x)' = EventOf(x)
  BY <1>2, <1>5 DEF Stored, EventOf
<1>8. QED
  BY <1>2, <1>5, <1>6, <1>7 DEF Stored

(* A worker that stops holding e after giving it a terminal status that    *)
(* agrees with the effect store.                                           *)
LEMMA SettleStep ==
  ASSUME IInv, NEW e \in Ids, worker # Idle, worker.id = e,
         NEW st \in {"PROCESSED", "FAILED"},
         SetStatus(e, st), st = "PROCESSED" <=> e \in processed,
         worker' = Idle, UNCHANGED <<arrival, processed, authorized, effects, answers>>
  PROVE  IInv'
<1>1. e \in Stored /\ EventOf(e).id = e
  BY WorkerSnapshot
<1>2. st \in Statuses
  BY DEF Statuses
<1>3. /\ records' \in [Ids -> InboxRecord \union {NoRecord}]
      /\ Stored' = Stored
      /\ \A x \in Stored : /\ records'[x].body = records[x].body
                           /\ records'[x].receivedAt = records[x].receivedAt
                           /\ EventOf(x)' = EventOf(x)
      /\ records'[e].status = st
      /\ \A x \in Stored : x # e => records'[x] = records[x]
  BY <1>1, <1>2, SetStatusFacts
<1>4. TypeOK' /\ WorkerHoldsRecord'
  BY <1>3 DEF IInv, TypeOK, WorkerHoldsRecord
<1>5. StoredAreAuthentic'
  BY <1>3 DEF IInv, StoredAreAuthentic, EventOf
<1>6. AnswersConsistent'
  BY <1>3 DEF IInv, AnswersConsistent
<1>7. StatusMatchesEffects'
  <2>1. \A i \in DOMAIN effects :
          effects[i].id \in Stored' /\ effects[i] = Parse[records'[effects[i].id].body]
    BY <1>3 DEF IInv, StatusMatchesEffects, EventOf
  <2> SUFFICES ASSUME NEW x \in Stored
               PROVE  /\ records'[x].status = "PROCESSED" =>
                           EventOf(x) \in {effects[i] : i \in DOMAIN effects}
                      /\ records'[x].status = "FAILED" => x \notin processed
    BY <1>3, <2>1 DEF StatusMatchesEffects, EventOf
  <2>2. CASE x # e
    BY <1>3, <2>2 DEF IInv, StatusMatchesEffects
  <2>3. CASE x = e /\ st = "FAILED"
    BY <1>3, <2>3
  <2>4. CASE x = e /\ st = "PROCESSED"
    <3>1. PICK i \in DOMAIN effects : effects[i].id = e
      BY <2>4 DEF IInv, StoreAgrees
    <3>2. effects[i] = EventOf(e)
      BY <3>1 DEF IInv, StatusMatchesEffects
    <3>3. QED
      BY <1>3, <2>4, <3>1, <3>2
  <2>5. QED
    BY <2>2, <2>3, <2>4
<1>8. QED
  BY <1>4, <1>5, <1>6, <1>7
    DEF IInv, StoreAgrees, EffectsAtMostOnce, CapturedAfterAuthorized

(* apply_once adding the effect of the record held.                        *)
LEMMA AddEffectStep ==
  ASSUME IInv, NEW e \in Ids, worker.pc = "loaded", worker # Idle, worker.id = e,
         ~AlreadyApplied(Parse[worker.body]), ~OutOfOrder(Parse[worker.body]),
         AddEffect(Parse[worker.body]),
         worker' = [worker EXCEPT !.pc = "applied"], UNCHANGED <<records, arrival, answers>>
  PROVE  IInv'
<1> DEFINE ev == EventOf(e)
<1>1. /\ e \in Stored /\ records[e].status = "RECEIVED"
      /\ worker \in [pc : {"loaded", "applied"}, id : Ids, body : Bodies]
      /\ worker.body = records[e].body
      /\ ev \in Events /\ ev.id = e /\ Parse[worker.body] = ev
      /\ ev.kind \in {"authorized", "captured"} /\ ev.order \in Orders
  BY WorkerSnapshot, EventFields DEF EventOf
<1>2. /\ e \notin processed
      /\ processed' = processed \union {e}
      /\ authorized' = IF ev.kind = "authorized" THEN authorized \union {ev.order} ELSE authorized
      /\ effects' = Append(effects, ev)
      /\ ev.kind = "captured" => ev.order \in authorized
  BY <1>1 DEF AddEffect, AlreadyApplied, OutOfOrder
<1>3. effects \in Seq(Events)
  BY DEF IInv, TypeOK
<1> DEFINE n == Len(effects)
<1>4. /\ effects' \in Seq(Events) /\ n \in Nat
      /\ DOMAIN effects = 1 .. n /\ DOMAIN effects' = 1 .. n + 1
      /\ \A i \in 1 .. n : effects'[i] = effects[i]
      /\ effects'[n + 1] = ev
  BY <1>1, <1>2, <1>3, AppendFacts
<1> HIDE DEF n, ev
<1>5. \A i \in DOMAIN effects' : i \in DOMAIN effects \/ i = n + 1
  BY <1>4
<1>6. UNCHANGED <<Stored>> /\ \A x \in Stored : EventOf(x)' = EventOf(x)
  BY DEF Stored, EventOf
<1>7. TypeOK'
  <2>1. worker' \in [pc : {"loaded", "applied"}, id : Ids, body : Bodies]
    BY <1>1
  <2>2. processed' \subseteq Ids /\ authorized' \subseteq Orders
    BY <1>1, <1>2 DEF IInv, TypeOK
  <2>3. QED
    BY <1>4, <1>6, <2>1, <2>2 DEF IInv, TypeOK
<1>8. WorkerHoldsRecord'
  <2>1. worker'.id = e /\ worker'.body = records[e].body
    BY <1>1
  <2>2. QED
    BY <1>1, <1>2, <2>1 DEF WorkerHoldsRecord, Pending, IInv
<1>9. EffectsAtMostOnce'
  <2>1. \A i \in DOMAIN effects : effects[i].id # e
    BY <1>1, <1>2 DEF IInv, StoreAgrees
  <2>2. QED
    BY <1>1, <1>4, <1>5, <2>1 DEF IInv, EffectsAtMostOnce
<1>10. CapturedAfterAuthorized'
  <2> SUFFICES ASSUME NEW i \in DOMAIN effects', effects'[i].kind = "captured"
               PROVE  \E j \in 1 .. i - 1 :
                        effects'[j].kind = "authorized" /\ effects'[j].order = effects'[i].order
    BY DEF CapturedAfterAuthorized
  <2>1. CASE i \in DOMAIN effects
    <3>1. PICK j \in 1 .. i - 1 : effects[j].kind = "authorized" /\ effects[j].order = effects[i].order
      BY <1>4, <2>1 DEF IInv, CapturedAfterAuthorized
    <3>2. j \in 1 .. n
      BY <1>4, <2>1, <3>1
    <3>3. QED
      BY <1>4, <2>1, <3>1, <3>2
  <2>2. CASE i = n + 1
    <3>1. ev.order \in authorized
      BY <1>2, <1>4, <2>2
    <3>2. PICK j \in DOMAIN effects : effects[j].kind = "authorized" /\ effects[j].order = ev.order
      BY <1>1, <3>1 DEF IInv, StoreAgrees
    <3>3. j \in 1 .. i - 1
      BY <1>4, <2>2, <3>2
    <3>4. QED
      BY <1>4, <2>2, <3>2, <3>3
  <2>3. QED
    BY <1>5, <2>1, <2>2
<1>11. StoreAgrees'
  <2>1. \A x \in Ids : x \in processed' <=> \E i \in DOMAIN effects' : effects'[i].id = x
    <3>1. \A x \in Ids : x \in processed => \E i \in DOMAIN effects' : effects'[i].id = x
      BY <1>4 DEF IInv, StoreAgrees
    <3>2. n + 1 \in DOMAIN effects' /\ effects'[n + 1].id = e
      BY <1>1, <1>4
    <3>3. \A i \in DOMAIN effects' : effects'[i].id \in Ids => effects'[i].id \in processed'
      BY <1>1, <1>2, <1>4, <1>5 DEF IInv, StoreAgrees
    <3>4. QED
      BY <1>2, <3>1, <3>2, <3>3
  <2>2. \A o \in Orders : o \in authorized' <=>
          \E i \in DOMAIN effects' : effects'[i].kind = "authorized" /\ effects'[i].order = o
    <3>1. \A o \in Orders : o \in authorized =>
            \E i \in DOMAIN effects' : effects'[i].kind = "authorized" /\ effects'[i].order = o
      BY <1>4 DEF IInv, StoreAgrees
    <3>2. n + 1 \in DOMAIN effects' /\ effects'[n + 1] = ev
      BY <1>4
    <3>3. \A i \in DOMAIN effects' :
            effects'[i].kind = "authorized" /\ effects'[i].order \in Orders =>
              effects'[i].order \in authorized'
      BY <1>2, <1>4, <1>5 DEF IInv, StoreAgrees
    <3>4. QED
      BY <1>2, <3>1, <3>2, <3>3
  <2>3. QED
    BY <2>1, <2>2 DEF StoreAgrees
<1>12. StatusMatchesEffects'
  <2>1. \A x \in Stored : records[x].status = "FAILED" => x \notin processed'
    BY <1>1, <1>2 DEF IInv, StatusMatchesEffects
  <2>2. \A x \in Stored : records[x].status = "PROCESSED" =>
          EventOf(x) \in {effects'[i] : i \in DOMAIN effects'}
    <3> SUFFICES ASSUME NEW x \in Stored, records[x].status = "PROCESSED"
                 PROVE  \E i \in DOMAIN effects' : effects'[i] = EventOf(x)
      OBVIOUS
    <3>1. PICK i \in DOMAIN effects : effects[i] = EventOf(x)
      BY DEF IInv, StatusMatchesEffects
    <3>2. QED
      BY <1>4, <3>1
  <2>3. \A i \in DOMAIN effects' : effects'[i].id \in Stored /\ effects'[i] = EventOf(effects'[i].id)
    BY <1>1, <1>4, <1>5 DEF IInv, StatusMatchesEffects, ev
  <2>4. QED
    BY <1>6, <2>1, <2>2, <2>3 DEF StatusMatchesEffects
<1>13. QED
  BY <1>7, <1>8, <1>9, <1>10, <1>11, <1>12, <1>6
    DEF IInv, StoredAreAuthentic, AnswersConsistent, EventOf

(* The three outcomes of apply_once.                                       *)
LEMMA ApplyOnceStep ==
  ASSUME IInv, NEW e \in Ids, ApplyOnce(e)
  PROVE  IInv'
<1> DEFINE ev == Parse[worker.body]
<1>1. worker # Idle /\ worker.pc = "loaded" /\ worker.id = e /\ UNCHANGED answers
  BY DEF ApplyOnce, Idle
<1>2. ev = EventOf(e) /\ ev.id = e /\ worker \in [pc : {"loaded", "applied"}, id : Ids, body : Bodies]
  BY <1>1, WorkerSnapshot DEF EventOf
<1>3. CASE AlreadyApplied(ev) /\ worker' = [worker EXCEPT !.pc = "applied"]
             /\ UNCHANGED <<inboxVars, storeVars>>
  <2>1. UNCHANGED <<records, arrival, processed, authorized, effects, answers>>
    BY <1>1, <1>3 DEF inboxVars, storeVars
  <2>2. e \in processed
    BY <1>2, <1>3 DEF AlreadyApplied
  <2>3. /\ worker' \in [pc : {"loaded", "applied"}, id : Ids, body : Bodies]
        /\ worker'.id = worker.id /\ worker'.body = worker.body
    BY <1>2, <1>3
  <2>4. TypeOK'
    BY <2>1, <2>3 DEF IInv, TypeOK, Stored
  <2>5. WorkerHoldsRecord'
    BY <1>1, <2>1, <2>2, <2>3 DEF IInv, WorkerHoldsRecord, Pending
  <2>6. QED
    BY <2>1, <2>4, <2>5
      DEF IInv, StoredAreAuthentic, AnswersConsistent, StoreAgrees, EffectsAtMostOnce,
          CapturedAfterAuthorized, StatusMatchesEffects, Stored, EventOf
<1>4. CASE ~AlreadyApplied(ev) /\ OutOfOrder(ev) /\ SetStatus(e, "FAILED") /\ worker' = Idle
             /\ UNCHANGED <<arrival, storeVars>>
  <2>1. e \notin processed
    BY <1>2, <1>4 DEF AlreadyApplied
  <2>2. UNCHANGED <<arrival, processed, authorized, effects, answers>>
    BY <1>1, <1>4 DEF storeVars
  <2>3. QED
    BY <1>1, <1>4, <2>1, <2>2, SettleStep
<1>5. CASE ~AlreadyApplied(ev) /\ ~OutOfOrder(ev) /\ AddEffect(ev)
             /\ worker' = [worker EXCEPT !.pc = "applied"] /\ UNCHANGED inboxVars
  BY <1>1, <1>5, AddEffectStep DEF inboxVars
<1>6. QED
  BY <1>3, <1>4, <1>5 DEF ApplyOnce

LEMMA MarkProcessedStep ==
  ASSUME IInv, NEW e \in Ids, MarkProcessed(e)
  PROVE  IInv'
<1>1. worker # Idle /\ worker.pc = "applied" /\ worker.id = e
  BY DEF MarkProcessed, Idle
<1>2. e \in processed
  BY <1>1 DEF IInv, WorkerHoldsRecord
<1>3. SetStatus(e, "PROCESSED") /\ worker' = Idle
      /\ UNCHANGED <<arrival, processed, authorized, effects, answers>>
  BY DEF MarkProcessed, storeVars
<1>4. QED
  BY <1>1, <1>2, <1>3, SettleStep

LEMMA DeliverStep ==
  ASSUME IInv, Deliver
  PROVE  IInv'
<1>1. PICK m \in Signed, now \in Clock :
        \/ \E b \in Bodies : Receive(b, m[1], m, now)
        \/ \E ts \in (Times \ {m[1]}) \union {Absent, NotAnInt} : Receive(m[2], ts, m, now)
        \/ Receive(m[2], m[1], Absent, now)
  BY DEF Deliver
<1>2. m[2] \in Bodies
  BY InboxAssumption
<1>3. QED
  BY <1>1, <1>2, ReceiveStep

-----------------------------------------------------------------------------
(* The inductive invariant holds initially and every step preserves it.    *)
THEOREM InductiveInvariant == Spec => []IInv
<1>1. Init => IInv
  BY InitIInv
<1>2. IInv /\ [Next]_vars => IInv'
  <2> SUFFICES ASSUME IInv, [Next]_vars PROVE IInv'
    OBVIOUS
  <2>1. CASE Deliver
    BY <2>1, DeliverStep
  <2>2. ASSUME NEW e \in Ids, Load(e) PROVE IInv'
    BY <2>2, LoadStep
  <2>3. ASSUME NEW e \in Ids, ApplyOnce(e) PROVE IInv'
    BY <2>3, ApplyOnceStep
  <2>4. ASSUME NEW e \in Ids, MarkProcessed(e) PROVE IInv'
    BY <2>4, MarkProcessedStep
  <2>5. CASE CrashBeforeEffect \/ CrashAfterEffect
    BY <2>5, CrashStep
  <2>6. CASE UNCHANGED vars
    BY <2>6, StutterStep DEF vars, inboxVars, storeVars
  <2>7. QED
    BY <2>1, <2>2, <2>3, <2>4, <2>5, <2>6 DEF Next
<1>3. QED
  BY <1>1, <1>2, PTL DEF Spec

(* The variables keep their types, and arrival remains a duplicate-free    *)
(* list of the keys of the inbox.                                          *)
THEOREM TypeCorrect == Spec => []TypeOK
<1>1. IInv => TypeOK
  BY DEF IInv
<1>2. QED
  BY <1>1, InductiveInvariant, PTL

(* No history of duplicate deliveries and crashes applies an event twice.  *)
THEOREM AtMostOnce == Spec => []EffectsAtMostOnce
<1>1. IInv => EffectsAtMostOnce
  BY DEF IInv
<1>2. QED
  BY <1>1, InductiveInvariant, PTL

(* A capture never takes effect before the authorisation of its order.     *)
THEOREM CaptureNeedsAuthorization == Spec => []CapturedAfterAuthorized
<1>1. IInv => CapturedAfterAuthorized
  BY DEF IInv
<1>2. QED
  BY <1>1, InductiveInvariant, PTL

(* The status of a record and the effect store never contradict each other. *)
THEOREM StatusAgreement == Spec => []StatusMatchesEffects
<1>1. IInv => StatusMatchesEffects
  BY DEF IInv
<1>2. QED
  BY <1>1, InductiveInvariant, PTL

(* Only fresh messages that the provider signed are stored.                *)
THEOREM StoredAuthentic == Spec => []StoredAreAuthentic
<1>1. IInv => StoredAreAuthentic
  BY DEF IInv
<1>2. QED
  BY <1>1, InductiveInvariant, PTL

(* No two rival bodies of one event are ever acknowledged.                 *)
THEOREM AnswersAgree == Spec => []AnswersConsistent
<1>1. IInv => AnswersConsistent
  BY DEF IInv
<1>2. QED
  BY <1>1, InductiveInvariant, PTL

-----------------------------------------------------------------------------
(* What the records of one step may become.                                *)
RecordKept(e) ==
  /\ records'[e] # NoRecord
  /\ records'[e].body = records[e].body
  /\ records'[e].receivedAt = records[e].receivedAt
  /\ records[e].status # "RECEIVED" => records'[e].status = records[e].status

(* Marking the record that process() holds moves it out of RECEIVED.       *)
LEMMA SetStatusKeeps ==
  ASSUME IInv, NEW e \in Ids, worker # Idle, worker.id = e,
         NEW st \in Statuses, SetStatus(e, st), NEW x \in Stored
  PROVE  RecordKept(x)
<1>1. e \in Stored /\ records[e].status = "RECEIVED"
  BY WorkerSnapshot
<1>2. /\ Stored' = Stored
      /\ records'[x].body = records[x].body
      /\ records'[x].receivedAt = records[x].receivedAt
      /\ x # e => records'[x] = records[x]
  BY <1>1, SetStatusFacts
<1>3. records'[x] # NoRecord
  BY <1>2 DEF Stored
<1>4. QED
  BY <1>1, <1>2, <1>3 DEF RecordKept

(* A delivery keeps every record it finds.                                 *)
LEMMA ReceiveKeeps ==
  ASSUME IInv, NEW b \in Bodies, NEW ts, NEW sig, NEW now \in Clock,
         Receive(b, ts, sig, now), NEW x \in Stored
  PROVE  RecordKept(x)
<1>1. CASE UNCHANGED records
  BY <1>1 DEF RecordKept, Stored
<1>2. CASE Parse[b] # InvalidPayload /\ SaveReceived(b, now) /\ ~Known(Parse[b].id)
  <2>1. x # Parse[b].id /\ x \in Ids /\ records[x] # NoRecord
    BY <1>2 DEF Known, Stored
  <2>2. records' = [records EXCEPT
                      ![Parse[b].id] = [body |-> b, receivedAt |-> now, status |-> "RECEIVED"]]
    BY <1>2 DEF SaveReceived, Known, Conflicts
  <2>3. records'[x] = records[x]
    BY <2>1, <2>2 DEF IInv, TypeOK
  <2>4. QED
    BY <2>1, <2>3 DEF RecordKept
<1>3. QED
  BY <1>1, <1>2 DEF Receive, SaveReceived, inboxVars, Known

(* No step loses a record, rewrites what was received or leaves a terminal *)
(* status: the inbox never replays a failure by itself.                    *)
THEOREM StableRecords == Spec => RecordsStable
<1>1. IInv /\ [Next]_vars =>
        [\A e \in Stored :
           /\ records'[e] # NoRecord
           /\ records'[e].body = records[e].body
           /\ records'[e].receivedAt = records[e].receivedAt
           /\ records[e].status # "RECEIVED" => records'[e].status = records[e].status]_vars
  <2> SUFFICES ASSUME IInv, Next, NEW x \in Stored PROVE RecordKept(x)
    BY DEF RecordKept
  <2>1. CASE Deliver
    <3>1. PICK m \in Signed, now \in Clock :
            \/ \E b \in Bodies : Receive(b, m[1], m, now)
            \/ \E ts \in (Times \ {m[1]}) \union {Absent, NotAnInt} : Receive(m[2], ts, m, now)
            \/ Receive(m[2], m[1], Absent, now)
      BY <2>1 DEF Deliver
    <3>2. m[2] \in Bodies
      BY InboxAssumption
    <3>3. QED
      BY <3>1, <3>2, ReceiveKeeps
  <2>2. ASSUME NEW e \in Ids, ApplyOnce(e) PROVE RecordKept(x)
    <3>1. worker # Idle /\ worker.id = e
      BY <2>2 DEF ApplyOnce, Idle
    <3>2. CASE SetStatus(e, "FAILED")
      BY <3>1, <3>2, SetStatusKeeps DEF Statuses
    <3>3. CASE UNCHANGED records
      BY <3>3 DEF RecordKept, Stored
    <3>4. QED
      BY <2>2, <3>2, <3>3 DEF ApplyOnce, inboxVars
  <2>3. ASSUME NEW e \in Ids, MarkProcessed(e) PROVE RecordKept(x)
    <3>1. worker # Idle /\ worker.id = e /\ SetStatus(e, "PROCESSED")
      BY <2>3 DEF MarkProcessed, Idle
    <3>2. QED
      BY <3>1, SetStatusKeeps DEF Statuses
  <2>4. CASE UNCHANGED records
    BY <2>4 DEF RecordKept, Stored
  <2>5. QED
    BY <2>1, <2>2, <2>3, <2>4 DEF Next, Load, CrashBeforeEffect, CrashAfterEffect, inboxVars
<1>2. QED
  BY <1>1, InductiveInvariant, PTL DEF Spec, RecordsStable

-----------------------------------------------------------------------------
(* What callers leave to process_next is done in the order of its arrival. *)

(* The store refuses captures only.                                        *)
OnlyCapturesFail ==
  \A e \in Stored : records[e].status = "FAILED" => EventOf(e).kind = "captured"

(* What is ahead of e was settled.                                         *)
AheadSettled(e) ==
  \A i \in DOMAIN arrival : arrival[i] = e =>
    \A j \in 1 .. i - 1 : records[arrival[j]].status # "RECEIVED"

(* No authorisation of e's order is ahead of e.                            *)
NoneAhead(e) ==
  \A i \in DOMAIN arrival : arrival[i] = e =>
    \A j \in 1 .. i - 1 :
      ~(EventOf(arrival[j]).kind = "authorized" /\ EventOf(arrival[j]).order = EventOf(e).order)

TakenInTurn == worker # Idle /\ worker.id \notin DirectIds => AheadSettled(worker.id)
FailedInTurn == \A e \in Stored : records[e].status = "FAILED" /\ e \notin DirectIds => NoneAhead(e)

ArrivalIInv == OnlyCapturesFail /\ TakenInTurn /\ FailedInTurn

(* The inbox only appends to its keys.                                     *)
Appended == arrival' = arrival \/ \E e \in Ids \ Stored : arrival' = Append(arrival, e)

LEMMA AheadStays ==
  ASSUME IInv, Appended
  PROVE  /\ DOMAIN arrival = 1 .. Len(arrival) /\ Len(arrival) \in Nat
         /\ \A i \in DOMAIN arrival : arrival[i] \in Stored
         /\ \A i \in DOMAIN arrival' : arrival'[i] \in Stored =>
              /\ i \in DOMAIN arrival /\ arrival'[i] = arrival[i]
              /\ \A j \in 1 .. i - 1 : j \in DOMAIN arrival /\ arrival'[j] = arrival[j]
<1>1. arrival \in Seq(Ids) /\ \A i \in DOMAIN arrival : arrival[i] \in Stored
  BY DEF IInv, TypeOK
<1>2. DOMAIN arrival = 1 .. Len(arrival) /\ Len(arrival) \in Nat
  BY <1>1
<1>3. CASE arrival' = arrival
  BY <1>1, <1>2, <1>3
<1>4. CASE arrival' # arrival
  <2>1. PICK e \in Ids \ Stored : arrival' = Append(arrival, e)
    BY <1>4 DEF Appended
  <2>2. /\ DOMAIN arrival' = 1 .. Len(arrival) + 1
        /\ \A i \in 1 .. Len(arrival) : arrival'[i] = arrival[i]
        /\ arrival'[Len(arrival) + 1] = e
    BY <1>1, <2>1, AppendFacts
  <2>3. QED
    BY <1>1, <1>2, <2>1, <2>2
<1>5. QED
  BY <1>3, <1>4

(* A step that keeps the records and takes up no other one, when what it   *)
(* makes fail is a capture with no authorisation ahead.                    *)
LEMMA ArrivalKept ==
  ASSUME IInv, ArrivalIInv, Appended, \A x \in Stored : x \in Stored' /\ RecordKept(x),
         \A x \in Stored' : records'[x].status = "FAILED" =>
           /\ x \in Stored /\ EventOf(x).kind = "captured"
           /\ x \notin DirectIds => NoneAhead(x),
         worker' # Idle => worker # Idle /\ worker'.id = worker.id
  PROVE  ArrivalIInv'
<1>1. \A x \in Stored : EventOf(x)' = EventOf(x)
  BY DEF RecordKept, EventOf
<1>2. OnlyCapturesFail'
  BY <1>1 DEF OnlyCapturesFail
<1>3. TakenInTurn'
  <2> SUFFICES ASSUME worker' # Idle, worker'.id \notin DirectIds,
                      NEW i \in DOMAIN arrival', arrival'[i] = worker'.id, NEW j \in 1 .. i - 1
               PROVE  records'[arrival'[j]].status # "RECEIVED"
    BY DEF TakenInTurn, AheadSettled
  <2>1. worker # Idle /\ worker'.id = worker.id /\ worker.id \in Stored
    BY DEF IInv, WorkerHoldsRecord, Pending, TypeOK, Stored
  <2>2. i \in DOMAIN arrival /\ arrival'[i] = arrival[i] /\ j \in DOMAIN arrival
        /\ arrival'[j] = arrival[j] /\ arrival[j] \in Stored
    BY <2>1, AheadStays
  <2>3. records[arrival[j]].status # "RECEIVED"
    BY <2>1, <2>2 DEF ArrivalIInv, TakenInTurn, AheadSettled
  <2>4. QED
    BY <2>2, <2>3 DEF RecordKept
<1>4. FailedInTurn'
  <2> SUFFICES ASSUME NEW x \in Stored', records'[x].status = "FAILED", x \notin DirectIds,
                      NEW i \in DOMAIN arrival', arrival'[i] = x, NEW j \in 1 .. i - 1
               PROVE  ~( /\ Parse[records'[arrival'[j]].body].kind = "authorized"
                         /\ Parse[records'[arrival'[j]].body].order = Parse[records'[x].body].order)
    BY DEF FailedInTurn, NoneAhead, EventOf
  <2>1. x \in Stored /\ NoneAhead(x)
    OBVIOUS
  <2>2. i \in DOMAIN arrival /\ arrival'[i] = arrival[i] /\ arrival'[j] = arrival[j]
        /\ j \in DOMAIN arrival /\ arrival[j] \in Stored
    BY <2>1, AheadStays
  <2>3. records'[x].body = records[x].body /\ records'[arrival'[j]].body = records[arrival[j]].body
    BY <2>1, <2>2 DEF RecordKept
  <2>4. QED
    BY <2>1, <2>2, <2>3 DEF NoneAhead, EventOf
<1>5. QED
  BY <1>2, <1>3, <1>4 DEF ArrivalIInv

(* A new record is the last, and RECEIVED.                                 *)
LEMMA ReceiveInOrder ==
  ASSUME IInv, ArrivalIInv, NEW b \in Bodies, NEW ts, NEW sig, NEW now \in Clock,
         Receive(b, ts, sig, now)
  PROVE  ArrivalIInv'
<1>1. UNCHANGED worker
  BY DEF Receive
<1>2. \A x \in Stored : x \in Stored' /\ RecordKept(x)
  BY ReceiveKeeps DEF RecordKept, Stored
<1>3. \A x \in Stored : records[x].status = "FAILED" =>
        EventOf(x).kind = "captured" /\ (x \notin DirectIds => NoneAhead(x))
  BY DEF ArrivalIInv, OnlyCapturesFail, FailedInTurn
<1>4. CASE UNCHANGED <<records, arrival>>
  <2>1. Stored' = Stored /\ Appended
    BY <1>4 DEF Stored, Appended
  <2>2. QED
    BY <1>1, <1>2, <1>3, <1>4, <2>1, ArrivalKept
<1>5. CASE Parse[b] # InvalidPayload /\ SaveReceived(b, now) /\ ~Known(Parse[b].id)
  <2>1. Parse[b].id \in Ids \ Stored
    BY <1>5, InboxAssumption, EventFields DEF Known, Stored
  <2>2. records' = [records EXCEPT
                      ![Parse[b].id] = [body |-> b, receivedAt |-> now, status |-> "RECEIVED"]]
        /\ Appended
    BY <1>5, <2>1 DEF SaveReceived, Known, Conflicts, Appended
  <2>3. \A x \in Stored' : records'[x].status = "FAILED" => x \in Stored /\ records'[x] = records[x]
    BY <2>1, <2>2 DEF IInv, TypeOK, Stored
  <2>4. QED
    BY <1>1, <1>2, <1>3, <2>2, <2>3, ArrivalKept
<1>6. QED
  BY <1>4, <1>5 DEF Receive, SaveReceived, inboxVars, Known

(* process_next takes up the oldest record that is pending.                *)
LEMMA LoadInOrder ==
  ASSUME IInv, ArrivalIInv, NEW e \in Ids, Load(e)
  PROVE  ArrivalIInv'
<1>1. UNCHANGED <<records, arrival>> /\ worker'.id = e
  BY DEF Load, inboxVars
<1>2. OnlyCapturesFail' /\ FailedInTurn'
  BY <1>1 DEF ArrivalIInv, OnlyCapturesFail, FailedInTurn, NoneAhead, Stored, EventOf
<1>3. e \notin DirectIds => AheadSettled(e)
  <2> SUFFICES ASSUME e \notin DirectIds, NEW i \in DOMAIN arrival, arrival[i] = e, NEW j \in 1 .. i - 1
               PROVE  records[arrival[j]].status # "RECEIVED"
    BY DEF AheadSettled
  <2>1. DOMAIN arrival = 1 .. Len(arrival) /\ Len(arrival) \in Nat
        /\ \A k \in DOMAIN arrival : arrival[k] \in Stored
    BY DEF IInv, TypeOK
  <2>2. PICK k \in DOMAIN arrival : arrival[k] = e /\ \A l \in DOMAIN arrival : l < k => ~Pending(arrival[l])
    BY DEF Load, NextPending
  <2>3. k = i
    BY <2>2 DEF IInv, TypeOK
  <2>4. j \in DOMAIN arrival /\ j < k
    BY <2>1, <2>3
  <2>5. QED
    BY <2>1, <2>2, <2>4 DEF Pending, Stored
<1>4. TakenInTurn'
  BY <1>1, <1>3 DEF TakenInTurn, AheadSettled
<1>5. QED
  BY <1>2, <1>4 DEF ArrivalIInv

(* What is ahead was settled, so that an authorisation there has had its   *)
(* effect, and the capture would not have been refused.                    *)
LEMMA RefusedInTurn ==
  ASSUME IInv, ArrivalIInv, NEW e \in Ids, worker # Idle, worker.id = e, OutOfOrder(EventOf(e)),
         e \notin DirectIds
  PROVE  NoneAhead(e)
<1> SUFFICES ASSUME NEW i \in DOMAIN arrival, arrival[i] = e, NEW j \in 1 .. i - 1,
                    EventOf(arrival[j]).kind = "authorized",
                    EventOf(arrival[j]).order = EventOf(e).order
             PROVE  FALSE
  BY DEF NoneAhead
<1>1. EventOf(e).order \notin authorized
  BY DEF OutOfOrder
<1>2. arrival[j] \in Stored
  <2>1. arrival \in Seq(Ids) /\ \A k \in DOMAIN arrival : arrival[k] \in Stored
    BY DEF IInv, TypeOK
  <2>2. j \in DOMAIN arrival
    BY <2>1
  <2>3. QED
    BY <2>1, <2>2
<1>3. records[arrival[j]].status # "RECEIVED"
  BY DEF ArrivalIInv, TakenInTurn, AheadSettled
<1>4. records[arrival[j]].status # "FAILED"
  BY <1>2 DEF ArrivalIInv, OnlyCapturesFail
<1>5. records[arrival[j]] \in InboxRecord /\ EventOf(arrival[j]) \in Events
  BY <1>2, StoredEvent DEF IInv
<1>6. records[arrival[j]].status = "PROCESSED"
  BY <1>3, <1>4, <1>5 DEF InboxRecord, Statuses
<1>7. PICK k \in DOMAIN effects : effects[k] = EventOf(arrival[j])
  BY <1>2, <1>6 DEF IInv, StatusMatchesEffects
<1>8. EventOf(arrival[j]).order \in Orders
  BY <1>5, EventFields
<1>9. EventOf(arrival[j]).order \in authorized
  BY <1>7, <1>8 DEF IInv, StoreAgrees
<1>10. QED
  BY <1>1, <1>9

(* A record gets its last status.                                          *)
LEMMA SettleInOrder ==
  ASSUME IInv, ArrivalIInv, NEW e \in Ids, worker # Idle, worker.id = e, NEW st \in Statuses,
         SetStatus(e, st), st = "FAILED" => OutOfOrder(EventOf(e)), worker' = Idle, UNCHANGED arrival
  PROVE  ArrivalIInv'
<1>1. \A x \in Stored : RecordKept(x)
  BY SetStatusKeeps
<1>2. e \in Stored
  BY WorkerSnapshot
<1>3. Stored' = Stored /\ records'[e].status = st /\ \A x \in Stored : x # e => records'[x] = records[x]
  BY <1>2, SetStatusFacts
<1>4. st = "FAILED" => EventOf(e).kind = "captured" /\ (e \notin DirectIds => NoneAhead(e))
  BY RefusedInTurn DEF OutOfOrder
<1>5. \A x \in Stored' : records'[x].status = "FAILED" =>
        x \in Stored /\ EventOf(x).kind = "captured" /\ (x \notin DirectIds => NoneAhead(x))
  BY <1>3, <1>4 DEF ArrivalIInv, OnlyCapturesFail, FailedInTurn
<1>6. Appended
  BY DEF Appended
<1>7. QED
  BY <1>1, <1>3, <1>5, <1>6, ArrivalKept

(* Nothing becomes of any record.                                          *)
LEMMA RestInOrder ==
  ASSUME IInv, ArrivalIInv, UNCHANGED <<records, arrival>>,
         worker' # Idle => worker # Idle /\ worker'.id = worker.id
  PROVE  ArrivalIInv'
<1>1. Stored' = Stored /\ Appended /\ \A x \in Stored : RecordKept(x)
  BY DEF Stored, Appended, RecordKept
<1>2. \A x \in Stored : records[x].status = "FAILED" =>
        EventOf(x).kind = "captured" /\ (x \notin DirectIds => NoneAhead(x))
  BY DEF ArrivalIInv, OnlyCapturesFail, FailedInTurn
<1>3. QED
  BY <1>1, <1>2, ArrivalKept

LEMMA ApplyOnceInOrder ==
  ASSUME IInv, ArrivalIInv, NEW e \in Ids, ApplyOnce(e)
  PROVE  ArrivalIInv'
<1>1. worker # Idle /\ worker.id = e
  BY DEF ApplyOnce, Idle
<1>2. Parse[worker.body] = EventOf(e) /\ worker \in [pc : {"loaded", "applied"}, id : Ids, body : Bodies]
  BY <1>1, WorkerSnapshot DEF EventOf
<1>3. CASE worker' = [worker EXCEPT !.pc = "applied"] /\ UNCHANGED <<records, arrival>>
  <2>1. worker'.id = worker.id
    BY <1>2, <1>3
  <2>2. QED
    BY <1>1, <1>3, <2>1, RestInOrder
<1>4. CASE OutOfOrder(EventOf(e)) /\ SetStatus(e, "FAILED") /\ worker' = Idle /\ UNCHANGED arrival
  BY <1>1, <1>4, SettleInOrder DEF Statuses
<1>5. QED
  BY <1>2, <1>3, <1>4 DEF ApplyOnce, inboxVars

(* What callers leave to process_next fails only where no authorisation of *)
(* its order had arrived before it (process_next and process, in worker.py). *)
THEOREM ArrivalOrder == Spec => []ArrivalOrderSuffices
<1>1. Init => ArrivalIInv
  BY DEF Init, ArrivalIInv, OnlyCapturesFail, TakenInTurn, FailedInTurn, Stored
<1>2. IInv /\ ArrivalIInv /\ [Next]_vars => ArrivalIInv'
  <2> SUFFICES ASSUME IInv, ArrivalIInv, [Next]_vars PROVE ArrivalIInv'
    OBVIOUS
  <2>1. CASE Deliver
    <3>1. PICK m \in Signed, now \in Clock :
            \/ \E b \in Bodies : Receive(b, m[1], m, now)
            \/ \E ts \in (Times \ {m[1]}) \union {Absent, NotAnInt} : Receive(m[2], ts, m, now)
            \/ Receive(m[2], m[1], Absent, now)
      BY <2>1 DEF Deliver
    <3>2. m[2] \in Bodies
      BY InboxAssumption
    <3>3. QED
      BY <3>1, <3>2, ReceiveInOrder
  <2>2. ASSUME NEW e \in Ids, Load(e) PROVE ArrivalIInv'
    BY <2>2, LoadInOrder
  <2>3. ASSUME NEW e \in Ids, ApplyOnce(e) PROVE ArrivalIInv'
    BY <2>3, ApplyOnceInOrder
  <2>4. ASSUME NEW e \in Ids, MarkProcessed(e) PROVE ArrivalIInv'
    <3>1. worker # Idle /\ worker.id = e
      BY <2>4 DEF MarkProcessed, Idle
    <3>2. QED
      BY <2>4, <3>1, SettleInOrder DEF MarkProcessed, Statuses
  <2>5. CASE CrashBeforeEffect \/ CrashAfterEffect \/ UNCHANGED vars
    <3>1. UNCHANGED <<records, arrival>> /\ (worker' = Idle \/ worker' = worker)
      BY <2>5 DEF CrashBeforeEffect, CrashAfterEffect, vars, inboxVars
    <3>2. QED
      BY <3>1, RestInOrder
  <2>6. QED
    BY <2>1, <2>2, <2>3, <2>4, <2>5 DEF Next
<1>3. IInv /\ ArrivalIInv => ArrivalOrderSuffices
  <2> SUFFICES ASSUME IInv, ArrivalIInv, NEW i \in DOMAIN arrival,
                      records[arrival[i]].status = "FAILED", arrival[i] \notin DirectIds
               PROVE  NoneAhead(arrival[i])
    BY DEF ArrivalOrderSuffices, NoneAhead
  <2>1. arrival[i] \in Stored
    BY DEF IInv, TypeOK
  <2>2. QED
    BY <2>1 DEF ArrivalIInv, FailedInTurn
<1>4. QED
  BY <1>1, <1>2, <1>3, InductiveInvariant, PTL DEF Spec

-----------------------------------------------------------------------------
(* Refinement: the inbox implements the payment ledger.                    *)

(* The abstract state, told through the ids of the inbox.                  *)
LEMMA AbstractState ==
  ASSUME IInv
  PROVE  /\ \A ev : ev \in AwaitingEvents <=>
               \E x \in Stored : Pending(x) /\ x \notin processed /\ ev = EventOf(x)
         /\ \A ev : ev \in FailedEvents <=>
               \E x \in Stored : records[x].status = "FAILED" /\ ev = EventOf(x)
         /\ Ledger!KnownIds \subseteq Stored
<1>1. \A x \in Stored : EventOf(x).id = x
  BY StoredEvent DEF IInv
<1>2. \A ev \in Ledger!Applied : ev.id \in Stored
  BY DEF IInv, StatusMatchesEffects, Ledger!Applied
<1>3. QED
  BY <1>1, <1>2 DEF AwaitingEvents, FailedEvents, Ledger!KnownIds

(* The ledger's precondition is the effect store's check.                  *)
LEMMA OrderAgrees ==
  ASSUME IInv, NEW e \in Stored
  PROVE  OutOfOrder(EventOf(e)) <=> ~Ledger!InOrder(EventOf(e))
<1>1. EventOf(e).order \in Orders
  BY StoredEvent, EventFields DEF IInv
<1>2. EventOf(e).order \in authorized <=>
        \E i \in DOMAIN effects : effects[i].kind = "authorized" /\ effects[i].order = EventOf(e).order
  BY <1>1 DEF IInv, StoreAgrees
<1>3. QED
  BY <1>2 DEF OutOfOrder, Ledger!InOrder, Ledger!Applied

(* Saving a new event accepts it.                                          *)
LEMMA SaveNewAccepts ==
  ASSUME IInv, IInv', NEW b \in Bodies, NEW now \in Clock, Parse[b] # InvalidPayload,
         ~Known(Parse[b].id), SaveReceived(b, now), UNCHANGED <<storeVars, worker>>
  PROVE  Ledger!Next
<1> DEFINE e == Parse[b].id
           rec == [body |-> b, receivedAt |-> now, status |-> "RECEIVED"]
<1>1. Parse[b] \in Events /\ e \in Ids /\ e \notin Stored
  BY InboxAssumption, EventFields DEF Known, Stored
<1>2. records' = [records EXCEPT ![e] = rec]
  BY DEF SaveReceived, Known, Conflicts
<1>3. rec # NoRecord
  BY InboxAssumption
<1>4. /\ records'[e] = rec /\ Stored' = Stored \union {e}
      /\ \A x \in Stored : records'[x] = records[x]
      /\ processed' = processed /\ effects' = effects
  BY <1>1, <1>2, <1>3 DEF IInv, TypeOK, Stored, storeVars
<1>5. e \notin processed
  BY <1>1 DEF IInv, StoreAgrees, StatusMatchesEffects
<1>6. \A x \in Stored' : /\ Pending(x)' <=> (x = e \/ Pending(x))
                        /\ EventOf(x)' = IF x = e THEN Parse[b] ELSE EventOf(x)
  BY <1>1, <1>3, <1>4 DEF Pending, EventOf, Stored
<1>7. AwaitingEvents' = AwaitingEvents \union {Parse[b]}
  <2>1. \A ev : ev \in AwaitingEvents' <=>
          \E x \in Stored' : Pending(x)' /\ x \notin processed /\ ev = EventOf(x)'
    BY <1>4 DEF AwaitingEvents
  <2>2. \A ev : ev \in AwaitingEvents' <=> (ev = Parse[b] \/ ev \in AwaitingEvents)
    BY <1>1, <1>4, <1>5, <1>6, <2>1, AbstractState
  <2>3. QED
    BY <2>2
<1>8. FailedEvents' = FailedEvents
  <2>1. \A ev : ev \in FailedEvents' <=>
          \E x \in Stored' : records'[x].status = "FAILED" /\ ev = EventOf(x)'
    BY DEF FailedEvents
  <2>2. \A ev : ev \in FailedEvents' <=> ev \in FailedEvents
    BY <1>1, <1>4, <1>6, <2>1, AbstractState
  <2>3. QED
    BY <2>2
<1>9. Parse[b].id \notin Ledger!KnownIds
  BY <1>1, AbstractState
<1>10. Ledger!Accept(Parse[b])
  BY <1>4, <1>7, <1>8, <1>9 DEF Ledger!Accept
<1>11. QED
  BY <1>1, <1>10 DEF Ledger!Next

(* Steps that change no record's standing are invisible to the ledger.     *)
LEMMA InvisibleStep ==
  ASSUME UNCHANGED <<records, processed, effects>>
  PROVE  UNCHANGED <<AwaitingEvents, effects, FailedEvents>>
<1>1. /\ Stored' = Stored
      /\ \A x \in Stored : (Pending(x)' <=> Pending(x)) /\ EventOf(x)' = EventOf(x)
  BY DEF Stored, Pending, EventOf
<1>2. AwaitingEvents' = AwaitingEvents
  BY DEF AwaitingEvents, Stored, Pending, EventOf
<1>3. FailedEvents' = FailedEvents
  BY DEF FailedEvents, Stored, EventOf
<1>4. QED
  BY <1>2, <1>3

(* apply_once applies or rejects the event held, or does nothing new.      *)
LEMMA ApplyOnceRefines ==
  ASSUME IInv, IInv', NEW e \in Ids, ApplyOnce(e)
  PROVE  Ledger!Next \/ UNCHANGED <<AwaitingEvents, effects, FailedEvents>>
<1> DEFINE ev == EventOf(e)
<1>1. worker # Idle /\ worker.id = e
  BY DEF ApplyOnce, Idle
<1>2. /\ e \in Stored /\ Pending(e) /\ records[e].status = "RECEIVED"
      /\ ev \in Events /\ ev.id = e /\ Parse[worker.body] = ev
  BY <1>1, WorkerSnapshot DEF EventOf, Pending, Stored
<1>3. \A x \in Stored : EventOf(x).id = x
  BY StoredEvent DEF IInv
<1>4. CASE AlreadyApplied(ev) /\ UNCHANGED <<inboxVars, storeVars>>
  BY <1>4, InvisibleStep DEF inboxVars, storeVars
<1>5. CASE ~AlreadyApplied(ev) /\ OutOfOrder(ev) /\ SetStatus(e, "FAILED") /\ UNCHANGED storeVars
  <2>1. e \notin processed /\ ev \in AwaitingEvents
    BY <1>2, <1>5, AbstractState DEF AlreadyApplied
  <2>2. /\ Stored' = Stored /\ records'[e].status = "FAILED"
        /\ \A x \in Stored : EventOf(x)' = EventOf(x) /\ (x # e => records'[x] = records[x])
    BY <1>2, <1>5, SetStatusFacts DEF Statuses
  <2>3. \A x \in Stored : Pending(x)' <=> (Pending(x) /\ x # e)
    BY <1>2, <2>2 DEF Pending, Stored
  <2>4. AwaitingEvents' = AwaitingEvents \ {ev}
    <3>1. \A v : v \in AwaitingEvents' <=>
            \E x \in Stored' : Pending(x)' /\ x \notin processed' /\ v = EventOf(x)'
      BY DEF AwaitingEvents
    <3>2. \A v : v \in AwaitingEvents' <=> (v \in AwaitingEvents /\ v # ev)
      BY <1>2, <1>3, <1>5, <2>2, <2>3, <3>1, AbstractState DEF storeVars
    <3>3. QED
      BY <3>2
  <2>5. FailedEvents' = FailedEvents \union {ev}
    <3>1. \A v : v \in FailedEvents' <=>
            \E x \in Stored' : records'[x].status = "FAILED" /\ v = EventOf(x)'
      BY DEF FailedEvents
    <3>2. \A v : v \in FailedEvents' <=> (v \in FailedEvents \/ v = ev)
      BY <1>2, <2>2, <3>1, AbstractState
    <3>3. QED
      BY <3>2
  <2>6. ~Ledger!InOrder(ev)
    BY <1>2, <1>5, OrderAgrees
  <2>7. Ledger!Reject(ev)
    BY <1>5, <2>1, <2>4, <2>5, <2>6 DEF Ledger!Reject, storeVars
  <2>8. QED
    BY <1>2, <2>7 DEF Ledger!Next
<1>6. CASE ~AlreadyApplied(ev) /\ ~OutOfOrder(ev) /\ AddEffect(ev) /\ UNCHANGED inboxVars
  <2>1. e \notin processed /\ ev \in AwaitingEvents
    BY <1>2, <1>6, AbstractState DEF AlreadyApplied
  <2>2. processed' = processed \union {e} /\ effects' = Append(effects, ev)
    BY <1>2, <1>6 DEF AddEffect
  <2>3. /\ Stored' = Stored /\ records' = records
        /\ \A x \in Stored : (Pending(x)' <=> Pending(x)) /\ EventOf(x)' = EventOf(x)
    BY <1>6 DEF Stored, Pending, EventOf, inboxVars
  <2>4. AwaitingEvents' = AwaitingEvents \ {ev}
    <3>1. \A v : v \in AwaitingEvents' <=>
            \E x \in Stored' : Pending(x)' /\ x \notin processed' /\ v = EventOf(x)'
      BY DEF AwaitingEvents
    <3>2. \A v : v \in AwaitingEvents' <=> (v \in AwaitingEvents /\ v # ev)
      BY <1>2, <1>3, <2>2, <2>3, <3>1, AbstractState
    <3>3. QED
      BY <3>2
  <2>5. FailedEvents' = FailedEvents
    BY <2>3 DEF FailedEvents
  <2>6. Ledger!InOrder(ev)
    BY <1>2, <1>6, OrderAgrees
  <2>7. Ledger!Apply(ev)
    BY <2>1, <2>2, <2>4, <2>5, <2>6 DEF Ledger!Apply
  <2>8. QED
    BY <1>2, <2>7 DEF Ledger!Next
<1>7. QED
  BY <1>2, <1>4, <1>5, <1>6 DEF ApplyOnce

(* mark_processed records what the ledger already knows.                   *)
LEMMA MarkProcessedInvisible ==
  ASSUME IInv, NEW e \in Ids, MarkProcessed(e)
  PROVE  UNCHANGED <<AwaitingEvents, effects, FailedEvents>>
<1>1. worker # Idle /\ worker.pc = "applied" /\ worker.id = e
  BY DEF MarkProcessed, Idle
<1>2. e \in Stored /\ records[e].status = "RECEIVED" /\ e \in processed
  BY <1>1, WorkerSnapshot DEF IInv, WorkerHoldsRecord
<1>3. SetStatus(e, "PROCESSED") /\ processed' = processed /\ effects' = effects
  BY DEF MarkProcessed, storeVars
<1>4. /\ Stored' = Stored /\ records'[e].status = "PROCESSED"
      /\ \A x \in Stored : EventOf(x)' = EventOf(x) /\ (x # e => records'[x] = records[x])
  BY <1>2, <1>3, SetStatusFacts DEF Statuses
<1>5. AwaitingEvents' = AwaitingEvents
  <2>1. \A v : v \in AwaitingEvents' <=>
          \E x \in Stored' : Pending(x)' /\ x \notin processed' /\ v = EventOf(x)'
    BY DEF AwaitingEvents
  <2>2. \A x \in Stored : x # e => (Pending(x)' <=> Pending(x))
    BY <1>4 DEF Pending
  <2>3. \A v : v \in AwaitingEvents' <=> v \in AwaitingEvents
    BY <1>2, <1>3, <1>4, <2>1, <2>2, AbstractState
  <2>4. QED
    BY <2>3
<1>6. FailedEvents' = FailedEvents
  <2>1. \A v : v \in FailedEvents' <=>
          \E x \in Stored' : records'[x].status = "FAILED" /\ v = EventOf(x)'
    BY DEF FailedEvents
  <2>2. \A v : v \in FailedEvents' <=> v \in FailedEvents
    BY <1>2, <1>4, <2>1, AbstractState
  <2>3. QED
    BY <2>2
<1>7. QED
  BY <1>3, <1>5, <1>6

LEMMA ReceiveRefines ==
  ASSUME IInv, IInv', NEW b \in Bodies, NEW ts, NEW sig, NEW now \in Clock,
         Receive(b, ts, sig, now)
  PROVE  Ledger!Next \/ UNCHANGED <<AwaitingEvents, effects, FailedEvents>>
<1>1. CASE UNCHANGED records
  BY <1>1, InvisibleStep DEF Receive, storeVars
<1>2. CASE Parse[b] # InvalidPayload /\ SaveReceived(b, now) /\ ~Known(Parse[b].id)
  BY <1>2, SaveNewAccepts DEF Receive
<1>3. QED
  BY <1>1, <1>2 DEF Receive, SaveReceived, Known, inboxVars

(* The inbox and its worker implement the payment ledger: every accepted   *)
(* event is applied once or rejected once, in an order the ledger allows.  *)
THEOREM InboxImplementsLedger == Spec => ImplementsLedger
<1>1. Init => Ledger!Init
  <2> SUFFICES ASSUME Init PROVE Ledger!Init
    OBVIOUS
  <2>1. Stored = {}
    BY DEF Init, Stored
  <2>2. QED
    BY <2>1 DEF Init, Ledger!Init, AwaitingEvents, FailedEvents
<1>2. IInv /\ IInv' /\ [Next]_vars => [Ledger!Next]_(Ledger!vars)
  <2> SUFFICES ASSUME IInv, IInv', [Next]_vars
               PROVE  Ledger!Next \/ UNCHANGED <<AwaitingEvents, effects, FailedEvents>>
    BY DEF Ledger!vars
  <2>1. CASE Deliver
    <3>1. PICK m \in Signed, now \in Clock :
            \/ \E b \in Bodies : Receive(b, m[1], m, now)
            \/ \E ts \in (Times \ {m[1]}) \union {Absent, NotAnInt} : Receive(m[2], ts, m, now)
            \/ Receive(m[2], m[1], Absent, now)
      BY <2>1 DEF Deliver
    <3>2. m[2] \in Bodies
      BY InboxAssumption
    <3>3. QED
      BY <3>1, <3>2, ReceiveRefines
  <2>2. ASSUME NEW e \in Ids, ApplyOnce(e)
        PROVE  Ledger!Next \/ UNCHANGED <<AwaitingEvents, effects, FailedEvents>>
    BY <2>2, ApplyOnceRefines
  <2>3. ASSUME NEW e \in Ids, MarkProcessed(e)
        PROVE  UNCHANGED <<AwaitingEvents, effects, FailedEvents>>
    BY <2>3, MarkProcessedInvisible
  <2>4. CASE UNCHANGED <<records, processed, effects>>
    BY <2>4, InvisibleStep
  <2>5. QED
    BY <2>1, <2>2, <2>3, <2>4
      DEF Next, Load, CrashBeforeEffect, CrashAfterEffect, vars, inboxVars, storeVars
<1>3. QED
  BY <1>1, <1>2, InductiveInvariant, PTL DEF Spec, ImplementsLedger, Ledger!Spec
=============================================================================
