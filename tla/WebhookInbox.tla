---------------------------- MODULE WebhookInbox -----------------------------
(***************************************************************************)
(* P08-webhook-inbox: the receiver that authenticates deliveries and saves *)
(* them in the in-memory inbox, and the worker that applies their effects. *)
(*                                                                         *)
(* The provider delivers at least once: every signed message may arrive    *)
(* any number of times, in any order, with any of its headers missing or   *)
(* belonging to another message.  A call of WebhookWorker.process is split *)
(* at its two CrashPoints, so that deliveries and crashes fall between its *)
(* steps; a crash leaves the inbox and the effect store as they are.       *)
(***************************************************************************)
EXTENDS Integers, Sequences, FiniteSets

CONSTANTS
  Ids,            (* event_id values                                       *)
  Orders,         (* order_id values                                       *)
  Bodies,         (* raw request bodies                                    *)
  Parse,          (* what parse_event makes of each body                   *)
  InvalidPayload, (* ... of one that is not a WebhookEvent                 *)
  Times,          (* timestamps a provider may put on a message, in seconds *)
  Clock,          (* the instants at which deliveries arrive, in ticks     *)
  TicksPerSecond,
  Window,         (* replay_window_seconds                                 *)
  Signed,         (* the <<timestamp, body>> pairs the provider signs      *)
  DirectIds,      (* the ids a caller may hand to process() directly       *)
  NoRecord, Absent, NotAnInt

Events == [id : Ids, kind : {"authorized", "captured"}, order : Orders]

ASSUME InboxAssumption ==
  /\ Parse \in [Bodies -> Events \union {InvalidPayload}]
  /\ InvalidPayload \notin Events
  /\ Times \subseteq Int /\ Clock \subseteq Nat
  /\ Window \in Nat \ {0} /\ TicksPerSecond \in Nat \ {0}
  /\ Signed \subseteq Times \X Bodies
  /\ DirectIds \subseteq Ids
  /\ NoRecord \notin [body : Bodies, receivedAt : Clock,
                      status : {"RECEIVED", "PROCESSED", "FAILED"}]
  /\ Absent \notin Times /\ NotAnInt \notin Times
  /\ Absent \notin Signed

VARIABLES
  records,    (* InMemoryInbox._records: event_id -> InboxRecord           *)
  arrival,    (* the order of that dict's keys                             *)
  processed,  (* InMemoryEffectStore._processed_events                     *)
  authorized, (* InMemoryEffectStore._authorized_orders                    *)
  effects,    (* InMemoryEffectStore._effects                              *)
  worker,     (* where the one call of process() stands                    *)
  answers     (* history: the <<body, HTTP status>> the inbox ever decided *)

inboxVars == <<records, arrival>>
storeVars == <<processed, authorized, effects>>
vars == <<inboxVars, storeVars, worker, answers>>

Statuses == {"RECEIVED", "PROCESSED", "FAILED"}
InboxRecord == [body : Bodies, receivedAt : Clock, status : Statuses]
Idle == [pc |-> "idle"]

Stored == {e \in Ids : records[e] # NoRecord}
EventOf(e) == Parse[records[e].body]

Init ==
  /\ records = [e \in Ids |-> NoRecord]
  /\ arrival = <<>>
  /\ processed = {}
  /\ authorized = {}
  /\ effects = <<>>
  /\ worker = Idle
  /\ answers = {}

-----------------------------------------------------------------------------
(* The receiver.                                                           *)

(* int(now.timestamp()): the fraction of a second is dropped.              *)
Timestamp(now) == now \div TicksPerSecond

(* Mutant: a timestamp ahead of the clock passes the window check.         *)
FreshIgnoringSkew(ts, now) == Timestamp(now) - ts <= Window
Fresh(ts, now) == ts - Timestamp(now) \in -Window .. Window

(* hmac.compare_digest on the header and the expected signature: true when *)
(* the header is the signature of exactly this timestamp and body.         *)
Authentic(ts, sig, b) == sig = <<ts, b>>

(* The checks of WebhookReceiver.receive, in its order.  Each failure is   *)
(* an InvalidSignatureError or a ReplayRejectedError: both become a 401.   *)
Authorized(b, ts, sig, now) ==
  /\ ts \notin {Absent, NotAnInt}
  /\ sig # Absent
  /\ Fresh(ts, now)
  /\ Authentic(ts, sig, b)

(* Mutant: every re-delivery counts as the same.                           *)
ConflictsNever(b) == FALSE
Conflicts(b) ==
  LET e == Parse[b].id IN records[e] # NoRecord /\ records[e].body # b

Known(e) == records[e] # NoRecord

(* InMemoryInbox.save_received, and the answer receive_webhook makes of it. *)
SaveReceived(b, now) ==
  LET e == Parse[b].id IN
  \/ /\ Conflicts(b)
     /\ answers' = answers \union {<<b, 409>>}
     /\ UNCHANGED inboxVars
  \/ /\ Known(e) /\ ~Conflicts(b)
     /\ answers' = answers \union {<<b, 200>>}
     /\ UNCHANGED inboxVars
  \/ /\ ~Known(e) /\ ~Conflicts(b)
     /\ records' = [records EXCEPT
                      ![e] = [body |-> b, receivedAt |-> now, status |-> "RECEIVED"]]
     /\ arrival' = IF e \in {arrival[i] : i \in DOMAIN arrival}
                   THEN arrival ELSE Append(arrival, e)
     /\ answers' = answers \union {<<b, 202>>}

(* POST /webhooks/payments, up to the response: 401, 422, or what the      *)
(* inbox decides.                                                          *)
Receive(b, ts, sig, now) ==
  /\ \/ /\ ~Authorized(b, ts, sig, now)
        /\ UNCHANGED <<inboxVars, answers>>
     \/ /\ Authorized(b, ts, sig, now)
        /\ Parse[b] = InvalidPayload
        /\ UNCHANGED <<inboxVars, answers>>
     \/ /\ Authorized(b, ts, sig, now)
        /\ Parse[b] # InvalidPayload
        /\ SaveReceived(b, now)
  /\ UNCHANGED <<storeVars, worker>>

(* A signed message arrives, intact or with one part missing or changed.   *)
Deliver ==
  \E m \in Signed, now \in Clock :
    \/ \E b \in Bodies : Receive(b, m[1], m, now)
    \/ \E ts \in (Times \ {m[1]}) \union {Absent, NotAnInt} : Receive(m[2], ts, m, now)
    \/ Receive(m[2], m[1], Absent, now)

-----------------------------------------------------------------------------
(* The effect store.                                                       *)

(* Mutant: the store forgets what it applied.                              *)
AlreadyAppliedForgotten(ev) == FALSE
AlreadyApplied(ev) == ev.id \in processed

(* Mutant: any authorised order will do.                                   *)
OutOfOrderAnyOrder(ev) == ev.kind = "captured" /\ authorized = {}
OutOfOrder(ev) == ev.kind = "captured" /\ ev.order \notin authorized

(* The rest of apply_once, once neither early exit is taken.               *)
AddEffect(ev) ==
  /\ processed' = processed \union {ev.id}
  /\ authorized' = IF ev.kind = "authorized"
                   THEN authorized \union {ev.order} ELSE authorized
  /\ effects' = Append(effects, ev)

-----------------------------------------------------------------------------
(* The worker.                                                             *)

Pending(e) == records[e] # NoRecord /\ records[e].status = "RECEIVED"

(* Mutants: process_next looks no further than the first record; it takes  *)
(* the newest record, not the oldest.                                      *)
NextPendingFirstOnly(e) == arrival # <<>> /\ arrival[1] = e /\ Pending(e)
NextPendingNewest(e) ==
  \E i \in DOMAIN arrival :
    arrival[i] = e /\ Pending(e) /\ \A j \in DOMAIN arrival : j > i => ~Pending(arrival[j])
NextPending(e) ==
  \E i \in DOMAIN arrival :
    arrival[i] = e /\ Pending(e) /\ \A j \in DOMAIN arrival : j < i => ~Pending(arrival[j])

SetStatus(e, status) == records' = [records EXCEPT ![e].status = status]

(* process() reads the record and finds it RECEIVED.  A call that finds    *)
(* another status returns it and changes nothing.                          *)
Load(e) ==
  /\ worker = Idle
  /\ Pending(e)
  /\ NextPending(e) \/ e \in DirectIds
  /\ worker' = [pc |-> "loaded", id |-> e, body |-> records[e].body]
  /\ UNCHANGED <<inboxVars, storeVars, answers>>

(* apply_once on the record read, then mark_failed if it was out of order. *)
ApplyOnce(e) ==
  /\ worker.pc = "loaded" /\ worker.id = e
  /\ LET ev == Parse[worker.body] IN
     \/ /\ AlreadyApplied(ev)
        /\ worker' = [worker EXCEPT !.pc = "applied"]
        /\ UNCHANGED <<inboxVars, storeVars>>
     \/ /\ ~AlreadyApplied(ev) /\ OutOfOrder(ev)
        /\ SetStatus(e, "FAILED")
        /\ worker' = Idle
        /\ UNCHANGED <<arrival, storeVars>>
     \/ /\ ~AlreadyApplied(ev) /\ ~OutOfOrder(ev)
        /\ AddEffect(ev)
        /\ worker' = [worker EXCEPT !.pc = "applied"]
        /\ UNCHANGED inboxVars
  /\ UNCHANGED answers

MarkProcessed(e) ==
  /\ worker.pc = "applied" /\ worker.id = e
  /\ SetStatus(e, "PROCESSED")
  /\ worker' = Idle
  /\ UNCHANGED <<arrival, storeVars, answers>>

CrashBeforeEffect ==
  /\ worker.pc = "loaded"
  /\ worker' = Idle
  /\ UNCHANGED <<inboxVars, storeVars, answers>>

(* Mutant: the crash handler marks the record as failed.                   *)
CrashAfterEffectAsFailure ==
  /\ worker.pc = "applied"
  /\ SetStatus(worker.id, "FAILED")
  /\ worker' = Idle
  /\ UNCHANGED <<arrival, storeVars, answers>>
CrashAfterEffect ==
  /\ worker.pc = "applied"
  /\ worker' = Idle
  /\ UNCHANGED <<inboxVars, storeVars, answers>>

Next ==
  \/ Deliver
  \/ \E e \in Ids : Load(e) \/ ApplyOnce(e) \/ MarkProcessed(e)
  \/ CrashBeforeEffect
  \/ CrashAfterEffect

Spec == Init /\ [][Next]_vars

(* Someone keeps calling process_next, and no step of process() is crashed *)
(* every time it is tried.                                                 *)
Fairness ==
  \A e \in Ids : WF_vars(Load(e)) /\ SF_vars(ApplyOnce(e)) /\ SF_vars(MarkProcessed(e))

FairSpec == Spec /\ Fairness

-----------------------------------------------------------------------------
(* Correctness.                                                            *)

(* Every variable has its type, and arrival lists each key of the inbox    *)
(* exactly once, as the keys of InMemoryInbox._records do.                 *)
TypeOK ==
  /\ records \in [Ids -> InboxRecord \union {NoRecord}]
  /\ arrival \in Seq(Ids)
  /\ Stored = {arrival[i] : i \in DOMAIN arrival}
  /\ \A i, j \in DOMAIN arrival : arrival[i] = arrival[j] => i = j
  /\ processed \subseteq Ids
  /\ authorized \subseteq Orders
  /\ effects \in Seq(Events)
  /\ worker \in {Idle} \union [pc : {"loaded", "applied"}, id : Ids, body : Bodies]
  /\ answers \subseteq Bodies \X {200, 202, 409}

(* However often an event is delivered, retried or crashed over, the       *)
(* effect store holds at most one effect for its id.                       *)
EffectsAtMostOnce ==
  \A i, j \in DOMAIN effects : effects[i].id = effects[j].id => i = j

(* No capture takes effect before the authorisation of its own order.      *)
CapturedAfterAuthorized ==
  \A i \in DOMAIN effects :
    effects[i].kind = "captured" =>
      \E j \in 1 .. i - 1 :
        effects[j].kind = "authorized" /\ effects[j].order = effects[i].order

(* The inbox never contradicts the effect store: a PROCESSED record has    *)
(* taken effect with the content stored, a FAILED one has not, and an      *)
(* effect belongs to a stored event even when a crash hid its completion.  *)
StatusMatchesEffects ==
  /\ \A e \in Stored :
       /\ records[e].status = "PROCESSED" => EventOf(e) \in {effects[i] : i \in DOMAIN effects}
       /\ records[e].status = "FAILED" => e \notin processed
  /\ \A i \in DOMAIN effects :
       effects[i].id \in Stored /\ effects[i] = EventOf(effects[i].id)

(* It was received at most Window seconds before the time signed, or, as   *)
(* the clock is truncated, less than Window seconds and one more after.    *)
WithinWindow(ts, receivedAt) ==
  receivedAt - ts * TicksPerSecond
    \in -(Window * TicksPerSecond) .. Window * TicksPerSecond + TicksPerSecond - 1

(* Whatever was stored, the provider signed it, at a time within the       *)
(* window around the instant of reception, and it parses to its own key.   *)
StoredAreAuthentic ==
  \A e \in Stored :
    /\ \E m \in Signed :
         m[2] = records[e].body /\ WithinWindow(m[1], records[e].receivedAt)
    /\ Parse[records[e].body] # InvalidPayload /\ EventOf(e).id = e

(* The answers given to the provider never contradict one another: a body  *)
(* acknowledged (200 or 202) is the one stored for its event, so that no   *)
(* rival body of the same event is ever acknowledged, and no acknowledged  *)
(* body is ever refused as a conflict.                                     *)
AnswersConsistent ==
  \A a \in answers :
    /\ a[2] \in {200, 202} =>
         Parse[a[1]].id \in Stored /\ records[Parse[a[1]].id].body = a[1]
    /\ a[2] = 409 =>
         Parse[a[1]].id \in Stored /\ records[Parse[a[1]].id].body # a[1]

(* No step loses a record, rewrites what was received, or moves a record   *)
(* out of a terminal status: a FAILED event is not replayed by a later     *)
(* delivery, nor by the arrival of its authorisation.                      *)
RecordsStable ==
  [][\A e \in Stored :
       /\ records'[e] # NoRecord
       /\ records'[e].body = records[e].body
       /\ records'[e].receivedAt = records[e].receivedAt
       /\ records[e].status # "RECEIVED" => records'[e].status = records[e].status]_vars

(* What callers leave to process_next is done in the order of its arrival, *)
(* whatever crashes, is retried or is processed by name in between: such a *)
(* capture fails only if no authorisation of its order had arrived before  *)
(* it.                                                                     *)
ArrivalOrderSuffices ==
  \A i \in DOMAIN arrival :
    LET e == arrival[i] IN
    records[e].status = "FAILED" /\ e \notin DirectIds =>
      \A j \in 1 .. i - 1 :
        ~(EventOf(arrival[j]).kind = "authorized"
            /\ EventOf(arrival[j]).order = EventOf(e).order)

(* Every event saved is eventually PROCESSED or FAILED.                    *)
EventuallySettled ==
  \A e \in Ids : Pending(e) ~> (records[e] # NoRecord /\ ~Pending(e))

(* The inbox, its worker and the crashes implement the payment ledger: an  *)
(* event takes effect at apply_once, whatever happens to the record later. *)
AwaitingEvents == {EventOf(e) : e \in {x \in Stored : Pending(x) /\ x \notin processed}}
FailedEvents == {EventOf(e) : e \in {x \in Stored : records[x].status = "FAILED"}}
Ledger == INSTANCE PaymentLedger
            WITH pending <- AwaitingEvents, ledger <- effects, rejected <- FailedEvents
ImplementsLedger == Ledger!Spec
=============================================================================
