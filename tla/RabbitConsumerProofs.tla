------------------------ MODULE RabbitConsumerProofs -------------------------
(***************************************************************************)
(* What run_rabbit of P12 returns, for any set of events, any prefetch and *)
(* any number of lost connections.                                         *)
(***************************************************************************)
EXTENDS RabbitConsumer, FiniteSetTheorems, TLAPS

(* Before it consumes there is nothing of the consumer, and the queues are *)
(* where the set-up has brought them.                                      *)
SetupClean ==
  /\ SettingUp =>
       /\ tasks = <<>> /\ outbox = <<>> /\ wire = <<>> /\ deliveries = <<>>
       /\ rejected = NoEvent /\ attempts = 0 /\ acknowledged = {} /\ ~allAcked
  /\ SettingUp /\ main # "purge" => \A e \in Events : ~redelivered[e]
  /\ main \in {"get", "ack probe"} => \A e \in Events : queue[e] = "ready"

ProbeStages ==
  /\ main = "publish" => alternate = <<>>
  /\ main \in {"get", "ack probe"} => alternate = <<"own">>
  /\ main = "ack probe" => probed = "own"
  /\ ~SettingUp /\ main # "raised" => probed = "own" /\ alternate = <<>>

-----------------------------------------------------------------------------
(* A delivery the broker waits for is unacknowledged, and an event has one *)
(* such delivery: in its handler, or with its answer on the wire.          *)

IsAnswer(f) == f.kind # "cancel"
Decision(kind) == IF kind = "nack" THEN "nack-requeue" ELSE "ack"
Waiting(i) == tasks[i].on = losses /\ tasks[i].pc \in {"new", "held", "sending"}

TasksPlaced ==
  \A i \in DOMAIN tasks :
    /\ tasks[i].on <= losses
    /\ tasks[i].pc = "failed" => tasks[i].on < losses
    /\ Waiting(i) => queue[tasks[i].event] = "unacked"

OutboxPlaced ==
  \A k \in DOMAIN outbox : IsAnswer(outbox[k]) =>
    /\ outbox[k].task \in DOMAIN tasks
    /\ tasks[outbox[k].task].pc = "sending" /\ tasks[outbox[k].task].on = losses

WirePlaced ==
  \A k \in DOMAIN wire : IsAnswer(wire[k]) =>
    /\ wire[k].task \in DOMAIN tasks
    /\ tasks[wire[k].task].pc = "done" /\ tasks[wire[k].task].on = losses
    /\ queue[tasks[wire[k].task].event] = "unacked"
    /\ Recorded(tasks[wire[k].task].event, Decision(wire[k].kind)) # {}

OneWaits ==
  \A i, j \in DOMAIN tasks :
    Waiting(i) /\ Waiting(j) /\ tasks[i].event = tasks[j].event => i = j
NoneWaitsForWire ==
  \A i \in DOMAIN tasks, k \in DOMAIN wire :
    Waiting(i) /\ IsAnswer(wire[k]) => tasks[wire[k].task].event # tasks[i].event
OneOnWire ==
  \A k, l \in DOMAIN wire :
    /\ IsAnswer(wire[k]) /\ IsAnswer(wire[l])
    /\ tasks[wire[k].task].event = tasks[wire[l].task].event
    => k = l
OneInOutbox ==
  \A k, l \in DOMAIN outbox :
    IsAnswer(outbox[k]) /\ IsAnswer(outbox[l]) /\ outbox[k].task = outbox[l].task => k = l

Pipeline ==
  /\ TasksPlaced /\ OutboxPlaced /\ WirePlaced
  /\ OneWaits /\ NoneWaitsForWire /\ OneOnWire /\ OneInOutbox

GoneRecorded ==
  ~SettingUp /\ main # "raised" =>
    \A e \in Events : queue[e] = "gone" => Recorded(e, "ack") # {}

NotStarted ==
  rejected = NoEvent =>
    (\A i \in DOMAIN tasks : tasks[i].pc = "new") /\ deliveries = <<>> /\ acknowledged = {}

-----------------------------------------------------------------------------
(* An event that counts as acknowledged has its record, or a handler whose *)
(* ack raised, or an ack that will be written; and a cancel comes after.   *)

AckIn(s, n, e) == \E k \in 1 .. n : s[k].kind = "ack" /\ tasks[s[k].task].event = e
Told(e) ==
  \/ Recorded(e, "ack") # {}
  \/ \E i \in DOMAIN tasks : tasks[i].event = e /\ tasks[i].pc = "failed"

CountedIsTold ==
  /\ \A e \in acknowledged : Told(e) \/ AckIn(outbox, Len(outbox), e)
  /\ allAcked => acknowledged = Events

CancelIsOfMain ==
  main \notin {"cancelling", "failing"} /\ Running =>
    /\ \A k \in DOMAIN outbox : IsAnswer(outbox[k])
    /\ \A k \in DOMAIN wire : IsAnswer(wire[k])

CancelAfterTold ==
  main = "cancelling" =>
    /\ \A c \in DOMAIN outbox : ~IsAnswer(outbox[c]) =>
         \A e \in Events : Told(e) \/ AckIn(outbox, c - 1, e)
    /\ \A c \in DOMAIN wire : ~IsAnswer(wire[c]) => \A e \in Events : Told(e)

-----------------------------------------------------------------------------
(* The story of an event while the connection holds.                       *)

Consuming == losses = 0 /\ ~SettingUp

(* The delivery that is rejected.                                          *)
Nacking(i) == tasks[i].event = rejected /\ ~tasks[i].redelivered

Rejections == Recorded(rejected, "nack-requeue")

BackOnlyRejected ==
  Consuming =>
    /\ \A e \in Events : redelivered[e] => e = rejected /\ Rejections # {}
    /\ \A i \in DOMAIN tasks :
         tasks[i].redelivered => tasks[i].event = rejected /\ Rejections # {}

KindsKnown ==
  Consuming =>
    /\ \A i \in DOMAIN tasks :
         /\ tasks[i].pc = "new" => ~Nacking(i)
         /\ tasks[i].pc = "held" => Nacking(i)
    /\ \A k \in DOMAIN outbox : IsAnswer(outbox[k]) =>
         (outbox[k].kind = "nack" <=> Nacking(outbox[k].task))
    /\ \A k \in DOMAIN wire : IsAnswer(wire[k]) =>
         (wire[k].kind = "nack" <=> Nacking(wire[k].task))

OneOfEachKind ==
  Consuming =>
    \A i, j \in DOMAIN tasks :
      tasks[i].event = tasks[j].event /\ tasks[i].redelivered = tasks[j].redelivered => i = j

ReadyWasRejected ==
  Consuming =>
    \A i \in DOMAIN tasks :
      queue[tasks[i].event] = "ready" => Nacking(i) /\ redelivered[tasks[i].event]

RejectedHasTask ==
  Consuming /\ rejected # NoEvent => \E i \in DOMAIN tasks : Nacking(i)

DoneIsAnswered ==
  Consuming =>
    \A i \in DOMAIN tasks : tasks[i].pc = "done" /\ ~Nacking(i) =>
      \/ queue[tasks[i].event] = "gone"
      \/ \E k \in DOMAIN wire : IsAnswer(wire[k]) /\ wire[k].task = i

RecordsOfDone ==
  Consuming =>
    /\ \A k \in DOMAIN deliveries : \E i \in DOMAIN tasks :
         /\ tasks[i].pc = "done"
         /\ deliveries[k].event = tasks[i].event
         /\ deliveries[k].redelivered = tasks[i].redelivered
         /\ deliveries[k].decision = "nack-requeue" <=> Nacking(i)
    /\ \A k, l \in DOMAIN deliveries :
         /\ deliveries[k].event = deliveries[l].event
         /\ deliveries[k].redelivered = deliveries[l].redelivered
         => k = l
    /\ \A k \in DOMAIN deliveries : deliveries[k].redelivered =>
         \E j \in 1 .. k - 1 : j \in Rejections

Story ==
  /\ BackOnlyRejected /\ KindsKnown /\ OneOfEachKind /\ ReadyWasRejected
  /\ RejectedHasTask /\ DoneIsAnswered /\ RecordsOfDone

(* What counts as acknowledged is gone, or its ack is under way; all of it *)
(* ahead of the cancel.                                                    *)
AckUnderWay ==
  Consuming =>
    /\ \A e \in acknowledged :
         queue[e] = "gone" \/ AckIn(wire, Len(wire), e) \/ AckIn(outbox, Len(outbox), e)
    /\ main = "cancelling" =>
         /\ \A c \in DOMAIN outbox : ~IsAnswer(outbox[c]) =>
              \A e \in Events :
                queue[e] = "gone" \/ AckIn(wire, Len(wire), e) \/ AckIn(outbox, c - 1, e)
         /\ \A c \in DOMAIN wire : ~IsAnswer(wire[c]) =>
              \A e \in Events : queue[e] = "gone" \/ AckIn(wire, c - 1, e)

(* With a prefetch of one, the only delivery until the first is let go.    *)
OnlyFirst ==
  prefetch = 1 /\ losses = 0 /\ main \in {"first", "second"} =>
    /\ outbox = <<>> /\ wire = <<>>
    /\ Len(tasks) <= 1
    /\ Len(tasks) = 0 => rejected = NoEvent /\ attempts = 0
    /\ Len(tasks) = 1 =>
         \/ tasks[1].pc = "new" /\ rejected = NoEvent /\ attempts = 0
         \/ tasks[1].pc = "held" /\ rejected # NoEvent /\ attempts = 1
    /\ main = "second" => rejected # NoEvent

BlockedOne == prefetch = 1 /\ losses = 0 /\ main = "acks" => blocked = 1

Returned == WholeWithoutLoss /\ MissingWithLosses

IInv ==
  /\ TypeOK /\ SetupClean /\ ProbeStages
  /\ Pipeline /\ GoneRecorded /\ NotStarted
  /\ CountedIsTold /\ CancelIsOfMain /\ CancelAfterTold
  /\ Story /\ AckUnderWay
  /\ OnlyFirst /\ BlockedOne
  /\ Returned

-----------------------------------------------------------------------------
(* The head and the tail of a sequence that is not empty.                  *)
LEMMA TailFacts ==
  ASSUME NEW S, NEW s \in Seq(S), s # <<>>
  PROVE  /\ Tail(s) \in Seq(S) /\ Head(s) \in S /\ Head(s) = s[1]
         /\ Len(s) \in Nat \ {0} /\ Len(Tail(s)) = Len(s) - 1
         /\ DOMAIN s = 1 .. Len(s) /\ 1 \in DOMAIN s
         /\ DOMAIN Tail(s) = 1 .. (Len(s) - 1)
         /\ \A k \in DOMAIN Tail(s) : k + 1 \in DOMAIN s /\ Tail(s)[k] = s[k + 1]
OBVIOUS

(* Appending keeps what was there and adds one last element.               *)
LEMMA AppendFacts ==
  ASSUME NEW S, NEW s \in Seq(S), NEW x \in S
  PROVE  /\ Append(s, x) \in Seq(S)
         /\ DOMAIN s = 1 .. Len(s) /\ Len(s) \in Nat /\ Len(Append(s, x)) = Len(s) + 1
         /\ DOMAIN Append(s, x) = 1 .. (Len(s) + 1)
         /\ \A k \in DOMAIN s : Append(s, x)[k] = s[k]
         /\ Append(s, x)[Len(s) + 1] = x
OBVIOUS

(* A sequence is a function on its positions.                              *)
LEMMA SeqFacts ==
  ASSUME NEW S, NEW s \in Seq(S)
  PROVE  /\ DOMAIN s = 1 .. Len(s) /\ Len(s) \in Nat
         /\ \A k \in DOMAIN s : s[k] \in S
OBVIOUS

(* Sequences of one element.                                               *)
LEMMA Singleton ==
  ASSUME NEW x
  PROVE  /\ Append(<<>>, x) = <<x>> /\ Head(<<x>>) = x /\ Tail(<<x>>) = <<>>
         /\ <<x>> # <<>>
OBVIOUS

(* A frame is the cancel, or it answers.                                   *)
LEMMA FrameKinds ==
  ASSUME NEW f \in Frame
  PROVE  /\ IsAnswer(f) => f.kind \in {"ack", "nack"} /\ f.task \in Nat \ {0} /\ f # Cancel
         /\ ~IsAnswer(f) => f = Cancel
         /\ f = Cancel <=> ~IsAnswer(f)
BY DEF Frame, Cancel, IsAnswer

(* What the types say of the sequences.                                    *)
LEMMA TypeFacts ==
  ASSUME TypeOK
  PROVE  /\ losses \in Nat
         /\ DOMAIN tasks = 1 .. Len(tasks) /\ Len(tasks) \in Nat
         /\ \A i \in DOMAIN tasks :
              /\ tasks[i] \in Task /\ tasks[i].event \in Events /\ tasks[i].on \in Nat
              /\ tasks[i].redelivered \in BOOLEAN
              /\ tasks[i].pc \in {"new", "held", "sending", "done", "failed"}
         /\ DOMAIN outbox = 1 .. Len(outbox) /\ Len(outbox) \in Nat
         /\ \A k \in DOMAIN outbox : outbox[k] \in Frame
         /\ DOMAIN wire = 1 .. Len(wire) /\ Len(wire) \in Nat
         /\ \A k \in DOMAIN wire : wire[k] \in Frame
         /\ DOMAIN deliveries = 1 .. Len(deliveries) /\ Len(deliveries) \in Nat
         /\ \A k \in DOMAIN deliveries : deliveries[k] \in Delivery
<1>1. losses \in Nat
  <2>1. losses \in 0 .. MaxLosses /\ MaxLosses \in Nat
    BY ConsumerAssumption DEF TypeOK
  <2>2. QED
    BY <2>1
<1>2. /\ DOMAIN tasks = 1 .. Len(tasks) /\ Len(tasks) \in Nat
      /\ \A i \in DOMAIN tasks : tasks[i] \in Task
  BY SeqFacts DEF TypeOK
<1>3. \A i \in DOMAIN tasks :
        /\ tasks[i].event \in Events /\ tasks[i].on \in Nat
        /\ tasks[i].redelivered \in BOOLEAN
        /\ tasks[i].pc \in {"new", "held", "sending", "done", "failed"}
  BY <1>2 DEF Task
<1>4. /\ DOMAIN outbox = 1 .. Len(outbox) /\ Len(outbox) \in Nat
      /\ \A k \in DOMAIN outbox : outbox[k] \in Frame
  BY SeqFacts DEF TypeOK
<1>5. /\ DOMAIN wire = 1 .. Len(wire) /\ Len(wire) \in Nat
      /\ \A k \in DOMAIN wire : wire[k] \in Frame
  BY SeqFacts DEF TypeOK
<1>6. /\ DOMAIN deliveries = 1 .. Len(deliveries) /\ Len(deliveries) \in Nat
      /\ \A k \in DOMAIN deliveries : deliveries[k] \in Delivery
  BY SeqFacts DEF TypeOK
<1>7. QED
  BY <1>1, <1>2, <1>3, <1>4, <1>5, <1>6

(* A handler that moves on changes its place and nothing else.             *)
LEMMA SetPc ==
  ASSUME TypeOK, NEW i \in DOMAIN tasks, NEW p \in {"new", "held", "sending", "done", "failed"},
         tasks' = [tasks EXCEPT ![i].pc = p]
  PROVE  /\ tasks' \in Seq(Task) /\ DOMAIN tasks' = DOMAIN tasks /\ Len(tasks') = Len(tasks)
         /\ \A j \in DOMAIN tasks : /\ tasks'[j].event = tasks[j].event
                                    /\ tasks'[j].redelivered = tasks[j].redelivered
                                    /\ tasks'[j].on = tasks[j].on
                                    /\ j # i => tasks'[j].pc = tasks[j].pc
         /\ tasks'[i].pc = p
<1>1. tasks \in Seq(Task) /\ DOMAIN tasks = 1 .. Len(tasks) /\ Len(tasks) \in Nat
  BY SeqFacts DEF TypeOK
<1>2. \A j \in DOMAIN tasks : tasks[j] \in Task
  BY <1>1
<1>3. DOMAIN tasks' = DOMAIN tasks
  OBVIOUS
<1>4. \A j \in DOMAIN tasks : j # i => tasks'[j] = tasks[j]
  BY <1>1
<1>5. tasks'[i] = [tasks[i] EXCEPT !.pc = p]
  BY <1>1
<1>6. tasks'[i] \in Task /\ tasks'[i].pc = p /\ tasks'[i].event = tasks[i].event
        /\ tasks'[i].redelivered = tasks[i].redelivered /\ tasks'[i].on = tasks[i].on
  BY <1>2, <1>5 DEF Task
<1>7. \A j \in 1 .. Len(tasks) : tasks'[j] \in Task
  BY <1>1, <1>2, <1>4, <1>6
<1>8. tasks' \in [1 .. Len(tasks) -> Task]
  BY <1>1, <1>3, <1>7
<1>9. tasks' \in Seq(Task) /\ Len(tasks') = Len(tasks)
  BY <1>1, <1>8
<1>10. QED
  BY <1>3, <1>4, <1>6, <1>9

(* The parts of the invariant that hold because nothing was delivered yet. *)
LEMMA NothingDelivered ==
  ASSUME IInv, SettingUp, SetupOnly, main' # "returned", main' \notin {"second", "acks"},
         ~SettingUp' => \A e \in Events : ~redelivered'[e]
  PROVE  (/\ Pipeline /\ NotStarted /\ CountedIsTold /\ CancelIsOfMain /\ CancelAfterTold
          /\ Story /\ AckUnderWay /\ OnlyFirst /\ BlockedOne /\ Returned)'
<1>1. /\ tasks' = <<>> /\ outbox' = <<>> /\ wire' = <<>> /\ deliveries' = <<>>
      /\ rejected' = NoEvent /\ attempts' = 0 /\ acknowledged' = {} /\ ~allAcked'
  BY DEF IInv, SetupClean, SetupOnly, handlerVars
<1>2. /\ DOMAIN tasks' = {} /\ DOMAIN outbox' = {} /\ DOMAIN wire' = {} /\ DOMAIN deliveries' = {}
      /\ Len(tasks') = 0
  BY <1>1
<1>3. Pipeline'
  BY <1>2 DEF Pipeline, TasksPlaced, OutboxPlaced, WirePlaced, OneWaits, NoneWaitsForWire,
              OneOnWire, OneInOutbox
<1>4. (NotStarted /\ CountedIsTold /\ CancelIsOfMain /\ CancelAfterTold)'
  BY <1>1, <1>2 DEF NotStarted, CountedIsTold, CancelIsOfMain, CancelAfterTold
<1>5. Story'
  <2>1. BackOnlyRejected' /\ KindsKnown'
    BY <1>2 DEF BackOnlyRejected, KindsKnown, Consuming
  <2>2. OneOfEachKind' /\ ReadyWasRejected' /\ DoneIsAnswered' /\ RecordsOfDone'
    BY <1>2 DEF OneOfEachKind, ReadyWasRejected, DoneIsAnswered, RecordsOfDone
  <2>3. RejectedHasTask'
    BY <1>1 DEF RejectedHasTask
  <2>4. QED
    BY <2>1, <2>2, <2>3 DEF Story
<1>6. AckUnderWay'
  BY <1>1, <1>2 DEF AckUnderWay
<1>7. OnlyFirst' /\ BlockedOne'
  BY <1>1, <1>2 DEF OnlyFirst, BlockedOne
<1>8. Returned'
  BY DEF Returned, WholeWithoutLoss, MissingWithLosses
<1>9. QED
  BY <1>3, <1>4, <1>5, <1>6, <1>7, <1>8

LEMMA InitIInv == Init => IInv
<1> SUFFICES ASSUME Init PROVE IInv
  OBVIOUS
<1>1. /\ DOMAIN tasks = {} /\ DOMAIN outbox = {} /\ DOMAIN wire = {} /\ DOMAIN deliveries = {}
  BY DEF Init
<1>2. SettingUp /\ main = "purge"
  BY DEF Init, SettingUp
<1>3. TypeOK
  <2>1. queue \in [Events -> {"ready", "unacked", "gone"}]
    BY DEF Init
  <2>2. alternate \in Seq({"earlier", "own"}) /\ probed \in {"none", "earlier", "own"}
    <3>1. <<>> \in Seq({"earlier", "own"}) /\ <<"earlier">> \in Seq({"earlier", "own"})
      OBVIOUS
    <3>2. QED
      BY <3>1 DEF Init
  <2>3. tasks \in Seq(Task) /\ outbox \in Seq(Frame) /\ wire \in Seq(Frame) /\ deliveries \in Seq(Delivery)
    BY DEF Init
  <2>4. losses \in 0 .. MaxLosses
    BY ConsumerAssumption DEF Init
  <2>5. QED
    BY <2>1, <2>2, <2>3, <2>4 DEF Init, TypeOK
<1>4. SetupClean /\ ProbeStages
  BY <1>2 DEF Init, SetupClean, ProbeStages
<1>5. Pipeline
  BY <1>1 DEF Pipeline, TasksPlaced, OutboxPlaced, WirePlaced, OneWaits, NoneWaitsForWire,
              OneOnWire, OneInOutbox
<1>6. GoneRecorded /\ NotStarted /\ CountedIsTold /\ CancelIsOfMain /\ CancelAfterTold
  BY <1>1, <1>2 DEF Init, GoneRecorded, NotStarted, CountedIsTold, CancelIsOfMain, CancelAfterTold
<1>7. Story /\ AckUnderWay
  BY <1>2 DEF Story, BackOnlyRejected, KindsKnown, OneOfEachKind, ReadyWasRejected,
              RejectedHasTask, DoneIsAnswered, RecordsOfDone, AckUnderWay, Consuming
<1>8. OnlyFirst /\ BlockedOne /\ Returned
  BY <1>2 DEF OnlyFirst, BlockedOne, Returned, WholeWithoutLoss, MissingWithLosses
<1>9. QED
  BY <1>3, <1>4, <1>5, <1>6, <1>7, <1>8 DEF IInv

-----------------------------------------------------------------------------
(* The set-up: each step leads to the next stage and touches one queue.    *)

LEMMA SetupStep ==
  ASSUME IInv, NEW e \in Events,
         Purge \/ PurgeAlternate \/ PublishEvent(e) \/ PublishProbe \/ GetProbe \/ AckProbe
  PROVE  IInv'
<1>1. SettingUp /\ SetupOnly /\ main' # "returned" /\ main' \notin {"second", "acks"}
  BY DEF Purge, PurgeAlternate, PublishEvent, PublishProbe, GetProbe, AckProbe, SettingUp
<1>2. TypeOK'
  <2>1. /\ prefetch' \in Prefetches /\ losses' \in 0 .. MaxLosses
        /\ tasks' \in Seq(Task) /\ outbox' \in Seq(Frame) /\ wire' \in Seq(Frame)
        /\ rejected' \in Events \union {NoEvent} /\ attempts' \in Nat /\ blocked' \in Nat
        /\ acknowledged' \subseteq Events /\ deliveries' \in Seq(Delivery) /\ allAcked' \in BOOLEAN
    BY <1>1 DEF IInv, TypeOK, SetupOnly, handlerVars
  <2>2. queue' \in [Events -> {"ready", "unacked", "gone"}] /\ redelivered' \in [Events -> BOOLEAN]
    BY DEF IInv, TypeOK, Purge, PurgeAlternate, PublishEvent, PublishProbe, GetProbe, AckProbe
  <2>3. alternate' \in Seq({"earlier", "own"}) /\ probed' \in {"none", "earlier", "own"}
    <3>1. alternate \in Seq({"earlier", "own"}) /\ probed \in {"none", "earlier", "own"}
      BY DEF IInv, TypeOK
    <3>2. CASE GetProbe
      BY <3>1, <3>2, Singleton DEF IInv, ProbeStages, GetProbe
    <3>3. CASE AckProbe
      <4>1. alternate' = <<>> /\ probed' = probed
        BY <3>3, Singleton DEF IInv, ProbeStages, AckProbe
      <4>2. <<>> \in Seq({"earlier", "own"})
        OBVIOUS
      <4>3. QED
        BY <3>1, <4>1, <4>2
    <3>4. CASE PublishProbe
      <4>1. alternate' = <<"own">> /\ probed' = probed
        BY <3>4, Singleton DEF IInv, ProbeStages, PublishProbe
      <4>2. <<"own">> \in Seq({"earlier", "own"})
        OBVIOUS
      <4>3. QED
        BY <3>1, <4>1, <4>2
    <3>5. CASE PurgeAlternate
      <4>1. alternate' = <<>> /\ probed' = probed
        BY <3>5 DEF PurgeAlternate, Purged
      <4>2. <<>> \in Seq({"earlier", "own"})
        OBVIOUS
      <4>3. QED
        BY <3>1, <4>1, <4>2
    <3>6. CASE Purge \/ PublishEvent(e)
      BY <3>1, <3>6 DEF Purge, PublishEvent, probeVars
    <3>7. QED
      BY <3>2, <3>3, <3>4, <3>5, <3>6
  <2>4. main' \in {"purge", "purge alternate", "publish", "get", "ack probe", "first", "second",
                   "acks", "cancelling", "failing", "returned", "raised"}
    BY DEF IInv, TypeOK, Purge, PurgeAlternate, PublishEvent, PublishProbe, GetProbe, AckProbe
  <2>5. QED
    BY <2>1, <2>2, <2>3, <2>4 DEF TypeOK
<1>3. /\ \A x \in Events : ~redelivered'[x]
      /\ main' \in {"get", "ack probe", "first"} => \A x \in Events : queue'[x] = "ready"
  BY DEF IInv, TypeOK, SetupClean, SettingUp, Purge, PurgeAlternate, PublishEvent, PublishProbe,
         GetProbe, AckProbe
<1>4. SetupClean'
  BY <1>1, <1>3 DEF IInv, SetupClean, SetupOnly, handlerVars
<1>5. ProbeStages'
  BY Singleton DEF IInv, ProbeStages, SettingUp, Purge, PurgeAlternate, PublishEvent, PublishProbe, GetProbe,
         AckProbe, Purged, probeVars
<1>6. GoneRecorded'
  BY <1>3 DEF GoneRecorded, SettingUp, Purge, PurgeAlternate, PublishEvent, PublishProbe, GetProbe, AckProbe, IInv
<1>7. QED
  BY <1>1, <1>2, <1>3, <1>4, <1>5, <1>6, NothingDelivered DEF IInv

-----------------------------------------------------------------------------
(* The main coroutine, which at most sends its cancel.                     *)

LEMMA MainStep ==
  ASSUME IInv, SeeFirst \/ Release \/ SeeAllAcknowledged \/ TimeOut
  PROVE  IInv'
<1>1. /\ UNCHANGED <<prefetch, queue, redelivered, losses, tasks, wire, rejected, attempts,
                     acknowledged, deliveries, allAcked, alternate, probed>>
      /\ ~SettingUp /\ ~SettingUp' /\ Running /\ Running' /\ main # "raised"
      /\ main \in {"first", "second", "acks"} /\ main' \in {"second", "acks", "cancelling", "failing"}
  BY DEF SeeFirst, Release, SeeAllAcknowledged, TimeOut, MainOnly, brokerVars, handlerVars, probeVars,
         SettingUp, Running
<1>2. /\ outbox \in Seq(Frame) /\ DOMAIN outbox = 1 .. Len(outbox) /\ Len(outbox) \in Nat
      /\ DOMAIN wire = 1 .. Len(wire) /\ Len(wire) \in Nat
      /\ DOMAIN tasks = 1 .. Len(tasks) /\ Len(tasks) \in Nat
  BY SeqFacts DEF IInv, TypeOK
<1>3. Cancel \in Frame /\ ~IsAnswer(Cancel)
  BY DEF Frame, Cancel, IsAnswer
<1>4. /\ outbox' \in Seq(Frame)
      /\ DOMAIN outbox' = 1 .. Len(outbox') /\ Len(outbox') \in Nat /\ Len(outbox) <= Len(outbox')
      /\ \A k \in DOMAIN outbox : k \in DOMAIN outbox' /\ outbox'[k] = outbox[k]
      /\ \A k \in DOMAIN outbox' : k \in DOMAIN outbox \/ (k = Len(outbox) + 1 /\ ~IsAnswer(outbox'[k]))
  <2>1. CASE outbox' = outbox
    BY <1>2, <2>1
  <2>2. CASE outbox' = Append(outbox, Cancel)
    <3>1. /\ Append(outbox, Cancel) \in Seq(Frame)
          /\ Len(outbox') = Len(outbox) + 1
          /\ DOMAIN outbox' = 1 .. (Len(outbox) + 1)
          /\ \A k \in DOMAIN outbox : outbox'[k] = outbox[k]
          /\ outbox'[Len(outbox) + 1] = Cancel
      BY <1>2, <1>3, <2>2, AppendFacts
    <3>2. QED
      BY <1>2, <1>3, <2>2, <3>1
  <2>3. QED
    BY <2>1, <2>2 DEF SeeFirst, Release, SeeAllAcknowledged, TimeOut
<1>5. /\ \A e \in Events, n \in Nat : n <= Len(outbox) => AckIn(outbox, n, e)' = AckIn(outbox, n, e)
  <2> SUFFICES ASSUME NEW e \in Events, NEW n \in Nat, n <= Len(outbox)
               PROVE  AckIn(outbox, n, e)' = AckIn(outbox, n, e)
    OBVIOUS
  <2>1. \A k \in 1 .. n : outbox'[k] = outbox[k]
    BY <1>2, <1>4
  <2>2. QED
    BY <1>1, <2>1 DEF AckIn
<1>6. /\ \A e \in Events, n \in Nat : AckIn(wire, n, e)' = AckIn(wire, n, e)
      /\ \A e, d : Recorded(e, d)' = Recorded(e, d)
      /\ \A e \in Events : Told(e)' = Told(e)
      /\ \A i \in DOMAIN tasks : Waiting(i)' = Waiting(i) /\ Nacking(i)' = Nacking(i)
      /\ Rejections' = Rejections
  BY <1>1 DEF AckIn, Recorded, Told, Waiting, Nacking, Rejections
<1>7. TypeOK'
  BY <1>1, <1>4 DEF IInv, TypeOK, SeeFirst, Release, SeeAllAcknowledged, TimeOut
<1>8. SetupClean' /\ ProbeStages' /\ GoneRecorded' /\ NotStarted'
  BY <1>1, <1>6 DEF IInv, SetupClean, ProbeStages, GoneRecorded, NotStarted, SettingUp
<1>9. Pipeline'
  <2>1. TasksPlaced' /\ OneWaits'
    BY <1>1, <1>6 DEF IInv, Pipeline, TasksPlaced, OneWaits
  <2>2. OutboxPlaced'
    BY <1>1, <1>4 DEF IInv, Pipeline, OutboxPlaced
  <2>3. WirePlaced' /\ NoneWaitsForWire' /\ OneOnWire'
    BY <1>1, <1>6 DEF IInv, Pipeline, WirePlaced, NoneWaitsForWire, OneOnWire
  <2>4. OneInOutbox'
    BY <1>4 DEF IInv, Pipeline, OneInOutbox
  <2>5. QED
    BY <2>1, <2>2, <2>3, <2>4 DEF Pipeline
<1>10. CountedIsTold'
  <2>1. \A e \in acknowledged : Told(e)' \/ AckIn(outbox, Len(outbox), e)'
    <3> SUFFICES ASSUME NEW e \in acknowledged, ~Told(e)
                 PROVE  AckIn(outbox, Len(outbox), e)'
      BY <1>6 DEF IInv, TypeOK
    <3>1. PICK k \in 1 .. Len(outbox) : outbox[k].kind = "ack" /\ tasks[outbox[k].task].event = e
      BY DEF IInv, CountedIsTold, AckIn
    <3>2. k \in 1 .. Len(outbox') /\ outbox'[k] = outbox[k]
      BY <1>2, <1>4
    <3>3. QED
      BY <1>1, <3>1, <3>2 DEF AckIn
  <2>2. QED
    BY <1>1, <2>1 DEF IInv, CountedIsTold
<1>11. CancelIsOfMain'
  <2>1. main' \notin {"cancelling", "failing"} => outbox' = outbox
    BY DEF SeeFirst, Release, SeeAllAcknowledged, TimeOut
  <2>2. QED
    BY <1>1, <2>1 DEF IInv, CancelIsOfMain
<1>12. /\ \A k \in DOMAIN wire : IsAnswer(wire[k])
       /\ \A k \in DOMAIN outbox : IsAnswer(outbox[k])
  BY <1>1 DEF IInv, CancelIsOfMain
<1>13. ASSUME main' = "cancelling"
       PROVE  /\ \A e \in Events : e \in acknowledged
              /\ \A c \in DOMAIN outbox' : ~IsAnswer(outbox'[c]) => c - 1 = Len(outbox)
  <2>1. allAcked
    BY <1>1, <1>13 DEF SeeFirst, Release, SeeAllAcknowledged, TimeOut
  <2>2. \A e \in Events : e \in acknowledged
    BY <2>1 DEF IInv, CountedIsTold
  <2>3. QED
    BY <1>2, <1>4, <1>12, <2>2
<1>14. CancelAfterTold'
  BY <1>1, <1>2, <1>5, <1>6, <1>12, <1>13 DEF IInv, CountedIsTold, CancelAfterTold
<1>15. Story'
  <2>1. BackOnlyRejected'
    BY <1>1, <1>6 DEF IInv, Story, BackOnlyRejected, Consuming
  <2>2. KindsKnown'
    <3> SUFFICES ASSUME Consuming' PROVE KindsKnown'
      BY DEF KindsKnown
    <3>1. Consuming
      BY <1>1 DEF Consuming
    <3>2. \A k \in DOMAIN outbox' : IsAnswer(outbox'[k]) =>
             /\ k \in DOMAIN outbox /\ outbox'[k] = outbox[k] /\ outbox[k].task \in DOMAIN tasks
      BY <1>4 DEF IInv, Pipeline, OutboxPlaced
    <3>3. \A k \in DOMAIN wire : IsAnswer(wire[k]) => wire[k].task \in DOMAIN tasks
      BY DEF IInv, Pipeline, WirePlaced
    <3>4. QED
      BY <1>1, <1>6, <3>1, <3>2, <3>3 DEF IInv, Story, KindsKnown
  <2>3. OneOfEachKind' /\ ReadyWasRejected' /\ RejectedHasTask'
    BY <1>1, <1>6 DEF IInv, Story, OneOfEachKind, ReadyWasRejected, RejectedHasTask, Consuming
  <2>4. DoneIsAnswered'
    BY <1>1, <1>6 DEF IInv, Story, DoneIsAnswered, Consuming
  <2>5. RecordsOfDone'
    BY <1>1, <1>6 DEF IInv, Story, RecordsOfDone, Consuming
  <2>6. QED
    BY <2>1, <2>2, <2>3, <2>4, <2>5 DEF Story
<1>16. AckUnderWay'
  <2> SUFFICES ASSUME Consuming' PROVE AckUnderWay'
    BY DEF AckUnderWay
  <2>1. Consuming
    BY <1>1 DEF Consuming
  <2>2. \A e \in acknowledged :
           queue[e] = "gone" \/ AckIn(wire, Len(wire), e) \/ AckIn(outbox, Len(outbox), e)
    BY <2>1 DEF IInv, AckUnderWay
  <2>3. \A e \in Events : AckIn(outbox, Len(outbox), e) => AckIn(outbox, Len(outbox), e)'
    <3> SUFFICES ASSUME NEW e \in Events, AckIn(outbox, Len(outbox), e)
                 PROVE  AckIn(outbox, Len(outbox), e)'
      OBVIOUS
    <3>1. PICK k \in 1 .. Len(outbox) : outbox[k].kind = "ack" /\ tasks[outbox[k].task].event = e
      BY DEF AckIn
    <3>2. k \in 1 .. Len(outbox') /\ outbox'[k] = outbox[k]
      BY <1>2, <1>4
    <3>3. QED
      BY <1>1, <3>1, <3>2 DEF AckIn
  <2>4. \A e \in acknowledged :
           queue'[e] = "gone" \/ AckIn(wire, Len(wire), e)' \/ AckIn(outbox, Len(outbox), e)'
    <3>1. acknowledged \subseteq Events
      BY DEF IInv, TypeOK
    <3>2. \A e \in Events : AckIn(wire, Len(wire), e)' = AckIn(wire, Len(wire), e)
      BY <1>1 DEF AckIn
    <3>3. QED
      BY <1>1, <2>2, <2>3, <3>1, <3>2
  <2>5. ASSUME main' = "cancelling", NEW c \in DOMAIN outbox', ~IsAnswer(outbox'[c]), NEW e \in Events
        PROVE  queue'[e] = "gone" \/ AckIn(wire, Len(wire), e)' \/ AckIn(outbox, c - 1, e)'
    <3>1. e \in acknowledged /\ c - 1 = Len(outbox)
      BY <1>13, <2>5
    <3>2. AckIn(outbox, Len(outbox), e) => AckIn(outbox, c - 1, e)'
      BY <1>2, <1>5, <3>1
    <3>3. AckIn(wire, Len(wire), e) => AckIn(wire, Len(wire), e)'
      BY <1>1 DEF AckIn
    <3>4. QED
      BY <1>1, <2>2, <3>1, <3>2, <3>3
  <2>6. \A c \in DOMAIN wire' : IsAnswer(wire'[c])
    BY <1>1, <1>12
  <2>7. QED
    BY <1>1, <2>4, <2>5, <2>6 DEF AckUnderWay
<1>17. OnlyFirst'
  BY <1>1 DEF IInv, OnlyFirst, SeeFirst, Release, SeeAllAcknowledged, TimeOut, FirstStarted
<1>18. BlockedOne'
  BY <1>1, <1>2 DEF IInv, OnlyFirst, BlockedOne, SeeFirst, Release, SeeAllAcknowledged, TimeOut
<1>19. Returned'
  BY <1>1 DEF Returned, WholeWithoutLoss, MissingWithLosses
<1>20. QED
  BY <1>7, <1>8, <1>9, <1>10, <1>11, <1>14, <1>15, <1>16, <1>17, <1>18, <1>19 DEF IInv

-----------------------------------------------------------------------------
(* A delivery is of an event that was ready, so nobody waits for its answer. *)

LEMMA DeliverStep ==
  ASSUME IInv, NEW e \in Events, Deliver(e)
  PROVE  IInv'
<1>0. PICK n \in Nat : n = Len(tasks) + 1
  BY TypeFacts DEF IInv
<1> DEFINE new == [event |-> e, redelivered |-> redelivered[e], on |-> losses, pc |-> "new"]
<1>1. /\ UNCHANGED <<prefetch, redelivered, losses, outbox, wire, main, blocked, rejected, attempts,
                     acknowledged, deliveries, allAcked, alternate, probed>>
      /\ ~SettingUp /\ ~SettingUp' /\ Running /\ Running'
      /\ queue[e] = "ready" /\ Cardinality(Unacked) < prefetch
  BY DEF Deliver, MayDeliver, handlerVars, probeVars, SettingUp, Running
<1>2. new \in Task
  <2>1. losses \in Nat
    BY TypeFacts DEF IInv
  <2>2. redelivered[e] \in BOOLEAN
    BY DEF IInv, TypeOK
  <2>3. QED
    BY <2>1, <2>2 DEF Task
<1>3. /\ tasks' \in Seq(Task) /\ DOMAIN tasks = 1 .. Len(tasks) /\ Len(tasks) \in Nat
      /\ Len(tasks') = n /\ DOMAIN tasks' = 1 .. n
      /\ \A i \in DOMAIN tasks : i \in DOMAIN tasks' /\ tasks'[i] = tasks[i]
      /\ tasks'[n] = new
      /\ \A i \in DOMAIN tasks' : i \in DOMAIN tasks \/ i = n
  <2>1. tasks \in Seq(Task) /\ tasks' = Append(tasks, new)
    BY DEF IInv, TypeOK, Deliver
  <2>2. /\ tasks' \in Seq(Task) /\ DOMAIN tasks = 1 .. Len(tasks) /\ Len(tasks) \in Nat
        /\ Len(tasks') = n /\ DOMAIN tasks' = 1 .. n
        /\ \A i \in DOMAIN tasks : tasks'[i] = tasks[i]
        /\ tasks'[n] = new
    BY <1>0, <1>2, <2>1, AppendFacts
  <2>3. QED
    BY <1>0, <2>2
<1>4. /\ queue' \in [Events -> {"ready", "unacked", "gone"}]
      /\ queue'[e] = "unacked"
      /\ \A x \in Events : x # e => queue'[x] = queue[x]
  BY DEF IInv, TypeOK, Deliver
<1>5. /\ tasks'[n].event = e /\ tasks'[n].redelivered = redelivered[e]
      /\ tasks'[n].on = losses /\ tasks'[n].pc = "new"
  BY <1>3
<1>6. \A i \in DOMAIN tasks : tasks[i].event \in Events /\ tasks[i].on \in Nat /\ losses \in Nat
  BY TypeFacts DEF IInv
<1> HIDE DEF new
<1>7. \A k \in DOMAIN outbox : IsAnswer(outbox[k]) => outbox[k].task \in DOMAIN tasks
  BY DEF IInv, Pipeline, OutboxPlaced
<1>8. \A k \in DOMAIN wire : IsAnswer(wire[k]) => wire[k].task \in DOMAIN tasks
  BY DEF IInv, Pipeline, WirePlaced
<1>9. /\ \A i \in DOMAIN tasks : Waiting(i)' = Waiting(i) /\ Nacking(i)' = Nacking(i)
      /\ Rejections' = Rejections
      /\ \A x, d : Recorded(x, d)' = Recorded(x, d)
  BY <1>1, <1>3 DEF Waiting, Nacking, Rejections, Recorded
<1>10. \A i \in DOMAIN tasks : Waiting(i) => tasks[i].event # e
  BY <1>1 DEF IInv, Pipeline, TasksPlaced
<1>11. \A k \in DOMAIN wire : IsAnswer(wire[k]) => tasks[wire[k].task].event # e
  BY <1>1 DEF IInv, Pipeline, WirePlaced
<1>12. /\ DOMAIN outbox = 1 .. Len(outbox) /\ Len(outbox) \in Nat
       /\ DOMAIN wire = 1 .. Len(wire) /\ Len(wire) \in Nat
  BY SeqFacts DEF IInv, TypeOK
<1>13. \A x \in Events, m \in Nat :
         /\ m <= Len(outbox) /\ AckIn(outbox, m, x) => AckIn(outbox, m, x)'
         /\ m <= Len(wire) /\ AckIn(wire, m, x) => AckIn(wire, m, x)'
  <2> SUFFICES ASSUME NEW x \in Events, NEW m \in Nat
               PROVE  /\ m <= Len(outbox) /\ AckIn(outbox, m, x) => AckIn(outbox, m, x)'
                      /\ m <= Len(wire) /\ AckIn(wire, m, x) => AckIn(wire, m, x)'
    OBVIOUS
  <2>1. ASSUME NEW k \in DOMAIN outbox, outbox[k].kind = "ack"
        PROVE  tasks'[outbox[k].task] = tasks[outbox[k].task]
    BY <1>3, <1>7, <2>1 DEF IsAnswer
  <2>2. ASSUME NEW k \in DOMAIN wire, wire[k].kind = "ack"
        PROVE  tasks'[wire[k].task] = tasks[wire[k].task]
    BY <1>3, <1>8, <2>2 DEF IsAnswer
  <2>3. QED
    BY <1>1, <1>12, <2>1, <2>2 DEF AckIn
<1>14. \A x \in Events : Told(x) => Told(x)'
  BY <1>3, <1>9 DEF Told
<1>15. TypeOK'
  BY <1>1, <1>3, <1>4 DEF IInv, TypeOK
<1>16. SetupClean' /\ ProbeStages' /\ CancelIsOfMain' /\ BlockedOne' /\ Returned'
  BY <1>1 DEF IInv, SetupClean, ProbeStages, SettingUp, CancelIsOfMain, BlockedOne, Returned,
              WholeWithoutLoss, MissingWithLosses, Running
<1>17. GoneRecorded' /\ NotStarted'
  BY <1>1, <1>3, <1>4, <1>5, <1>9 DEF IInv, GoneRecorded, NotStarted
<1>18. Pipeline'
  <2>1. TasksPlaced'
    <3> SUFFICES ASSUME NEW i \in DOMAIN tasks'
                 PROVE  /\ tasks'[i].on <= losses'
                        /\ tasks'[i].pc = "failed" => tasks'[i].on < losses'
                        /\ Waiting(i)' => queue'[tasks'[i].event] = "unacked"
      BY DEF TasksPlaced
    <3>1. CASE i \in DOMAIN tasks
      BY <1>1, <1>3, <1>4, <1>6, <1>9, <3>1 DEF IInv, Pipeline, TasksPlaced
    <3>2. CASE i = n
      <4>1. losses \in Nat
        BY TypeFacts DEF IInv
      <4>2. QED
        BY <1>1, <1>4, <1>5, <3>2, <4>1
    <3>3. QED
      BY <1>3, <3>1, <3>2
  <2>2. OutboxPlaced'
    BY <1>1, <1>3, <1>7 DEF IInv, Pipeline, OutboxPlaced
  <2>3. WirePlaced'
    <3> SUFFICES ASSUME NEW k \in DOMAIN wire, IsAnswer(wire[k])
                 PROVE  /\ wire[k].task \in DOMAIN tasks'
                        /\ tasks'[wire[k].task].pc = "done" /\ tasks'[wire[k].task].on = losses
                        /\ queue'[tasks'[wire[k].task].event] = "unacked"
                        /\ Recorded(tasks[wire[k].task].event, Decision(wire[k].kind)) # {}
      BY <1>1, <1>3, <1>8 DEF WirePlaced, Recorded
    <3>1. tasks'[wire[k].task] = tasks[wire[k].task] /\ wire[k].task \in DOMAIN tasks'
      BY <1>3, <1>8
    <3>2. QED
      BY <1>4, <1>6, <1>8, <3>1 DEF IInv, Pipeline, WirePlaced
  <2>4. OneWaits'
    <3> SUFFICES ASSUME NEW i \in DOMAIN tasks', NEW j \in DOMAIN tasks', Waiting(i)', Waiting(j)',
                        tasks'[i].event = tasks'[j].event
                 PROVE  i = j
      BY DEF OneWaits
    <3>1. CASE i \in DOMAIN tasks /\ j \in DOMAIN tasks
      BY <1>3, <1>9, <3>1 DEF IInv, Pipeline, OneWaits
    <3>2. CASE i = n \/ j = n
      BY <1>3, <1>5, <1>9, <1>10, <3>2
    <3>3. QED
      BY <1>3, <3>1, <3>2
  <2>5. NoneWaitsForWire'
    <3> SUFFICES ASSUME NEW i \in DOMAIN tasks', NEW k \in DOMAIN wire, Waiting(i)', IsAnswer(wire[k])
                 PROVE  tasks'[wire[k].task].event # tasks'[i].event
      BY <1>1 DEF NoneWaitsForWire
    <3>1. tasks'[wire[k].task] = tasks[wire[k].task]
      BY <1>3, <1>8
    <3>2. CASE i \in DOMAIN tasks
      BY <1>3, <1>9, <3>1, <3>2 DEF IInv, Pipeline, NoneWaitsForWire
    <3>3. CASE i = n
      BY <1>5, <1>11, <3>1, <3>3
    <3>4. QED
      BY <1>3, <3>2, <3>3
  <2>6. OneOnWire'
    BY <1>1, <1>3, <1>8 DEF IInv, Pipeline, OneOnWire
  <2>7. OneInOutbox'
    BY <1>1 DEF IInv, Pipeline, OneInOutbox
  <2>8. QED
    BY <2>1, <2>2, <2>3, <2>4, <2>5, <2>6, <2>7 DEF Pipeline
<1>19. CountedIsTold' /\ CancelAfterTold'
  <2>1. acknowledged \subseteq Events
    BY DEF IInv, TypeOK
  <2>2. CountedIsTold'
    BY <1>1, <1>12, <1>13, <1>14, <2>1 DEF IInv, CountedIsTold
  <2>3. \A c \in DOMAIN outbox : c - 1 \in Nat /\ c - 1 <= Len(outbox)
    BY <1>12
  <2>4. CancelAfterTold'
    BY <1>1, <1>13, <1>14, <2>3 DEF IInv, CancelAfterTold
  <2>5. QED
    BY <2>2, <2>4
<1>20. Story'
  <2>1. CASE ~Consuming'
    BY <2>1 DEF Story, BackOnlyRejected, KindsKnown, OneOfEachKind, ReadyWasRejected,
                RejectedHasTask, DoneIsAnswered, RecordsOfDone
  <2>2. CASE Consuming'
    <3>1. Consuming
      BY <1>1, <2>2 DEF Consuming
    <3>2. BackOnlyRejected'
      BY <1>1, <1>3, <1>5, <1>9, <3>1 DEF IInv, Story, BackOnlyRejected
    <3>3. ~Nacking(n)'
      <4> SUFFICES ASSUME Nacking(n)' PROVE FALSE
        OBVIOUS
      <4>0. e = rejected /\ ~redelivered[e]
        BY <1>1, <1>5, Zenon DEF Nacking
      <4>1. rejected # NoEvent
        BY <4>0, ConsumerAssumption
      <4>2. PICK i \in DOMAIN tasks : Nacking(i)
        BY <3>1, <4>1 DEF IInv, Story, RejectedHasTask
      <4>3. QED
        BY <1>1, <3>1, <4>0, <4>2 DEF IInv, Story, ReadyWasRejected, Nacking
    <3>4. KindsKnown'
      BY <1>1, <1>3, <1>5, <1>7, <1>8, <1>9, <3>1, <3>3 DEF IInv, Story, KindsKnown
    <3>5. \A i \in DOMAIN tasks : tasks[i].event = e => tasks[i].redelivered # redelivered[e]
      BY <1>1, <3>1 DEF IInv, Story, ReadyWasRejected, Nacking
    <3>6. OneOfEachKind'
      <4> SUFFICES ASSUME NEW i \in DOMAIN tasks', NEW j \in DOMAIN tasks',
                          tasks'[i].event = tasks'[j].event,
                          tasks'[i].redelivered = tasks'[j].redelivered
                   PROVE  i = j
        BY DEF OneOfEachKind
      <4>1. CASE i \in DOMAIN tasks /\ j \in DOMAIN tasks
        BY <1>3, <3>1, <4>1 DEF IInv, Story, OneOfEachKind
      <4>2. CASE i = n \/ j = n
        BY <1>3, <1>5, <3>5, <4>2
      <4>3. QED
        BY <1>3, <4>1, <4>2
    <3>7. ReadyWasRejected'
      BY <1>1, <1>3, <1>4, <1>5, <1>6, <1>9, <3>1 DEF IInv, Story, ReadyWasRejected
    <3>8. RejectedHasTask'
      BY <1>1, <1>3, <1>9, <3>1 DEF IInv, Story, RejectedHasTask
    <3>9. DoneIsAnswered'
      <4>1. \A i \in DOMAIN tasks : queue[tasks[i].event] = "gone" => queue'[tasks[i].event] = "gone"
        BY <1>1, <1>4, <1>6
      <4>2. QED
        BY <1>1, <1>3, <1>5, <1>9, <3>1, <4>1 DEF IInv, Story, DoneIsAnswered
    <3>10. RecordsOfDone'
      BY <1>1, <1>3, <1>9, <3>1 DEF IInv, Story, RecordsOfDone
    <3>11. QED
      BY <3>2, <3>4, <3>6, <3>7, <3>8, <3>9, <3>10 DEF Story
  <2>3. QED
    BY <2>1, <2>2
<1>21. AckUnderWay'
  <2> SUFFICES ASSUME Consuming' PROVE AckUnderWay'
    BY DEF AckUnderWay
  <2>1. Consuming
    BY <1>1 DEF Consuming
  <2>2. acknowledged \subseteq Events
    BY DEF IInv, TypeOK
  <2>3. \A x \in Events : queue[x] = "gone" => queue'[x] = "gone"
    BY <1>1, <1>4
  <2>4. /\ \A c \in DOMAIN outbox : c - 1 \in Nat /\ c - 1 <= Len(outbox)
        /\ \A c \in DOMAIN wire : c - 1 \in Nat /\ c - 1 <= Len(wire)
    BY <1>12
  <2>5. \A x \in Events :
          /\ AckIn(outbox, Len(outbox), x) => AckIn(outbox, Len(outbox), x)'
          /\ AckIn(wire, Len(wire), x) => AckIn(wire, Len(wire), x)'
    BY <1>1, <1>12, <1>13
  <2>6. QED
    BY <1>1, <1>13, <2>1, <2>2, <2>3, <2>4, <2>5 DEF IInv, AckUnderWay
<1>22. OnlyFirst'
  <2> SUFFICES ASSUME prefetch = 1, losses = 0, main \in {"first", "second"} PROVE OnlyFirst'
    BY <1>1 DEF OnlyFirst
  <2>1. Unacked = {}
    <3>1. IsFiniteSet(Unacked)
      BY ConsumerAssumption, FS_Subset DEF Unacked
    <3>2. Cardinality(Unacked) \in Nat /\ (Cardinality(Unacked) = 0 <=> Unacked = {})
      BY <3>1, FS_CardinalityType, FS_EmptySet
    <3>3. QED
      BY <1>1, <3>2
  <2>2. Len(tasks) # 1
    <3> SUFFICES ASSUME Len(tasks) = 1 PROVE FALSE
      OBVIOUS
    <3>1. 1 \in DOMAIN tasks /\ tasks[1].pc \in {"new", "held"}
      BY <1>3 DEF IInv, OnlyFirst
    <3>2. tasks[1].on = losses
      BY <1>6, <3>1 DEF IInv, Pipeline, TasksPlaced
    <3>3. Waiting(1)
      BY <3>1, <3>2 DEF Waiting
    <3>4. tasks[1].event \in Unacked
      BY <1>6, <3>1, <3>3 DEF IInv, Pipeline, TasksPlaced, Unacked
    <3>5. QED
      BY <2>1, <3>4
  <2>3. Len(tasks) = 0
    BY <1>3, <2>2 DEF IInv, OnlyFirst
  <2>4. n = 1
    BY <1>0, <2>3
  <2>5. QED
    BY <1>1, <1>3, <1>5, <2>3, <2>4 DEF IInv, OnlyFirst
<1>23. QED
  BY <1>15, <1>16, <1>17, <1>18, <1>19, <1>20, <1>21, <1>22 DEF IInv

-----------------------------------------------------------------------------
(* A lost connection leaves no frame and nobody who waits for the broker.  *)

LEMMA LoseConnectionStep ==
  ASSUME IInv, LoseConnection
  PROVE  IInv'
<1>1. /\ UNCHANGED <<prefetch, blocked, rejected, attempts, acknowledged, deliveries, allAcked,
                     alternate, probed>>
      /\ losses' = losses + 1 /\ losses < MaxLosses /\ losses \in Nat
      /\ outbox' = <<>> /\ wire' = <<>>
      /\ Running
      /\ main' = "raised" \/ (main' = main /\ ~SettingUp)
  BY TypeFacts DEF IInv, LoseConnection, handlerVars, probeVars
<1>2. /\ DOMAIN outbox' = {} /\ DOMAIN wire' = {}
      /\ outbox' \in Seq(Frame) /\ wire' \in Seq(Frame)
  BY <1>1
<1>3. /\ DOMAIN tasks' = DOMAIN tasks
      /\ \A i \in DOMAIN tasks :
           /\ tasks'[i] \in Task
           /\ tasks'[i].event = tasks[i].event /\ tasks'[i].on = tasks[i].on
           /\ tasks[i].pc # "sending" => tasks'[i].pc = tasks[i].pc
           /\ tasks[i].pc = "sending" => tasks'[i].pc = "failed"
  <2>1. DOMAIN tasks' = DOMAIN tasks
    BY DEF LoseConnection
  <2>2. ASSUME NEW i \in DOMAIN tasks
        PROVE  /\ tasks'[i] \in Task
               /\ tasks'[i].event = tasks[i].event /\ tasks'[i].on = tasks[i].on
               /\ tasks[i].pc # "sending" => tasks'[i].pc = tasks[i].pc
               /\ tasks[i].pc = "sending" => tasks'[i].pc = "failed"
    <3>1. tasks[i] \in Task
      BY TypeFacts DEF IInv
    <3>2. CASE tasks[i].pc = "sending"
      <4>1. tasks'[i] = [tasks[i] EXCEPT !.pc = "failed"]
        BY <3>2 DEF LoseConnection
      <4>2. QED
        BY <3>1, <3>2, <4>1 DEF Task
    <3>3. CASE tasks[i].pc # "sending"
      BY <3>1, <3>3 DEF LoseConnection
    <3>4. QED
      BY <3>2, <3>3
  <2>3. QED
    BY <2>1, <2>2
<1>4. tasks' \in Seq(Task)
  <2>1. DOMAIN tasks = 1 .. Len(tasks) /\ Len(tasks) \in Nat
    BY TypeFacts DEF IInv
  <2>2. tasks' = [i \in 1 .. Len(tasks) |-> tasks'[i]]
    BY <2>1 DEF LoseConnection
  <2>3. \A i \in 1 .. Len(tasks) : tasks'[i] \in Task
    BY <1>3, <2>1
  <2>4. tasks' \in [1 .. Len(tasks) -> Task]
    BY <2>2, <2>3
  <2>5. QED
    BY <2>1, <2>4
<1>5. /\ queue' \in [Events -> {"ready", "unacked", "gone"}]
      /\ redelivered' \in [Events -> BOOLEAN]
      /\ \A e \in Events : queue'[e] = "gone" <=> queue[e] = "gone"
  BY DEF IInv, TypeOK, LoseConnection
<1>6. losses' \in 0 .. MaxLosses /\ losses' # 0
  BY <1>1, ConsumerAssumption
<1>7. ~SettingUp' /\ main' # "returned"
  BY <1>1 DEF SettingUp, Running
<1>8. TypeOK'
  BY <1>1, <1>2, <1>4, <1>5, <1>6 DEF IInv, TypeOK
<1>9. SetupClean' /\ ProbeStages'
  BY <1>1, <1>7 DEF IInv, SetupClean, ProbeStages, SettingUp
<1>10. Pipeline'
  <2>1. \A i \in DOMAIN tasks : tasks[i].on <= losses /\ tasks[i].on \in Nat
    BY TypeFacts DEF IInv, Pipeline, TasksPlaced
  <2>2. \A i \in DOMAIN tasks' : tasks'[i].on < losses' /\ tasks'[i].on <= losses' /\ ~Waiting(i)'
    BY <1>1, <1>3, <2>1 DEF Waiting
  <2>3. QED
    BY <1>2, <2>2 DEF Pipeline, TasksPlaced, OutboxPlaced, WirePlaced, OneWaits, NoneWaitsForWire,
                      OneOnWire, OneInOutbox
<1>11. GoneRecorded'
  BY <1>1, <1>5 DEF IInv, GoneRecorded, Recorded
<1>12. NotStarted'
  BY <1>1, <1>3 DEF IInv, NotStarted
<1>13. CountedIsTold'
  <2>1. ASSUME NEW e \in acknowledged
        PROVE  Told(e)'
    <3>1. CASE Recorded(e, "ack") # {}
      BY <1>1, <3>1 DEF Told, Recorded
    <3>2. CASE \E i \in DOMAIN tasks : tasks[i].event = e /\ tasks[i].pc = "failed"
      BY <1>3, <3>2 DEF Told
    <3>3. CASE AckIn(outbox, Len(outbox), e)
      <4>1. PICK k \in 1 .. Len(outbox) : outbox[k].kind = "ack" /\ tasks[outbox[k].task].event = e
        BY <3>3 DEF AckIn
      <4>2. outbox[k].task \in DOMAIN tasks /\ tasks[outbox[k].task].pc = "sending"
        BY <4>1, TypeFacts DEF IInv, Pipeline, OutboxPlaced, IsAnswer
      <4>3. QED
        BY <1>3, <4>1, <4>2 DEF Told
    <3>4. QED
      BY <3>1, <3>2, <3>3 DEF IInv, CountedIsTold, Told
  <2>2. QED
    BY <1>1, <2>1 DEF IInv, CountedIsTold
<1>14. CancelIsOfMain' /\ CancelAfterTold'
  BY <1>2 DEF CancelIsOfMain, CancelAfterTold
<1>15. Story' /\ AckUnderWay'
  BY <1>6 DEF Story, BackOnlyRejected, KindsKnown, OneOfEachKind, ReadyWasRejected, RejectedHasTask,
              DoneIsAnswered, RecordsOfDone, AckUnderWay, Consuming
<1>16. OnlyFirst' /\ BlockedOne' /\ Returned'
  BY <1>6, <1>7 DEF OnlyFirst, BlockedOne, Returned, WholeWithoutLoss, MissingWithLosses
<1>17. QED
  BY <1>8, <1>9, <1>10, <1>11, <1>12, <1>13, <1>14, <1>15, <1>16 DEF IInv

-----------------------------------------------------------------------------
(* What is there when the broker answers the cancel of a run that goes     *)
(* well.                                                                   *)

LEMMA CancelFindsAll ==
  ASSUME IInv, main = "cancelling", wire # <<>>, ~IsAnswer(wire[1])
  PROVE  /\ \A e \in Events : Told(e)
         /\ losses = 0 => \A e \in Events : queue[e] = "gone" /\ Recorded(e, "ack") # {}
<1>1. 1 \in DOMAIN wire
  BY TailFacts DEF IInv, TypeOK
<1>2. \A e \in Events : Told(e)
  BY <1>1 DEF IInv, CancelAfterTold
<1>3. ASSUME losses = 0, NEW e \in Events
      PROVE  queue[e] = "gone" /\ Recorded(e, "ack") # {}
  <2>1. Consuming
    BY <1>3 DEF Consuming, SettingUp
  <2>2. queue[e] = "gone" \/ AckIn(wire, 1 - 1, e)
    BY <1>1, <2>1 DEF IInv, AckUnderWay
  <2>3. ~AckIn(wire, 1 - 1, e)
    BY DEF AckIn
  <2>4. QED
    BY <2>2, <2>3 DEF IInv, GoneRecorded, SettingUp
<1>4. QED
  BY <1>2, <1>3

(* Its records, with no connection lost: an event has one ack, of the      *)
(* redelivery if it was rejected, and the rejection comes before.          *)
LEMMA RecordsAreWhole ==
  ASSUME IInv, Consuming, rejected # NoEvent, NEW e \in Events, Recorded(e, "ack") # {}
  PROVE  \E k \in Recorded(e, "ack") :
           /\ Recorded(e, "ack") = {k}
           /\ deliveries[k].redelivered <=> e = rejected
           /\ IF e = rejected
              THEN \E j \in 1 .. k - 1 : Recorded(e, "nack-requeue") = {j}
              ELSE Recorded(e, "nack-requeue") = {}
<1>1. /\ \A k \in DOMAIN deliveries : \E i \in DOMAIN tasks :
           /\ tasks[i].pc = "done"
           /\ deliveries[k].event = tasks[i].event
           /\ deliveries[k].redelivered = tasks[i].redelivered
           /\ deliveries[k].decision = "nack-requeue" <=> Nacking(i)
      /\ \A k, l \in DOMAIN deliveries :
           /\ deliveries[k].event = deliveries[l].event
           /\ deliveries[k].redelivered = deliveries[l].redelivered
           => k = l
      /\ \A k \in DOMAIN deliveries : deliveries[k].redelivered =>
           \E j \in 1 .. k - 1 : j \in Rejections
  BY DEF IInv, Story, RecordsOfDone
<1>2. \A k \in DOMAIN deliveries :
        /\ deliveries[k].redelivered \in BOOLEAN
        /\ deliveries[k].decision \in {"ack", "nack-requeue"}
  BY TypeFacts DEF IInv, Delivery
<1>3. \A i \in DOMAIN tasks : tasks[i].redelivered \in BOOLEAN /\ (tasks[i].redelivered => tasks[i].event = rejected)
  BY TypeFacts DEF IInv, Story, BackOnlyRejected
<1>4. ASSUME NEW k \in DOMAIN deliveries
      PROVE  /\ deliveries[k].decision = "nack-requeue" =>
                  deliveries[k].event = rejected /\ deliveries[k].redelivered = FALSE
             /\ deliveries[k].decision = "ack" /\ deliveries[k].event = rejected =>
                  deliveries[k].redelivered = TRUE
             /\ deliveries[k].decision = "ack" /\ deliveries[k].event # rejected =>
                  deliveries[k].redelivered = FALSE
  <2>1. PICK i \in DOMAIN tasks :
          /\ deliveries[k].event = tasks[i].event
          /\ deliveries[k].redelivered = tasks[i].redelivered
          /\ deliveries[k].decision = "nack-requeue" <=> Nacking(i)
    BY <1>1
  <2>2. QED
    BY <1>2, <1>3, <2>1 DEF Nacking
<1>5. \A x, d : \A k \in Recorded(x, d) :
        k \in DOMAIN deliveries /\ deliveries[k].event = x /\ deliveries[k].decision = d
  BY DEF Recorded
<1>6. PICK k \in Recorded(e, "ack") : TRUE
  OBVIOUS
<1>7. \A l \in Recorded(e, "ack") : l = k
  <2> SUFFICES ASSUME NEW l \in Recorded(e, "ack") PROVE l = k
    OBVIOUS
  <2>1. /\ k \in DOMAIN deliveries /\ deliveries[k].event = e /\ deliveries[k].decision = "ack"
        /\ l \in DOMAIN deliveries /\ deliveries[l].event = e /\ deliveries[l].decision = "ack"
    BY <1>5, <1>6
  <2>2. deliveries[k].redelivered = deliveries[l].redelivered
    BY <1>4, <2>1
  <2>3. QED
    BY <1>1, <2>1, <2>2
<1>8. deliveries[k].redelivered = (e = rejected)
  <2>1. k \in DOMAIN deliveries /\ deliveries[k].event = e /\ deliveries[k].decision = "ack"
    BY <1>5, <1>6
  <2>2. QED
    BY <1>4, <2>1
<1>9. CASE e # rejected
  <2>1. Recorded(e, "nack-requeue") = {}
    <3> SUFFICES ASSUME NEW l \in Recorded(e, "nack-requeue") PROVE FALSE
      OBVIOUS
    <3>1. l \in DOMAIN deliveries /\ deliveries[l].event = e /\ deliveries[l].decision = "nack-requeue"
      BY <1>5
    <3>2. QED
      BY <1>4, <1>9, <3>1
  <2>2. QED
    BY <1>6, <1>7, <1>8, <1>9, <2>1
<1>10. CASE e = rejected
  <2>1. PICK j \in 1 .. k - 1 : j \in Rejections
    <3>1. k \in DOMAIN deliveries /\ deliveries[k].redelivered
      BY <1>5, <1>6, <1>8, <1>10
    <3>2. QED
      BY <1>1, <3>1
  <2>2. j \in Recorded(e, "nack-requeue")
    BY <1>10, <2>1 DEF Rejections
  <2>3. \A l \in Recorded(e, "nack-requeue") : l = j
    <3> SUFFICES ASSUME NEW l \in Recorded(e, "nack-requeue") PROVE l = j
      OBVIOUS
    <3>1. /\ j \in DOMAIN deliveries /\ deliveries[j].event = e
          /\ deliveries[j].decision = "nack-requeue"
          /\ l \in DOMAIN deliveries /\ deliveries[l].event = e
          /\ deliveries[l].decision = "nack-requeue"
      BY <1>5, <2>2
    <3>2. deliveries[j].redelivered = deliveries[l].redelivered
      BY <1>4, <3>1
    <3>3. QED
      BY <1>1, <3>1, <3>2
  <2>4. Recorded(e, "nack-requeue") = {j}
    BY <2>2, <2>3
  <2>5. \E x \in 1 .. k - 1 : Recorded(e, "nack-requeue") = {x}
    BY <2>1, <2>4
  <2>6. Recorded(e, "ack") = {k}
    BY <1>6, <1>7
  <2>7. QED
    BY <1>6, <1>8, <1>10, <2>5, <2>6, Zenon
<1>11. QED
  BY <1>9, <1>10

-----------------------------------------------------------------------------
(* The broker takes a frame: of the events whose delivery is open, only    *)
(* that of the frame changes.                                              *)

LEMMA TakeFrameStep ==
  ASSUME IInv, TakeFrame
  PROVE  IInv'
<1> DEFINE f == wire[1]
           x == tasks[f.task].event
<1>1. /\ UNCHANGED <<prefetch, losses, tasks, outbox, blocked, rejected, attempts, acknowledged,
                     deliveries, allAcked, alternate, probed>>
      /\ Running /\ wire # <<>> /\ wire' = Tail(wire)
  BY DEF TakeFrame, handlerVars, probeVars
<1>2. /\ wire' \in Seq(Frame) /\ f = Head(wire)
      /\ DOMAIN wire = 1 .. Len(wire) /\ 1 \in DOMAIN wire
      /\ Len(wire) \in Nat \ {0} /\ Len(wire') = Len(wire) - 1
      /\ DOMAIN wire' = 1 .. (Len(wire) - 1)
      /\ \A k \in DOMAIN wire' : k + 1 \in DOMAIN wire /\ wire'[k] = wire[k + 1]
  BY <1>1, TailFacts DEF IInv, TypeOK
<1>3. ~SettingUp
  BY <1>1 DEF IInv, SetupClean
<1>4. /\ IsAnswer(f) <=> f # Cancel
      /\ IsAnswer(f) => f.kind \in {"ack", "nack"}
      /\ f = Cancel => f.kind = "cancel"
  <2>1. f \in Frame
    BY <1>2, TypeFacts DEF IInv
  <2>2. QED
    BY <2>1, FrameKinds DEF Cancel, IsAnswer
<1>5. IsAnswer(f) =>
        /\ f.task \in DOMAIN tasks /\ x \in Events
        /\ tasks[f.task].pc = "done" /\ queue[x] = "unacked"
        /\ Recorded(x, Decision(f.kind)) # {}
  <2>1. IsAnswer(f) =>
          /\ f.task \in DOMAIN tasks
          /\ tasks[f.task].pc = "done" /\ queue[x] = "unacked"
          /\ Recorded(x, Decision(f.kind)) # {}
    BY <1>2 DEF IInv, Pipeline, WirePlaced
  <2>2. QED
    BY <2>1, TypeFacts DEF IInv
<1>6. \/ /\ IsAnswer(f) /\ f.kind = "ack" /\ main' = main
         /\ queue' = [queue EXCEPT ![x] = "gone"] /\ redelivered' = redelivered
      \/ /\ IsAnswer(f) /\ f.kind = "nack" /\ main' = main
         /\ queue' = [queue EXCEPT ![x] = "ready"]
         /\ redelivered' = [redelivered EXCEPT ![x] = TRUE]
      \/ /\ ~IsAnswer(f) /\ queue' = queue /\ redelivered' = redelivered
         /\ main' = IF main = "cancelling" THEN "returned" ELSE "raised"
  BY <1>2, <1>4 DEF TakeFrame, Nacked, IsAnswer
<1>7. /\ queue' \in [Events -> {"ready", "unacked", "gone"}]
      /\ redelivered' \in [Events -> BOOLEAN]
      /\ \A e \in Events : ~IsAnswer(f) \/ e # x => queue'[e] = queue[e] /\ redelivered'[e] = redelivered[e]
      /\ IsAnswer(f) => queue'[x] = IF f.kind = "ack" THEN "gone" ELSE "ready"
      /\ IsAnswer(f) /\ f.kind = "ack" => redelivered' = redelivered
      /\ IsAnswer(f) /\ f.kind = "nack" => redelivered'[x] = TRUE
  BY <1>5, <1>6 DEF IInv, TypeOK
<1>8. /\ ~SettingUp' /\ (main' = main \/ main' \in {"returned", "raised"})
      /\ main' = main => IsAnswer(f)
  BY <1>1, <1>3, <1>6 DEF SettingUp, Running
<1>9. /\ \A i \in DOMAIN tasks : tasks[i].event \in Events /\ tasks[i].on \in Nat
      /\ losses \in Nat
  BY TypeFacts DEF IInv
<1>10. /\ \A i \in DOMAIN tasks : Waiting(i)' = Waiting(i) /\ Nacking(i)' = Nacking(i)
       /\ Rejections' = Rejections
       /\ \A e, d : Recorded(e, d)' = Recorded(e, d)
       /\ \A e \in Events : Told(e)' = Told(e)
       /\ \A e \in Events, n \in Nat : AckIn(outbox, n, e)' = AckIn(outbox, n, e)
  BY <1>1 DEF Waiting, Nacking, Rejections, Recorded, Told, AckIn
<1>11. /\ \A i \in DOMAIN tasks : Waiting(i) =>
            queue'[tasks[i].event] = queue[tasks[i].event]
       /\ \A k \in DOMAIN wire' : IsAnswer(wire'[k]) =>
            queue'[tasks[wire'[k].task].event] = queue[tasks[wire'[k].task].event]
  <2>1. \A i \in DOMAIN tasks : Waiting(i) /\ IsAnswer(f) => tasks[i].event # x
    BY <1>2 DEF IInv, Pipeline, NoneWaitsForWire
  <2>2. ASSUME NEW k \in DOMAIN wire', IsAnswer(wire'[k])
        PROVE  /\ wire'[k].task \in DOMAIN tasks
               /\ IsAnswer(f) => tasks[wire'[k].task].event # x
    <3>1. k + 1 \in DOMAIN wire /\ wire'[k] = wire[k + 1] /\ k + 1 # 1
      BY <1>2, <2>2
    <3>2. QED
      BY <1>2, <2>2, <3>1 DEF IInv, Pipeline, WirePlaced, OneOnWire
  <2>3. QED
    BY <1>7, <1>9, <2>1, <2>2
<1>12. \A e \in Events : queue[e] = "gone" => queue'[e] = "gone"
  BY <1>5, <1>7
<1> HIDE DEF f, x
<1>13. TypeOK'
  BY <1>1, <1>2, <1>7, <1>8 DEF IInv, TypeOK
<1>14. SetupClean' /\ ProbeStages' /\ NotStarted' /\ CountedIsTold'
  <2>1. SetupClean'
    BY <1>8 DEF SetupClean, SettingUp
  <2>2. probed = "own" /\ alternate = <<>>
    BY <1>1, <1>3 DEF IInv, ProbeStages, Running
  <2>3. ProbeStages'
    BY <1>1, <1>8, <2>2 DEF ProbeStages, SettingUp
  <2>4. NotStarted'
    BY <1>1 DEF IInv, NotStarted
  <2>5. \A e \in acknowledged : e \in Events
    BY DEF IInv, TypeOK
  <2>6. \A e \in acknowledged : Told(e)' \/ AckIn(outbox, Len(outbox), e)'
    <3>1. \A e \in Events : AckIn(outbox, Len(outbox), e)' = AckIn(outbox, Len(outbox), e)
      BY <1>1 DEF AckIn
    <3>2. QED
      BY <1>10, <2>5, <3>1 DEF IInv, CountedIsTold
  <2>7. CountedIsTold'
    BY <1>1, <2>6 DEF IInv, CountedIsTold
  <2>8. QED
    BY <2>1, <2>3, <2>4, <2>7
<1>15. Pipeline'
  <2>1. TasksPlaced'
    BY <1>1, <1>10, <1>11 DEF IInv, Pipeline, TasksPlaced
  <2>2. OutboxPlaced' /\ OneWaits' /\ OneInOutbox'
    BY <1>1, <1>10 DEF IInv, Pipeline, OutboxPlaced, OneWaits, OneInOutbox
  <2>3. WirePlaced'
    <3> SUFFICES ASSUME NEW k \in DOMAIN wire', IsAnswer(wire'[k])
                 PROVE  /\ wire'[k].task \in DOMAIN tasks
                        /\ tasks[wire'[k].task].pc = "done" /\ tasks[wire'[k].task].on = losses
                        /\ queue'[tasks[wire'[k].task].event] = "unacked"
                        /\ Recorded(tasks[wire'[k].task].event, Decision(wire'[k].kind)) # {}
      BY <1>1 DEF WirePlaced, Recorded
    <3>1. k + 1 \in DOMAIN wire /\ wire'[k] = wire[k + 1]
      BY <1>2
    <3>2. QED
      BY <1>11, <3>1 DEF IInv, Pipeline, WirePlaced
  <2>4. NoneWaitsForWire'
    BY <1>1, <1>2, <1>10 DEF IInv, Pipeline, NoneWaitsForWire
  <2>5. OneOnWire'
    <3> SUFFICES ASSUME NEW k \in DOMAIN wire', NEW l \in DOMAIN wire',
                        IsAnswer(wire'[k]), IsAnswer(wire'[l]),
                        tasks[wire'[k].task].event = tasks[wire'[l].task].event
                 PROVE  k = l
      BY <1>1 DEF OneOnWire
    <3>1. /\ k + 1 \in DOMAIN wire /\ wire'[k] = wire[k + 1]
          /\ l + 1 \in DOMAIN wire /\ wire'[l] = wire[l + 1]
      BY <1>2
    <3>2. k + 1 = l + 1
      BY <3>1 DEF IInv, Pipeline, OneOnWire
    <3>3. k \in Int /\ l \in Int
      BY <1>2
    <3>4. QED
      BY <3>2, <3>3
  <2>6. QED
    BY <2>1, <2>2, <2>3, <2>4, <2>5 DEF Pipeline
<1>16. GoneRecorded'
  <2> SUFFICES ASSUME NEW e \in Events, queue'[e] = "gone" PROVE Recorded(e, "ack") # {}
    BY <1>10 DEF GoneRecorded
  <2>1. CASE queue[e] = "gone"
    BY <1>1, <1>3, <2>1 DEF IInv, GoneRecorded, Running
  <2>2. CASE queue[e] # "gone"
    <3>1. IsAnswer(f) /\ e = x /\ f.kind = "ack"
      BY <1>4, <1>7, <2>2
    <3>2. QED
      BY <1>5, <3>1 DEF Decision
  <2>3. QED
    BY <2>1, <2>2
<1>17. CancelIsOfMain' /\ CancelAfterTold'
  <2>1. CancelIsOfMain'
    BY <1>1, <1>2, <1>8 DEF IInv, CancelIsOfMain, Running
  <2>2. CancelAfterTold'
    <3> SUFFICES ASSUME main' = "cancelling" PROVE CancelAfterTold'
      BY DEF CancelAfterTold
    <3>1. main = "cancelling"
      BY <1>8
    <3>2. \A c \in DOMAIN outbox : c - 1 \in Nat
      BY TypeFacts DEF IInv
    <3>3. QED
      BY <1>1, <1>2, <1>10, <3>1, <3>2 DEF IInv, CancelAfterTold
  <2>3. QED
    BY <2>1, <2>2
<1>18. ASSUME Consuming, IsAnswer(f), f.kind = "nack"
       PROVE  /\ x = rejected /\ Rejections # {} /\ Nacking(f.task)
              /\ \A i \in DOMAIN tasks : tasks[i].event = x => Nacking(i)
  <2>1. Nacking(f.task)
    BY <1>2, <1>18 DEF IInv, Story, KindsKnown, f
  <2>2. x = rejected
    BY <2>1 DEF Nacking, x
  <2>3. Rejections # {}
    BY <1>5, <1>18, <2>2 DEF Rejections, Decision
  <2>4. ASSUME NEW i \in DOMAIN tasks, tasks[i].event = x, ~Nacking(i)
        PROVE  FALSE
    <3>1. tasks[i].on = losses /\ tasks[i].pc # "failed"
      BY <1>9, <1>18 DEF IInv, Pipeline, TasksPlaced, Consuming
    <3>2. ~Waiting(i)
      BY <1>2, <1>18, <2>4 DEF IInv, Pipeline, NoneWaitsForWire, f, x
    <3>3. tasks[i].pc = "done"
      BY <3>1, <3>2, TypeFacts DEF IInv, Waiting
    <3>4. queue[x] # "gone"
      BY <1>5, <1>18
    <3>5. PICK k \in DOMAIN wire : IsAnswer(wire[k]) /\ wire[k].task = i
      BY <1>18, <2>4, <3>3, <3>4 DEF IInv, Story, DoneIsAnswered
    <3>6. k = 1
      BY <1>2, <1>18, <2>4, <3>5 DEF IInv, Pipeline, OneOnWire, f, x
    <3>7. QED
      BY <2>1, <2>4, <3>5, <3>6 DEF f
  <2>5. QED
    BY <2>1, <2>2, <2>3, <2>4
<1>19. Story'
  <2>1. CASE ~Consuming'
    BY <2>1 DEF Story, BackOnlyRejected, KindsKnown, OneOfEachKind, ReadyWasRejected,
                RejectedHasTask, DoneIsAnswered, RecordsOfDone
  <2>2. CASE Consuming'
    <3>1. Consuming
      BY <1>1, <1>3, <2>2 DEF Consuming
    <3>2. BackOnlyRejected'
      <4>1. ASSUME NEW e \in Events, redelivered'[e]
            PROVE  e = rejected /\ Rejections # {}
        <5>1. CASE redelivered[e]
          BY <3>1, <5>1 DEF IInv, Story, BackOnlyRejected
        <5>2. CASE ~redelivered[e]
          <6>1. IsAnswer(f) /\ f.kind = "nack" /\ e = x
            BY <1>4, <1>7, <4>1, <5>2
          <6>2. QED
            BY <1>18, <3>1, <6>1
        <5>3. QED
          BY <5>1, <5>2
      <4>2. QED
        BY <1>1, <1>10, <3>1, <4>1 DEF IInv, Story, BackOnlyRejected
    <3>3. KindsKnown'
      <4>1. \A k \in DOMAIN outbox : IsAnswer(outbox[k]) => outbox[k].task \in DOMAIN tasks
        BY DEF IInv, Pipeline, OutboxPlaced
      <4>2. \A k \in DOMAIN wire : IsAnswer(wire[k]) => wire[k].task \in DOMAIN tasks
        BY DEF IInv, Pipeline, WirePlaced
      <4>3. QED
        BY <1>1, <1>2, <1>10, <3>1, <4>1, <4>2 DEF IInv, Story, KindsKnown
    <3>4. OneOfEachKind' /\ RejectedHasTask'
      BY <1>1, <1>10, <3>1 DEF IInv, Story, OneOfEachKind, RejectedHasTask
    <3>5. ReadyWasRejected'
      <4> SUFFICES ASSUME NEW i \in DOMAIN tasks, queue'[tasks[i].event] = "ready"
                   PROVE  Nacking(i) /\ redelivered'[tasks[i].event]
        BY <1>1, <1>10 DEF ReadyWasRejected
      <4>1. CASE IsAnswer(f) /\ tasks[i].event = x
        BY <1>4, <1>7, <1>18, <3>1, <4>1
      <4>2. CASE ~(IsAnswer(f) /\ tasks[i].event = x)
        <5>1. /\ queue'[tasks[i].event] = queue[tasks[i].event]
              /\ redelivered'[tasks[i].event] = redelivered[tasks[i].event]
          BY <1>7, <1>9, <4>2
        <5>2. QED
          BY <3>1, <5>1 DEF IInv, Story, ReadyWasRejected
      <4>3. QED
        BY <4>1, <4>2
    <3>6. DoneIsAnswered'
      <4> SUFFICES ASSUME NEW i \in DOMAIN tasks, tasks[i].pc = "done", ~Nacking(i)
                   PROVE  \/ queue'[tasks[i].event] = "gone"
                          \/ \E k \in DOMAIN wire' : IsAnswer(wire'[k]) /\ wire'[k].task = i
        BY <1>1, <1>10 DEF DoneIsAnswered
      <4>1. CASE queue[tasks[i].event] = "gone"
        BY <1>9, <1>12, <4>1
      <4>2. CASE \E k \in DOMAIN wire : IsAnswer(wire[k]) /\ wire[k].task = i
        <5>1. PICK k \in DOMAIN wire : IsAnswer(wire[k]) /\ wire[k].task = i
          BY <4>2
        <5>2. CASE k = 1
          <6>1. IsAnswer(f) /\ f.task = i /\ x = tasks[i].event
            BY <5>1, <5>2 DEF f, x
          <6>2. f.kind = "ack"
            BY <1>4, <1>18, <3>1, <6>1
          <6>3. QED
            BY <1>7, <6>1, <6>2
        <5>3. CASE k # 1
          <6>1. k - 1 \in DOMAIN wire' /\ (k - 1) + 1 = k
            BY <1>2, <5>3
          <6>2. wire'[k - 1] = wire[k]
            BY <1>2, <6>1
          <6>3. QED
            BY <5>1, <6>1, <6>2
        <5>4. QED
          BY <5>2, <5>3
      <4>3. QED
        BY <3>1, <4>1, <4>2 DEF IInv, Story, DoneIsAnswered
    <3>7. RecordsOfDone'
      BY <1>1, <1>10, <3>1 DEF IInv, Story, RecordsOfDone
    <3>8. QED
      BY <3>2, <3>3, <3>4, <3>5, <3>6, <3>7 DEF Story
  <2>3. QED
    BY <2>1, <2>2
<1>20. AckUnderWay'
  <2> SUFFICES ASSUME Consuming' PROVE AckUnderWay'
    BY DEF AckUnderWay
  <2>1. Consuming /\ acknowledged \subseteq Events
    BY <1>1, <1>3 DEF Consuming, IInv, TypeOK
  <2>2. ASSUME NEW e \in Events, NEW n \in 0 .. Len(wire), AckIn(wire, n, e)
        PROVE  queue'[e] = "gone" \/ AckIn(wire, n - 1, e)'
    <3>1. PICK k \in 1 .. n : wire[k].kind = "ack" /\ tasks[wire[k].task].event = e
      BY <2>2 DEF AckIn
    <3>2. CASE k = 1
      BY <1>7, <3>1, <3>2 DEF f, x, IsAnswer
    <3>3. CASE k # 1
      <4>1. k - 1 \in 1 .. (n - 1) /\ k - 1 \in DOMAIN wire' /\ (k - 1) + 1 = k
        BY <1>2, <3>3
      <4>2. wire'[k - 1] = wire[k]
        BY <1>2, <4>1
      <4>3. QED
        BY <1>1, <3>1, <4>1, <4>2 DEF AckIn
    <3>4. QED
      BY <3>2, <3>3
  <2>3. \A e \in Events : AckIn(wire, Len(wire), e) => queue'[e] = "gone" \/ AckIn(wire, Len(wire), e)'
    <3> SUFFICES ASSUME NEW e \in Events, AckIn(wire, Len(wire), e), queue'[e] # "gone"
                 PROVE  AckIn(wire, Len(wire), e)'
      OBVIOUS
    <3>1. PICK k \in 1 .. (Len(wire) - 1) : wire'[k].kind = "ack" /\ tasks'[wire'[k].task].event = e
      BY <1>2, <2>2 DEF AckIn
    <3>2. QED
      BY <1>2, <3>1 DEF AckIn
  <2>4. \A e \in Events : AckIn(outbox, Len(outbox), e) => AckIn(outbox, Len(outbox), e)'
    BY <1>1 DEF AckIn
  <2>5. \A e \in acknowledged' :
           queue'[e] = "gone" \/ AckIn(wire, Len(wire), e)' \/ AckIn(outbox, Len(outbox), e)'
    BY <1>1, <1>12, <2>1, <2>3, <2>4 DEF IInv, AckUnderWay
  <2>6. ASSUME main' = "cancelling", NEW c \in DOMAIN outbox', ~IsAnswer(outbox'[c]), NEW e \in Events
        PROVE  queue'[e] = "gone" \/ AckIn(wire, Len(wire), e)' \/ AckIn(outbox, c - 1, e)'
    <3>1. main = "cancelling" /\ c \in DOMAIN outbox /\ ~IsAnswer(outbox[c]) /\ c - 1 \in Nat
      BY <1>1, <1>8, <2>6, TypeFacts DEF IInv
    <3>2. queue[e] = "gone" \/ AckIn(wire, Len(wire), e) \/ AckIn(outbox, c - 1, e)
      BY <2>1, <3>1 DEF IInv, AckUnderWay
    <3>3. AckIn(outbox, c - 1, e) => AckIn(outbox, c - 1, e)'
      BY <1>1 DEF AckIn
    <3>4. QED
      BY <1>12, <2>3, <3>2, <3>3
  <2>7. ASSUME main' = "cancelling", NEW c \in DOMAIN wire', ~IsAnswer(wire'[c]), NEW e \in Events
        PROVE  queue'[e] = "gone" \/ AckIn(wire, c - 1, e)'
    <3>1. main = "cancelling" /\ c + 1 \in DOMAIN wire /\ ~IsAnswer(wire[c + 1]) /\ c \in 0 .. Len(wire)
             /\ (c + 1) - 1 = c
      BY <1>2, <1>8, <2>7
    <3>2. queue[e] = "gone" \/ AckIn(wire, c, e)
      BY <2>1, <3>1 DEF IInv, AckUnderWay
    <3>3. QED
      BY <1>12, <2>2, <3>1, <3>2
  <2>8. QED
    BY <2>5, <2>6, <2>7 DEF AckUnderWay
<1>21. OnlyFirst' /\ BlockedOne'
  BY <1>1, <1>8 DEF IInv, OnlyFirst, BlockedOne
<1>22. Returned'
  <2> SUFFICES ASSUME main' = "returned" PROVE Returned'
    BY DEF Returned, WholeWithoutLoss, MissingWithLosses
  <2>1. main = "cancelling" /\ ~IsAnswer(wire[1]) /\ queue' = queue
    BY <1>1, <1>6 DEF f, Running
  <2>2. /\ \A e \in Events : Told(e)
        /\ losses = 0 => \A e \in Events : queue[e] = "gone" /\ Recorded(e, "ack") # {}
    BY <1>1, <2>1, CancelFindsAll
  <2>3. MissingWithLosses'
    <3> SUFFICES ASSUME NEW e \in Events, Recorded(e, "ack") = {}
                 PROVE  losses > 0 /\ \E i \in DOMAIN tasks : tasks[i].event = e /\ tasks[i].pc = "failed"
      BY <1>1, <1>10 DEF MissingWithLosses
    <3>1. PICK i \in DOMAIN tasks : tasks[i].event = e /\ tasks[i].pc = "failed"
      BY <2>2 DEF Told
    <3>2. losses > 0
      BY <1>9, <3>1 DEF IInv, Pipeline, TasksPlaced
    <3>3. QED
      BY <3>1, <3>2
  <2>4. WholeWithoutLoss'
    <3> SUFFICES ASSUME losses = 0
                 PROVE  /\ rejected # NoEvent
                        /\ \A e \in Events :
                             /\ queue[e] = "gone"
                             /\ \E k \in Recorded(e, "ack") :
                                  /\ Recorded(e, "ack") = {k}
                                  /\ deliveries[k].redelivered <=> e = rejected
                                  /\ IF e = rejected
                                     THEN \E j \in 1 .. k - 1 : Recorded(e, "nack-requeue") = {j}
                                     ELSE Recorded(e, "nack-requeue") = {}
      BY <1>1, <2>1 DEF WholeWithoutLoss, Recorded
    <3>1. Consuming
      BY <1>3 DEF Consuming
    <3>2. rejected # NoEvent
      <4>1. PICK e \in Events : Recorded(e, "ack") # {}
        BY <2>2, ConsumerAssumption
      <4>2. deliveries # <<>>
        BY <4>1 DEF Recorded
      <4>3. QED
        BY <4>2 DEF IInv, NotStarted
    <3>3. QED
      BY <2>2, <3>1, <3>2, RecordsAreWhole
  <2>5. QED
    BY <2>3, <2>4 DEF Returned
<1>23. QED
  BY <1>13, <1>14, <1>15, <1>16, <1>17, <1>19, <1>20, <1>21, <1>22 DEF IInv

-----------------------------------------------------------------------------
(* A handler answers, or finds its connection gone.                        *)

LEMMA AnswerStep ==
  ASSUME IInv, NEW i \in DOMAIN tasks, NEW kind \in {"ack", "nack"},
         tasks[i].pc \in {"new", "held"}, Answer(i, kind),
         UNCHANGED <<queue, losses, wire, deliveries>>
  PROVE  /\ tasks' \in Seq(Task) /\ DOMAIN tasks' = DOMAIN tasks /\ Len(tasks') = Len(tasks)
         /\ \A j \in DOMAIN tasks : /\ tasks'[j].event = tasks[j].event
                                    /\ tasks'[j].redelivered = tasks[j].redelivered
                                    /\ tasks'[j].on = tasks[j].on
                                    /\ j # i => tasks'[j].pc = tasks[j].pc
         /\ tasks'[i].pc = IF tasks[i].on = losses THEN "sending" ELSE "failed"
         /\ outbox' \in Seq(Frame)
         /\ DOMAIN outbox' = 1 .. Len(outbox') /\ Len(outbox') \in Nat /\ Len(outbox) <= Len(outbox')
         /\ \A k \in DOMAIN outbox : k \in DOMAIN outbox' /\ outbox'[k] = outbox[k]
         /\ \A k \in DOMAIN outbox' :
              \/ k \in DOMAIN outbox
              \/ /\ k = Len(outbox) + 1 /\ tasks[i].on = losses
                 /\ IsAnswer(outbox'[k]) /\ outbox'[k].kind = kind /\ outbox'[k].task = i
         /\ tasks[i].on = losses => Len(outbox) + 1 \in DOMAIN outbox'
         /\ Pipeline'
         /\ \A e \in Events, m \in Nat :
              /\ m <= Len(outbox) /\ AckIn(outbox, m, e) => AckIn(outbox, m, e)'
              /\ m <= Len(wire) /\ AckIn(wire, m, e) => AckIn(wire, m, e)'
         /\ \A e \in Events : Told(e) => Told(e)'
<1> DEFINE f == [kind |-> kind, task |-> i]
<1>1. /\ DOMAIN tasks = 1 .. Len(tasks) /\ Len(tasks) \in Nat /\ losses \in Nat
      /\ DOMAIN outbox = 1 .. Len(outbox) /\ Len(outbox) \in Nat /\ outbox \in Seq(Frame)
      /\ DOMAIN wire = 1 .. Len(wire) /\ Len(wire) \in Nat
      /\ \A j \in DOMAIN tasks : tasks[j].event \in Events /\ tasks[j].on \in Nat
  BY TypeFacts DEF IInv, TypeOK
<1>2. f \in Frame /\ f.kind = kind /\ f.task = i /\ IsAnswer(f)
  BY <1>1 DEF Frame, IsAnswer
<1>3. /\ tasks' \in Seq(Task) /\ DOMAIN tasks' = DOMAIN tasks /\ Len(tasks') = Len(tasks)
      /\ \A j \in DOMAIN tasks : /\ tasks'[j].event = tasks[j].event
                                 /\ tasks'[j].redelivered = tasks[j].redelivered
                                 /\ tasks'[j].on = tasks[j].on
                                 /\ j # i => tasks'[j].pc = tasks[j].pc
      /\ tasks'[i].pc = IF tasks[i].on = losses THEN "sending" ELSE "failed"
  <2>1. CASE tasks[i].on = losses
    BY <2>1, SetPc DEF IInv, Answer
  <2>2. CASE tasks[i].on # losses
    BY <2>2, SetPc DEF IInv, Answer
  <2>3. QED
    BY <2>1, <2>2
<1>4. /\ outbox' \in Seq(Frame)
      /\ DOMAIN outbox' = 1 .. Len(outbox') /\ Len(outbox') \in Nat /\ Len(outbox) <= Len(outbox')
      /\ \A k \in DOMAIN outbox : k \in DOMAIN outbox' /\ outbox'[k] = outbox[k]
      /\ \A k \in DOMAIN outbox' :
           k \in DOMAIN outbox \/ (k = Len(outbox) + 1 /\ tasks[i].on = losses /\ outbox'[k] = f)
      /\ tasks[i].on = losses => Len(outbox) + 1 \in DOMAIN outbox'
  <2>1. CASE tasks[i].on = losses
    <3>1. outbox' = Append(outbox, f)
      BY <2>1 DEF Answer
    <3>2. /\ Append(outbox, f) \in Seq(Frame)
          /\ Len(outbox') = Len(outbox) + 1
          /\ DOMAIN outbox' = 1 .. (Len(outbox) + 1)
          /\ \A k \in DOMAIN outbox : outbox'[k] = outbox[k]
          /\ outbox'[Len(outbox) + 1] = f
      BY <1>1, <1>2, <3>1, AppendFacts
    <3>3. QED
      BY <1>1, <2>1, <3>1, <3>2
  <2>2. CASE tasks[i].on # losses
    BY <1>1, <2>2 DEF Answer
  <2>3. QED
    BY <2>1, <2>2
<1> HIDE DEF f
<1>5. /\ \A k \in DOMAIN outbox : IsAnswer(outbox[k]) =>
            outbox[k].task \in DOMAIN tasks /\ outbox[k].task # i
      /\ \A k \in DOMAIN wire : IsAnswer(wire[k]) =>
            wire[k].task \in DOMAIN tasks /\ wire[k].task # i
  BY DEF IInv, Pipeline, OutboxPlaced, WirePlaced
<1>6. \A j \in DOMAIN tasks : Waiting(j)' => Waiting(j)
  BY <1>3 DEF Waiting
<1>7. Pipeline'
  <2>1. TasksPlaced'
    BY <1>1, <1>3, <1>6 DEF IInv, Pipeline, TasksPlaced
  <2>2. OutboxPlaced'
    BY <1>2, <1>3, <1>4, <1>5 DEF IInv, Pipeline, OutboxPlaced
  <2>3. WirePlaced'
    <3> SUFFICES ASSUME NEW k \in DOMAIN wire, IsAnswer(wire[k])
                 PROVE  /\ wire[k].task \in DOMAIN tasks'
                        /\ tasks'[wire[k].task].pc = "done" /\ tasks'[wire[k].task].on = losses
                        /\ queue[tasks'[wire[k].task].event] = "unacked"
                        /\ Recorded(tasks'[wire[k].task].event, Decision(wire[k].kind)) # {}
      BY DEF WirePlaced, Recorded
    <3>1. QED
      BY <1>3, <1>5 DEF IInv, Pipeline, WirePlaced
  <2>4. OneWaits' /\ NoneWaitsForWire' /\ OneOnWire'
    BY <1>3, <1>5, <1>6 DEF IInv, Pipeline, OneWaits, NoneWaitsForWire, OneOnWire
  <2>5. OneInOutbox'
    BY <1>2, <1>4, <1>5 DEF IInv, Pipeline, OneInOutbox
  <2>6. QED
    BY <2>1, <2>2, <2>3, <2>4, <2>5 DEF Pipeline
<1>8. \A e \in Events, m \in Nat :
        /\ m <= Len(outbox) /\ AckIn(outbox, m, e) => AckIn(outbox, m, e)'
        /\ m <= Len(wire) /\ AckIn(wire, m, e) => AckIn(wire, m, e)'
  <2> SUFFICES ASSUME NEW e \in Events, NEW m \in Nat
               PROVE  /\ m <= Len(outbox) /\ AckIn(outbox, m, e) => AckIn(outbox, m, e)'
                      /\ m <= Len(wire) /\ AckIn(wire, m, e) => AckIn(wire, m, e)'
    OBVIOUS
  <2>1. \A k \in DOMAIN outbox : outbox[k].kind = "ack" =>
          outbox'[k] = outbox[k] /\ tasks'[outbox[k].task].event = tasks[outbox[k].task].event
    BY <1>3, <1>4, <1>5 DEF IsAnswer
  <2>2. \A k \in DOMAIN wire : wire[k].kind = "ack" =>
          tasks'[wire[k].task].event = tasks[wire[k].task].event
    BY <1>3, <1>5 DEF IsAnswer
  <2>3. ASSUME m <= Len(outbox), AckIn(outbox, m, e) PROVE AckIn(outbox, m, e)'
    <3>1. PICK k \in 1 .. m : outbox[k].kind = "ack" /\ tasks[outbox[k].task].event = e
      BY <2>3 DEF AckIn
    <3>2. k \in DOMAIN outbox
      BY <1>1, <2>3
    <3>3. outbox'[k].kind = "ack" /\ tasks'[outbox'[k].task].event = e
      BY <2>1, <3>1, <3>2
    <3>4. QED
      BY <3>3 DEF AckIn
  <2>4. ASSUME m <= Len(wire), AckIn(wire, m, e) PROVE AckIn(wire, m, e)'
    <3>1. PICK k \in 1 .. m : wire[k].kind = "ack" /\ tasks[wire[k].task].event = e
      BY <2>4 DEF AckIn
    <3>2. k \in DOMAIN wire
      BY <1>1, <2>4
    <3>3. wire'[k].kind = "ack" /\ tasks'[wire'[k].task].event = e
      BY <2>2, <3>1, <3>2
    <3>4. QED
      BY <3>3 DEF AckIn
  <2>5. QED
    BY <2>3, <2>4
<1>9. \A e \in Events : Told(e) => Told(e)'
  <2>1. \A j \in DOMAIN tasks : tasks[j].pc = "failed" => tasks'[j].pc = "failed"
    BY <1>3
  <2>2. QED
    BY <1>3, <2>1 DEF Told, Recorded
<1>10. QED
  BY <1>2, <1>3, <1>4, <1>7, <1>8, <1>9

(* The parts that hold whichever answer it is.                             *)
LEMMA AnswerKeeps ==
  ASSUME IInv, NEW i \in DOMAIN tasks, NEW kind \in {"ack", "nack"},
         tasks[i].pc \in {"new", "held"}, Answer(i, kind), Running, rejected # NoEvent,
         UNCHANGED <<prefetch, brokerVars, wire, main, blocked, rejected, deliveries, allAcked, probeVars>>,
         acknowledged' = acknowledged \/ (kind = "ack" /\ acknowledged' = acknowledged \union {tasks[i].event}),
         attempts' \in Nat,
         Consuming => (kind = "nack" <=> Nacking(i)),
         ~(prefetch = 1 /\ losses = 0 /\ main \in {"first", "second"})
  PROVE  IInv'
<1>0. UNCHANGED <<queue, redelivered, losses, alternate, probed>>
  BY DEF brokerVars, probeVars
<1>1. /\ tasks' \in Seq(Task) /\ DOMAIN tasks' = DOMAIN tasks /\ Len(tasks') = Len(tasks)
      /\ \A j \in DOMAIN tasks : /\ tasks'[j].event = tasks[j].event
                                 /\ tasks'[j].redelivered = tasks[j].redelivered
                                 /\ tasks'[j].on = tasks[j].on
                                 /\ j # i => tasks'[j].pc = tasks[j].pc
      /\ tasks'[i].pc = IF tasks[i].on = losses THEN "sending" ELSE "failed"
  BY <1>0, AnswerStep
<1>2. /\ outbox' \in Seq(Frame)
      /\ DOMAIN outbox' = 1 .. Len(outbox') /\ Len(outbox') \in Nat /\ Len(outbox) <= Len(outbox')
      /\ \A k \in DOMAIN outbox : k \in DOMAIN outbox' /\ outbox'[k] = outbox[k]
      /\ \A k \in DOMAIN outbox' :
           \/ k \in DOMAIN outbox
           \/ /\ k = Len(outbox) + 1 /\ tasks[i].on = losses
              /\ IsAnswer(outbox'[k]) /\ outbox'[k].kind = kind /\ outbox'[k].task = i
      /\ tasks[i].on = losses => Len(outbox) + 1 \in DOMAIN outbox'
  BY <1>0, AnswerStep
<1>3. /\ Pipeline'
      /\ \A e \in Events, m \in Nat :
           /\ m <= Len(outbox) /\ AckIn(outbox, m, e) => AckIn(outbox, m, e)'
           /\ m <= Len(wire) /\ AckIn(wire, m, e) => AckIn(wire, m, e)'
      /\ \A e \in Events : Told(e) => Told(e)'
  BY <1>0, AnswerStep
<1>4. /\ DOMAIN outbox = 1 .. Len(outbox) /\ Len(outbox) \in Nat
      /\ DOMAIN wire = 1 .. Len(wire) /\ Len(wire) \in Nat
      /\ \A j \in DOMAIN tasks : tasks[j].event \in Events
      /\ losses \in Nat /\ tasks[i].on \in Nat
      /\ acknowledged \subseteq Events
  BY TypeFacts DEF IInv, TypeOK
<1>5. ~SettingUp /\ ~SettingUp' /\ Running'
  BY DEF IInv, SetupClean, SettingUp, Running
<1>6. TypeOK'
  BY <1>0, <1>1, <1>2, <1>4 DEF IInv, TypeOK
<1>7. SetupClean' /\ ProbeStages' /\ GoneRecorded' /\ NotStarted'
  BY <1>0, <1>5 DEF IInv, SetupClean, ProbeStages, SettingUp, GoneRecorded, Recorded, NotStarted
<1>8. ASSUME NEW e \in Events, NEW m \in Nat, m <= Len(outbox), AckIn(outbox, m, e)
      PROVE  AckIn(outbox, Len(outbox), e)'
  <2>1. PICK k \in 1 .. m : outbox[k].kind = "ack" /\ tasks[outbox[k].task].event = e
    BY <1>8 DEF AckIn
  <2>2. k \in 1 .. Len(outbox') /\ outbox'[k] = outbox[k] /\ outbox[k].task \in DOMAIN tasks
    BY <1>2, <1>4, <1>8, <2>1 DEF IInv, Pipeline, OutboxPlaced, IsAnswer
  <2>3. QED
    BY <1>1, <2>1, <2>2 DEF AckIn
<1>9. ASSUME kind = "ack", tasks[i].on = losses, NEW e, e = tasks[i].event
      PROVE  AckIn(outbox, Len(outbox), e)'
  <2>1. /\ Len(outbox) + 1 \in 1 .. Len(outbox')
        /\ outbox'[Len(outbox) + 1].kind = "ack" /\ outbox'[Len(outbox) + 1].task = i
    BY <1>2, <1>4, <1>9
  <2>2. tasks'[i].event = e
    BY <1>1, <1>9
  <2>3. QED
    BY <2>1, <2>2 DEF AckIn
<1>10. CountedIsTold'
  <2>1. ASSUME NEW e \in acknowledged
        PROVE  Told(e)' \/ AckIn(outbox, Len(outbox), e)'
    BY <1>3, <1>4, <1>8 DEF IInv, CountedIsTold
  <2>2. ASSUME kind = "ack", NEW e, e = tasks[i].event
        PROVE  Told(e)' \/ AckIn(outbox, Len(outbox), e)'
    <3>1. CASE tasks[i].on # losses
      <4>1. tasks'[i].pc = "failed" /\ tasks'[i].event = tasks[i].event
        BY <1>1, <3>1
      <4>2. QED
        BY <1>1, <2>2, <4>1 DEF Told
    <3>2. QED
      BY <1>9, <2>2, <3>1
  <2>3. \A e \in acknowledged' : Told(e)' \/ AckIn(outbox, Len(outbox), e)'
    <3>1. \A e \in acknowledged' : e \in acknowledged \/ (kind = "ack" /\ e = tasks[i].event)
      OBVIOUS
    <3>2. QED
      BY <2>1, <2>2, <3>1
  <2>4. allAcked' => acknowledged' = Events
    <3>1. allAcked' = allAcked
      OBVIOUS
    <3>2. acknowledged = Events => acknowledged' = Events
      BY <1>4
    <3>3. allAcked => acknowledged = Events
      BY DEF IInv, CountedIsTold
    <3>4. QED
      BY <3>1, <3>2, <3>3
  <2>5. QED
    BY <2>3, <2>4 DEF CountedIsTold
<1>11. CancelIsOfMain' /\ CancelAfterTold'
  <2>1. CancelIsOfMain'
    BY <1>2, <1>5 DEF IInv, CancelIsOfMain, Running
  <2>2. \A c \in DOMAIN outbox' : ~IsAnswer(outbox'[c]) =>
           c \in DOMAIN outbox /\ ~IsAnswer(outbox[c]) /\ c - 1 \in Nat /\ c - 1 <= Len(outbox)
    BY <1>2, <1>4
  <2>3. CancelAfterTold'
    BY <1>3, <2>2 DEF IInv, CancelAfterTold
  <2>4. QED
    BY <2>1, <2>3
<1>12. Story'
  <2>1. CASE ~Consuming'
    BY <2>1 DEF Story, BackOnlyRejected, KindsKnown, OneOfEachKind, ReadyWasRejected,
                RejectedHasTask, DoneIsAnswered, RecordsOfDone
  <2>2. CASE Consuming'
    <3>1. Consuming
      BY <1>0, <1>5, <2>2 DEF Consuming
    <3>2. tasks[i].on = losses
      BY <1>4, <3>1 DEF IInv, Pipeline, TasksPlaced, Consuming
    <3>3. /\ \A j \in DOMAIN tasks : Nacking(j)' <=> Nacking(j)
          /\ Rejections' = Rejections
      BY <1>1 DEF Nacking, Rejections, Recorded
    <3>4. BackOnlyRejected'
      BY <1>0, <1>1, <3>1, <3>3 DEF IInv, Story, BackOnlyRejected
    <3>5. KindsKnown'
      <4>1. \A k \in DOMAIN outbox : IsAnswer(outbox[k]) => outbox[k].task \in DOMAIN tasks
        BY DEF IInv, Pipeline, OutboxPlaced
      <4>2. \A k \in DOMAIN wire : IsAnswer(wire[k]) => wire[k].task \in DOMAIN tasks
        BY DEF IInv, Pipeline, WirePlaced
      <4>3. ASSUME NEW k \in DOMAIN outbox', IsAnswer(outbox'[k])
            PROVE  outbox'[k].kind = "nack" <=> Nacking(outbox[k].task)'
        <5>1. CASE k \in DOMAIN outbox
          <6>1. PICK j \in DOMAIN tasks : j = outbox[k].task /\ j = outbox'[k].task
            BY <1>2, <4>1, <4>3, <5>1
          <6>2. outbox[k].kind = "nack" <=> Nacking(j)
            BY <1>2, <3>1, <4>3, <5>1, <6>1 DEF IInv, Story, KindsKnown
          <6>3. outbox'[k].kind = "nack" <=> Nacking(j)'
            BY <1>2, <3>3, <5>1, <6>2
          <6>4. QED
            BY <6>1, <6>3 DEF Nacking
        <5>2. CASE k \notin DOMAIN outbox
          <6>1. outbox'[k].kind = kind /\ outbox'[k].task = i
            BY <1>2, <5>2
          <6>2. kind = "nack" <=> Nacking(i)'
            BY <3>1, <3>3
          <6>3. QED
            BY <6>1, <6>2 DEF Nacking
        <5>3. QED
          BY <5>1, <5>2
      <4>4. ASSUME NEW k \in DOMAIN wire, IsAnswer(wire[k])
            PROVE  wire[k].kind = "nack" <=> Nacking(wire[k].task)'
        <5>1. PICK j \in DOMAIN tasks : j = wire[k].task
          BY <4>2, <4>4
        <5>2. wire[k].kind = "nack" <=> Nacking(j)'
          BY <3>1, <3>3, <4>4, <5>1 DEF IInv, Story, KindsKnown
        <5>3. QED
          BY <5>1, <5>2 DEF Nacking
      <4>5. \A j \in DOMAIN tasks :
               /\ tasks'[j].pc = "new" => ~Nacking(j)'
               /\ tasks'[j].pc = "held" => Nacking(j)'
        BY <1>1, <3>1, <3>2, <3>3 DEF IInv, Story, KindsKnown
      <4>6. QED
        BY <1>1, <4>3, <4>4, <4>5 DEF KindsKnown
    <3>6. OneOfEachKind' /\ ReadyWasRejected' /\ RejectedHasTask'
      BY <1>0, <1>1, <3>1, <3>3 DEF IInv, Story, OneOfEachKind, ReadyWasRejected, RejectedHasTask
    <3>7. DoneIsAnswered'
      BY <1>0, <1>1, <3>1, <3>2, <3>3 DEF IInv, Story, DoneIsAnswered
    <3>8. RecordsOfDone'
      <4>1. \A j \in DOMAIN tasks : tasks[j].pc = "done" => tasks'[j].pc = "done"
        BY <1>1
      <4>2. QED
        BY <1>0, <1>1, <3>1, <3>3, <4>1 DEF IInv, Story, RecordsOfDone
    <3>9. QED
      BY <3>4, <3>5, <3>6, <3>7, <3>8 DEF Story
  <2>3. QED
    BY <2>1, <2>2
<1>13. AckUnderWay'
  <2> SUFFICES ASSUME Consuming' PROVE AckUnderWay'
    BY DEF AckUnderWay
  <2>1. Consuming /\ tasks[i].on = losses
    BY <1>0, <1>4, <1>5 DEF IInv, Pipeline, TasksPlaced, Consuming
  <2>2. \A e \in Events : AckIn(wire, Len(wire), e) => AckIn(wire, Len(wire), e)'
    BY <1>3, <1>4
  <2>3. ASSUME NEW e \in acknowledged'
        PROVE  queue[e] = "gone" \/ AckIn(wire, Len(wire), e)' \/ AckIn(outbox, Len(outbox), e)'
    <3>1. CASE e \in acknowledged
      BY <1>4, <1>8, <2>1, <2>2, <3>1 DEF IInv, AckUnderWay
    <3>2. CASE kind = "ack" /\ e = tasks[i].event
      BY <1>9, <2>1, <3>2
    <3>3. QED
      BY <3>1, <3>2
  <2>4. ASSUME main = "cancelling", NEW c \in DOMAIN outbox', ~IsAnswer(outbox'[c]), NEW e \in Events
        PROVE  queue[e] = "gone" \/ AckIn(wire, Len(wire), e)' \/ AckIn(outbox, c - 1, e)'
    <3>1. c \in DOMAIN outbox /\ ~IsAnswer(outbox[c]) /\ c - 1 \in Nat /\ c - 1 <= Len(outbox)
      BY <1>2, <1>4, <2>4
    <3>2. queue[e] = "gone" \/ AckIn(wire, Len(wire), e) \/ AckIn(outbox, c - 1, e)
      BY <2>1, <2>4, <3>1 DEF IInv, AckUnderWay
    <3>3. QED
      BY <1>3, <2>2, <3>1, <3>2
  <2>5. ASSUME main = "cancelling", NEW c \in DOMAIN wire, ~IsAnswer(wire[c]), NEW e \in Events
        PROVE  queue[e] = "gone" \/ AckIn(wire, c - 1, e)'
    <3>1. c - 1 \in Nat /\ c - 1 <= Len(wire)
      BY <1>4
    <3>2. QED
      BY <1>3, <2>1, <2>5, <3>1 DEF IInv, AckUnderWay
  <2>6. QED
    BY <1>0, <2>3, <2>4, <2>5 DEF AckUnderWay
<1>14. OnlyFirst' /\ BlockedOne' /\ Returned'
  BY <1>0, <1>5 DEF IInv, OnlyFirst, BlockedOne, Returned, WholeWithoutLoss, MissingWithLosses, Running
<1>15. QED
  BY <1>3, <1>6, <1>7, <1>10, <1>11, <1>12, <1>13, <1>14 DEF IInv

-----------------------------------------------------------------------------
(* Before anything is rejected there is no answer, no record, and nothing  *)
(* that is told.                                                           *)
LEMMA NothingTold ==
  ASSUME IInv, rejected = NoEvent
  PROVE  /\ \A k \in DOMAIN outbox : ~IsAnswer(outbox[k])
         /\ \A k \in DOMAIN wire : ~IsAnswer(wire[k])
         /\ \A e, d : Recorded(e, d) = {}
         /\ \A e : ~Told(e)
         /\ \A e, n : AckIn(outbox, n, e) /\ n \in Nat => n > Len(outbox)
         /\ \A e, n : AckIn(wire, n, e) /\ n \in Nat => n > Len(wire)
<1>1. /\ \A i \in DOMAIN tasks : tasks[i].pc = "new"
      /\ deliveries = <<>>
  BY DEF IInv, NotStarted
<1>2. /\ \A k \in DOMAIN outbox : ~IsAnswer(outbox[k])
      /\ \A k \in DOMAIN wire : ~IsAnswer(wire[k])
  BY <1>1 DEF IInv, Pipeline, OutboxPlaced, WirePlaced
<1>3. \A e, d : Recorded(e, d) = {}
  BY <1>1 DEF Recorded
<1>4. \A e : ~Told(e)
  BY <1>1, <1>3 DEF Told
<1>5. /\ DOMAIN outbox = 1 .. Len(outbox) /\ Len(outbox) \in Nat
      /\ DOMAIN wire = 1 .. Len(wire) /\ Len(wire) \in Nat
  BY TypeFacts DEF IInv
<1>6. ASSUME NEW e, NEW n \in Nat, AckIn(outbox, n, e)
      PROVE  n > Len(outbox)
  <2>1. PICK k \in 1 .. n : outbox[k].kind = "ack"
    BY <1>6 DEF AckIn
  <2>2. k \notin DOMAIN outbox
    BY <1>2, <2>1 DEF IsAnswer
  <2>3. QED
    BY <1>5, <2>2
<1>7. ASSUME NEW e, NEW n \in Nat, AckIn(wire, n, e)
      PROVE  n > Len(wire)
  <2>1. PICK k \in 1 .. n : wire[k].kind = "ack"
    BY <1>7 DEF AckIn
  <2>2. k \notin DOMAIN wire
    BY <1>2, <2>1 DEF IsAnswer
  <2>3. QED
    BY <1>5, <2>2
<1>8. QED
  BY <1>2, <1>3, <1>4, <1>6, <1>7

(* One delivery, held.                                                     *)
LEMMA OneHeld ==
  ASSUME attempts' = 1, rejected' # NoEvent, tasks'[1].pc = "held", Len(tasks') = 1,
         outbox' = <<>>, wire' = <<>>, main' # "second"
  PROVE  OnlyFirst'
BY DEF OnlyFirst

(* The first handler to run keeps its delivery.                            *)
LEMMA HoldFirstStep ==
  ASSUME IInv, NEW i \in DOMAIN tasks, Running, tasks[i].pc = "new", attempts' = attempts + 1,
         rejected = NoEvent, rejected' = tasks[i].event,
         tasks' = [tasks EXCEPT ![i].pc = "held"],
         UNCHANGED <<prefetch, queue, redelivered, losses, outbox, wire, main, blocked,
                     acknowledged, deliveries, allAcked, alternate, probed>>
  PROVE  IInv'
<1>1. /\ tasks' \in Seq(Task) /\ DOMAIN tasks' = DOMAIN tasks /\ Len(tasks') = Len(tasks)
      /\ \A j \in DOMAIN tasks : /\ tasks'[j].event = tasks[j].event
                                 /\ tasks'[j].redelivered = tasks[j].redelivered
                                 /\ tasks'[j].on = tasks[j].on
                                 /\ j # i => tasks'[j].pc = tasks[j].pc
      /\ tasks'[i].pc = "held"
  BY SetPc DEF IInv
<1>2. /\ DOMAIN tasks = 1 .. Len(tasks) /\ Len(tasks) \in Nat
      /\ \A j \in DOMAIN tasks : tasks[j].event \in Events /\ tasks[j].redelivered \in BOOLEAN
      /\ DOMAIN outbox = 1 .. Len(outbox) /\ Len(outbox) \in Nat
      /\ DOMAIN wire = 1 .. Len(wire) /\ Len(wire) \in Nat
      /\ \A e \in Events : e # NoEvent
  BY TypeFacts, ConsumerAssumption DEF IInv
<1>3. /\ \A j \in DOMAIN tasks : tasks[j].pc = "new"
      /\ deliveries = <<>> /\ acknowledged = {}
  BY DEF IInv, NotStarted
<1>4. /\ \A k \in DOMAIN outbox : ~IsAnswer(outbox[k])
      /\ \A k \in DOMAIN wire : ~IsAnswer(wire[k])
      /\ \A e : ~Told(e)
      /\ \A n \in Nat, e \in Events : n <= Len(outbox) => ~AckIn(outbox, n, e)
      /\ \A n \in Nat, e \in Events : n <= Len(wire) => ~AckIn(wire, n, e)
  <2>1. \A k \in DOMAIN outbox : ~IsAnswer(outbox[k])
    BY NothingTold
  <2>2. \A k \in DOMAIN wire : ~IsAnswer(wire[k])
    BY NothingTold
  <2>3. \A e : ~Told(e)
    BY NothingTold
  <2>4. \A n \in Nat, e \in Events : n <= Len(outbox) => ~AckIn(outbox, n, e)
    BY <1>2, NothingTold
  <2>5. \A n \in Nat, e \in Events : n <= Len(wire) => ~AckIn(wire, n, e)
    BY <1>2, NothingTold
  <2>6. QED
    BY <2>1, <2>2, <2>3, <2>4, <2>5
<1>5. ~allAcked
  BY <1>3, ConsumerAssumption DEF IInv, CountedIsTold
<1>6. ~SettingUp /\ ~SettingUp' /\ Running'
  <2>1. tasks # <<>>
    BY <1>2
  <2>2. QED
    BY <2>1 DEF IInv, SetupClean, SettingUp, Running
<1>7. TypeOK'
  <2>1. attempts' \in Nat /\ rejected' \in Events \union {NoEvent}
    <3>1. attempts \in Nat
      BY DEF IInv, TypeOK
    <3>2. QED
      BY <1>2, <3>1
  <2>2. QED
    BY <1>1, <2>1 DEF IInv, TypeOK
<1>8. SetupClean' /\ ProbeStages' /\ GoneRecorded' /\ NotStarted'
  <2>1. SetupClean' /\ NotStarted'
    BY <1>2, <1>6 DEF SetupClean, NotStarted, SettingUp
  <2>2. ProbeStages' /\ GoneRecorded'
    BY DEF IInv, ProbeStages, SettingUp, GoneRecorded, Recorded
  <2>3. QED
    BY <2>1, <2>2
<1>9. Pipeline'
  <2>1. \A j \in DOMAIN tasks : Waiting(j)' => Waiting(j)
    BY <1>1, <1>3 DEF Waiting
  <2>2. TasksPlaced' /\ OneWaits'
    BY <1>1, <2>1 DEF IInv, Pipeline, TasksPlaced, OneWaits
  <2>3. OutboxPlaced' /\ WirePlaced' /\ NoneWaitsForWire' /\ OneOnWire' /\ OneInOutbox'
    BY <1>4 DEF OutboxPlaced, WirePlaced, NoneWaitsForWire, OneOnWire, OneInOutbox
  <2>4. QED
    BY <2>2, <2>3 DEF Pipeline
<1>10. CountedIsTold'
  BY <1>3, <1>5 DEF CountedIsTold
<1>11. CancelIsOfMain' /\ CancelAfterTold'
  <2>1. CancelIsOfMain'
    BY DEF IInv, CancelIsOfMain, Running
  <2>2. PICK e \in Events : TRUE
    BY ConsumerAssumption
  <2>3. ASSUME main = "cancelling", NEW c \in DOMAIN outbox, ~IsAnswer(outbox[c])
        PROVE  FALSE
    <3>1. c - 1 \in Nat /\ c - 1 <= Len(outbox)
      BY <1>2
    <3>2. QED
      BY <1>4, <2>3, <3>1, <2>2 DEF IInv, CancelAfterTold
  <2>4. ASSUME main = "cancelling", NEW c \in DOMAIN wire, ~IsAnswer(wire[c])
        PROVE  FALSE
    BY <1>4, <2>4, <2>2 DEF IInv, CancelAfterTold
  <2>5. CancelAfterTold'
    BY <2>3, <2>4 DEF CancelAfterTold
  <2>6. QED
    BY <2>1, <2>5
<1>12. Story'
  <2>1. CASE ~Consuming'
    BY <2>1 DEF Story, BackOnlyRejected, KindsKnown, OneOfEachKind, ReadyWasRejected,
                RejectedHasTask, DoneIsAnswered, RecordsOfDone
  <2>2. CASE Consuming'
    <3>1. Consuming
      BY <1>6, <2>2 DEF Consuming
    <3>2. /\ \A e \in Events : ~redelivered[e]
          /\ \A j \in DOMAIN tasks : ~tasks[j].redelivered
      BY <1>2, <3>1 DEF IInv, Story, BackOnlyRejected
    <3>3. \A j \in DOMAIN tasks : ~tasks'[j].redelivered
      BY <1>1, <3>2
    <3>4. BackOnlyRejected'
      BY <1>1, <3>2, <3>3 DEF BackOnlyRejected
    <3>5. \A j \in DOMAIN tasks : tasks[j].event = tasks[i].event => j = i
      <4>1. \A j \in DOMAIN tasks : tasks[j].redelivered = tasks[i].redelivered
        BY <1>2, <3>2
      <4>2. QED
        BY <3>1, <4>1 DEF IInv, Story, OneOfEachKind
    <3>6. Nacking(i)' /\ \A j \in DOMAIN tasks : Nacking(j)' => j = i
      BY <1>1, <3>3, <3>5 DEF Nacking
    <3>7. KindsKnown'
      BY <1>1, <1>3, <1>4, <3>6 DEF KindsKnown
    <3>8. OneOfEachKind' /\ RejectedHasTask'
      BY <1>1, <3>1, <3>6 DEF IInv, Story, OneOfEachKind, RejectedHasTask
    <3>9. ReadyWasRejected'
      <4>1. \A j \in DOMAIN tasks : queue[tasks[j].event] # "ready"
        BY <1>2, <3>1, <3>2 DEF IInv, Story, ReadyWasRejected
      <4>2. QED
        BY <1>1, <4>1 DEF ReadyWasRejected
    <3>10. DoneIsAnswered' /\ RecordsOfDone'
      <4>1. \A j \in DOMAIN tasks : tasks'[j].pc # "done"
        BY <1>1, <1>3
      <4>2. DOMAIN deliveries' = {}
        BY <1>3
      <4>3. QED
        BY <1>1, <4>1, <4>2 DEF DoneIsAnswered, RecordsOfDone
    <3>11. QED
      BY <3>4, <3>7, <3>8, <3>9, <3>10 DEF Story
  <2>3. QED
    BY <2>1, <2>2
<1>13. AckUnderWay'
  <2> SUFFICES ASSUME Consuming' PROVE AckUnderWay'
    BY DEF AckUnderWay
  <2>1. Consuming
    BY <1>6 DEF Consuming
  <2>2. ASSUME main = "cancelling", NEW c \in DOMAIN outbox, ~IsAnswer(outbox[c]), NEW e \in Events
        PROVE  queue[e] = "gone"
    <3>1. c - 1 \in Nat /\ c - 1 <= Len(outbox)
      BY <1>2
    <3>2. QED
      BY <1>2, <1>4, <2>1, <2>2, <3>1 DEF IInv, AckUnderWay
  <2>3. ASSUME main = "cancelling", NEW c \in DOMAIN wire, ~IsAnswer(wire[c]), NEW e \in Events
        PROVE  queue[e] = "gone"
    <3>1. c - 1 \in Nat /\ c - 1 <= Len(wire)
      BY <1>2
    <3>2. QED
      BY <1>4, <2>1, <2>3, <3>1 DEF IInv, AckUnderWay
  <2>4. QED
    BY <1>3, <2>2, <2>3 DEF AckUnderWay
<1>14. OnlyFirst'
  <2> SUFFICES ASSUME prefetch = 1, losses = 0, main \in {"first", "second"} PROVE OnlyFirst'
    BY DEF OnlyFirst
  <2>1. /\ outbox = <<>> /\ wire = <<>> /\ Len(tasks) = 1 /\ i = 1 /\ attempts = 0
        /\ main # "second"
    <3>1. Len(tasks) <= 1 /\ outbox = <<>> /\ wire = <<>> /\ main # "second"
      BY DEF IInv, OnlyFirst
    <3>2. Len(tasks) = 1 /\ i = 1
      BY <1>2, <3>1
    <3>3. attempts = 0
      BY <3>2 DEF IInv, OnlyFirst
    <3>4. QED
      BY <3>1, <3>2, <3>3
  <2>2. attempts' = 1 /\ rejected' # NoEvent /\ tasks'[1].pc = "held" /\ Len(tasks') = 1
    BY <1>1, <1>2, <2>1
  <2>3. outbox' = <<>> /\ wire' = <<>> /\ main' # "second"
    BY <2>1
  <2>4. QED
    BY <2>2, <2>3, OneHeld
<1>15. BlockedOne' /\ Returned'
  BY <1>6 DEF IInv, BlockedOne, Returned, WholeWithoutLoss, MissingWithLosses, Running
<1>16. QED
  BY <1>7, <1>8, <1>9, <1>10, <1>11, <1>12, <1>13, <1>14, <1>15 DEF IInv

LEMMA StartHandlerStep ==
  ASSUME IInv, NEW i \in DOMAIN tasks, StartHandler(i)
  PROVE  IInv'
<1>1. Running /\ tasks[i].pc = "new" /\ attempts' = attempts + 1 /\ attempts' \in Nat
  <2>1. attempts \in Nat
    BY DEF IInv, TypeOK
  <2>2. Running /\ tasks[i].pc = "new" /\ attempts' = attempts + 1
    BY DEF StartHandler
  <2>3. QED
    BY <2>1, <2>2
<1>2. CASE rejected = NoEvent
  BY <1>1, <1>2, HoldFirstStep DEF StartHandler, brokerVars, probeVars
<1>3. CASE rejected # NoEvent
  <2>1. Consuming => ~Nacking(i)
    BY <1>1 DEF IInv, Story, KindsKnown
  <2>2. ~(prefetch = 1 /\ losses = 0 /\ main \in {"first", "second"})
    <3> SUFFICES ASSUME prefetch = 1, losses = 0, main \in {"first", "second"} PROVE FALSE
      OBVIOUS
    <3>1. Len(tasks) <= 1 /\ DOMAIN tasks = 1 .. Len(tasks) /\ Len(tasks) \in Nat
      BY TypeFacts DEF IInv, OnlyFirst
    <3>2. Len(tasks) = 1 /\ i = 1
      BY <3>1
    <3>3. QED
      BY <1>1, <1>3, <3>2 DEF IInv, OnlyFirst
  <2>3. /\ Answer(i, "ack")
        /\ UNCHANGED <<prefetch, brokerVars, wire, main, blocked, rejected, deliveries, allAcked, probeVars>>
        /\ acknowledged' = acknowledged \union {tasks[i].event}
    BY <1>3 DEF StartHandler
  <2>4. QED
    BY <1>1, <1>3, <2>1, <2>2, <2>3, AnswerKeeps
<1>4. QED
  BY <1>2, <1>3

LEMMA RejectFirstStep ==
  ASSUME IInv, NEW i \in DOMAIN tasks, RejectFirst(i)
  PROVE  IInv'
<1>1. /\ Running /\ tasks[i].pc = "held" /\ main \notin {"first", "second"} /\ attempts' \in Nat
      /\ Answer(i, "nack")
      /\ UNCHANGED <<prefetch, brokerVars, wire, main, blocked, rejected, deliveries, allAcked, probeVars>>
      /\ acknowledged' = acknowledged
  BY DEF RejectFirst, FirstReleased, handlerVars, IInv, TypeOK
<1>2. rejected # NoEvent
  BY <1>1 DEF IInv, NotStarted
<1>3. Consuming => Nacking(i)
  BY <1>1 DEF IInv, Story, KindsKnown
<1>4. QED
  BY <1>1, <1>2, <1>3, AnswerKeeps

-----------------------------------------------------------------------------
(* A frame is written: the outbox loses its head, the wire gains it.       *)

LEMMA WriteShift ==
  ASSUME IInv, outbox # <<>>, outbox' = Tail(outbox), wire' = Append(wire, Head(outbox))
  PROVE  /\ outbox' \in Seq(Frame) /\ wire' \in Seq(Frame)
         /\ Len(outbox) \in Nat \ {0} /\ Len(outbox') = Len(outbox) - 1
         /\ DOMAIN outbox = 1 .. Len(outbox) /\ DOMAIN outbox' = 1 .. (Len(outbox) - 1)
         /\ \A k \in DOMAIN outbox' : k + 1 \in DOMAIN outbox /\ outbox'[k] = outbox[k + 1]
         /\ 1 \in DOMAIN outbox /\ Head(outbox) = outbox[1] /\ outbox[1] \in Frame
         /\ Len(wire) \in Nat /\ Len(wire') = Len(wire) + 1
         /\ DOMAIN wire = 1 .. Len(wire) /\ DOMAIN wire' = 1 .. (Len(wire) + 1)
         /\ \A k \in DOMAIN wire : wire'[k] = wire[k]
         /\ wire'[Len(wire) + 1] = outbox[1]
         /\ ~SettingUp
<1>1. outbox \in Seq(Frame) /\ wire \in Seq(Frame)
  BY DEF IInv, TypeOK
<1>2. /\ outbox' \in Seq(Frame)
      /\ Len(outbox) \in Nat \ {0} /\ Len(outbox') = Len(outbox) - 1
      /\ DOMAIN outbox = 1 .. Len(outbox) /\ DOMAIN outbox' = 1 .. (Len(outbox) - 1)
      /\ \A k \in DOMAIN outbox' : k + 1 \in DOMAIN outbox /\ outbox'[k] = outbox[k + 1]
      /\ 1 \in DOMAIN outbox /\ Head(outbox) = outbox[1] /\ outbox[1] \in Frame
  BY <1>1, TailFacts
<1>3. /\ wire' \in Seq(Frame)
      /\ Len(wire) \in Nat /\ Len(wire') = Len(wire) + 1
      /\ DOMAIN wire = 1 .. Len(wire) /\ DOMAIN wire' = 1 .. (Len(wire) + 1)
      /\ \A k \in DOMAIN wire : wire'[k] = wire[k]
      /\ wire'[Len(wire) + 1] = outbox[1]
  <2>1. wire' = Append(wire, outbox[1]) /\ outbox[1] \in Frame
    BY <1>2
  <2>2. QED
    BY <1>1, <2>1, AppendFacts
<1>4. ~SettingUp
  BY DEF IInv, SetupClean
<1>5. QED
  BY <1>2, <1>3, <1>4

LEMMA WriteCancelStep ==
  ASSUME IInv, WriteFrame, ~IsAnswer(outbox[1])
  PROVE  IInv'
<1>1. /\ Running /\ outbox # <<>> /\ outbox' = Tail(outbox) /\ wire' = Append(wire, Head(outbox))
      /\ UNCHANGED <<prefetch, queue, redelivered, losses, main, blocked, rejected, attempts,
                     acknowledged, alternate, probed>>
  BY DEF WriteFrame, brokerVars, probeVars
<1>2. /\ outbox' \in Seq(Frame) /\ wire' \in Seq(Frame)
      /\ Len(outbox) \in Nat \ {0} /\ Len(outbox') = Len(outbox) - 1
      /\ DOMAIN outbox = 1 .. Len(outbox) /\ DOMAIN outbox' = 1 .. (Len(outbox) - 1)
      /\ \A k \in DOMAIN outbox' : k + 1 \in DOMAIN outbox /\ outbox'[k] = outbox[k + 1]
      /\ 1 \in DOMAIN outbox /\ Head(outbox) = outbox[1] /\ outbox[1] \in Frame
      /\ Len(wire) \in Nat /\ Len(wire') = Len(wire) + 1
      /\ DOMAIN wire = 1 .. Len(wire) /\ DOMAIN wire' = 1 .. (Len(wire) + 1)
      /\ \A k \in DOMAIN wire : wire'[k] = wire[k]
      /\ wire'[Len(wire) + 1] = outbox[1]
      /\ ~SettingUp
  BY <1>1, WriteShift
<1>3. UNCHANGED <<tasks, deliveries, allAcked>>
  <2>1. Head(outbox) = Cancel
    BY <1>2, FrameKinds
  <2>2. QED
    BY <2>1 DEF WriteFrame
<1>4. ~SettingUp' /\ Running'
  BY <1>1, <1>2 DEF SettingUp, Running
<1>5. \A k \in DOMAIN wire' : IsAnswer(wire'[k]) => k \in DOMAIN wire /\ wire'[k] = wire[k]
  BY <1>2
<1>6. /\ \A i \in DOMAIN tasks : /\ Waiting(i)' <=> Waiting(i)
                                 /\ Nacking(i)' <=> Nacking(i)
      /\ \A e, d : Recorded(e, d)' = Recorded(e, d)
      /\ Rejections' = Rejections
      /\ \A e \in Events : Told(e)' <=> Told(e)
  BY <1>1, <1>3 DEF Waiting, Nacking, Rejections, Recorded, Told
<1>7. ASSUME NEW e \in Events, NEW n \in 0 .. Len(outbox), AckIn(outbox, n, e)
      PROVE  \E k \in 1 .. (n - 1) : outbox'[k].kind = "ack" /\ tasks'[outbox'[k].task].event = e
  <2>1. PICK k \in 1 .. n : outbox[k].kind = "ack" /\ tasks[outbox[k].task].event = e
    BY <1>7 DEF AckIn
  <2>2. k # 1
    BY <2>1 DEF IsAnswer
  <2>3. k - 1 \in 1 .. (n - 1) /\ k - 1 \in DOMAIN outbox' /\ (k - 1) + 1 = k
    BY <1>2, <2>2
  <2>4. outbox'[k - 1] = outbox[k]
    BY <1>2, <2>3
  <2>5. QED
    BY <1>3, <2>1, <2>3, <2>4
<1>8. ASSUME NEW e \in Events, NEW n \in 0 .. Len(wire), AckIn(wire, n, e)
      PROVE  \E k \in 1 .. n : wire'[k].kind = "ack" /\ tasks'[wire'[k].task].event = e
  <2>1. PICK k \in 1 .. n : wire[k].kind = "ack" /\ tasks[wire[k].task].event = e
    BY <1>8 DEF AckIn
  <2>2. wire'[k] = wire[k]
    BY <1>2, <2>1
  <2>3. QED
    BY <1>3, <2>1, <2>2
<1>9. TypeOK'
  BY <1>1, <1>2, <1>3 DEF IInv, TypeOK
<1>10. SetupClean' /\ ProbeStages' /\ GoneRecorded' /\ NotStarted'
  BY <1>1, <1>2, <1>3, <1>4, <1>6 DEF IInv, SetupClean, ProbeStages, GoneRecorded, NotStarted, SettingUp
<1>11. Pipeline'
  <2>1. TasksPlaced' /\ OneWaits'
    BY <1>1, <1>3, <1>6 DEF IInv, Pipeline, TasksPlaced, OneWaits
  <2>2. OutboxPlaced'
    BY <1>1, <1>2, <1>3 DEF IInv, Pipeline, OutboxPlaced
  <2>3. WirePlaced'
    BY <1>1, <1>3, <1>5, <1>6 DEF IInv, Pipeline, WirePlaced
  <2>4. NoneWaitsForWire' /\ OneOnWire'
    BY <1>3, <1>5, <1>6 DEF IInv, Pipeline, NoneWaitsForWire, OneOnWire
  <2>5. OneInOutbox'
    <3> SUFFICES ASSUME NEW k \in DOMAIN outbox', NEW l \in DOMAIN outbox',
                        IsAnswer(outbox'[k]), IsAnswer(outbox'[l]), outbox'[k].task = outbox'[l].task
                 PROVE  k = l
      BY DEF OneInOutbox
    <3>1. k + 1 = l + 1
      <4>1. /\ k + 1 \in DOMAIN outbox /\ outbox'[k] = outbox[k + 1]
            /\ l + 1 \in DOMAIN outbox /\ outbox'[l] = outbox[l + 1]
        BY <1>2
      <4>2. QED
        BY <4>1 DEF IInv, Pipeline, OneInOutbox
    <3>2. k \in Int /\ l \in Int
      BY <1>2
    <3>3. QED
      BY <3>1, <3>2
  <2>6. QED
    BY <2>1, <2>2, <2>3, <2>4, <2>5 DEF Pipeline
<1>12. CountedIsTold'
  <2>1. ASSUME NEW e \in acknowledged
        PROVE  Told(e)' \/ AckIn(outbox, Len(outbox), e)'
    <3>1. e \in Events
      BY DEF IInv, TypeOK
    <3>2. Told(e) \/ AckIn(outbox, Len(outbox), e)
      BY DEF IInv, CountedIsTold
    <3>3. AckIn(outbox, Len(outbox), e) => AckIn(outbox, Len(outbox), e)'
      BY <1>2, <1>7, <3>1 DEF AckIn
    <3>4. QED
      BY <1>6, <3>1, <3>2, <3>3
  <2>2. QED
    BY <1>1, <1>3, <2>1 DEF IInv, CountedIsTold
<1>13. CancelIsOfMain' /\ CancelAfterTold'
  <2>1. main \in {"cancelling", "failing"}
    BY <1>1, <1>2 DEF IInv, CancelIsOfMain
  <2>2. CancelIsOfMain'
    BY <1>1, <2>1 DEF CancelIsOfMain
  <2>3. ASSUME main = "cancelling", NEW c \in DOMAIN outbox', ~IsAnswer(outbox'[c]), NEW e \in Events
        PROVE  Told(e)' \/ AckIn(outbox, c - 1, e)'
    <3>1. c + 1 \in DOMAIN outbox /\ ~IsAnswer(outbox[c + 1]) /\ (c + 1) - 1 = c /\ c \in 0 .. Len(outbox)
      BY <1>2, <2>3
    <3>2. Told(e) \/ AckIn(outbox, c, e)
      BY <2>3, <3>1 DEF IInv, CancelAfterTold
    <3>3. QED
      BY <1>6, <1>7, <3>1, <3>2 DEF AckIn
  <2>4. ASSUME main = "cancelling", NEW c \in DOMAIN wire', ~IsAnswer(wire'[c]), NEW e \in Events
        PROVE  Told(e)'
    <3>1. CASE c \in DOMAIN wire
      BY <1>2, <1>6, <2>4, <3>1 DEF IInv, CancelAfterTold
    <3>2. CASE c \notin DOMAIN wire
      <4>1. Told(e) \/ AckIn(outbox, 1 - 1, e)
        BY <1>2, <2>4 DEF IInv, CancelAfterTold
      <4>2. ~AckIn(outbox, 1 - 1, e)
        BY DEF AckIn
      <4>3. QED
        BY <1>6, <4>1, <4>2
    <3>3. QED
      BY <3>1, <3>2
  <2>5. CancelAfterTold'
    BY <1>1, <2>3, <2>4 DEF CancelAfterTold
  <2>6. QED
    BY <2>2, <2>5
<1>14. Story'
  <2>1. CASE ~Consuming'
    BY <2>1 DEF Story, BackOnlyRejected, KindsKnown, OneOfEachKind, ReadyWasRejected,
                RejectedHasTask, DoneIsAnswered, RecordsOfDone
  <2>2. CASE Consuming'
    <3>1. Consuming
      BY <1>1, <1>2, <2>2 DEF Consuming
    <3>2. BackOnlyRejected' /\ OneOfEachKind' /\ ReadyWasRejected' /\ RejectedHasTask'
      BY <1>1, <1>3, <1>6, <3>1 DEF IInv, Story, BackOnlyRejected, OneOfEachKind, ReadyWasRejected,
                                    RejectedHasTask
    <3>3. KindsKnown'
      <4>1. \A k \in DOMAIN outbox : IsAnswer(outbox[k]) => outbox[k].task \in DOMAIN tasks
        BY DEF IInv, Pipeline, OutboxPlaced
      <4>2. \A k \in DOMAIN wire : IsAnswer(wire[k]) => wire[k].task \in DOMAIN tasks
        BY DEF IInv, Pipeline, WirePlaced
      <4>3. ASSUME NEW k \in DOMAIN outbox', IsAnswer(outbox'[k])
            PROVE  outbox'[k].kind = "nack" <=> Nacking(outbox[k].task)'
        <5>1. PICK j \in DOMAIN tasks : j = outbox[k + 1].task /\ j = outbox'[k].task
          BY <1>2, <4>1, <4>3
        <5>2. outbox'[k].kind = "nack" <=> Nacking(j)'
          BY <1>2, <1>6, <3>1, <4>3, <5>1 DEF IInv, Story, KindsKnown
        <5>3. QED
          BY <5>1, <5>2 DEF Nacking
      <4>4. ASSUME NEW k \in DOMAIN wire', IsAnswer(wire'[k])
            PROVE  wire'[k].kind = "nack" <=> Nacking(wire[k].task)'
        <5>1. PICK j \in DOMAIN tasks : j = wire[k].task /\ j = wire'[k].task
          BY <1>5, <4>2, <4>4
        <5>2. wire'[k].kind = "nack" <=> Nacking(j)'
          BY <1>5, <1>6, <3>1, <4>4, <5>1 DEF IInv, Story, KindsKnown
        <5>3. QED
          BY <5>1, <5>2 DEF Nacking
      <4>5. \A j \in DOMAIN tasks :
               /\ tasks[j].pc = "new" => ~Nacking(j)'
               /\ tasks[j].pc = "held" => Nacking(j)'
        BY <1>6, <3>1 DEF IInv, Story, KindsKnown
      <4>6. QED
        BY <1>3, <4>3, <4>4, <4>5 DEF KindsKnown
    <3>4. DoneIsAnswered'
      <4>1. \A k \in DOMAIN wire : k \in DOMAIN wire' /\ wire'[k] = wire[k]
        BY <1>2
      <4>2. QED
        BY <1>1, <1>3, <1>6, <3>1, <4>1 DEF IInv, Story, DoneIsAnswered
    <3>5. RecordsOfDone'
      BY <1>3, <1>6, <3>1 DEF IInv, Story, RecordsOfDone
    <3>6. QED
      BY <3>2, <3>3, <3>4, <3>5 DEF Story
  <2>3. QED
    BY <2>1, <2>2
<1>15. AckUnderWay'
  <2> SUFFICES ASSUME Consuming' PROVE AckUnderWay'
    BY DEF AckUnderWay
  <2>1. Consuming /\ acknowledged \subseteq Events
    BY <1>1, <1>2 DEF Consuming, IInv, TypeOK
  <2>2. \A e \in Events : AckIn(wire, Len(wire), e) => AckIn(wire, Len(wire), e)'
    <3> SUFFICES ASSUME NEW e \in Events, AckIn(wire, Len(wire), e)
                 PROVE  AckIn(wire, Len(wire), e)'
      OBVIOUS
    <3>1. PICK k \in 1 .. Len(wire) : wire'[k].kind = "ack" /\ tasks'[wire'[k].task].event = e
      BY <1>2, <1>8
    <3>2. k \in 1 .. Len(wire')
      BY <1>2
    <3>3. QED
      BY <3>1, <3>2 DEF AckIn
  <2>3. ASSUME NEW e \in acknowledged
        PROVE  queue[e] = "gone" \/ AckIn(wire, Len(wire), e)' \/ AckIn(outbox, Len(outbox), e)'
    <3>1. queue[e] = "gone" \/ AckIn(wire, Len(wire), e) \/ AckIn(outbox, Len(outbox), e)
      BY <2>1 DEF IInv, AckUnderWay
    <3>2. AckIn(outbox, Len(outbox), e) => AckIn(outbox, Len(outbox), e)'
      BY <1>2, <1>7, <2>1 DEF AckIn
    <3>3. QED
      BY <2>1, <2>2, <3>1, <3>2
  <2>4. ASSUME main = "cancelling", NEW c \in DOMAIN outbox', ~IsAnswer(outbox'[c]), NEW e \in Events
        PROVE  queue[e] = "gone" \/ AckIn(wire, Len(wire), e)' \/ AckIn(outbox, c - 1, e)'
    <3>1. c + 1 \in DOMAIN outbox /\ ~IsAnswer(outbox[c + 1]) /\ (c + 1) - 1 = c /\ c \in 0 .. Len(outbox)
      BY <1>2, <2>4
    <3>2. queue[e] = "gone" \/ AckIn(wire, Len(wire), e) \/ AckIn(outbox, c, e)
      BY <2>1, <2>4, <3>1 DEF IInv, AckUnderWay
    <3>3. AckIn(outbox, c, e) => AckIn(outbox, c - 1, e)'
      BY <1>7, <3>1 DEF AckIn
    <3>4. QED
      BY <2>2, <3>2, <3>3
  <2>5. ASSUME main = "cancelling", NEW c \in DOMAIN wire', ~IsAnswer(wire'[c]), NEW e \in Events
        PROVE  queue[e] = "gone" \/ AckIn(wire, c - 1, e)'
    <3>1. CASE c \in DOMAIN wire
      <4>1. c - 1 \in 0 .. Len(wire) /\ ~IsAnswer(wire[c])
        BY <1>2, <2>5, <3>1
      <4>2. queue[e] = "gone" \/ AckIn(wire, c - 1, e)
        BY <2>1, <2>5, <3>1, <4>1 DEF IInv, AckUnderWay
      <4>3. AckIn(wire, c - 1, e) => AckIn(wire, c - 1, e)'
        BY <1>8, <4>1 DEF AckIn
      <4>4. QED
        BY <4>2, <4>3
    <3>2. CASE c \notin DOMAIN wire
      <4>1. c - 1 = Len(wire)
        BY <1>2, <3>2
      <4>2. queue[e] = "gone" \/ AckIn(wire, Len(wire), e) \/ AckIn(outbox, 1 - 1, e)
        BY <1>2, <2>1, <2>5 DEF IInv, AckUnderWay
      <4>3. ~AckIn(outbox, 1 - 1, e)
        BY DEF AckIn
      <4>4. AckIn(wire, Len(wire), e) => AckIn(wire, c - 1, e)'
        <5>1. Len(wire) \in 0 .. Len(wire)
          BY <1>2
        <5>2. AckIn(wire, Len(wire), e) =>
                \E k \in 1 .. (c - 1) : wire'[k].kind = "ack" /\ tasks'[wire'[k].task].event = e
          BY <1>8, <4>1, <5>1
        <5>3. QED
          BY <5>2 DEF AckIn
      <4>5. QED
        BY <4>2, <4>3, <4>4
    <3>3. QED
      BY <3>1, <3>2
  <2>6. QED
    BY <1>1, <2>3, <2>4, <2>5 DEF AckUnderWay
<1>16. OnlyFirst' /\ BlockedOne' /\ Returned'
  BY <1>1, <1>4 DEF IInv, OnlyFirst, BlockedOne, Returned, WholeWithoutLoss, MissingWithLosses, Running
<1>17. QED
  BY <1>9, <1>10, <1>11, <1>12, <1>13, <1>14, <1>15, <1>16 DEF IInv

LEMMA WriteAnswerStep ==
  ASSUME IInv, WriteFrame, IsAnswer(outbox[1])
  PROVE  IInv'
<1> DEFINE f == outbox[1]
           t == f.task
           x == tasks[t].event
           last == Len(deliveries) + 1
<1>1. /\ Running /\ outbox # <<>> /\ outbox' = Tail(outbox) /\ wire' = Append(wire, Head(outbox))
      /\ UNCHANGED <<prefetch, queue, redelivered, losses, main, blocked, rejected, attempts,
                     acknowledged, alternate, probed>>
  BY DEF WriteFrame, brokerVars, probeVars
<1>2. /\ outbox' \in Seq(Frame) /\ wire' \in Seq(Frame)
      /\ Len(outbox) \in Nat \ {0} /\ Len(outbox') = Len(outbox) - 1
      /\ DOMAIN outbox = 1 .. Len(outbox) /\ DOMAIN outbox' = 1 .. (Len(outbox) - 1)
      /\ \A k \in DOMAIN outbox' : k + 1 \in DOMAIN outbox /\ outbox'[k] = outbox[k + 1]
      /\ 1 \in DOMAIN outbox /\ Head(outbox) = outbox[1] /\ f \in Frame
      /\ Len(wire) \in Nat /\ Len(wire') = Len(wire) + 1
      /\ DOMAIN wire = 1 .. Len(wire) /\ DOMAIN wire' = 1 .. (Len(wire) + 1)
      /\ \A k \in DOMAIN wire : wire'[k] = wire[k]
      /\ wire'[Len(wire) + 1] = f
      /\ ~SettingUp
  BY <1>1, WriteShift
<1>3. /\ f.kind \in {"ack", "nack"} /\ t \in DOMAIN tasks
      /\ tasks[t].pc = "sending" /\ tasks[t].on = losses /\ Waiting(t)
  <2>1. f.kind \in {"ack", "nack"} /\ IsAnswer(f)
    BY <1>2, FrameKinds
  <2>2. t \in DOMAIN tasks /\ tasks[t].pc = "sending" /\ tasks[t].on = losses
    BY <1>2 DEF IInv, Pipeline, OutboxPlaced
  <2>3. QED
    BY <2>1, <2>2 DEF Waiting
<1>4. /\ tasks' = [tasks EXCEPT ![t].pc = "done"]
      /\ deliveries' = Append(deliveries, Record(t, f.kind))
      /\ allAcked' = (allAcked \/ AllAcknowledged)
  <2>1. Head(outbox) # Cancel /\ Head(outbox) = f
    BY <1>2, FrameKinds
  <2>2. QED
    BY <2>1 DEF WriteFrame
<1>5. ~SettingUp' /\ Running' /\ rejected # NoEvent
  BY <1>1, <1>2, <1>3 DEF SettingUp, Running, IInv, NotStarted
<1>6. /\ DOMAIN tasks = 1 .. Len(tasks) /\ Len(tasks) \in Nat
      /\ \A j \in DOMAIN tasks : tasks[j].event \in Events /\ tasks[j].redelivered \in BOOLEAN
      /\ acknowledged \subseteq Events
  BY TypeFacts DEF IInv, TypeOK
<1>7. /\ tasks' \in Seq(Task) /\ DOMAIN tasks' = DOMAIN tasks
      /\ \A j \in DOMAIN tasks : /\ tasks'[j].event = tasks[j].event
                                 /\ tasks'[j].redelivered = tasks[j].redelivered
                                 /\ tasks'[j].on = tasks[j].on
                                 /\ j # t => tasks'[j].pc = tasks[j].pc
      /\ tasks'[t].pc = "done"
  BY <1>3, <1>4, SetPc DEF IInv
<1>8. /\ deliveries' \in Seq(Delivery) /\ Len(deliveries) \in Nat
      /\ DOMAIN deliveries = 1 .. Len(deliveries) /\ DOMAIN deliveries' = 1 .. last
      /\ \A k \in DOMAIN deliveries : deliveries'[k] = deliveries[k]
      /\ deliveries'[last].event = x
      /\ deliveries'[last].redelivered = tasks[t].redelivered
      /\ deliveries'[last].decision = Decision(f.kind)
  <2>1. Record(t, f.kind) \in Delivery
    BY <1>3, <1>6 DEF Record, Delivery
  <2>2. deliveries \in Seq(Delivery)
    BY DEF IInv, TypeOK
  <2>3. /\ deliveries' \in Seq(Delivery) /\ Len(deliveries) \in Nat
        /\ DOMAIN deliveries = 1 .. Len(deliveries) /\ DOMAIN deliveries' = 1 .. last
        /\ \A k \in DOMAIN deliveries : deliveries'[k] = deliveries[k]
        /\ deliveries'[last] = Record(t, f.kind)
    BY <1>4, <2>1, <2>2, AppendFacts
  <2>4. QED
    BY <2>3 DEF Record, Decision
<1> HIDE DEF f, t, x, last
<1>9. PICK T \in DOMAIN tasks, X \in Events, K \in {"ack", "nack"} :
        /\ T = t /\ X = x /\ K = f.kind /\ X = tasks[T].event
  <2>1. x = tasks[t].event
    BY DEF x
  <2>2. QED
    BY <1>3, <1>6, <2>1
<1>10. /\ tasks[T].pc = "sending" /\ tasks[T].on = losses /\ Waiting(T)
       /\ \A j \in DOMAIN tasks : j # T => tasks'[j].pc = tasks[j].pc
       /\ tasks'[T].pc = "done"
       /\ f.task = T /\ f.kind = K /\ IsAnswer(f)
  BY <1>3, <1>7, <1>9 DEF f, t
<1>11. PICK n \in Nat :
        /\ n = Len(deliveries) + 1 /\ n \in DOMAIN deliveries' /\ DOMAIN deliveries' = 1 .. n
        /\ DOMAIN deliveries = 1 .. (n - 1)
        /\ deliveries'[n].event = X
        /\ deliveries'[n].redelivered = tasks[T].redelivered
        /\ deliveries'[n].decision = Decision(K)
  <2>1. last \in Nat /\ last = Len(deliveries) + 1 /\ last \in 1 .. last /\ last - 1 = Len(deliveries)
    BY <1>8 DEF last
  <2>2. QED
    BY <1>8, <1>9, <2>1
<1>12. /\ \A e, d : Recorded(e, d) # {} => Recorded(e, d)' # {}
       /\ Recorded(X, Decision(K))' # {}
       /\ \A k \in Rejections : k \in Rejections'
  <2>1. \A e, d : \A k \in Recorded(e, d) : k \in Recorded(e, d)'
    <3> SUFFICES ASSUME NEW e, NEW d, NEW k \in Recorded(e, d) PROVE k \in Recorded(e, d)'
      OBVIOUS
    <3>1. k \in DOMAIN deliveries /\ deliveries[k].event = e /\ deliveries[k].decision = d
      BY DEF Recorded
    <3>2. k \in 1 .. (n - 1) /\ n \in Nat
      BY <1>11, <3>1
    <3>3. k \in 1 .. n
      BY <3>2
    <3>4. k \in DOMAIN deliveries' /\ deliveries'[k] = deliveries[k]
      BY <1>8, <1>11, <3>1, <3>3
    <3>5. QED
      BY <3>1, <3>4 DEF Recorded
  <2>2. n \in Recorded(X, Decision(K))'
    BY <1>11 DEF Recorded, Decision
  <2>3. \A k \in Rejections : k \in Rejections'
    BY <1>1, <2>1 DEF Rejections, Recorded
  <2>4. QED
    BY <2>1, <2>2, <2>3
<1>13. \A e \in Events : Told(e) => Told(e)'
  <2> SUFFICES ASSUME NEW e \in Events, Told(e) PROVE Told(e)'
    OBVIOUS
  <2>1. CASE Recorded(e, "ack") # {}
    BY <1>12, <2>1 DEF Told
  <2>2. CASE \E j \in DOMAIN tasks : tasks[j].event = e /\ tasks[j].pc = "failed"
    BY <1>7, <1>10, <2>2 DEF Told
  <2>3. QED
    BY <2>1, <2>2 DEF Told
<1>14. /\ \A j \in DOMAIN tasks : Waiting(j)' => Waiting(j) /\ j # T
       /\ \A j \in DOMAIN tasks : Nacking(j)' <=> Nacking(j)
  BY <1>1, <1>7, <1>10 DEF Waiting, Nacking
<1>15. \A k \in DOMAIN outbox' : IsAnswer(outbox'[k]) =>
         outbox'[k].task \in DOMAIN tasks /\ outbox'[k].task # T
  <2> SUFFICES ASSUME NEW k \in DOMAIN outbox', IsAnswer(outbox'[k])
               PROVE  outbox'[k].task \in DOMAIN tasks /\ outbox'[k].task # T
    OBVIOUS
  <2>1. k + 1 \in DOMAIN outbox /\ outbox'[k] = outbox[k + 1] /\ k + 1 # 1
    BY <1>2
  <2>2. outbox[k + 1].task \in DOMAIN tasks
    BY <2>1 DEF IInv, Pipeline, OutboxPlaced
  <2>3. outbox[k + 1].task # T
    BY <1>2, <1>10, <2>1 DEF IInv, Pipeline, OneInOutbox, f
  <2>4. QED
    BY <2>1, <2>2, <2>3
<1>16. \A k \in DOMAIN wire : IsAnswer(wire[k]) =>
         /\ wire[k].task \in DOMAIN tasks /\ wire[k].task # T
         /\ tasks[wire[k].task].event # X
  BY <1>9, <1>10 DEF IInv, Pipeline, WirePlaced, NoneWaitsForWire
<1>17. ASSUME NEW e \in Events, NEW m \in 0 .. Len(outbox), AckIn(outbox, m, e)
       PROVE  \/ K = "ack" /\ X = e
              \/ \E k \in 1 .. (m - 1) : outbox'[k].kind = "ack" /\ tasks'[outbox'[k].task].event = e
  <2>1. PICK k \in 1 .. m : outbox[k].kind = "ack" /\ tasks[outbox[k].task].event = e
    BY <1>17 DEF AckIn
  <2>2. CASE k = 1
    BY <1>9, <1>10, <2>1, <2>2 DEF f
  <2>3. CASE k # 1
    <3>1. k - 1 \in 1 .. (m - 1) /\ k - 1 \in DOMAIN outbox' /\ (k - 1) + 1 = k
      BY <1>2, <2>3
    <3>2. outbox'[k - 1] = outbox[k] /\ IsAnswer(outbox[k])
      BY <1>2, <2>1, <3>1 DEF IsAnswer
    <3>3. outbox[k].task \in DOMAIN tasks
      BY <1>15, <3>1, <3>2
    <3>4. QED
      BY <1>7, <2>1, <3>1, <3>2, <3>3
  <2>4. QED
    BY <2>2, <2>3
<1>18. ASSUME NEW e \in Events, NEW m \in 0 .. Len(wire), AckIn(wire, m, e)
       PROVE  \E k \in 1 .. m : wire'[k].kind = "ack" /\ tasks'[wire'[k].task].event = e
  <2>1. PICK k \in 1 .. m : wire[k].kind = "ack" /\ tasks[wire[k].task].event = e
    BY <1>18 DEF AckIn
  <2>2. k \in DOMAIN wire /\ wire'[k] = wire[k] /\ IsAnswer(wire[k])
    BY <1>2, <2>1 DEF IsAnswer
  <2>3. wire[k].task \in DOMAIN tasks
    BY <1>16, <2>2
  <2>4. QED
    BY <1>7, <2>1, <2>2, <2>3
<1>19. TypeOK'
  <2>1. allAcked' \in BOOLEAN
    BY <1>4
  <2>2. QED
    BY <1>1, <1>2, <1>7, <1>8, <2>1 DEF IInv, TypeOK
<1>20. SetupClean' /\ ProbeStages' /\ GoneRecorded' /\ NotStarted'
  <2>1. SetupClean' /\ NotStarted'
    BY <1>1, <1>5 DEF SetupClean, NotStarted, SettingUp
  <2>2. ProbeStages'
    BY <1>1 DEF IInv, ProbeStages, SettingUp
  <2>3. GoneRecorded'
    BY <1>1, <1>2, <1>12 DEF IInv, GoneRecorded
  <2>4. QED
    BY <2>1, <2>2, <2>3
<1>21. Pipeline'
  <2>1. TasksPlaced' /\ OneWaits'
    <3>1. ASSUME NEW j \in DOMAIN tasks
          PROVE  /\ tasks'[j].on <= losses
                 /\ tasks'[j].pc = "failed" => tasks'[j].on < losses
                 /\ Waiting(j)' => queue[tasks'[j].event] = "unacked"
      <4>1. /\ tasks[j].on <= losses
            /\ tasks[j].pc = "failed" => tasks[j].on < losses
            /\ Waiting(j) => queue[tasks[j].event] = "unacked"
        BY DEF IInv, Pipeline, TasksPlaced
      <4>2. tasks'[j].pc = "failed" => tasks[j].pc = "failed"
        BY <1>7, <1>10
      <4>3. QED
        BY <1>7, <1>14, <4>1, <4>2
    <3>2. TasksPlaced'
      BY <1>1, <1>7, <3>1 DEF TasksPlaced
    <3>3. OneWaits'
      BY <1>7, <1>14 DEF IInv, Pipeline, OneWaits
    <3>4. QED
      BY <3>2, <3>3
  <2>2. OutboxPlaced'
    <3> SUFFICES ASSUME NEW k \in DOMAIN outbox', IsAnswer(outbox'[k])
                 PROVE  /\ outbox'[k].task \in DOMAIN tasks'
                        /\ tasks'[outbox'[k].task].pc = "sending" /\ tasks'[outbox'[k].task].on = losses
      BY <1>1 DEF OutboxPlaced
    <3>1. k + 1 \in DOMAIN outbox /\ outbox'[k] = outbox[k + 1]
      BY <1>2
    <3>2. tasks[outbox'[k].task].pc = "sending" /\ tasks[outbox'[k].task].on = losses
      BY <3>1 DEF IInv, Pipeline, OutboxPlaced
    <3>3. QED
      BY <1>7, <1>10, <1>15, <3>2
  <2>3. WirePlaced'
    <3> SUFFICES ASSUME NEW k \in DOMAIN wire', IsAnswer(wire'[k])
                 PROVE  /\ wire'[k].task \in DOMAIN tasks'
                        /\ tasks'[wire'[k].task].pc = "done" /\ tasks'[wire'[k].task].on = losses
                        /\ queue[tasks'[wire'[k].task].event] = "unacked"
                        /\ Recorded(tasks[wire[k].task].event, Decision(wire[k].kind))' # {}
      BY <1>1 DEF WirePlaced
    <3>1. CASE k \in DOMAIN wire
      <4>1. PICK j \in DOMAIN tasks, e \in Events, d \in {"ack", "nack-requeue"} :
              /\ j = wire[k].task /\ wire'[k] = wire[k] /\ j # T
              /\ e = tasks[j].event /\ d = Decision(wire[k].kind)
        <5>1. Decision(wire[k].kind) \in {"ack", "nack-requeue"}
          BY DEF Decision
        <5>2. QED
          BY <1>2, <1>6, <1>16, <3>1, <5>1
      <4>2. /\ tasks[j].pc = "done" /\ tasks[j].on = losses /\ queue[e] = "unacked"
            /\ Recorded(e, d) # {}
        BY <1>2, <3>1, <4>1 DEF IInv, Pipeline, WirePlaced
      <4>3. Recorded(e, d)' # {}
        BY <1>12, <4>2
      <4>4. e = tasks'[wire'[k].task].event /\ d = Decision(wire'[k].kind)
        BY <1>7, <4>1
      <4>5. Recorded(tasks[wire[k].task].event, Decision(wire[k].kind))' # {}
        BY <4>3, <4>4 DEF Recorded, Decision
      <4>6. QED
        BY <1>7, <1>10, <4>1, <4>2, <4>5
    <3>2. CASE k \notin DOMAIN wire
      <4>1. wire'[k] = f
        BY <1>2, <3>2
      <4>2. wire'[k].task = T /\ wire'[k].kind = K /\ tasks'[T].event = X
        BY <1>7, <1>9, <1>10, <4>1
      <4>3. Recorded(tasks[wire[k].task].event, Decision(wire[k].kind))' # {}
        BY <1>12, <4>2 DEF Recorded, Decision
      <4>4. queue[X] = "unacked"
        BY <1>9, <1>10 DEF IInv, Pipeline, TasksPlaced
      <4>5. QED
        BY <1>7, <1>10, <4>2, <4>3, <4>4
    <3>3. QED
      BY <3>1, <3>2
  <2>4. NoneWaitsForWire'
    <3> SUFFICES ASSUME NEW j \in DOMAIN tasks, NEW k \in DOMAIN wire', Waiting(j)', IsAnswer(wire'[k])
                 PROVE  tasks'[wire'[k].task].event # tasks'[j].event
      BY <1>7 DEF NoneWaitsForWire
    <3>1. Waiting(j) /\ j # T
      BY <1>14
    <3>2. CASE k \in DOMAIN wire
      <4>1. wire'[k] = wire[k] /\ wire[k].task \in DOMAIN tasks
        BY <1>2, <1>16, <3>2
      <4>2. tasks[wire[k].task].event # tasks[j].event
        BY <3>1, <3>2, <4>1 DEF IInv, Pipeline, NoneWaitsForWire
      <4>3. QED
        BY <1>7, <4>1, <4>2
    <3>3. CASE k \notin DOMAIN wire
      <4>1. wire'[k].task = T
        BY <1>2, <1>10, <3>3
      <4>2. tasks[T].event # tasks[j].event
        BY <1>10, <3>1 DEF IInv, Pipeline, OneWaits
      <4>3. QED
        BY <1>7, <4>1, <4>2
    <3>4. QED
      BY <3>2, <3>3
  <2>5. OneOnWire'
    <3> SUFFICES ASSUME NEW k \in DOMAIN wire', NEW l \in DOMAIN wire',
                        IsAnswer(wire'[k]), IsAnswer(wire'[l]),
                        tasks'[wire'[k].task].event = tasks'[wire'[l].task].event
                 PROVE  k = l
      BY DEF OneOnWire
    <3>1. \A m \in DOMAIN wire' : IsAnswer(wire'[m]) =>
            \/ /\ m \in DOMAIN wire /\ wire'[m] = wire[m] /\ IsAnswer(wire[m])
               /\ tasks'[wire'[m].task].event = tasks[wire[m].task].event
               /\ tasks'[wire'[m].task].event # X
            \/ m = Len(wire) + 1 /\ tasks'[wire'[m].task].event = X
      BY <1>2, <1>7, <1>9, <1>10, <1>16
    <3>2. QED
      BY <3>1 DEF IInv, Pipeline, OneOnWire
  <2>6. OneInOutbox'
    <3> SUFFICES ASSUME NEW k \in DOMAIN outbox', NEW l \in DOMAIN outbox',
                        IsAnswer(outbox'[k]), IsAnswer(outbox'[l]), outbox'[k].task = outbox'[l].task
                 PROVE  k = l
      BY DEF OneInOutbox
    <3>1. /\ k + 1 \in DOMAIN outbox /\ outbox'[k] = outbox[k + 1]
          /\ l + 1 \in DOMAIN outbox /\ outbox'[l] = outbox[l + 1]
      BY <1>2
    <3>2. k + 1 = l + 1
      BY <3>1 DEF IInv, Pipeline, OneInOutbox
    <3>3. k \in Int /\ l \in Int
      BY <1>2
    <3>4. QED
      BY <3>2, <3>3
  <2>7. QED
    BY <2>1, <2>2, <2>3, <2>4, <2>5, <2>6 DEF Pipeline
<1>22. CountedIsTold'
  <2>1. ASSUME NEW e \in acknowledged
        PROVE  Told(e)' \/ AckIn(outbox, Len(outbox), e)'
    <3>1. e \in Events /\ Len(outbox) \in 0 .. Len(outbox) /\ Len(outbox') = Len(outbox) - 1
      BY <1>2, <1>6
    <3>2. Told(e) \/ AckIn(outbox, Len(outbox), e)
      BY DEF IInv, CountedIsTold
    <3>3. CASE K = "ack" /\ X = e
      BY <1>12, <3>3 DEF Told, Decision
    <3>4. CASE AckIn(outbox, Len(outbox), e) /\ ~(K = "ack" /\ X = e)
      BY <1>17, <3>1, <3>4 DEF AckIn
    <3>5. QED
      BY <1>13, <3>1, <3>2, <3>3, <3>4
  <2>2. ASSUME allAcked' PROVE acknowledged = Events
    <3>1. allAcked \/ AllAcknowledged
      BY <1>4, <2>2
    <3>2. allAcked => acknowledged = Events
      BY DEF IInv, CountedIsTold
    <3>3. AllAcknowledged => acknowledged = Events
      BY <1>6, ConsumerAssumption, FS_Subset DEF AllAcknowledged
    <3>4. QED
      BY <3>1, <3>2, <3>3
  <2>3. QED
    BY <1>1, <2>1, <2>2 DEF CountedIsTold
<1>23. CancelIsOfMain' /\ CancelAfterTold'
  <2>1. \A k \in DOMAIN wire' : ~IsAnswer(wire'[k]) => k \in DOMAIN wire /\ ~IsAnswer(wire[k])
    BY <1>2, <1>10
  <2>2. CancelIsOfMain'
    BY <1>1, <1>2, <2>1 DEF IInv, CancelIsOfMain, Running
  <2>3. ASSUME main = "cancelling", NEW c \in DOMAIN outbox', ~IsAnswer(outbox'[c]), NEW e \in Events
        PROVE  Told(e)' \/ AckIn(outbox, c - 1, e)'
    <3>1. c + 1 \in DOMAIN outbox /\ ~IsAnswer(outbox[c + 1]) /\ (c + 1) - 1 = c /\ c \in 0 .. Len(outbox)
      BY <1>2, <2>3
    <3>2. Told(e) \/ AckIn(outbox, c, e)
      BY <2>3, <3>1 DEF IInv, CancelAfterTold
    <3>3. CASE K = "ack" /\ X = e
      BY <1>12, <3>3 DEF Told, Decision
    <3>4. CASE AckIn(outbox, c, e) /\ ~(K = "ack" /\ X = e)
      BY <1>17, <3>1, <3>4 DEF AckIn
    <3>5. QED
      BY <1>13, <3>2, <3>3, <3>4
  <2>4. CancelAfterTold'
    BY <1>1, <1>13, <2>1, <2>3 DEF IInv, CancelAfterTold
  <2>5. QED
    BY <2>2, <2>4
<1>24. Story'
  <2>1. CASE ~Consuming'
    BY <2>1 DEF Story, BackOnlyRejected, KindsKnown, OneOfEachKind, ReadyWasRejected,
                RejectedHasTask, DoneIsAnswered, RecordsOfDone
  <2>2. CASE Consuming'
    <3>1. Consuming
      BY <1>1, <1>2, <2>2 DEF Consuming
    <3>2. K = "nack" <=> Nacking(T)
      BY <1>2, <1>10, <3>1 DEF IInv, Story, KindsKnown, f
    <3>3. BackOnlyRejected'
      <4>1. Rejections # {} => Rejections' # {}
        BY <1>12
      <4>2. QED
        BY <1>1, <1>7, <3>1, <4>1 DEF IInv, Story, BackOnlyRejected
    <3>4. KindsKnown'
      <4>1. ASSUME NEW k \in DOMAIN outbox', IsAnswer(outbox'[k])
            PROVE  outbox'[k].kind = "nack" <=> Nacking(outbox[k].task)'
        <5>1. k + 1 \in DOMAIN outbox /\ outbox'[k] = outbox[k + 1]
          BY <1>2
        <5>2. PICK j \in DOMAIN tasks : j = outbox'[k].task
          BY <1>15, <4>1
        <5>3. outbox'[k].kind = "nack" <=> Nacking(j)
          BY <3>1, <4>1, <5>1, <5>2 DEF IInv, Story, KindsKnown
        <5>4. outbox'[k].kind = "nack" <=> Nacking(j)'
          BY <1>14, <5>3
        <5>5. QED
          BY <5>2, <5>4 DEF Nacking
      <4>2. ASSUME NEW k \in DOMAIN wire', IsAnswer(wire'[k])
            PROVE  wire'[k].kind = "nack" <=> Nacking(wire[k].task)'
        <5>1. CASE k \in DOMAIN wire
          <6>1. PICK j \in DOMAIN tasks : j = wire'[k].task /\ wire'[k] = wire[k]
            BY <1>2, <1>16, <4>2, <5>1
          <6>2. wire'[k].kind = "nack" <=> Nacking(j)
            BY <3>1, <4>2, <5>1, <6>1 DEF IInv, Story, KindsKnown
          <6>3. wire'[k].kind = "nack" <=> Nacking(j)'
            BY <1>14, <6>2
          <6>4. QED
            BY <6>1, <6>3 DEF Nacking
        <5>2. CASE k \notin DOMAIN wire
          <6>1. wire'[k].task = T /\ wire'[k].kind = K
            BY <1>2, <1>10, <5>2
          <6>2. K = "nack" <=> Nacking(T)'
            BY <1>14, <3>2
          <6>3. QED
            BY <6>1, <6>2 DEF Nacking
        <5>3. QED
          BY <5>1, <5>2
      <4>3. ASSUME NEW j \in DOMAIN tasks
            PROVE  /\ tasks'[j].pc = "new" => ~Nacking(j)'
                   /\ tasks'[j].pc = "held" => Nacking(j)'
        <5>1. tasks'[j].pc \in {"new", "held"} => tasks[j].pc = tasks'[j].pc
          BY <1>10
        <5>2. QED
          BY <1>14, <3>1, <5>1 DEF IInv, Story, KindsKnown
      <4>4. QED
        BY <1>7, <4>1, <4>2, <4>3 DEF KindsKnown
    <3>5. OneOfEachKind'
      BY <1>7, <3>1 DEF IInv, Story, OneOfEachKind
    <3>6. ReadyWasRejected' /\ RejectedHasTask'
      BY <1>1, <1>7, <1>14, <3>1 DEF IInv, Story, ReadyWasRejected, RejectedHasTask
    <3>7. DoneIsAnswered'
      <4> SUFFICES ASSUME NEW j \in DOMAIN tasks, tasks'[j].pc = "done", ~Nacking(j)'
                   PROVE  \/ queue[tasks[j].event] = "gone"
                          \/ \E k \in DOMAIN wire' : IsAnswer(wire'[k]) /\ wire'[k].task = j
        BY <1>1, <1>7 DEF DoneIsAnswered
      <4>1. CASE j = T
        <5>1. Len(wire) + 1 \in DOMAIN wire' /\ wire'[Len(wire) + 1] = f
          BY <1>2
        <5>2. QED
          BY <1>10, <4>1, <5>1
      <4>2. CASE j # T
        <5>1. tasks[j].pc = "done" /\ ~Nacking(j)
          BY <1>10, <1>14, <4>2
        <5>2. \A k \in DOMAIN wire : k \in DOMAIN wire' /\ wire'[k] = wire[k]
          BY <1>2
        <5>3. QED
          BY <3>1, <5>1, <5>2 DEF IInv, Story, DoneIsAnswered
      <4>3. QED
        BY <4>1, <4>2
    <3>8. \A k \in DOMAIN deliveries' :
             \/ k \in DOMAIN deliveries /\ k \in 1 .. (n - 1) /\ deliveries'[k] = deliveries[k]
             \/ k = n
      <4>1. \A k \in 1 .. n : k \in 1 .. (n - 1) \/ k = n
        BY <1>11
      <4>2. DOMAIN deliveries' = 1 .. n /\ DOMAIN deliveries = 1 .. (n - 1)
        BY <1>11
      <4>3. QED
        BY <1>8, <4>1, <4>2
    <3>9. ASSUME NEW k \in DOMAIN deliveries', NEW l \in DOMAIN deliveries',
                 deliveries'[k].event = deliveries'[l].event,
                 deliveries'[k].redelivered = deliveries'[l].redelivered
          PROVE  k = l
      <4>1. ASSUME NEW m \in DOMAIN deliveries,
                   deliveries[m].event = X, deliveries[m].redelivered = tasks[T].redelivered
            PROVE  FALSE
        <5>1. PICK j \in DOMAIN tasks :
                /\ tasks[j].pc = "done"
                /\ deliveries[m].event = tasks[j].event
                /\ deliveries[m].redelivered = tasks[j].redelivered
          BY <3>1 DEF IInv, Story, RecordsOfDone
        <5>2. j = T
          BY <1>9, <3>1, <4>1, <5>1 DEF IInv, Story, OneOfEachKind
        <5>3. QED
          BY <1>10, <5>1, <5>2
      <4>2. CASE k = n /\ l # n
        <5>1. l \in DOMAIN deliveries /\ deliveries'[l] = deliveries[l]
          BY <3>8, <4>2
        <5>2. QED
          BY <1>11, <3>9, <4>1, <4>2, <5>1
      <4>3. CASE k # n /\ l = n
        <5>1. k \in DOMAIN deliveries /\ deliveries'[k] = deliveries[k]
          BY <3>8, <4>3
        <5>2. QED
          BY <1>11, <3>9, <4>1, <4>3, <5>1
      <4>4. CASE k # n /\ l # n
        <5>1. /\ k \in DOMAIN deliveries /\ deliveries'[k] = deliveries[k]
              /\ l \in DOMAIN deliveries /\ deliveries'[l] = deliveries[l]
          BY <3>8, <4>4
        <5>2. QED
          BY <3>1, <3>9, <5>1 DEF IInv, Story, RecordsOfDone
      <4>5. QED
        BY <4>2, <4>3, <4>4
    <3>10. ASSUME NEW k \in DOMAIN deliveries'
           PROVE  \E j \in DOMAIN tasks :
                    /\ tasks'[j].pc = "done"
                    /\ deliveries'[k].event = tasks'[j].event
                    /\ deliveries'[k].redelivered = tasks'[j].redelivered
                    /\ deliveries'[k].decision = "nack-requeue" <=> Nacking(j)'
      <4>1. CASE k = n
        <5>1. deliveries'[k].decision = "nack-requeue" <=> K = "nack"
          BY <1>11, <4>1 DEF Decision
        <5>2. QED
          BY <1>7, <1>9, <1>10, <1>11, <1>14, <3>2, <4>1, <5>1
      <4>2. CASE k # n
        <5>1. k \in DOMAIN deliveries /\ deliveries'[k] = deliveries[k]
          BY <3>8, <4>2
        <5>2. PICK j \in DOMAIN tasks :
                /\ tasks[j].pc = "done"
                /\ deliveries[k].event = tasks[j].event
                /\ deliveries[k].redelivered = tasks[j].redelivered
                /\ deliveries[k].decision = "nack-requeue" <=> Nacking(j)
          BY <3>1, <5>1 DEF IInv, Story, RecordsOfDone
        <5>3. tasks'[j].pc = "done"
          BY <1>10, <5>2
        <5>4. QED
          BY <1>7, <1>14, <5>1, <5>2, <5>3
      <4>3. QED
        BY <4>1, <4>2
    <3>11. ASSUME NEW k \in DOMAIN deliveries', deliveries'[k].redelivered
           PROVE  \E j \in 1 .. k - 1 : j \in Rejections'
      <4>1. CASE k = n
        <5>1. tasks[T].redelivered
          BY <1>11, <3>11, <4>1
        <5>2. PICK j : j \in Rejections
          BY <3>1, <5>1 DEF IInv, Story, BackOnlyRejected
        <5>3. j \in 1 .. k - 1
          BY <1>11, <4>1, <5>2 DEF Rejections, Recorded
        <5>4. QED
          BY <1>12, <5>2, <5>3
      <4>2. CASE k # n
        <5>1. k \in DOMAIN deliveries /\ deliveries'[k] = deliveries[k]
          BY <3>8, <4>2
        <5>2. PICK j \in 1 .. k - 1 : j \in Rejections
          BY <3>1, <3>11, <5>1 DEF IInv, Story, RecordsOfDone
        <5>3. QED
          BY <1>12, <5>2
      <4>3. QED
        BY <4>1, <4>2
    <3>12. RecordsOfDone'
      BY <1>7, <3>9, <3>10, <3>11 DEF RecordsOfDone
    <3>13. QED
      BY <3>3, <3>4, <3>5, <3>6, <3>7, <3>12 DEF Story
  <2>3. QED
    BY <2>1, <2>2
<1>25. AckUnderWay'
  <2> SUFFICES ASSUME Consuming' PROVE AckUnderWay'
    BY DEF AckUnderWay
  <2>1. Consuming
    BY <1>1, <1>2 DEF Consuming
  <2>2. ASSUME NEW e \in Events, AckIn(wire, Len(wire), e)
        PROVE  AckIn(wire, Len(wire), e)'
    <3>1. PICK k \in 1 .. Len(wire) : wire'[k].kind = "ack" /\ tasks'[wire'[k].task].event = e
      BY <1>2, <1>18, <2>2
    <3>2. k \in 1 .. Len(wire')
      BY <1>2
    <3>3. QED
      BY <3>1, <3>2 DEF AckIn
  <2>3. ASSUME NEW e \in Events, K = "ack" /\ X = e
        PROVE  AckIn(wire, Len(wire), e)'
    <3>1. Len(wire) + 1 \in 1 .. Len(wire') /\ wire'[Len(wire) + 1] = f
      BY <1>2
    <3>2. f.kind = "ack" /\ tasks'[f.task].event = e
      BY <1>7, <1>9, <1>10, <2>3
    <3>3. QED
      BY <3>1, <3>2 DEF AckIn
  <2>4. ASSUME NEW e \in acknowledged
        PROVE  queue[e] = "gone" \/ AckIn(wire, Len(wire), e)' \/ AckIn(outbox, Len(outbox), e)'
    <3>1. e \in Events /\ Len(outbox) \in 0 .. Len(outbox) /\ Len(outbox') = Len(outbox) - 1
      BY <1>2, <1>6
    <3>2. queue[e] = "gone" \/ AckIn(wire, Len(wire), e) \/ AckIn(outbox, Len(outbox), e)
      BY <2>1 DEF IInv, AckUnderWay
    <3>3. AckIn(outbox, Len(outbox), e) /\ ~(K = "ack" /\ X = e) => AckIn(outbox, Len(outbox), e)'
      BY <1>17, <3>1 DEF AckIn
    <3>4. QED
      BY <2>2, <2>3, <3>1, <3>2, <3>3
  <2>5. ASSUME main = "cancelling", NEW c \in DOMAIN outbox', ~IsAnswer(outbox'[c]), NEW e \in Events
        PROVE  queue[e] = "gone" \/ AckIn(wire, Len(wire), e)' \/ AckIn(outbox, c - 1, e)'
    <3>1. c + 1 \in DOMAIN outbox /\ ~IsAnswer(outbox[c + 1]) /\ (c + 1) - 1 = c /\ c \in 0 .. Len(outbox)
      BY <1>2, <2>5
    <3>2. queue[e] = "gone" \/ AckIn(wire, Len(wire), e) \/ AckIn(outbox, c, e)
      BY <2>1, <2>5, <3>1 DEF IInv, AckUnderWay
    <3>3. AckIn(outbox, c, e) /\ ~(K = "ack" /\ X = e) => AckIn(outbox, c - 1, e)'
      BY <1>17, <3>1 DEF AckIn
    <3>4. QED
      BY <2>2, <2>3, <3>2, <3>3
  <2>6. ASSUME main = "cancelling", NEW c \in DOMAIN wire', ~IsAnswer(wire'[c]), NEW e \in Events
        PROVE  queue[e] = "gone" \/ AckIn(wire, c - 1, e)'
    <3>1. c \in DOMAIN wire /\ ~IsAnswer(wire[c]) /\ c - 1 \in 0 .. Len(wire)
      BY <1>2, <1>10, <2>6
    <3>2. queue[e] = "gone" \/ AckIn(wire, c - 1, e)
      BY <2>1, <2>6, <3>1 DEF IInv, AckUnderWay
    <3>3. AckIn(wire, c - 1, e) => AckIn(wire, c - 1, e)'
      BY <1>18, <3>1 DEF AckIn
    <3>4. QED
      BY <3>2, <3>3
  <2>7. QED
    BY <1>1, <2>4, <2>5, <2>6 DEF AckUnderWay
<1>26. OnlyFirst' /\ BlockedOne' /\ Returned'
  <2>1. OnlyFirst'
    BY <1>1 DEF IInv, OnlyFirst
  <2>2. BlockedOne' /\ Returned'
    BY <1>1, <1>5 DEF IInv, BlockedOne, Returned, WholeWithoutLoss, MissingWithLosses, Running
  <2>3. QED
    BY <2>1, <2>2
<1>27. QED
  BY <1>19, <1>20, <1>21, <1>22, <1>23, <1>24, <1>25, <1>26 DEF IInv

LEMMA WriteFrameStep == ASSUME IInv, WriteFrame PROVE IInv'
BY WriteCancelStep, WriteAnswerStep

-----------------------------------------------------------------------------
(* A stuttering step keeps every part.                                     *)
LEMMA StutterStep == ASSUME IInv, UNCHANGED vars PROVE IInv'
<1>1. UNCHANGED <<prefetch, queue, redelivered, losses, tasks, outbox, wire, main, rejected,
                  attempts, acknowledged, deliveries, allAcked, blocked, alternate, probed>>
  BY DEF vars, brokerVars, handlerVars, probeVars
<1>2. (TypeOK /\ SetupClean /\ ProbeStages)'
  <2>1. TypeOK'
    BY <1>1 DEF IInv, TypeOK
  <2>2. SetupClean' /\ ProbeStages'
    BY <1>1 DEF IInv, SetupClean, ProbeStages, SettingUp
  <2>3. QED
    BY <2>1, <2>2
<1>3. (Pipeline /\ GoneRecorded /\ NotStarted)'
  <2>1. /\ \A e, d : Recorded(e, d)' = Recorded(e, d)
        /\ \A i : Waiting(i)' <=> Waiting(i)
    BY <1>1 DEF Recorded, Waiting
  <2>2. TasksPlaced' /\ OutboxPlaced'
    BY <1>1, <2>1 DEF IInv, Pipeline, TasksPlaced, OutboxPlaced
  <2>3. WirePlaced'
    BY <1>1 DEF IInv, Pipeline, WirePlaced, Recorded
  <2>4. OneWaits' /\ NoneWaitsForWire' /\ OneOnWire' /\ OneInOutbox'
    BY <1>1, <2>1 DEF IInv, Pipeline, OneWaits, NoneWaitsForWire, OneOnWire, OneInOutbox
  <2>5. GoneRecorded' /\ NotStarted'
    BY <1>1, <2>1 DEF IInv, GoneRecorded, NotStarted, SettingUp
  <2>6. QED
    BY <2>2, <2>3, <2>4, <2>5 DEF Pipeline
<1>4. (CountedIsTold /\ CancelIsOfMain /\ CancelAfterTold)'
  <2>1. /\ \A e : Told(e)' <=> Told(e)
        /\ \A e, n : AckIn(outbox, n, e)' <=> AckIn(outbox, n, e)
    BY <1>1 DEF Told, AckIn, Recorded
  <2>2. \A e : AckIn(outbox, Len(outbox), e)' <=> AckIn(outbox, Len(outbox), e)
    BY <1>1 DEF AckIn
  <2>3. CountedIsTold'
    BY <1>1, <2>1, <2>2 DEF IInv, CountedIsTold
  <2>4. CancelIsOfMain'
    BY <1>1 DEF IInv, CancelIsOfMain, Running
  <2>5. CancelAfterTold'
    BY <1>1, <2>1 DEF IInv, CancelAfterTold
  <2>6. QED
    BY <2>3, <2>4, <2>5
<1>5. Story'
  <2>1. /\ Consuming' <=> Consuming
        /\ \A j : Nacking(j)' <=> Nacking(j)
        /\ Rejections' = Rejections
    BY <1>1 DEF Consuming, SettingUp, Nacking, Rejections, Recorded
  <2>2. BackOnlyRejected' /\ OneOfEachKind' /\ ReadyWasRejected' /\ RejectedHasTask'
    BY <1>1, <2>1 DEF IInv, Story, BackOnlyRejected, OneOfEachKind, ReadyWasRejected, RejectedHasTask
  <2>3. KindsKnown' /\ DoneIsAnswered'
    BY <1>1 DEF IInv, Story, KindsKnown, DoneIsAnswered, Consuming, SettingUp, Nacking
  <2>4. RecordsOfDone'
    BY <1>1, <2>1 DEF IInv, Story, RecordsOfDone
  <2>5. QED
    BY <2>2, <2>3, <2>4 DEF Story
<1>6. AckUnderWay'
  <2>1. /\ Consuming' <=> Consuming
        /\ \A e, n : AckIn(outbox, n, e)' <=> AckIn(outbox, n, e)
        /\ \A e, n : AckIn(wire, n, e)' <=> AckIn(wire, n, e)
        /\ \A e : AckIn(outbox, Len(outbox), e)' <=> AckIn(outbox, Len(outbox), e)
        /\ \A e : AckIn(wire, Len(wire), e)' <=> AckIn(wire, Len(wire), e)
    BY <1>1 DEF Consuming, SettingUp, AckIn
  <2>2. QED
    BY <1>1, <2>1 DEF IInv, AckUnderWay
<1>7. (OnlyFirst /\ BlockedOne /\ Returned)'
  BY <1>1 DEF IInv, OnlyFirst, BlockedOne, Returned, WholeWithoutLoss, MissingWithLosses, Recorded
<1>8. QED
  BY <1>2, <1>3, <1>4, <1>5, <1>6, <1>7 DEF IInv

(* IInv is an invariant: it holds at first, every step keeps it.           *)
THEOREM RabbitInvariant == Spec => []IInv
<1>1. IInv /\ [Next]_vars => IInv'
  <2> SUFFICES ASSUME IInv, [Next]_vars PROVE IInv'
    OBVIOUS
  <2>1. CASE UNCHANGED vars
    BY <2>1, StutterStep
  <2>2. CASE Purge \/ PurgeAlternate \/ PublishProbe \/ GetProbe \/ AckProbe
    <3>1. PICK e \in Events : TRUE
      BY ConsumerAssumption
    <3>2. QED
      BY <2>2, <3>1, SetupStep
  <2>3. CASE \E e \in Events : PublishEvent(e)
    BY <2>3, SetupStep
  <2>4. CASE \E e \in Events : Deliver(e)
    BY <2>4, DeliverStep
  <2>5. CASE TakeFrame
    BY <2>5, TakeFrameStep
  <2>6. CASE LoseConnection
    BY <2>6, LoseConnectionStep
  <2>7. CASE \E i \in DOMAIN tasks : StartHandler(i) \/ RejectFirst(i)
    BY <2>7, StartHandlerStep, RejectFirstStep
  <2>8. CASE WriteFrame
    BY <2>8, WriteFrameStep
  <2>9. CASE SeeFirst \/ Release \/ SeeAllAcknowledged \/ TimeOut
    BY <2>9, MainStep
  <2>10. CASE Ended
    BY <2>1, <2>10 DEF Ended
  <2>11. QED
    BY <2>1, <2>2, <2>3, <2>4, <2>5, <2>6, <2>7, <2>8, <2>9, <2>10 DEF Next
<1>2. QED
  BY <1>1, InitIInv, PTL DEF Spec

(* Every variable of the consumer keeps its type.                          *)
THEOREM RabbitTypes == Spec => []TypeOK
<1>1. IInv => TypeOK
  BY DEF IInv
<1>2. QED
  BY <1>1, RabbitInvariant, PTL

(* What run_rabbit returns agrees with what is in its queues: complete     *)
(* while the connection holds, and after a loss missing only the events    *)
(* whose handler's ack raised; and a message leaves the queue only once    *)
(* its ack is recorded.                                                    *)
THEOREM ReturnsTheWholeStory == Spec => []ReturnsWholeStory
<1>1. IInv => ReturnsWholeStory
  <2> SUFFICES ASSUME IInv PROVE ReturnsWholeStory
    OBVIOUS
  <2>1. ASSUME NEW f \in Frames \ {Cancel}
        PROVE  tasks[f.task].on = losses /\ queue[tasks[f.task].event] = "unacked"
    <3>1. CASE \E k \in DOMAIN outbox : f = outbox[k]
      <4>1. PICK k \in DOMAIN outbox : f = outbox[k]
        BY <3>1
      <4>2. f \in Frame
        BY <4>1, TypeFacts DEF IInv
      <4>3. IsAnswer(outbox[k])
        BY <4>1, <4>2, FrameKinds
      <4>4. f.task \in DOMAIN tasks /\ tasks[f.task].pc = "sending" /\ tasks[f.task].on = losses
        BY <4>1, <4>3 DEF IInv, Pipeline, OutboxPlaced
      <4>5. Waiting(f.task)
        BY <4>4 DEF Waiting
      <4>6. QED
        BY <4>4, <4>5 DEF IInv, Pipeline, TasksPlaced
    <3>2. CASE \E k \in DOMAIN wire : f = wire[k]
      <4>1. PICK k \in DOMAIN wire : f = wire[k]
        BY <3>2
      <4>2. f \in Frame
        BY <4>1, TypeFacts DEF IInv
      <4>3. IsAnswer(wire[k])
        BY <4>1, <4>2, FrameKinds
      <4>4. QED
        BY <4>1, <4>3 DEF IInv, Pipeline, WirePlaced
    <3>3. QED
      BY <3>1, <3>2 DEF Frames
  <2>2. GoneIsRecorded
    BY <2>1 DEF IInv, GoneRecorded, GoneIsRecorded
  <2>3. ProbeIsOwn
    BY DEF IInv, ProbeStages, ProbeIsOwn, SettingUp
  <2>4. QED
    BY <2>2, <2>3 DEF ReturnsWholeStory, IInv, Returned
<1>2. QED
  BY <1>1, RabbitInvariant, PTL

(* With a prefetch of one the first delivery holds back every other until  *)
(* it is let go, and one is what the main coroutine counts.                *)
THEOREM OthersBlockedByFirst == Spec => []BlockedByFirst
<1>1. IInv => BlockedByFirst
  <2> SUFFICES ASSUME IInv, prefetch = 1, losses = 0
               PROVE  /\ SettingUp \/ main \in {"first", "second"} => attempts <= 1
                      /\ main = "acks" => blocked = 1
    BY DEF BlockedByFirst
  <2>1. SettingUp => attempts = 0
    BY DEF IInv, SetupClean
  <2>2. ASSUME main \in {"first", "second"} PROVE attempts \in {0, 1}
    <3>1. Len(tasks) \in Nat
      BY TypeFacts DEF IInv
    <3>2. Len(tasks) <= 1
      BY <2>2 DEF IInv, OnlyFirst
    <3>3. Len(tasks) = 0 \/ Len(tasks) = 1
      <4>1. PICK n \in Nat : n = Len(tasks)
        BY <3>1
      <4>2. n <= 1
        BY <3>2, <4>1
      <4>3. n = 0 \/ n = 1
        BY <4>2
      <4>4. QED
        BY <4>1, <4>3
    <3>4. CASE Len(tasks) = 0
      BY <2>2, <3>4 DEF IInv, OnlyFirst
    <3>5. CASE Len(tasks) = 1
      BY <2>2, <3>5 DEF IInv, OnlyFirst
    <3>6. QED
      BY <3>3, <3>4, <3>5
  <2>3. main = "acks" => blocked = 1
    BY DEF IInv, BlockedOne
  <2>4. QED
    BY <2>1, <2>2, <2>3
<1>2. QED
  BY <1>1, RabbitInvariant, PTL
=============================================================================
