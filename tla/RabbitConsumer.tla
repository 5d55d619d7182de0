--------------------------- MODULE RabbitConsumer ----------------------------
(***************************************************************************)
(* P12-kafka-versus-rabbitmq: run_rabbit empties its two queues, publishes *)
(* the events to the main one and a probe to the alternate one, takes the  *)
(* probe, and _consume_main_queue reads the events back.  The handler      *)
(* rejects the first event it sees and acknowledges every other delivery,  *)
(* while the main coroutine counts what started before it let go of the    *)
(* first.                                                                  *)
(*                                                                         *)
(* One event loop runs the coroutines: they interleave at their awaits     *)
(* only.  RabbitMQ and aio_pika are external.  The broker may deliver the  *)
(* ready messages in any order; the client writes its frames in the order  *)
(* they were sent, and whoever sent one goes on when it is written.  A     *)
(* lost connection is reopened (connect_robust): what was not acknowledged *)
(* is ready again, and an older delivery can no longer be answered.  The   *)
(* queues outlive the program: an earlier run that failed has left some of *)
(* its messages in them.                                                   *)
(***************************************************************************)
EXTENDS Integers, Sequences, FiniteSets

CONSTANTS
  Events,      (* Scenario.events, all published                           *)
  Prefetches,  (* the values of Scenario.rabbit_prefetch considered        *)
  NoEvent,
  MaxLosses    (* bound: connections lost                                  *)

ASSUME ConsumerAssumption ==
  /\ Events # {} /\ IsFiniteSet(Events)
  /\ Prefetches \subseteq Nat \ {0}
  /\ NoEvent \notin Events
  /\ MaxLosses \in Nat

VARIABLES
  prefetch,     (* Scenario.rabbit_prefetch                                *)
  queue,        (* the broker's view of each message                       *)
  redelivered,  (* ... and its redelivered flag                            *)
  losses,       (* connections lost so far: the current one's number       *)
  tasks,        (* the calls of handle, in the order of their deliveries   *)
  outbox,       (* frames sent and not yet written                         *)
  wire,         (* frames written that the broker has not taken            *)
  main,         (* where _consume_main_queue stands                        *)
  rejected,     (* rejected_event_id                                       *)
  attempts,     (* attempts_started                                        *)
  acknowledged,
  deliveries,
  allAcked,     (* all_acknowledged.is_set()                               *)
  blocked,      (* deliveries_while_blocked                                *)
  alternate,    (* the alternate queue: whose probes are in it             *)
  probed        (* alternate_delivery: whose probe it was                  *)

brokerVars == <<queue, redelivered, losses>>
handlerVars == <<rejected, attempts, acknowledged, deliveries, allAcked>>
probeVars == <<alternate, probed>>
vars == <<prefetch, brokerVars, tasks, outbox, wire, main, blocked, handlerVars, probeVars>>

Unacked == {e \in Events : queue[e] = "unacked"}
Running == main \notin {"returned", "raised"}
SettingUp == main \in {"purge", "purge alternate", "publish", "get", "ack probe"}
Cancel == [kind |-> "cancel"]

(* The asyncio.Events the other variables determine.                       *)
FirstStarted == rejected # NoEvent
SecondStarted == attempts >= 2
FirstReleased == ~SettingUp /\ main \notin {"first", "second"}

Init ==
  /\ prefetch \in Prefetches
  /\ queue \in [Events -> {"ready", "gone"}]
  /\ redelivered \in [Events -> BOOLEAN]
  /\ \A e \in Events : queue[e] = "gone" => ~redelivered[e]
  /\ alternate \in {<<>>, <<"earlier">>} /\ probed = "none"
  /\ losses = 0
  /\ tasks = <<>> /\ outbox = <<>> /\ wire = <<>>
  /\ main = "purge"
  /\ rejected = NoEvent
  /\ attempts = 0
  /\ acknowledged = {}
  /\ deliveries = <<>>
  /\ allAcked = FALSE
  /\ blocked = 0

-----------------------------------------------------------------------------
(* run_rabbit, up to the consumer.                                         *)

SetupOnly == UNCHANGED <<prefetch, losses, tasks, outbox, wire, blocked, handlerVars>>

Purge ==
  /\ main = "purge"
  /\ queue' = [e \in Events |-> "gone"] /\ redelivered' = [e \in Events |-> FALSE]
  /\ main' = "purge alternate"
  /\ UNCHANGED probeVars /\ SetupOnly

(* Mutant: the alternate queue is not purged.                              *)
PurgedNot == alternate
Purged == <<>>
PurgeAlternate ==
  /\ main = "purge alternate"
  /\ alternate' = Purged
  /\ main' = "publish"
  /\ UNCHANGED <<queue, redelivered, probed>> /\ SetupOnly

PublishEvent(e) ==
  /\ main = "publish" /\ queue[e] = "gone"
  /\ queue' = [queue EXCEPT ![e] = "ready"]
  /\ UNCHANGED <<redelivered, main, probeVars>> /\ SetupOnly

PublishProbe ==
  /\ main = "publish" /\ \A e \in Events : queue[e] = "ready"
  /\ alternate' = Append(alternate, "own")
  /\ main' = "get"
  /\ UNCHANGED <<queue, redelivered, probed>> /\ SetupOnly

GetProbe ==
  /\ main = "get" /\ alternate # <<>>
  /\ probed' = Head(alternate)
  /\ main' = "ack probe"
  /\ UNCHANGED <<queue, redelivered, alternate>> /\ SetupOnly

AckProbe ==
  /\ main = "ack probe"
  /\ alternate' = Tail(alternate)
  /\ main' = "first"
  /\ UNCHANGED <<queue, redelivered, probed>> /\ SetupOnly

-----------------------------------------------------------------------------
(* The broker and the connection.                                          *)

(* Mutant: the channel has no prefetch limit.                              *)
MayDeliverAlways(e) == queue[e] = "ready"
MayDeliver(e) == queue[e] = "ready" /\ Cardinality(Unacked) < prefetch

Deliver(e) ==
  /\ Running /\ ~SettingUp /\ MayDeliver(e)
  /\ queue' = [queue EXCEPT ![e] = "unacked"]
  /\ tasks' = Append(tasks,
       [event |-> e, redelivered |-> redelivered[e], on |-> losses, pc |-> "new"])
  /\ UNCHANGED <<prefetch, redelivered, losses, outbox, wire, main, blocked, handlerVars, probeVars>>

(* nack(requeue=True).  Mutant: without requeue the message is discarded.   *)
NackedDiscarded == "gone"
Nacked == "ready"

(* The broker takes a frame.  Its answer to a cancel is what the main      *)
(* coroutine waits for before it returns, or lets its exception out.       *)
TakeFrame ==
  /\ Running /\ wire # <<>>
  /\ wire' = Tail(wire)
  /\ LET f == Head(wire) IN
     \/ /\ f.kind = "ack"
        /\ queue' = [queue EXCEPT ![tasks[f.task].event] = "gone"]
        /\ UNCHANGED <<redelivered, main>>
     \/ /\ f.kind = "nack"
        /\ queue' = [queue EXCEPT ![tasks[f.task].event] = Nacked]
        /\ redelivered' = [redelivered EXCEPT ![tasks[f.task].event] = TRUE]
        /\ UNCHANGED main
     \/ /\ f = Cancel
        /\ main' = IF main = "cancelling" THEN "returned" ELSE "raised"
        /\ UNCHANGED <<queue, redelivered>>
  /\ UNCHANGED <<prefetch, losses, tasks, outbox, blocked, handlerVars, probeVars>>

(* Whoever waits for a frame to be written gets an exception, and so does  *)
(* run_rabbit before it consumes.                                          *)
LoseConnection ==
  /\ Running /\ losses < MaxLosses
  /\ losses' = losses + 1
  /\ queue' = [e \in Events |-> IF queue[e] = "unacked" THEN "ready" ELSE queue[e]]
  /\ redelivered' = [e \in Events |-> redelivered[e] \/ queue[e] = "unacked"]
  /\ outbox' = <<>> /\ wire' = <<>>
  /\ tasks' = [i \in DOMAIN tasks |->
                 IF tasks[i].pc = "sending" THEN [tasks[i] EXCEPT !.pc = "failed"] ELSE tasks[i]]
  /\ main' = IF SettingUp \/ main \in {"cancelling", "failing"} THEN "raised" ELSE main
  /\ UNCHANGED <<prefetch, blocked, handlerVars, probeVars>>

-----------------------------------------------------------------------------
(* handle                                                                  *)

(* An answer on a connection that is gone raises in the handler.           *)
(* Mutant: it is sent on the new connection.                               *)
AnswerAnyway(i, kind) ==
  /\ outbox' = Append(outbox, [kind |-> kind, task |-> i])
  /\ tasks' = [tasks EXCEPT ![i].pc = "sending"]
Answer(i, kind) ==
  IF tasks[i].on = losses
  THEN /\ outbox' = Append(outbox, [kind |-> kind, task |-> i])
       /\ tasks' = [tasks EXCEPT ![i].pc = "sending"]
  ELSE /\ tasks' = [tasks EXCEPT ![i].pc = "failed"]
       /\ UNCHANGED outbox

(* Up to the first await: the wait for release_first, or message.ack().    *)
StartHandler(i) ==
  /\ Running /\ tasks[i].pc = "new"
  /\ attempts' = attempts + 1
  /\ \/ /\ rejected = NoEvent
        /\ rejected' = tasks[i].event
        /\ tasks' = [tasks EXCEPT ![i].pc = "held"]
        /\ UNCHANGED <<outbox, acknowledged>>
     \/ /\ rejected # NoEvent
        /\ acknowledged' = acknowledged \union {tasks[i].event}
        /\ Answer(i, "ack")
        /\ UNCHANGED rejected
  /\ UNCHANGED <<prefetch, brokerVars, wire, main, blocked, deliveries, allAcked, probeVars>>

RejectFirst(i) ==
  /\ Running /\ tasks[i].pc = "held" /\ FirstReleased
  /\ Answer(i, "nack")
  /\ UNCHANGED <<prefetch, brokerVars, wire, main, blocked, handlerVars, probeVars>>

Record(i, kind) ==
  [event |-> tasks[i].event, redelivered |-> tasks[i].redelivered,
   decision |-> IF kind = "nack" THEN "nack-requeue" ELSE "ack"]

(* Mutant: one event less is enough.                                       *)
AllAcknowledgedEarly == Cardinality(acknowledged) >= Cardinality(Events) - 1
AllAcknowledged == Cardinality(acknowledged) = Cardinality(Events)

(* The next frame is written, and the handler that sent it runs to its end. *)
WriteFrame ==
  /\ Running /\ outbox # <<>>
  /\ outbox' = Tail(outbox)
  /\ wire' = Append(wire, Head(outbox))
  /\ LET f == Head(outbox) IN
     \/ /\ f = Cancel
        /\ UNCHANGED <<tasks, deliveries, allAcked>>
     \/ /\ f # Cancel
        /\ tasks' = [tasks EXCEPT ![f.task].pc = "done"]
        /\ deliveries' = Append(deliveries, Record(f.task, f.kind))
        /\ allAcked' = (allAcked \/ AllAcknowledged)
  /\ UNCHANGED <<prefetch, brokerVars, main, blocked, rejected, attempts, acknowledged, probeVars>>

-----------------------------------------------------------------------------
(* The main coroutine, from one await to the next.                         *)

MainOnly == UNCHANGED <<prefetch, brokerVars, tasks, wire, handlerVars, probeVars>>

SeeFirst ==
  /\ main = "first" /\ FirstStarted
  /\ main' = "second"
  /\ UNCHANGED <<outbox, blocked>> /\ MainOnly

(* second_started is set, or its quarter of a second is over.              *)
Release ==
  /\ main = "second"
  /\ main' = "acks"
  /\ blocked' = attempts
  /\ UNCHANGED outbox /\ MainOnly

SeeAllAcknowledged ==
  /\ main = "acks" /\ allAcked
  /\ main' = "cancelling"
  /\ outbox' = Append(outbox, Cancel)
  /\ UNCHANGED blocked /\ MainOnly

(* timeout_seconds pass.                                                   *)
TimeOut ==
  /\ \/ main = "first" /\ ~FirstStarted
     \/ main = "acks" /\ ~allAcked
  /\ main' = "failing"
  /\ outbox' = Append(outbox, Cancel)
  /\ UNCHANGED blocked /\ MainOnly

Ended == ~Running /\ UNCHANGED vars

Next ==
  \/ Purge \/ PurgeAlternate \/ PublishProbe \/ GetProbe \/ AckProbe
  \/ \E e \in Events : PublishEvent(e)
  \/ \E e \in Events : Deliver(e)
  \/ TakeFrame \/ LoseConnection
  \/ \E i \in DOMAIN tasks : StartHandler(i) \/ RejectFirst(i)
  \/ WriteFrame
  \/ SeeFirst \/ Release \/ SeeAllAcknowledged \/ TimeOut
  \/ Ended

Spec == Init /\ [][Next]_vars

(* The broker delivers and answers, and the event loop runs what is ready. *)
(* No timeout is needed for progress, but the one of second_started.       *)
Fairness ==
  /\ WF_vars(Purge) /\ WF_vars(PurgeAlternate) /\ WF_vars(\E e \in Events : PublishEvent(e))
  /\ WF_vars(PublishProbe) /\ WF_vars(GetProbe) /\ WF_vars(AckProbe)
  /\ WF_vars(\E e \in Events : Deliver(e))
  /\ WF_vars(TakeFrame)
  /\ WF_vars(\E i \in DOMAIN tasks : StartHandler(i))
  /\ WF_vars(\E i \in DOMAIN tasks : RejectFirst(i))
  /\ WF_vars(WriteFrame)
  /\ WF_vars(SeeFirst) /\ WF_vars(Release) /\ WF_vars(SeeAllAcknowledged)

FairSpec == Spec /\ Fairness

-----------------------------------------------------------------------------
(* Correctness.                                                            *)

Task == [event : Events, redelivered : BOOLEAN, on : Nat,
         pc : {"new", "held", "sending", "done", "failed"}]
Frame == {Cancel} \union [kind : {"ack", "nack"}, task : Nat \ {0}]
Delivery == [event : Events, redelivered : BOOLEAN, decision : {"ack", "nack-requeue"}]

Frames == {outbox[k] : k \in DOMAIN outbox} \union {wire[k] : k \in DOMAIN wire}

(* Every variable has its type.                                            *)
TypeOK ==
  /\ prefetch \in Prefetches
  /\ queue \in [Events -> {"ready", "unacked", "gone"}]
  /\ redelivered \in [Events -> BOOLEAN]
  /\ losses \in 0 .. MaxLosses
  /\ tasks \in Seq(Task)
  /\ outbox \in Seq(Frame) /\ wire \in Seq(Frame)
  /\ main \in {"purge", "purge alternate", "publish", "get", "ack probe", "first", "second",
               "acks", "cancelling", "failing", "returned", "raised"}
  /\ rejected \in Events \union {NoEvent}
  /\ attempts \in Nat /\ blocked \in Nat
  /\ acknowledged \subseteq Events
  /\ deliveries \in Seq(Delivery)
  /\ allAcked \in BOOLEAN
  /\ alternate \in Seq({"earlier", "own"}) /\ probed \in {"none", "earlier", "own"}

Recorded(e, decision) ==
  {k \in DOMAIN deliveries : deliveries[k].event = e /\ deliveries[k].decision = decision}

(* While the connection holds, what is returned is the whole story, though *)
(* all_acknowledged may be set while handlers still wait for their acks to *)
(* be written: the queue is empty, every event has exactly one ack, the    *)
(* first event, and no other, was rejected once before that, and came back *)
(* marked as redelivered.                                                  *)
WholeWithoutLoss ==
  main = "returned" /\ losses = 0 =>
    /\ rejected # NoEvent
    /\ \A e \in Events :
         /\ queue[e] = "gone"
         /\ \E k \in Recorded(e, "ack") :
              /\ Recorded(e, "ack") = {k}
              /\ deliveries[k].redelivered <=> e = rejected
              /\ IF e = rejected
                 THEN \E j \in 1 .. k - 1 : Recorded(e, "nack-requeue") = {j}
                 ELSE Recorded(e, "nack-requeue") = {}

(* A handler whose ack raises, or is still to be written, has counted its  *)
(* event all the same: after a lost connection a run can return with an    *)
(* event that has no ack.  Then, and only then, is one missing.            *)
MissingWithLosses ==
  main = "returned" =>
    \A e \in Events : Recorded(e, "ack") = {} =>
      losses > 0 /\ \E i \in DOMAIN tasks : tasks[i].event = e /\ tasks[i].pc = "failed"

(* Once it consumes, a message leaves the queue only after the handler has *)
(* finished with it and recorded its ack, whatever connections are lost;   *)
(* for an answer reaches the broker only over the connection its delivery  *)
(* came by, while the broker still counts that as unacknowledged.          *)
GoneIsRecorded ==
  /\ ~SettingUp /\ main # "raised" =>
       \A e \in Events : queue[e] = "gone" => Recorded(e, "ack") # {}
  /\ \A f \in Frames \ {Cancel} :
       /\ tasks[f.task].on = losses
       /\ queue[tasks[f.task].event] = "unacked"

(* What a run returns is its own: the probe too, whatever earlier runs     *)
(* left in the queues.                                                     *)
ProbeIsOwn == main = "returned" => probed = "own" /\ alternate = <<>>

(* The four together: what run_rabbit returns and what is in its queues    *)
(* agree.                                                                  *)
ReturnsWholeStory ==
  WholeWithoutLoss /\ MissingWithLosses /\ GoneIsRecorded /\ ProbeIsOwn

(* With a prefetch of one, nothing else starts while the first delivery is *)
(* held, and one is what the main coroutine counts.                        *)
BlockedByFirst ==
  prefetch = 1 /\ losses = 0 =>
    /\ SettingUp \/ main \in {"first", "second"} => attempts <= 1
    /\ main = "acks" => blocked = 1

(* The run ends, by no timeout but the one it suppresses: no handler, no   *)
(* message and no coroutine waits for ever for another.                    *)
RunEnds == <>~Running
=============================================================================
