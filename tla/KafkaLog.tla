------------------------------ MODULE KafkaLog ------------------------------
(***************************************************************************)
(* P12-kafka-versus-rabbitmq, the log: run_kafka recreates the topic,      *)
(* publishes the events of the scenario, reads as many records as there    *)
(* are events with the live group and commits once at the end, looks       *)
(* whether the group resumes at the end, and reads everything again with   *)
(* another group.  comparison.py then judges what was read.                *)
(*                                                                         *)
(* The broker and aiokafka are external.  A partition is the sequence of   *)
(* its records, the first at offset 0.  The producer is not idempotent: a  *)
(* record whose answer is lost is sent again and stays in the log twice.   *)
(* A consumer reads its partitions in any interleaving.  The program may   *)
(* stop anywhere, by a timeout, an exception or a kill, and be run again.  *)
(***************************************************************************)
EXTENDS Integers, Sequences, FiniteSets

CONSTANTS
  Published,   (* Scenario.events                                          *)
  Partitions,  (* of the topic                                             *)
  MaxRepeats   (* bound: answers lost in a run                             *)

Events == {Published[i] : i \in DOMAIN Published}
Orders == {e.order : e \in Events}

(* Scenario.unique_and_ordered_events.                                     *)
ASSUME LogAssumption ==
  /\ Published # <<>>
  /\ Published \in Seq([id : {e.id : e \in Events}, order : Orders, sequence : Nat \ {0}])
  /\ \A i, j \in DOMAIN Published : Published[i].id = Published[j].id => i = j
  /\ Partitions # {} /\ IsFiniteSet(Partitions)
  /\ MaxRepeats \in Nat

VARIABLES
  partitionOf,   (* where the hash of a key puts it                        *)
  log,           (* the records of each partition                          *)
  committed,     (* the live group's offsets, 0 when it has none           *)
  position,      (* the next offset the consumer of this step reads        *)
  step,          (* how far run_kafka is                                   *)
  repeats,       (* records sent again in this run                         *)
  produced, consumed, replayed, resumedAtEnd   (* what run_kafka returns   *)

returned == <<produced, consumed, replayed, resumedAtEnd>>
logVars == <<partitionOf, log, committed, position, step, repeats, returned>>

RunGoesOn == step \in {"produce", "live", "resume", "replay"}
Earliest == [p \in Partitions |-> 0]

LogInit ==
  /\ partitionOf \in [Orders -> Partitions]
  /\ log = [p \in Partitions |-> <<>>]
  /\ committed = Earliest /\ position = Earliest
  /\ step = "new"
  /\ repeats = 0
  /\ produced = <<>> /\ consumed = <<>> /\ replayed = <<>>
  /\ resumedAtEnd = FALSE

-----------------------------------------------------------------------------
(* A group loses its offsets with the topic they are of.  Mutant: they are *)
(* kept, and applied to the topic created in its place.                    *)
OffsetsKept == committed
OffsetsAfterDelete == Earliest

ResetTopic ==
  /\ ~RunGoesOn
  /\ step' = "produce"
  /\ log' = [p \in Partitions |-> <<>>]
  /\ committed' = OffsetsAfterDelete
  /\ position' = Earliest
  /\ repeats' = 0
  /\ produced' = <<>> /\ consumed' = <<>> /\ replayed' = <<>>
  /\ resumedAtEnd' = FALSE
  /\ UNCHANGED partitionOf

(* send_and_wait.  Mutant: without a key any partition will do.            *)
PartitionsForNoKey(e) == Partitions
PartitionsFor(e) == {partitionOf[e.order]}

ToSend == Published[Len(produced) + 1]
Sending == step = "produce" /\ Len(produced) < Len(Published)

SendAnswered ==
  /\ Sending
  /\ \E p \in PartitionsFor(ToSend) :
       /\ log' = [log EXCEPT ![p] = Append(@, ToSend)]
       /\ produced' = Append(produced,
            [event |-> ToSend, partition |-> p, offset |-> Len(log[p])])
  /\ UNCHANGED <<partitionOf, committed, position, step, repeats,
                 consumed, replayed, resumedAtEnd>>

SendUnanswered ==
  /\ Sending /\ repeats < MaxRepeats
  /\ \E p \in PartitionsFor(ToSend) : log' = [log EXCEPT ![p] = Append(@, ToSend)]
  /\ repeats' = repeats + 1
  /\ UNCHANGED <<partitionOf, committed, position, step, returned>>

-----------------------------------------------------------------------------
(* _consume, _live_group_resumes_at_end.  auto_offset_reset is earliest:   *)
(* an offset beyond the log counts as none.                                *)
ResumeAt(offsets) ==
  [p \in Partitions |-> IF offsets[p] <= Len(log[p]) THEN offsets[p] ELSE 0]

Unread(p) == position[p] < Len(log[p])
Delivery(p) ==
  [event |-> log[p][position[p] + 1], partition |-> p, offset |-> position[p]]

StartLive ==
  /\ step = "produce" /\ Len(produced) = Len(Published)
  /\ step' = "live"
  /\ position' = ResumeAt(committed)
  /\ UNCHANGED <<partitionOf, log, committed, repeats, returned>>

ReadLive(p) ==
  /\ step = "live" /\ Len(consumed) < Len(Published) /\ Unread(p)
  /\ consumed' = Append(consumed, Delivery(p))
  /\ position' = [position EXCEPT ![p] = @ + 1]
  /\ UNCHANGED <<partitionOf, log, committed, step, repeats,
                 produced, replayed, resumedAtEnd>>

(* Mutant: the ends of the partitions are committed, not what was read.    *)
LogEnds == [p \in Partitions |-> Len(log[p])]
OffsetsToCommit == position

Commit ==
  /\ step = "live" /\ Len(consumed) = Len(Published)
  /\ committed' = OffsetsToCommit
  /\ step' = "resume"
  /\ position' = ResumeAt(OffsetsToCommit)
  /\ UNCHANGED <<partitionOf, log, repeats, returned>>

(* A record is there for the group ...                                     *)
FindRecord ==
  /\ step = "resume" /\ \E p \in Partitions : Unread(p)
  /\ resumedAtEnd' = FALSE
  /\ step' = "replay" /\ position' = Earliest
  /\ UNCHANGED <<partitionOf, log, committed, repeats, produced, consumed, replayed>>

(* ... or none has come after half a second, even if one is there.         *)
FindNothing ==
  /\ step = "resume"
  /\ resumedAtEnd' = TRUE
  /\ step' = "replay" /\ position' = Earliest
  /\ UNCHANGED <<partitionOf, log, committed, repeats, produced, consumed, replayed>>

ReadReplay(p) ==
  /\ step = "replay" /\ Len(replayed) < Len(Published) /\ Unread(p)
  /\ replayed' = Append(replayed, Delivery(p))
  /\ position' = [position EXCEPT ![p] = @ + 1]
  /\ UNCHANGED <<partitionOf, log, committed, step, repeats,
                 produced, consumed, resumedAtEnd>>

Finish ==
  /\ step = "replay" /\ Len(replayed) = Len(Published)
  /\ step' = "done"
  /\ UNCHANGED <<partitionOf, log, committed, position, repeats, returned>>

(* A timeout, an exception or the end of the process.                      *)
Fail ==
  /\ RunGoesOn
  /\ step' = "raised"
  /\ UNCHANGED <<partitionOf, log, committed, position, repeats, returned>>

LogNext ==
  \/ ResetTopic
  \/ SendAnswered \/ SendUnanswered
  \/ StartLive \/ Commit \/ FindRecord \/ FindNothing \/ Finish
  \/ \E p \in Partitions : ReadLive(p) \/ ReadReplay(p)
  \/ Fail

LogSpec == LogInit /\ [][LogNext]_logVars

-----------------------------------------------------------------------------
(* comparison.py                                                           *)

EventsOf(ds) == {ds[i].event : i \in DOMAIN ds}
SameEvents(first, second) == EventsOf(first) = EventsOf(second)

OfOrder(ds, o) == {i \in DOMAIN ds : ds[i].event.order = o}

(* A tuple of sequences, as the set of its items with their places.        *)
Place(indexes, i) == Cardinality({j \in indexes : j <= i})
KeySequences(ds) ==
  [o \in {e.order : e \in EventsOf(ds)} |->
     {<<Place(OfOrder(ds, o), i), ds[i].event.sequence>> : i \in OfOrder(ds, o)}]

(* produced_partitions: the dictionary keeps the last entry of an event.   *)
ProducedPartition(ds, e) ==
  LET at == {i \in DOMAIN ds : ds[i].event = e}
  IN  ds[CHOOSE i \in at : \A j \in at : j <= i].partition

SameKeyOrder(made, read) ==
  /\ SameEvents(made, read)
  /\ KeySequences(made) = KeySequences(read)
  /\ \A o \in DOMAIN KeySequences(read) : \A i, j \in OfOrder(read, o) :
       /\ read[i].partition = read[j].partition
       /\ i < j => read[i].offset < read[j].offset
       /\ ProducedPartition(made, read[i].event) = read[i].partition

-----------------------------------------------------------------------------
(* Correctness.                                                            *)

(* The live group's offsets never pass a record that the program has not   *)
(* read, whatever is repeated and wherever a run stops: a run that fails   *)
(* before its commit loses nothing.                                        *)
CommittedWasRead ==
  \A p \in Partitions :
    /\ committed[p] <= Len(log[p])
    /\ \A k \in 1 .. committed[p] :
         [event |-> log[p][k], partition |-> p, offset |-> k - 1]
           \in {consumed[i] : i \in DOMAIN consumed}

Records == UNION {{p} \X (1 .. Len(log[p])) : p \in Partitions}
UnreadRecords == {r \in Records : r[2] > position[r[1]]}

(* Neither reader waits for a record that will not come: what is left to   *)
(* read is in the log, in the first run and in every run after it.         *)
NoReaderStarves ==
  /\ step = "live" => Cardinality(UnreadRecords) >= Len(Published) - Len(consumed)
  /\ step = "replay" => Cardinality(UnreadRecords) >= Len(Published) - Len(replayed)

(* Offsets that outlive a run or a topic neither lose a record nor leave a *)
(* reader waiting.                                                         *)
OffsetsSound == CommittedWasRead /\ NoReaderStarves

IndexOf(e) == CHOOSE i \in DOMAIN Published : Published[i] = e

(* What one reader got is all events once, those of an order as published. *)
ReadAsPublished(ds) ==
  /\ EventsOf(ds) = Events
  /\ \A i, j \in DOMAIN ds :
       i < j /\ ds[i].event.order = ds[j].event.order =>
         IndexOf(ds[i].event) < IndexOf(ds[j].event)

(* The comparison reports that the order per key was preserved exactly     *)
(* when it was, though records may be in the log twice; and when none is,  *)
(* both readers got everything in order and the group resumed at the end.  *)
ReportTruthful ==
  step = "done" =>
    /\ \A ds \in {consumed, replayed} : SameKeyOrder(produced, ds) <=> ReadAsPublished(ds)
    /\ repeats = 0 => ReadAsPublished(consumed) /\ ReadAsPublished(replayed) /\ resumedAtEnd
=============================================================================
