--------------------------- MODULE ConcurrencyRace ---------------------------
(***************************************************************************)
(* P02-asyncio-threads-e-processos: run_experiment measures six strategies *)
(* one after another, each several times.  A measurement runs a workload   *)
(* while a heartbeat on the same event loop records how late it wakes up.  *)
(* The whole race has one deadline, asyncio.wait_for's.                    *)
(*                                                                         *)
(* asyncio and the executors are external.  Coroutines interleave at their *)
(* awaits only; what is scheduled first starts first; the loop may wake    *)
(* anyone late.  A thread or a process that has begun cannot be cancelled, *)
(* and leaving the process pool blocks the loop until its processes rest.  *)
(***************************************************************************)
EXTENDS Integers, Sequences, FiniteSets

CONSTANTS
  IoOperations,  (* Scenario.io.operations                                 *)
  CpuInputs,     (* Scenario.cpu.inputs                                    *)
  IoDelay,       (* Scenario.io.delay_seconds                              *)
  CpuCost,       (* what one cpu_work takes                                *)
  Interval,      (* Scenario.heartbeat_interval_seconds                    *)
  Repetitions,   (* Scenario.repetitions                                   *)
  Workers,       (* Scenario.cpu.process_workers                           *)
  Threads,       (* workers of asyncio's default executor                  *)
  MaxLag         (* bound: how late the loop wakes the heartbeat           *)

ASSUME RaceAssumption ==
  /\ IoOperations \in Nat \ {0} /\ CpuInputs \in Seq(Nat \ {0})
  /\ IoDelay \in Nat /\ CpuCost \in Nat /\ Interval \in Nat \ {0}
  /\ Repetitions \in Nat \ {0} /\ Workers \in Nat \ {0} /\ Threads \in Nat \ {0}
  /\ MaxLag \in Nat

VARIABLES
  strategy,     (* the strategy being measured, by its place               *)
  main,         (* where the coroutine of run_experiment stands            *)
  pending,      (* the exception measure() will let out                    *)
  heartbeat,    (* the heartbeat task                                      *)
  stop,         (* stop.is_set()                                           *)
  starved,      (* how long the loop was blocked since the last beat       *)
  worst,        (* the largest of heartbeat_delays, or NoBeat              *)
  item,         (* the calls of the workload                               *)
  finished,     (* their answers, in the order in which they finished      *)
  result,       (* what the workload returned                              *)
  measurements, (* those of this strategy                                  *)
  reports, outcome

workloadVars == <<item, finished, result>>
heartbeatVars == <<heartbeat, starved, worst>>
progressVars == <<strategy, measurements, reports, outcome>>
raceVars == <<main, pending, stop, workloadVars, heartbeatVars, progressVars>>

Strategies ==
  << [category |-> "I/O", kind |-> "sequential"],
     [category |-> "I/O", kind |-> "concurrent"],
     [category |-> "I/O", kind |-> "blocking"],
     [category |-> "CPU", kind |-> "direct"],
     [category |-> "CPU", kind |-> "threads"],
     [category |-> "CPU", kind |-> "processes"] >>

Kind == Strategies[strategy].kind
Size(s) == IF Strategies[s].category = "I/O" THEN IoOperations ELSE Len(CpuInputs)
Calls == 1 .. Size(strategy)
NoBeat == -1
Larger(a, b) == IF a >= b THEN a ELSE b

(* simulated_io and cpu_work.                                              *)
CpuWork(iterations) ==
  LET total[k \in 0 .. iterations] ==
        IF k = 0 THEN 0 ELSE (total[k - 1] + (k - 1) * (k - 1)) % 1000000007
  IN  total[iterations]
Output(s, i) == IF Strategies[s].category = "I/O" THEN 2 * (i - 1) ELSE CpuWork(CpuInputs[i])

RaceInit ==
  /\ strategy = 1 /\ main = "measure" /\ pending = "none"
  /\ heartbeat = "ended" /\ stop = FALSE /\ starved = 0 /\ worst = NoBeat
  /\ item = <<>> /\ finished = <<>> /\ result = <<>>
  /\ measurements = <<>> /\ reports = <<>>
  /\ outcome = "none"

-----------------------------------------------------------------------------
(* The heartbeat.                                                          *)

CreateHeartbeat ==
  /\ main = "measure"
  /\ main' = "yielded"
  /\ stop' = FALSE
  /\ heartbeat' = "created" /\ starved' = 0 /\ worst' = NoBeat
  /\ item' = <<>> /\ finished' = <<>> /\ result' = <<>>
  /\ UNCHANGED <<pending, progressVars>>

LoopFree == main # "joining"

StartHeartbeat ==
  /\ LoopFree /\ heartbeat = "created"
  /\ heartbeat' = IF stop THEN "ended" ELSE "sleeping"
  /\ starved' = 0
  /\ UNCHANGED <<main, pending, stop, worst, workloadVars, progressVars>>

Beat ==
  /\ LoopFree /\ heartbeat = "sleeping"
  /\ \E lag \in 0 .. MaxLag :
       worst' = Larger(worst, Larger(Interval, starved) + lag - Interval)
  /\ starved' = 0
  /\ heartbeat' = IF stop THEN "ended" ELSE "sleeping"
  /\ UNCHANGED <<main, pending, stop, workloadVars, progressVars>>

-----------------------------------------------------------------------------
(* The workloads.                                                          *)

Blocks(s) == Strategies[s].kind \in {"blocking", "direct"}
BlockedSpan(s) ==
  CASE Strategies[s].kind = "blocking" -> Size(s) * IoDelay
    [] Strategies[s].kind = "direct"   -> Size(s) * CpuCost
    [] OTHER                           -> 0

(* How many calls may run at once: io_sequential awaits each before it     *)
(* makes the next.  Mutant: it makes them all.                             *)
SlotsUnawaited ==
  CASE Kind = "threads"   -> Threads
    [] Kind = "processes" -> Workers
    [] OTHER              -> Size(strategy)
Slots ==
  CASE Kind = "sequential" -> 1
    [] Kind = "threads"    -> Threads
    [] Kind = "processes"  -> Workers
    [] OTHER               -> Size(strategy)

(* What a workload returns of the answers it got.  A loop appends each as  *)
(* it comes; gather asks every call it was given for its own.  Mutant:     *)
(* nobody asks whose an answer is.                                         *)
Answer(i) == [call |-> i, value |-> Output(strategy, i)]
Appended(answers) == [k \in DOMAIN answers |-> answers[k].value]
Gathered(answers) ==
  [i \in Calls |-> answers[CHOOSE k \in DOMAIN answers : answers[k].call = i].value]
ResultsAsFinished(answers) == Appended(answers)
Results(answers) ==
  IF Kind \in {"concurrent", "threads", "processes"} THEN Gathered(answers) ELSE Appended(answers)

(* asyncio.sleep(0) lets the heartbeat start.  Mutant: measure() goes on   *)
(* without it.                                                             *)
MayStartAtOnce == main = "yielded"
MayStart == main = "yielded" /\ heartbeat # "created"

StartWorkload ==
  /\ MayStart /\ ~Blocks(strategy)
  /\ main' = "working"
  /\ item' = [i \in Calls |-> IF i <= Slots THEN "running" ELSE "queued"]
  /\ UNCHANGED <<pending, stop, finished, result, heartbeatVars, progressVars>>

(* A workload that never awaits, and so makes its calls in their order:    *)
(* the loop stands still until measure() has set stop and waits for the    *)
(* heartbeat.                                                              *)
RunBlocking ==
  /\ MayStart /\ Blocks(strategy)
  /\ starved' = IF heartbeat = "sleeping" THEN starved + BlockedSpan(strategy) ELSE starved
  /\ finished' = [i \in Calls |-> Answer(i)]
  /\ result' = Results(finished')
  /\ main' = "closing" /\ stop' = TRUE
  /\ UNCHANGED <<pending, heartbeat, worst, item, progressVars>>

Busy == {i \in DOMAIN item : item[i] = "running"}
Queued == {i \in DOMAIN item : item[i] = "queued"}

(* A call finishes, and the first that waits takes its place.              *)
FinishCall(i) ==
  /\ item[i] = "running"
  /\ item' = [k \in DOMAIN item |->
                IF k = i THEN "done"
                ELSE IF item[k] = "queued" /\ \A q \in Queued : k <= q THEN "running"
                ELSE item[k]]
  /\ finished' = Append(finished, Answer(i))
  /\ UNCHANGED <<main, pending, stop, result, heartbeatVars, progressVars>>

FinishWorkload ==
  /\ main = "working" /\ \A i \in DOMAIN item : item[i] = "done"
  /\ result' = Results(finished)
  /\ main' = "closing" /\ stop' = TRUE
  /\ UNCHANGED <<pending, item, finished, heartbeatVars, progressVars>>

-----------------------------------------------------------------------------
(* What goes wrong.                                                        *)

Dropped(calls) == [i \in DOMAIN item |-> IF i \in calls THEN "dropped" ELSE item[i]]

(* The deadline cancels what run_experiment awaits.  Threads and processes *)
(* that have begun run on, and so do the calls that the process pool has   *)
(* handed to its queue, up to one more than it has workers.  At sleep(0)   *)
(* the try is not yet entered, and the wait for the heartbeat cancels the  *)
(* heartbeat.                                                              *)
Cancellable == IF Kind \in {"threads", "processes"} THEN Queued ELSE Queued \union Busy
HandedOver ==
  IF Kind = "processes"
  THEN {calls \in SUBSET Queued :
          /\ Cardinality(calls) <= Workers + 1
          /\ \A i \in calls, k \in Queued : k < i => k \in calls}
  ELSE {{}}
TimeOut ==
  /\ pending # "CancelledError" /\ outcome = "none"
  /\ \/ /\ main = "yielded"
        /\ main' = "ending" /\ outcome' = "TimeoutError"
        /\ UNCHANGED <<pending, stop, heartbeat, item>>
     \/ /\ main = "working"
        /\ pending' = "CancelledError"
        /\ \E calls \in HandedOver : item' = Dropped(Cancellable \ calls)
        /\ IF Kind = "processes"
           THEN main' = "joining" /\ UNCHANGED stop
           ELSE main' = "closing" /\ stop' = TRUE
        /\ UNCHANGED <<heartbeat, outcome>>
     \/ /\ main = "closing"
        /\ heartbeat' = "ended"
        /\ main' = "ending" /\ outcome' = "TimeoutError"
        /\ UNCHANGED <<pending, stop, item>>
  /\ UNCHANGED <<finished, result, starved, worst, strategy, measurements, reports>>

(* A process of the pool dies: its executor is broken for every call.      *)
WorkerDies ==
  /\ Kind = "processes" /\ main \in {"working", "joining"} /\ Busy # {}
  /\ pending' = IF main = "working" THEN "BrokenProcessPool" ELSE pending
  /\ item' = Dropped(Queued \union Busy)
  /\ main' = "joining"
  /\ UNCHANGED <<stop, finished, result, heartbeatVars, progressVars>>

(* The pool is left, and with it the try.  Mutant: stop is set only after  *)
(* a workload that succeeded.                                              *)
StopOnSuccess == pending = "none"
StopAlways == TRUE
JoinPool ==
  /\ main = "joining" /\ Busy = {} /\ Queued = {}
  /\ main' = "closing" /\ stop' = StopAlways
  /\ UNCHANGED <<pending, workloadVars, heartbeatVars, progressVars>>

-----------------------------------------------------------------------------
(* _repeat, _assert_same_results and run_experiment.                       *)

Report(ms) ==
  [category |-> Strategies[strategy].category, result |-> ms[1].result,
   delay |-> LET ds == {ms[i].delay : i \in DOMAIN ms}
             IN  CHOOSE d \in ds : \A e \in ds : e <= d]

SameResults(rs, category) ==
  \A i, j \in {k \in DOMAIN rs : rs[k].category = category} : rs[i].result = rs[j].result

(* What follows a measurement: another, the next strategy, or the end.     *)
NextStrategy(ms) ==
  LET rs == Append(reports, Report(ms)) IN
  IF \E i \in DOMAIN ms : ms[i].result # ms[1].result
  THEN /\ outcome' = "AssertionError" /\ main' = "ending"
       /\ UNCHANGED <<strategy, reports, measurements>>
  ELSE /\ reports' = rs
       /\ measurements' = <<>>
       /\ IF strategy < Len(Strategies)
          THEN strategy' = strategy + 1 /\ main' = "measure" /\ UNCHANGED outcome
          ELSE /\ outcome' = IF SameResults(rs, "I/O") /\ SameResults(rs, "CPU")
                             THEN "report" ELSE "AssertionError"
               /\ main' = "ending" /\ UNCHANGED strategy

(* Mutant: measure() does not wait for the heartbeat.                      *)
MayCloseAtOnce == main = "closing"
MayClose == main = "closing" /\ heartbeat = "ended"
CloseMeasurement ==
  /\ MayClose
  /\ IF pending = "none"
     THEN LET ms == Append(measurements,
                      [result |-> result, delay |-> Larger(worst, 0)])
          IN  IF Len(ms) < Repetitions
              THEN measurements' = ms /\ main' = "measure"
                   /\ UNCHANGED <<strategy, reports, outcome>>
              ELSE NextStrategy(ms)
     ELSE /\ outcome' = IF pending = "CancelledError" THEN "TimeoutError" ELSE pending
          /\ main' = "ending"
          /\ UNCHANGED <<strategy, measurements, reports>>
  /\ UNCHANGED <<pending, stop, workloadVars, heartbeatVars>>

(* asyncio.run cancels the tasks that are left, then waits for the threads *)
(* of its executor.                                                        *)
CancelRemaining ==
  /\ main = "ending"
  /\ main' = "draining" /\ heartbeat' = "ended"
  /\ UNCHANGED <<pending, stop, starved, worst, workloadVars, progressVars>>

EndRace ==
  /\ main = "draining" /\ Busy = {}
  /\ main' = "over"
  /\ UNCHANGED <<pending, stop, workloadVars, heartbeatVars, progressVars>>

RaceOver == main = "over"

RaceNext ==
  \/ CreateHeartbeat \/ StartHeartbeat \/ Beat
  \/ StartWorkload \/ RunBlocking \/ FinishWorkload
  \/ \E i \in DOMAIN item : FinishCall(i)
  \/ TimeOut \/ WorkerDies \/ JoinPool
  \/ CloseMeasurement \/ CancelRemaining \/ EndRace

RaceSpec == RaceInit /\ [][RaceNext]_raceVars

(* The loop runs what is ready, sleeps end and computations finish; no     *)
(* deadline is needed for progress.                                        *)
RaceFairness ==
  /\ WF_raceVars(CreateHeartbeat) /\ WF_raceVars(StartHeartbeat) /\ WF_raceVars(Beat)
  /\ WF_raceVars(StartWorkload) /\ WF_raceVars(RunBlocking) /\ WF_raceVars(FinishWorkload)
  /\ WF_raceVars(\E i \in DOMAIN item : FinishCall(i))
  /\ WF_raceVars(JoinPool) /\ WF_raceVars(CloseMeasurement)
  /\ WF_raceVars(CancelRemaining) /\ WF_raceVars(EndRace)

RaceFairSpec == RaceSpec /\ RaceFairness

-----------------------------------------------------------------------------
(* Correctness.                                                            *)

(* A strategy that blocks the event loop is seen to: the delay reported    *)
(* for it is at least the time it blocked beyond one interval, though the  *)
(* heartbeat cannot run meanwhile and is told to stop right after.         *)
BlockingIsSeen ==
  \A s \in DOMAIN reports : reports[s].delay + Interval >= BlockedSpan(s)

(* In whatever order the calls of a workload finish, every report has the  *)
(* outputs in the order of the inputs, each once and none missing, also    *)
(* where the workload puts them together as they come; and the race's own  *)
(* comparisons of repetitions and strategies never raise.                  *)
ResultsInInputOrder ==
  /\ \A s \in DOMAIN reports :
       reports[s].result = [i \in 1 .. Size(s) |-> Output(s, i)]
  /\ outcome # "AssertionError"
  /\ outcome = "report" => Len(reports) = Len(Strategies)

(* Nothing of a measurement outlives it: when another begins there is no   *)
(* heartbeat and no call of an earlier one that could disturb it, and when *)
(* the program is over, by a deadline too, there is none left at all.      *)
NothingOutlives ==
  /\ main = "measure" => heartbeat = "ended" /\ Busy = {} /\ Queued = {}
  /\ RaceOver => heartbeat = "ended" /\ Busy = {}

(* The race ends, also when its deadline or the death of a process finds   *)
(* it waiting for calls that cannot be cancelled.                          *)
RaceEnds == <>RaceOver
=============================================================================
