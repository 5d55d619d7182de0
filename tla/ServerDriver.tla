----------------------------- MODULE ServerDriver -----------------------------
(***************************************************************************)
(* P04-lifespan-middleware-e-background-tasks: scripts/run_experiment.py   *)
(* runs the server of Lifespan in four scenarios, each in a process and    *)
(* with a journal of its own, and judges what the journals tell.           *)
(*                                                                         *)
(* Every wait of the script has a deadline, and any may pass: a server may *)
(* be slow to start, to answer or to stop.  uvicorn heeds SIGTERM once it  *)
(* serves; before it has installed its handlers SIGTERM kills; and if the  *)
(* reserved port was taken meanwhile it ends its lifespan by itself.       *)
(***************************************************************************)
EXTENDS Lifespan, FiniteSets

VARIABLES
  driver,     (* where run() stands in the scenario of process pid         *)
  raised,     (* the exception on its way out of the with, or "none"       *)
  signalled,  (* SIGTERM was sent                                          *)
  forced,     (* history: scenarios whose server had to be killed to stop  *)
  final,      (* history: what each server had done when it was down       *)
  verdict     (* how run() ended                                           *)

driverVars == <<driver, raised, signalled, forced, final, verdict>>

Scenarios == <<"graceful", "crash", "startup-failure", "shutdown-failure">>
Name == Scenarios[pid]

DriverInit ==
  /\ Init
  /\ driver = "start" /\ raised = "none" /\ signalled = FALSE
  /\ forced = {} /\ final = <<>> /\ verdict = "none"

(* P04_FAIL_STARTUP and P04_FAIL_SHUTDOWN are the resource's.              *)
FaultsOf(name) ==
  CASE name = "startup-failure"  -> {<<"resource", "enter">>}
    [] name = "shutdown-failure" -> {<<"resource", "close">>}
    [] OTHER                     -> {}

(* running_server, up to the try.                                          *)
Launch ==
  /\ driver = "start" /\ pid < Len(Scenarios)
  /\ StartProcess /\ faulty' = FaultsOf(Scenarios[pid + 1])
  /\ driver' = IF Scenarios[pid + 1] = "startup-failure" THEN "body" ELSE "ready"
  /\ signalled' = FALSE
  /\ UNCHANGED <<raised, forced, final, verdict>>

Leave(exception) == driver' = "finally" /\ raised' = exception

(* wait_until_ready: /health answers, the process is gone, or neither in   *)
(* time.                                                                   *)
WaitUntilReady ==
  /\ driver = "ready"
  /\ \/ phase = "serving" /\ driver' = "body" /\ UNCHANGED raised
     \/ Down /\ Leave("RuntimeError")
     \/ Leave("TimeoutError")
  /\ UNCHANGED <<vars, signalled, forced, final, verdict>>

(* The body of each with: requests, waits and stops.                       *)
MeasureRequests ==
  /\ driver = "body" /\ Name = "graceful"
  /\ \/ phase = "serving" /\ Leave("none")
     \/ Leave("HTTPError")
  /\ UNCHANGED <<vars, signalled, forced, final, verdict>>

PostJob ==
  /\ driver = "body" /\ Name = "crash"
  /\ \/ phase = "serving" /\ \E j \in Jobs : ScheduleJob(j)
     \/ UNCHANGED vars
  /\ \/ vars' # vars /\ driver' = "await job" /\ UNCHANGED raised
     \/ Leave("HTTPError")
  /\ UNCHANGED <<signalled, forced, final, verdict>>

JobStarts == {i \in DOMAIN journal : journal[i].pid = pid /\ journal[i].event = "job_started"}

WaitForEvent ==
  /\ driver = "await job"
  /\ \/ JobStarts # {} /\ driver' = "crash" /\ UNCHANGED raised
     \/ Leave("TimeoutError")
  /\ UNCHANGED <<vars, signalled, forced, final, verdict>>

(* server.stop(crash=True): the server dies of SIGKILL, and the wait for   *)
(* that may expire all the same.                                           *)
CrashServer ==
  /\ driver = "crash"
  /\ IF Down THEN UNCHANGED vars /\ Leave("none")
     ELSE Kill /\ \E exception \in {"none", "TimeoutExpired"} : Leave(exception)
  /\ UNCHANGED <<signalled, forced, final, verdict>>

StopInBody ==
  /\ driver = "body" /\ Name = "shutdown-failure"
  /\ signalled' = ~Down
  /\ driver' = "await exit"
  /\ UNCHANGED <<vars, raised, forced, final, verdict>>

WaitForExit ==
  /\ driver = "await exit" \/ (driver = "body" /\ Name = "startup-failure")
  /\ \/ Down /\ Leave("none")
     \/ ~Down /\ Leave("TimeoutExpired")
  /\ UNCHANGED <<vars, signalled, forced, final, verdict>>

(* The finally of running_server, then stop and its wait.                  *)
Finally ==
  /\ driver = "finally"
  /\ IF Down THEN driver' = "down" /\ UNCHANGED signalled
     ELSE driver' = "stopping" /\ signalled' = TRUE
  /\ UNCHANGED <<vars, raised, forced, final, verdict>>

(* What follows stop's TimeoutExpired: stop(crash=True), whose own wait    *)
(* may expire too; that exception leaves in place of the one on its way.   *)
(* Mutant: TimeoutExpired is swallowed.                                    *)
GiveUp == UNCHANGED vars
StopByForce == Kill
AwaitStop ==
  /\ driver = "stopping"
  /\ \/ Down /\ UNCHANGED <<vars, forced, raised>>
     \/ /\ ~Down /\ StopByForce /\ forced' = forced \union {pid}
        /\ raised' \in {raised, "TimeoutExpired"}
  /\ driver' = "down"
  /\ UNCHANGED <<signalled, final, verdict>>

Snapshot ==
  [closed |-> closeCalls, active |-> active, entered |-> entered,
   jobs |-> {job[j] : j \in {k \in Jobs : job[k] # "none"}}]

(* read_events, or the exception leaves run().                             *)
ReadEvents ==
  /\ driver = "down"
  /\ IF raised # "none"
     THEN driver' = "over" /\ verdict' = raised /\ UNCHANGED final
     ELSE /\ final' = Append(final, Snapshot)
          /\ driver' = IF pid < Len(Scenarios) THEN "start" ELSE "judge"
          /\ UNCHANGED verdict
  /\ UNCHANGED <<vars, raised, signalled, forced>>

EventCount(p, event, whose) ==
  Cardinality({i \in DOMAIN journal :
    journal[i].pid = p /\ journal[i].event = event /\ journal[i].who \in whose})

(* Mutant: the crash is not required to have come before the job's end.    *)
RequiredWithoutLoss ==
  /\ \A c \in Components : EventCount(1, "closed", {c}) = 1
  /\ EventCount(2, "job_started", Jobs) = 1
  /\ EventCount(3, "start_failed", {"resource"}) = 1 /\ EventCount(3, "closed", {"client"}) = 1
  /\ EventCount(4, "close_failed", {"resource"}) = 1 /\ EventCount(4, "closed", {"client"}) = 1
Required ==
  /\ \A c \in Components : EventCount(1, "closed", {c}) = 1
  /\ EventCount(2, "job_started", Jobs) = 1 /\ EventCount(2, "job_completed", Jobs) = 0
  /\ EventCount(3, "start_failed", {"resource"}) = 1 /\ EventCount(3, "closed", {"client"}) = 1
  /\ EventCount(4, "close_failed", {"resource"}) = 1 /\ EventCount(4, "closed", {"client"}) = 1

(* The blocking routes took more than twice as long as those in threads,   *)
(* or they did not.                                                        *)
Judge ==
  /\ driver = "judge" /\ driver' = "over"
  /\ \/ verdict' = IF Required THEN "report" ELSE "AssertionError"
     \/ verdict' = "NotSerialized"
  /\ UNCHANGED <<vars, raised, signalled, forced, final>>

(* What the server does by itself.                                         *)
PortTaken == driver = "ready" /\ phase = "serving"
ServerStep ==
  /\ \/ Announce \/ StopApplication \/ CloseComponent \/ EndLifespan
     \/ \E c \in Components : OpenComponent(c)
     \/ \E j \in Jobs : StartJob(j) \/ CompleteJob(j)
     \/ (signalled \/ PortTaken) /\ Terminate
     \/ signalled /\ phase = "client" /\ Kill
  /\ UNCHANGED driverVars

DriverStep ==
  \/ Launch \/ WaitUntilReady \/ MeasureRequests \/ PostJob \/ WaitForEvent
  \/ CrashServer \/ StopInBody \/ WaitForExit
  \/ Finally \/ AwaitStop \/ ReadEvents \/ Judge

allDriverVars == <<vars, driverVars>>
DriverNext == DriverStep \/ ServerStep
DriverSpec == DriverInit /\ [][DriverNext]_allDriverVars

-----------------------------------------------------------------------------
(* Correctness.                                                            *)

(* Whatever a scenario ends in, its server is down before the next begins  *)
(* and when the script is over, slow and unwilling servers included, and   *)
(* no event of one is ever written by a server that outlived its reading.  *)
NoServerOutlives ==
  /\ driver \in {"start", "down", "judge", "over"} => Down
  /\ \A k \in DOMAIN final : k = pid => final[k] = Snapshot

(* The report tells what became of the components and the job themselves,  *)
(* not only of the journal: both were closed once after a graceful stop    *)
(* and a failed one, the one that had opened after a failed start, and the *)
(* job had begun and died with its process, or of a disk error.  And the   *)
(* journals are refused only over a disk error, a server that had to be    *)
(* killed, or a job that was done before the crash.                        *)
VerdictJustified ==
  /\ verdict = "report" =>
       /\ \A k \in {1, 4} :
            final[k].active = {} /\ \A c \in Components : final[k].closed[c] = 1
       /\ final[2].jobs = {"lost"} \/ (final[2].jobs = {"failed"} /\ diskErrors > 0)
       /\ final[3].active = {} /\ final[3].entered = {"client"} /\ final[3].closed["client"] = 1
  /\ verdict = "AssertionError" =>
       diskErrors > 0 \/ forced # {} \/ "done" \in final[2].jobs
=============================================================================
