------------------------------- MODULE Lifespan ------------------------------
(***************************************************************************)
(* P04-lifespan-middleware-e-background-tasks: one process after another   *)
(* opens its two components, serves requests that schedule jobs, stops or  *)
(* is killed, and tells what it did in one journal file.                   *)
(*                                                                         *)
(* Starlette and uvicorn are external: a job runs in the thread pool after *)
(* its response, and a graceful stop waits for the requests and jobs it    *)
(* has before it ends the lifespan.  A kill spares nothing but the file.   *)
(***************************************************************************)
EXTENDS Integers, Sequences

CONSTANTS
  Jobs,         (* job_ids: uuid4 gives each job one of its own            *)
  MaxProcesses, (* bound: processes started                                *)
  MaxDiskErrors (* bound: journal entries that raise                       *)

ASSUME LifespanAssumption == MaxProcesses \in Nat /\ MaxDiskErrors \in Nat

VARIABLES
  pid,          (* the current process, or the last one                    *)
  phase,        (* where its lifespan stands                               *)
  faulty,       (* the components built to fail, and when                  *)
  stack,        (* the ExitStack: components to close, last opened last    *)
  active,       (* the components whose active flag is set                 *)
  entered,      (* history: those whose open() reached its yield           *)
  closeCalls,   (* close_calls of each component                           *)
  job,          (* what became of each job                                 *)
  journal,      (* the entries of the file                                 *)
  diskErrors    (* journal entries that raised so far                      *)

vars == <<pid, phase, faulty, stack, active, entered, closeCalls, job, journal, diskErrors>>

Components == {"client", "resource"}
Serving == phase \in {"serving", "draining"}
Down == phase \in {"ended", "killed"}

Entry(event, who) == [pid |-> pid, event |-> event, who |-> who]

(* EventJournal.append returns, or raises with the line written or not.    *)
(* (A line of which the disk took a part is left out: it would join with   *)
(* the next, and read_events would raise on it.)                           *)
Written(event, who) ==
  /\ journal' = Append(journal, Entry(event, who))
  /\ UNCHANGED diskErrors
DiskError(event, who) ==
  /\ diskErrors < MaxDiskErrors
  /\ diskErrors' = diskErrors + 1
  /\ journal' \in {journal, Append(journal, Entry(event, who))}

Init ==
  /\ pid = 0 /\ phase = "ended"
  /\ faulty = {} /\ stack = <<>> /\ active = {} /\ entered = {}
  /\ closeCalls = [c \in Components |-> 0]
  /\ job = [j \in Jobs |-> "none"]
  /\ journal = <<>> /\ diskErrors = 0

-----------------------------------------------------------------------------
(* The lifespan.                                                           *)

(* A new process: create_app builds both components anew.                  *)
StartProcess ==
  /\ Down /\ pid < MaxProcesses
  /\ pid' = pid + 1
  /\ phase' = "client"
  /\ faulty' \in SUBSET (Components \X {"enter", "close"})
  /\ stack' = <<>> /\ active' = {} /\ entered' = {}
  /\ closeCalls' = [c \in Components |-> 0]
  /\ UNCHANGED <<job, journal, diskErrors>>

AfterOpen(c) == IF c = "client" THEN "resource" ELSE "announce"

(* stack.enter_context(factory().open()), up to the yield of open().  The  *)
(* entry _started comes before the try that closes the component.          *)
OpenComponent(c) ==
  /\ phase = c
  /\ \/ /\ <<c, "enter">> \in faulty
        /\ Written("start_failed", c) \/ DiskError("start_failed", c)
        /\ phase' = "unwind"
        /\ UNCHANGED <<stack, active, entered>>
     \/ /\ <<c, "enter">> \notin faulty
        /\ active' = active \union {c}
        /\ \/ /\ Written("started", c)
              /\ stack' = Append(stack, c)
              /\ entered' = entered \union {c}
              /\ phase' = AfterOpen(c)
           \/ /\ DiskError("started", c)
              /\ phase' = "unwind"
              /\ UNCHANGED <<stack, entered>>
  /\ UNCHANGED <<pid, faulty, closeCalls, job>>

Announce ==
  /\ phase = "announce"
  /\ \/ Written("application_started", "app") /\ phase' = "serving"
     \/ DiskError("application_started", "app") /\ phase' = "unwind"
  /\ UNCHANGED <<pid, faulty, stack, active, entered, closeCalls, job>>

(* SIGTERM: no new request is taken.                                       *)
Terminate ==
  /\ phase = "serving"
  /\ phase' = "draining"
  /\ UNCHANGED <<pid, faulty, stack, active, entered, closeCalls, job, journal, diskErrors>>

Underway == {j \in Jobs : job[j] \in {"accepted", "running"}}

(* uvicorn ends the lifespan.  Mutant: it does not wait for the jobs.      *)
MayStopAtOnce == phase = "draining"
MayStop == phase = "draining" /\ Underway = {}
StopApplication ==
  /\ MayStop
  /\ Written("application_stopping", "app") \/ DiskError("application_stopping", "app")
  /\ phase' = "unwind"
  /\ UNCHANGED <<pid, faulty, stack, active, entered, closeCalls, job>>

(* The finally of open(), on the way out of the ExitStack: an exception    *)
(* goes on to the next component, and out of the lifespan.                 *)
(* Mutant: the first exception ends the clean-up.                          *)
LeftAfterFailure(c) ==
  IF <<c, "close">> \in faulty THEN <<>> ELSE SubSeq(stack, 1, Len(stack) - 1)
LeftAfter(c) == SubSeq(stack, 1, Len(stack) - 1)
CloseComponent ==
  /\ phase = "unwind" /\ stack # <<>>
  /\ LET c == stack[Len(stack)]
         event == IF <<c, "close">> \in faulty THEN "close_failed" ELSE "closed"
     IN
     /\ closeCalls' = [closeCalls EXCEPT ![c] = @ + 1]
     /\ active' = active \ {c}
     /\ Written(event, c) \/ DiskError(event, c)
     /\ stack' = LeftAfter(c)
  /\ UNCHANGED <<pid, phase, faulty, entered, job>>

EndLifespan ==
  /\ phase = "unwind" /\ stack = <<>>
  /\ phase' = "ended"
  /\ UNCHANGED <<pid, faulty, stack, active, entered, closeCalls, job, journal, diskErrors>>

(* The process dies, and every job it had with it.                         *)
Kill ==
  /\ ~Down
  /\ phase' = "killed"
  /\ job' = [j \in Jobs |-> IF j \in Underway THEN "lost" ELSE job[j]]
  /\ UNCHANGED <<pid, faulty, stack, active, entered, closeCalls, journal, diskErrors>>

-----------------------------------------------------------------------------
(* Jobs.                                                                   *)

(* POST /jobs: a request uvicorn took, whose response carries the task.    *)
ScheduleJob(j) ==
  /\ phase = "serving" /\ job[j] = "none"
  /\ job' = [job EXCEPT ![j] = "accepted"]
  /\ UNCHANGED <<pid, phase, faulty, stack, active, entered, closeCalls, journal, diskErrors>>

(* run_background_job, up to its sleep and from there on.  An entry that   *)
(* raises ends the job.                                                    *)
StartJob(j) ==
  /\ Serving /\ job[j] = "accepted"
  /\ \/ Written("job_started", j) /\ job' = [job EXCEPT ![j] = "running"]
     \/ DiskError("job_started", j) /\ job' = [job EXCEPT ![j] = "failed"]
  /\ UNCHANGED <<pid, phase, faulty, stack, active, entered, closeCalls>>

CompleteJob(j) ==
  /\ Serving /\ job[j] = "running"
  /\ \/ Written("job_completed", j) /\ job' = [job EXCEPT ![j] = "done"]
     \/ DiskError("job_completed", j) /\ job' = [job EXCEPT ![j] = "failed"]
  /\ UNCHANGED <<pid, phase, faulty, stack, active, entered, closeCalls>>

Next ==
  \/ StartProcess \/ Announce \/ Terminate \/ StopApplication
  \/ \E c \in Components : OpenComponent(c)
  \/ CloseComponent \/ EndLifespan \/ Kill
  \/ \E j \in Jobs : ScheduleJob(j) \/ StartJob(j) \/ CompleteJob(j)

Spec == Init /\ [][Next]_vars

-----------------------------------------------------------------------------
(* Correctness.                                                            *)

JournalEntry ==
  [pid : 1 .. MaxProcesses,
   event : {"start_failed", "started", "application_started", "application_stopping",
            "closed", "close_failed", "job_started", "job_completed"},
   who : Components \union {"app"} \union Jobs]

(* Every variable has its type, and the stack holds active components.     *)
TypeOK ==
  /\ pid \in 0 .. MaxProcesses
  /\ phase \in Components
       \union {"announce", "serving", "draining", "unwind", "ended", "killed"}
  /\ faulty \subseteq Components \X {"enter", "close"}
  /\ stack \in Seq(Components) /\ \A i \in DOMAIN stack : stack[i] \in active
  /\ active \subseteq Components /\ entered \subseteq active \union {c \in Components : closeCalls[c] > 0}
  /\ closeCalls \in [Components -> Nat]
  /\ job \in [Jobs -> {"none", "accepted", "running", "done", "failed", "lost"}]
  /\ journal \in Seq(JournalEntry)
  /\ diskErrors \in 0 .. MaxDiskErrors

At(p, event, who) == {i \in DOMAIN journal : journal[i] = [pid |-> p, event |-> event, who |-> who]}
Closings(p, c) == At(p, "closed", c) \union At(p, "close_failed", c)

(* When a lifespan ends, each component it entered has been closed once    *)
(* and is inactive, whichever component or journal entry raised, while it  *)
(* started or stopped, and no other was closed.  If the disk never failed, *)
(* nothing is left active, and the journal shows one closing for each      *)
(* start, in the reverse order.                                            *)
ClosedOnce ==
  phase = "ended" =>
    /\ \A c \in Components : closeCalls[c] = IF c \in entered THEN 1 ELSE 0
    /\ active \intersect entered = {}
    /\ diskErrors = 0 =>
         /\ active = {}
         /\ \A c \in Components :
              /\ Closings(pid, c) = {} <=> At(pid, "started", c) = {}
              /\ \A i, k \in Closings(pid, c) : i = k
         /\ \A i \in Closings(pid, "client"), k \in Closings(pid, "resource") : i > k

(* What the file tells of jobs can be trusted across processes: no job is  *)
(* started twice, nor by a process that is not ready or has begun to stop; *)
(* and if a job has started and has no job_completed, it still runs, its   *)
(* process was killed, or an entry of its own raised: a graceful stop      *)
(* loses none.                                                             *)
JobsAccountedFor ==
  \A j \in Jobs :
    LET starts == {i \in DOMAIN journal : journal[i].event = "job_started" /\ journal[i].who = j}
        ends == {i \in DOMAIN journal : journal[i].event = "job_completed" /\ journal[i].who = j}
    IN
    /\ \A i, k \in starts : i = k
    /\ \A i, k \in ends : i = k
    /\ \A i \in starts \union ends :
         LET p == journal[i].pid IN
         /\ \E k \in At(p, "application_started", "app") : k < i
         /\ \A k \in At(p, "application_stopping", "app")
                       \union Closings(p, "client") \union Closings(p, "resource") : k > i
    /\ \A i \in ends : \E k \in starts : k < i /\ journal[k].pid = journal[i].pid
    /\ \A i \in starts :
         ends = {} => \/ job[j] \in {"lost", "failed"}
                      \/ job[j] = "running" /\ journal[i].pid = pid /\ Serving
=============================================================================
