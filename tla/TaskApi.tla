------------------------------- MODULE TaskApi -------------------------------
(***************************************************************************)
(* P03-fastapi-contratos: TaskService behind the three routes.  The route  *)
(* handlers are plain functions, which FastAPI runs in a pool of threads:  *)
(* the calls of the repository are atomic, the handlers are not.           *)
(***************************************************************************)
EXTENDS FiniteSets

CONSTANTS
  Ids,      (* task ids: uuid4 gives each task one of its own              *)
  Threads,  (* the pool                                                    *)
  Instants, (* RequestContext.received_at                                  *)
  NoTask, NoInstant

VARIABLES
  tasks,    (* InMemoryTaskRepository._tasks                               *)
  thread,   (* the handler each thread runs                                *)
  answers   (* history: the answers to PATCH /tasks/{id}/complete          *)

vars == <<tasks, thread, answers>>

Task == [status : {"pending", "completed"}, completedAt : Instants \union {NoInstant}]
Idle == [pc |-> "idle"]

Init ==
  /\ tasks = [t \in Ids |-> NoTask]
  /\ thread = [h \in Threads |-> Idle]
  /\ answers = {}

Answer(h, t, status) ==
  /\ answers' = answers \union {[thread |-> h, id |-> t, at |-> thread[h].now, status |-> status]}
  /\ thread' = [thread EXCEPT ![h] = Idle]

(* POST /tasks: TaskService.create, one call of the repository.            *)
CreateTask(h) ==
  /\ thread[h] = Idle
  /\ \E t \in Ids :
       /\ tasks[t] = NoTask
       /\ tasks' = [tasks EXCEPT ![t] = [status |-> "pending", completedAt |-> NoInstant]]
  /\ UNCHANGED <<thread, answers>>

(* PATCH /tasks/{id}/complete arrives; identity and context are resolved.  *)
Request(h) ==
  /\ thread[h] = Idle
  /\ \E t \in Ids, now \in Instants :
       thread' = [thread EXCEPT ![h] = [pc |-> "get", id |-> t, now |-> now]]
  /\ UNCHANGED <<tasks, answers>>

(* TaskService.complete reads the task; Task.complete decides on it.       *)
GetTask(h) ==
  LET t == thread[h].id IN
  /\ thread[h].pc = "get"
  /\ \/ /\ tasks[t] = NoTask
        /\ Answer(h, t, 404)
     \/ /\ tasks[t] # NoTask /\ tasks[t].status = "completed"
        /\ Answer(h, t, 409)
     \/ /\ tasks[t] # NoTask /\ tasks[t].status = "pending"
        /\ thread' = [thread EXCEPT ![h].pc = "update"]
        /\ UNCHANGED answers
  /\ UNCHANGED tasks

(* repository.update stores the copy that Task.complete made.              *)
UpdateTask(h) ==
  LET t == thread[h].id IN
  /\ thread[h].pc = "update"
  /\ tasks' = [tasks EXCEPT ![t] = [status |-> "completed", completedAt |-> thread[h].now]]
  /\ Answer(h, t, 200)

(* A repository that is down raises RepositoryUnavailableError: 503.       *)
Unavailable(h) ==
  /\ thread[h].pc \in {"get", "update"}
  /\ Answer(h, thread[h].id, 503)
  /\ UNCHANGED tasks

Next ==
  \E h \in Threads :
    CreateTask(h) \/ Request(h) \/ GetTask(h) \/ UpdateTask(h) \/ Unavailable(h)

Spec == Init /\ [][Next]_vars

(* README of P03: a task is completed only once; the second attempt        *)
(* answers 409 and does not change the state.                              *)
CompletedOnce ==
  \A a, b \in answers : a.status = 200 /\ b.status = 200 /\ a.id = b.id => a = b
=============================================================================
