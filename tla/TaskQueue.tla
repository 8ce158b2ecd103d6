------------------------------ MODULE TaskQueue ------------------------------
(***************************************************************************)
(* The task queue of the heartbeat layer (src/heartbeat/TaskQueue): a deque*)
(* under a mutex, a condition variable, and one worker thread that runs    *)
(* the tasks.  Tasks are numbered in the order they were pushed.           *)
(*                                                                         *)
(* A thread that waits on the condition variable tests the predicate and   *)
(* goes to sleep in two steps, both under the mutex: who notifies without  *)
(* the mutex may come between them, and then wakes nobody.                 *)
(***************************************************************************)
EXTENDS Integers, Sequences, SequencesExt

CONSTANTS
  Callers,   \* the threads that call enqueue
  Stopper,   \* the thread that calls stop
  MaxTasks   \* bound of a run: tasks pushed

ASSUME QueueAssumption ==
  /\ Stopper \in Callers
  /\ MaxTasks \in Nat

VARIABLES
  m_queue,         \* the numbers of the pending tasks, next one first
  worker,          \* the step the worker is at
  task,            \* the task the worker holds, 0 for none
  stop_requested,  \* the state of the worker's stop token
  m_running,
  caller,          \* thread -> the step of its call, "idle" outside calls
  high,            \* history: the tasks pushed with high priority
  pushed,          \* history: the number of tasks pushed
  executed         \* history: the tasks executed, in order

workerVars == <<worker, task>>
stopVars == <<stop_requested, m_running>>
taskHistory == <<high, pushed, executed>>
queueVars == <<m_queue, workerVars, stopVars, caller, taskHistory>>

QueueInit ==
  /\ m_queue = << >>
  /\ worker = "loop"
  /\ task = 0
  /\ stop_requested = FALSE
  /\ m_running = TRUE
  /\ caller = [c \in Callers |-> "idle"]
  /\ high = {}
  /\ pushed = 0
  /\ executed = << >>

\* The mutex is held by the worker from the test of the predicate until it
\* sleeps, leaves or has taken a task.  Callers hold it within one step.
Locked == worker \in {"test", "block", "take"}

-----------------------------------------------------------------------------
(* Callers                                                                 *)

\* Fault: every task goes to the front.
Pushed_Front(queue, number, priority) == <<number>> \o queue

Pushed(queue, number, priority) ==
  IF priority = "High" THEN <<number>> \o queue ELSE Append(queue, number)

\* The push, under the mutex; the notification follows.
enqueue(c, priority) ==
  /\ caller[c] = "idle"
  /\ ~ Locked
  /\ pushed < MaxTasks
  /\ pushed' = pushed + 1
  /\ m_queue' = Pushed(m_queue, pushed', priority)
  /\ high' = IF priority = "High" THEN high \cup {pushed'} ELSE high
  /\ caller' = [caller EXCEPT ![c] = "notify"]
  /\ UNCHANGED <<workerVars, stopVars, executed>>

\* notify_one wakes the worker if it sleeps.
Woken == IF worker = "asleep" THEN "relock" ELSE worker

\* Fault: the notification is forgotten.
notify_Missing(c) ==
  /\ caller[c] = "notify"
  /\ caller' = [caller EXCEPT ![c] = "idle"]
  /\ UNCHANGED <<m_queue, workerVars, stopVars, taskHistory>>

notify(c) ==
  /\ caller[c] = "notify"
  /\ worker' = Woken
  /\ caller' = [caller EXCEPT ![c] = "idle"]
  /\ UNCHANGED <<m_queue, task, stopVars, taskHistory>>

\* stop: nothing when it ran before; otherwise request, notify, join.
stop(c) ==
  /\ c = Stopper
  /\ caller[c] = "idle"
  /\ m_running
  /\ stop_requested' = TRUE
  /\ caller' = [caller EXCEPT ![c] = "wake"]
  /\ UNCHANGED <<m_queue, workerVars, m_running, taskHistory>>

wakeToStop(c) ==
  /\ caller[c] = "wake"
  /\ worker' = Woken
  /\ caller' = [caller EXCEPT ![c] = "join"]
  /\ UNCHANGED <<m_queue, task, stopVars, taskHistory>>

join(c) ==
  /\ caller[c] = "join"
  /\ worker = "done"
  /\ m_running' = FALSE
  /\ caller' = [caller EXCEPT ![c] = "idle"]
  /\ UNCHANGED <<m_queue, workerVars, stop_requested, taskHistory>>

continueCall(c) == notify(c) \/ wakeToStop(c) \/ join(c)

-----------------------------------------------------------------------------
(* The worker                                                              *)

\* The worker goes to a step and changes nothing else.
workerGoes(step) ==
  /\ worker' = step
  /\ UNCHANGED <<m_queue, task, stopVars, caller, taskHistory>>

checkStop == worker = "loop" /\ workerGoes(IF stop_requested THEN "done" ELSE "relock")

lock == worker = "relock" /\ workerGoes("test")

test ==
  /\ worker = "test"
  /\ workerGoes(IF stop_requested \/ m_queue # << >> THEN "take" ELSE "block")

block == worker = "block" /\ workerGoes("asleep")

\* A condition variable may wake a thread that nobody notified.
wakeSpuriously == worker = "asleep" /\ workerGoes("relock")

leave == worker = "take" /\ stop_requested /\ workerGoes("done")

\* Fault: the task stays in the queue.
takeTask_Copied ==
  /\ worker = "take"
  /\ ~ stop_requested
  /\ task' = Head(m_queue)
  /\ worker' = "run"
  /\ UNCHANGED <<m_queue, stopVars, caller, taskHistory>>

takeTask ==
  /\ worker = "take"
  /\ ~ stop_requested
  /\ task' = Head(m_queue)
  /\ m_queue' = Tail(m_queue)
  /\ worker' = "run"
  /\ UNCHANGED <<stopVars, caller, taskHistory>>

\* What a task throws is caught: it ends like any other.
execute ==
  /\ worker = "run"
  /\ executed' = Append(executed, task)
  /\ task' = 0
  /\ worker' = "loop"
  /\ UNCHANGED <<m_queue, stopVars, caller, high, pushed>>

workerLoop == checkStop \/ lock \/ test \/ block \/ leave \/ takeTask \/ execute

-----------------------------------------------------------------------------
QueueNext ==
  \/ \E c \in Callers, priority \in {"Normal", "High"} : enqueue(c, priority)
  \/ \E c \in Callers : stop(c) \/ continueCall(c)
  \/ workerLoop \/ wakeSpuriously

QueueSpec == QueueInit /\ [][QueueNext]_queueVars

\* The worker and the calls go on; nothing wakes a sleeper but a notification.
FairQueueSpec ==
  /\ QueueSpec
  /\ WF_queueVars(workerLoop)
  /\ \A c \in Callers : WF_queueVars(continueCall(c))

-----------------------------------------------------------------------------
(* Properties                                                              *)

\* Every task pushed is in one place: pending, held by the worker, or executed.
\* None runs twice, and none gets lost while tasks are pushed and taken.
TasksAreInOnePlace ==
  LET held == IF task = 0 THEN << >> ELSE <<task>>
      places == m_queue \o held \o executed
  IN  /\ Len(places) = pushed
      /\ {places[i] : i \in DOMAIN places} = 1 .. pushed
      /\ (worker = "run") <=> (task # 0)

\* Tasks of normal priority run in the order they were pushed, whatever is pushed
\* in front of them.
NormalTasksInOrder ==
  \A i, j \in DOMAIN executed :
    (i < j /\ executed[i] \notin high /\ executed[j] \notin high) => executed[i] < executed[j]

\* A task pushed is executed unless the queue is stopped: no push goes unnoticed.
TasksAreExecuted ==
  \A n \in 1 .. MaxTasks : (n <= pushed) ~> (n \in ToSet(executed) \/ stop_requested)

-----------------------------------------------------------------------------
(* A claim of the repository's comments that the code breaks               *)

\* stop wakes the worker and joins it: a call of stop returns.
StopReturns == stop_requested ~> ~ m_running
=============================================================================
