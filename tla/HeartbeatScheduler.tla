-------------------------- MODULE HeartbeatScheduler --------------------------
(***************************************************************************)
(* The clock of the AI analysis (src/heartbeat/HeartbeatScheduler): a      *)
(* timer on the thread of an io_context pushes an analysis to the task     *)
(* queue on every beat.  The main thread starts it once, may trigger a beat*)
(* by hand, and stops it once, as the application does.                    *)
(***************************************************************************)
EXTENDS TaskQueue

CONSTANT IoThread  \* the thread of the io_context

ASSUME SchedulerAssumption == Callers = {Stopper, IoThread} /\ Stopper # IoThread

VARIABLES
  main,         \* "created", "started", "cancel", "halt", "request", "joining", "stopped"
  running,      \* m_running of the scheduler
  m_beatCount,
  armed,        \* whether the timer waits for the next beat
  ioStopped,    \* whether the io_context was stopped
  io,           \* "none", "waiting", "fired", "push", "rearm", "done"
  manual        \* whether a beat triggered by hand was counted and not pushed yet

schedulerState == <<main, running, m_beatCount, armed, ioStopped, io, manual>>
schedulerVars == <<queueVars, schedulerState>>

SchedulerInit ==
  /\ QueueInit
  /\ main = "created"
  /\ running = FALSE
  /\ m_beatCount = 0
  /\ armed = FALSE
  /\ ioStopped = FALSE
  /\ io = "none"
  /\ manual = FALSE

-----------------------------------------------------------------------------
(* The main thread                                                         *)

start ==
  /\ main = "created"
  /\ main' = "started"
  /\ running' = TRUE
  /\ m_beatCount' = 0
  /\ armed' = TRUE
  /\ io' = "waiting"
  /\ UNCHANGED <<queueVars, ioStopped, manual>>

\* A beat by hand is counted, then pushed in front of the others, also when the scheduler
\* has stopped.  Before start, which sets the counter to zero, nothing asks for one.
triggerNow ==
  /\ main \in {"started", "stopped"} /\ ~ manual /\ caller[Stopper] = "idle"
  /\ pushed < MaxTasks
  /\ m_beatCount' = m_beatCount + 1
  /\ manual' = TRUE
  /\ UNCHANGED <<queueVars, main, running, armed, ioStopped, io>>

pushManual ==
  /\ manual
  /\ enqueue(Stopper, "High")
  /\ manual' = FALSE
  /\ UNCHANGED <<main, running, m_beatCount, armed, ioStopped, io>>

\* stop: not running, no timer, no io_context, and then the queue is stopped.
beginStop ==
  /\ main = "started" /\ ~ manual /\ caller[Stopper] = "idle"
  /\ running' = FALSE
  /\ main' = "cancel"
  /\ UNCHANGED <<queueVars, m_beatCount, armed, ioStopped, io, manual>>

cancelTimer ==
  /\ main = "cancel"
  /\ armed' = FALSE
  /\ main' = "halt"
  /\ UNCHANGED <<queueVars, running, m_beatCount, ioStopped, io, manual>>

stopContext ==
  /\ main = "halt"
  /\ ioStopped' = TRUE
  /\ main' = "request"
  /\ UNCHANGED <<queueVars, running, m_beatCount, armed, io, manual>>

stopQueue ==
  /\ main = "request"
  /\ stop(Stopper)
  /\ main' = "joining"
  /\ UNCHANGED <<running, m_beatCount, armed, ioStopped, io, manual>>

\* Fault: stop returns while the queue is still being stopped.
endStop_Early ==
  /\ main = "joining"
  /\ main' = "stopped"
  /\ UNCHANGED <<queueVars, running, m_beatCount, armed, ioStopped, io, manual>>

\* stop returns when the stop of the queue has.
endStop ==
  /\ main = "joining"
  /\ ~ m_running
  /\ main' = "stopped"
  /\ UNCHANGED <<queueVars, running, m_beatCount, armed, ioStopped, io, manual>>

-----------------------------------------------------------------------------
(* The thread of the io_context                                            *)

\* The timer expires and its handler begins.
fire ==
  /\ io = "waiting" /\ armed /\ ~ ioStopped
  /\ armed' = FALSE
  /\ io' = "fired"
  /\ UNCHANGED <<queueVars, main, running, m_beatCount, ioStopped, manual>>

\* A beat is counted unless the scheduler was stopped meanwhile.
onTimer ==
  /\ io = "fired"
  /\ pushed < MaxTasks
  /\ io' = IF running THEN "push" ELSE "waiting"
  /\ m_beatCount' = IF running THEN m_beatCount + 1 ELSE m_beatCount
  /\ UNCHANGED <<queueVars, main, running, armed, ioStopped, manual>>

\* Fault: a beat that finds tasks pending does not add one.
pushBeat_Coalesced ==
  /\ io = "push"
  /\ IF m_queue = << >> THEN enqueue(IoThread, "Normal") ELSE UNCHANGED queueVars
  /\ io' = "rearm"
  /\ UNCHANGED <<main, running, m_beatCount, armed, ioStopped, manual>>

pushBeat ==
  /\ io = "push"
  /\ enqueue(IoThread, "Normal")
  /\ io' = "rearm"
  /\ UNCHANGED <<main, running, m_beatCount, armed, ioStopped, manual>>

scheduleNext ==
  /\ io = "rearm" /\ caller[IoThread] = "idle"
  /\ armed' = TRUE
  /\ io' = "waiting"
  /\ UNCHANGED <<queueVars, main, running, m_beatCount, ioStopped, manual>>

endIo ==
  /\ io = "waiting" /\ ioStopped
  /\ io' = "done"
  /\ UNCHANGED <<queueVars, main, running, m_beatCount, armed, ioStopped, manual>>

-----------------------------------------------------------------------------
(* The queue goes on by itself                                             *)

queueStep ==
  /\ \/ \E c \in Callers : continueCall(c)
     \/ workerLoop
     \/ wakeSpuriously
  /\ UNCHANGED schedulerState

SchedulerNext ==
  \/ start \/ triggerNow \/ pushManual
  \/ beginStop \/ cancelTimer \/ stopContext \/ stopQueue \/ endStop
  \/ fire \/ onTimer \/ pushBeat \/ scheduleNext \/ endIo
  \/ queueStep

SchedulerSpec == SchedulerInit /\ [][SchedulerNext]_schedulerVars

\* The worker and the calls go on; nothing wakes a sleeper but a notification, and
\* the timer may never fire.
FairSchedulerSpec ==
  /\ SchedulerSpec
  /\ WF_schedulerVars(workerLoop /\ UNCHANGED schedulerState)
  /\ \A c \in Callers : WF_schedulerVars(continueCall(c) /\ UNCHANGED schedulerState)

-----------------------------------------------------------------------------
(* Properties                                                              *)

\* Every beat counted becomes one analysis: no beat is lost between the counter
\* and the queue, even when stop comes between them.
BeatsAreTasks ==
  m_beatCount = pushed + (IF manual THEN 1 ELSE 0) + (IF io = "push" THEN 1 ELSE 0)

\* When stop has returned, no analysis runs and none will.
NoAnalysisAfterStop == main = "stopped" => worker = "done"

-----------------------------------------------------------------------------
(* A claim of the repository's comments that the code breaks               *)

\* stop joins the thread of the io_context: nothing of it runs afterwards.
StopJoinsIoThread == main = "stopped" => io = "done"
=============================================================================
