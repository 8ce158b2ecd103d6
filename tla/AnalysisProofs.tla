---------------------------- MODULE AnalysisProofs ----------------------------
(***************************************************************************)
(* The theorems of the analysis.  The task queue loses, repeats and        *)
(* overtakes no task; its clock counts what it pushes and is quiet when it *)
(* was stopped; the pipeline keeps its windows exact, moves parameters by  *)
(* little, and shows what it applied.                                      *)
(***************************************************************************)
EXTENDS HeartbeatScheduler, AiPipeline, Facts, SequenceTheorems

-----------------------------------------------------------------------------
(* The task queue                                                          *)

\* The tasks of a sequence.
TasksOf(s) == {s[i] : i \in 1 .. Len(s)}

\* What the worker holds, as a sequence.
Held(t) == IF t = 0 THEN << >> ELSE <<t>>

WorkerSteps == {"loop", "relock", "test", "block", "asleep", "take", "run", "done"}

\* The worker takes a task only when there is one or it leaves, and holds one while
\* it runs it.
WorkerOK ==
  /\ worker \in WorkerSteps
  /\ task \in Nat
  /\ (worker = "run") <=> (task # 0)
  /\ worker = "take" => stop_requested \/ m_queue # << >>

TasksOK ==
  /\ pushed \in Nat
  /\ m_queue \in Seq(Nat)
  /\ executed \in Seq(Nat)
  /\ high \subseteq 1 .. pushed

\* Each task is pending, held or executed, and none is there twice.
PlacesOK ==
  /\ Len(m_queue) + Len(Held(task)) + Len(executed) = pushed
  /\ TasksOf(m_queue) \cup TasksOf(Held(task)) \cup TasksOf(executed) = 1 .. pushed

\* A task ahead of another is the older one, unless one of them was pushed to the front.
Before(n, m, front) == (n \notin front /\ m \notin front) => n < m

\* Normal tasks wait in the order they were pushed, and those executed or held were
\* pushed before those that wait.
OrderOK ==
  /\ \A i, j \in 1 .. Len(executed) : i < j => Before(executed[i], executed[j], high)
  /\ \A i, j \in 1 .. Len(m_queue) : i < j => Before(m_queue[i], m_queue[j], high)
  /\ \A i \in 1 .. Len(executed), j \in 1 .. Len(m_queue) : Before(executed[i], m_queue[j], high)
  /\ task # 0 => /\ \A i \in 1 .. Len(executed) : Before(executed[i], task, high)
                 /\ \A j \in 1 .. Len(m_queue) : Before(task, m_queue[j], high)

\* A queue that was stopped has no worker any more.
StoppedOK == ~ m_running => worker = "done"

QueueInv == WorkerOK /\ TasksOK /\ PlacesOK /\ OrderOK /\ StoppedOK

-----------------------------------------------------------------------------
(* Facts about sequences of tasks                                          *)

LEMMA NoTasks == TasksOf(<< >>) = {} /\ Len(<< >>) = 0
  BY DEF TasksOf

LEMMA HeldTasks ==
  ASSUME NEW t \in Nat
  PROVE  /\ Held(t) \in Seq(Nat)
         /\ t = 0 => Len(Held(t)) = 0 /\ TasksOf(Held(t)) = {}
         /\ t # 0 => Len(Held(t)) = 1 /\ TasksOf(Held(t)) = {t}
  BY DEF Held, TasksOf

LEMMA TasksOfAppend ==
  ASSUME NEW s \in Seq(Nat), NEW n \in Nat
  PROVE  /\ Append(s, n) \in Seq(Nat)
         /\ Len(Append(s, n)) = Len(s) + 1
         /\ \A i \in 1 .. Len(s) : Append(s, n)[i] = s[i]
         /\ Append(s, n)[Len(s) + 1] = n
         /\ TasksOf(Append(s, n)) = TasksOf(s) \cup {n}
<1>1. /\ Append(s, n) \in Seq(Nat)
      /\ Len(Append(s, n)) = Len(s) + 1
      /\ \A i \in 1 .. Len(s) : Append(s, n)[i] = s[i]
      /\ Append(s, n)[Len(s) + 1] = n
  BY AppendProperties
<1>2. Len(s) \in Nat
  BY LenProperties
<1>3. \A i \in 1 .. Len(s) + 1 : i \in 1 .. Len(s) \/ i = Len(s) + 1
  BY <1>2
<1> DEFINE a == Append(s, n)
<1> HIDE DEF a
<1>4. TasksOf(a) = TasksOf(s) \cup {n}
  BY <1>1, <1>2, <1>3 DEF TasksOf, a
<1> QED
  BY <1>1, <1>4 DEF a

LEMMA TasksOfFront ==
  ASSUME NEW s \in Seq(Nat), NEW n \in Nat
  PROVE  /\ <<n>> \o s \in Seq(Nat)
         /\ Len(<<n>> \o s) = Len(s) + 1
         /\ (<<n>> \o s)[1] = n
         /\ \A i \in 1 .. Len(s) : (<<n>> \o s)[i + 1] = s[i]
         /\ \A i \in 2 .. Len(s) + 1 : i - 1 \in 1 .. Len(s) /\ (<<n>> \o s)[i] = s[i - 1]
         /\ TasksOf(<<n>> \o s) = TasksOf(s) \cup {n}
<1>1. <<n>> \in Seq(Nat) /\ Len(<<n>>) = 1 /\ Len(s) \in Nat
  BY LenProperties
<1>2. /\ <<n>> \o s \in Seq(Nat)
      /\ Len(<<n>> \o s) = Len(s) + 1
      /\ \A i \in 1 .. 1 + Len(s) : (<<n>> \o s)[i] = IF i <= 1 THEN <<n>>[i] ELSE s[i - 1]
  BY <1>1, ConcatProperties
<1>3. (<<n>> \o s)[1] = n
  BY <1>1, <1>2
<1>4. \A i \in 1 .. Len(s) : (<<n>> \o s)[i + 1] = s[i]
  BY <1>1, <1>2
<1>5. \A i \in 2 .. Len(s) + 1 : i - 1 \in 1 .. Len(s) /\ (<<n>> \o s)[i] = s[i - 1]
  BY <1>1, <1>2
<1> DEFINE a == <<n>> \o s
<1>6. \A i \in 1 .. Len(s) + 1 : i = 1 \/ i \in 2 .. Len(s) + 1
  BY <1>1
<1>7. \A i \in 1 .. Len(s) : i + 1 \in 1 .. Len(s) + 1
  BY <1>1
<1>8. 1 \in 1 .. Len(s) + 1
  BY <1>1
<1> HIDE DEF a
<1>9. TasksOf(a) \subseteq TasksOf(s) \cup {n}
  BY <1>2, <1>3, <1>5, <1>6 DEF TasksOf, a
<1>10. TasksOf(s) \cup {n} \subseteq TasksOf(a)
  <2>1. n \in TasksOf(a)
    BY <1>2, <1>3, <1>8 DEF TasksOf, a
  <2>2. ASSUME NEW i \in 1 .. Len(s)
        PROVE  s[i] \in TasksOf(a)
    <3>1. a[i + 1] = s[i] /\ i + 1 \in 1 .. Len(a)
      BY <1>2, <1>4, <1>7 DEF a
    <3> QED
      BY <3>1 DEF TasksOf
  <2> QED
    BY <2>1, <2>2 DEF TasksOf
<1> QED
  BY <1>2, <1>3, <1>4, <1>5, <1>9, <1>10 DEF a

LEMMA TasksOfTail ==
  ASSUME NEW s \in Seq(Nat), s # << >>
  PROVE  /\ Head(s) = s[1]
         /\ Head(s) \in TasksOf(s)
         /\ Tail(s) \in Seq(Nat)
         /\ Len(s) \in Nat \ {0}
         /\ Len(Tail(s)) = Len(s) - 1
         /\ \A i \in 1 .. Len(Tail(s)) : i + 1 \in 1 .. Len(s) /\ Tail(s)[i] = s[i + 1]
         /\ TasksOf(s) = TasksOf(Tail(s)) \cup {Head(s)}
<1>1. Len(s) \in Nat \ {0} /\ Head(s) = s[1]
  BY EmptySeq
<1>2. /\ Tail(s) \in Seq(Nat)
      /\ Len(Tail(s)) = Len(s) - 1
      /\ \A i \in 1 .. Len(Tail(s)) : Tail(s)[i] = s[i + 1]
  BY HeadTailProperties
<1>3. \A i \in 1 .. Len(s) - 1 : i + 1 \in 1 .. Len(s)
  BY <1>1
<1>4. \A i \in 1 .. Len(s) : i = 1 \/ (i - 1 \in 1 .. Len(s) - 1 /\ (i - 1) + 1 = i)
  BY <1>1
<1>5. 1 \in 1 .. Len(s)
  BY <1>1
<1> DEFINE a == Tail(s)
<1>6. \A i \in 1 .. Len(a) : a[i] = s[i + 1]
  BY <1>2
<1> HIDE DEF a
<1>7. ASSUME NEW i \in 1 .. Len(s)
      PROVE  s[i] \in TasksOf(a) \cup {Head(s)}
  <2>1. CASE i = 1
    BY <1>1, <2>1
  <2>2. CASE i # 1
    <3>1. i - 1 \in 1 .. Len(a) /\ (i - 1) + 1 = i
      BY <1>2, <1>4, <2>2 DEF a
    <3>2. a[i - 1] = s[i]
      BY <1>6, <3>1
    <3> QED
      BY <3>1, <3>2 DEF TasksOf
  <2> QED
    BY <2>1, <2>2
<1>8. TasksOf(a) \cup {Head(s)} \subseteq TasksOf(s)
  BY <1>1, <1>2, <1>3, <1>5, <1>6 DEF TasksOf, a
<1> QED
  BY <1>1, <1>2, <1>3, <1>5, <1>7, <1>8 DEF a, TasksOf

-----------------------------------------------------------------------------
(* The steps of the queue keep its invariant.                              *)

LEMMA QueueInit_Inv == QueueInit => QueueInv
<1> SUFFICES ASSUME QueueInit PROVE QueueInv
  OBVIOUS
<1>1. << >> \in Seq(Nat) /\ 1 .. 0 = {}
  BY EmptySeq
<1>2. WorkerOK /\ TasksOK /\ StoppedOK
  BY <1>1 DEF QueueInit, WorkerOK, WorkerSteps, TasksOK, StoppedOK
<1>3. PlacesOK
  BY <1>1, NoTasks, HeldTasks DEF QueueInit, PlacesOK
<1>4. OrderOK
  BY <1>1, NoTasks DEF QueueInit, OrderOK
<1> QED
  BY <1>2, <1>3, <1>4 DEF QueueInv

\* The mutex keeps callers away from a worker that found something to take.
LEMMA EnqueueKeeps ==
  ASSUME QueueInv, NEW c \in Callers, NEW priority \in {"Normal", "High"}, enqueue(c, priority)
  PROVE  QueueInv'
<1> PICK n : n = pushed + 1
  OBVIOUS
<1>1. /\ pushed' = n /\ n \in Nat /\ pushed \in Nat
      /\ m_queue' = Pushed(m_queue, n, priority)
      /\ high' = IF priority = "High" THEN high \cup {n} ELSE high
      /\ UNCHANGED <<worker, task, stop_requested, m_running, executed>>
      /\ worker # "take"
  BY DEF enqueue, QueueInv, TasksOK, workerVars, stopVars, Locked
<1>2. /\ m_queue \in Seq(Nat) /\ executed \in Seq(Nat) /\ task \in Nat
      /\ Len(m_queue) \in Nat /\ Len(executed) \in Nat
      /\ Held(task) \in Seq(Nat) /\ Len(Held(task)) \in Nat
  BY HeldTasks, LenProperties DEF QueueInv, TasksOK, WorkerOK
<1>3. /\ m_queue' \in Seq(Nat)
      /\ Len(m_queue') = Len(m_queue) + 1
      /\ TasksOf(m_queue') = TasksOf(m_queue) \cup {n}
  BY <1>1, <1>2, TasksOfAppend, TasksOfFront DEF Pushed
<1>4. WorkerOK'
  BY <1>1 DEF QueueInv, WorkerOK
<1>5. TasksOK'
  BY <1>1, <1>2, <1>3 DEF QueueInv, TasksOK
<1>6. PlacesOK'
  <2>1. 1 .. n = 1 .. pushed \cup {n}
    BY <1>1
  <2> QED
    BY <1>1, <1>2, <1>3, <2>1 DEF QueueInv, PlacesOK
<1>7. StoppedOK'
  BY <1>1 DEF QueueInv, StoppedOK
<1>8. \* nothing that is there already is the new task, or changes its priority
      /\ \A i \in 1 .. Len(m_queue) : m_queue[i] \in 1 .. pushed
      /\ \A i \in 1 .. Len(executed) : executed[i] \in 1 .. pushed
      /\ task # 0 => task \in 1 .. pushed
  BY <1>2, HeldTasks DEF QueueInv, PlacesOK, TasksOf
<1>9. \A k, m \in 1 .. pushed : Before(k, m, high) => Before(k, m, high')
  BY <1>1 DEF Before
<1>10. OrderOK'
  <2>1. /\ \A i, j \in 1 .. Len(executed) : i < j => Before(executed[i], executed[j], high')
        /\ task # 0 => \A i \in 1 .. Len(executed) : Before(executed[i], task, high')
    BY <1>1, <1>8, <1>9 DEF QueueInv, OrderOK
  <2>2. CASE priority = "Normal"
    <3>1. /\ \A i \in 1 .. Len(m_queue) : m_queue'[i] = m_queue[i]
          /\ m_queue'[Len(m_queue) + 1] = n
          /\ Len(m_queue') = Len(m_queue) + 1
      BY <1>1, <1>2, <2>2, TasksOfAppend DEF Pushed
    <3>2. \A k \in 1 .. pushed : Before(k, n, high')
      BY <1>1 DEF Before
    <3>3. \A i \in 1 .. Len(m_queue) + 1 : i \in 1 .. Len(m_queue) \/ i = Len(m_queue) + 1
      BY <1>2
    <3>4. \A i \in 1 .. Len(executed), j \in 1 .. Len(m_queue) + 1 : Before(executed[i], m_queue'[j], high')
      BY <1>1, <1>8, <1>9, <3>1, <3>2, <3>3 DEF QueueInv, OrderOK
    <3>5. task # 0 => \A j \in 1 .. Len(m_queue) + 1 : Before(task, m_queue'[j], high')
      BY <1>1, <1>8, <1>9, <3>1, <3>2, <3>3 DEF QueueInv, OrderOK
    <3>6. ASSUME NEW i \in 1 .. Len(m_queue) + 1, NEW j \in 1 .. Len(m_queue) + 1, i < j
          PROVE  Before(m_queue'[i], m_queue'[j], high')
      <4>1. i \in 1 .. Len(m_queue)
        BY <1>2, <3>6
      <4>2. CASE j = Len(m_queue) + 1
        BY <1>8, <3>1, <3>2, <4>1, <4>2
      <4>3. CASE j \in 1 .. Len(m_queue)
        <5>1. Before(m_queue[i], m_queue[j], high)
          BY <3>6, <4>1, <4>3 DEF QueueInv, OrderOK
        <5> QED
          BY <1>8, <1>9, <3>1, <4>1, <4>3, <5>1
      <4> QED
        BY <3>3, <4>2, <4>3
    <3> QED
      BY <1>1, <2>1, <3>1, <3>4, <3>5, <3>6 DEF OrderOK
  <2>3. CASE priority = "High"
    <3>1. /\ m_queue'[1] = n
          /\ \A i \in 2 .. Len(m_queue) + 1 : i - 1 \in 1 .. Len(m_queue) /\ m_queue'[i] = m_queue[i - 1]
          /\ Len(m_queue') = Len(m_queue) + 1
      BY <1>1, <1>2, <2>3, TasksOfFront DEF Pushed
    <3>2. \A k : Before(k, n, high') /\ Before(n, k, high')
      BY <1>1, <2>3 DEF Before
    <3>3. \A i \in 1 .. Len(m_queue) + 1 : i \in 2 .. Len(m_queue) + 1 \/ i = 1
      BY <1>2
    <3>4. \A i \in 1 .. Len(executed), j \in 1 .. Len(m_queue) + 1 : Before(executed[i], m_queue'[j], high')
      BY <1>1, <1>8, <1>9, <3>1, <3>2, <3>3 DEF QueueInv, OrderOK
    <3>5. task # 0 => \A j \in 1 .. Len(m_queue) + 1 : Before(task, m_queue'[j], high')
      BY <1>1, <1>8, <1>9, <3>1, <3>2, <3>3 DEF QueueInv, OrderOK
    <3>6. ASSUME NEW i \in 1 .. Len(m_queue) + 1, NEW j \in 1 .. Len(m_queue) + 1, i < j
          PROVE  Before(m_queue'[i], m_queue'[j], high')
      <4>1. CASE i = 1
        BY <3>1, <3>2, <4>1
      <4>2. CASE i # 1
        <5>1. /\ i \in 2 .. Len(m_queue) + 1 /\ j \in 2 .. Len(m_queue) + 1
              /\ i - 1 < j - 1
          BY <1>2, <3>6, <4>2
        <5>2. i - 1 \in 1 .. Len(m_queue) /\ j - 1 \in 1 .. Len(m_queue)
          BY <3>1, <5>1
        <5>3. Before(m_queue[i - 1], m_queue[j - 1], high)
          BY <5>1, <5>2 DEF QueueInv, OrderOK
        <5> QED
          BY <1>8, <1>9, <3>1, <5>1, <5>2, <5>3
      <4> QED
        BY <4>1, <4>2
    <3> QED
      BY <1>1, <2>1, <3>1, <3>4, <3>5, <3>6 DEF OrderOK
  <2> QED
    BY <2>2, <2>3
<1> QED
  BY <1>4, <1>5, <1>6, <1>7, <1>10 DEF QueueInv

\* Steps that move the worker and no task.
LEMMA MoveKeeps ==
  ASSUME QueueInv, UNCHANGED <<m_queue, task, high, pushed, executed>>,
         WorkerOK', StoppedOK'
  PROVE  QueueInv'
  BY DEF QueueInv, TasksOK, PlacesOK, OrderOK, Before

LEMMA CallsKeep ==
  ASSUME QueueInv, NEW c \in Callers, stop(c) \/ continueCall(c)
  PROVE  QueueInv'
<1>1. UNCHANGED <<m_queue, task, high, pushed, executed>>
  BY DEF stop, continueCall, notify, wakeToStop, join, workerVars, taskHistory
<1>2. \/ worker' = worker
      \/ worker = "asleep" /\ worker' = "relock"
  BY DEF stop, continueCall, notify, wakeToStop, join, workerVars, Woken
<1>3. stop_requested' = stop_requested \/ stop_requested'
  BY DEF stop, continueCall, notify, wakeToStop, join, stopVars
<1>4. WorkerOK'
  BY <1>1, <1>2, <1>3 DEF QueueInv, WorkerOK, WorkerSteps
<1>5. m_running' = m_running \/ (worker = "done" /\ worker' = worker)
  BY DEF stop, continueCall, notify, wakeToStop, join, stopVars, workerVars
<1>6. StoppedOK'
  BY <1>2, <1>5 DEF QueueInv, StoppedOK
<1> QED
  BY <1>1, <1>4, <1>6, MoveKeeps

LEMMA TakeKeeps ==
  ASSUME QueueInv, takeTask
  PROVE  QueueInv'
<1>1. /\ m_queue # << >> /\ task = 0 /\ worker = "take" /\ worker' = "run"
      /\ task' = Head(m_queue) /\ m_queue' = Tail(m_queue)
      /\ UNCHANGED <<stop_requested, m_running, high, pushed, executed>>
  BY DEF takeTask, QueueInv, WorkerOK, stopVars, taskHistory
<1>2. /\ m_queue \in Seq(Nat) /\ executed \in Seq(Nat) /\ pushed \in Nat
      /\ Len(executed) \in Nat
  BY DEF QueueInv, TasksOK
<1>3. /\ task' = m_queue[1] /\ task' \in TasksOf(m_queue)
      /\ m_queue' \in Seq(Nat)
      /\ Len(m_queue) \in Nat \ {0}
      /\ Len(m_queue') = Len(m_queue) - 1
      /\ \A i \in 1 .. Len(m_queue') : i + 1 \in 1 .. Len(m_queue) /\ m_queue'[i] = m_queue[i + 1]
      /\ TasksOf(m_queue) = TasksOf(m_queue') \cup {task'}
  BY <1>1, <1>2, TasksOfTail
<1>4. task' \in 1 .. pushed /\ task' # 0
  <2>1. TasksOf(m_queue) \subseteq 1 .. pushed
    BY DEF QueueInv, PlacesOK
  <2>2. 0 \notin 1 .. pushed
    BY <1>2
  <2> QED
    BY <1>3, <2>1, <2>2
<1>5. WorkerOK'
  BY <1>1, <1>4 DEF WorkerOK, WorkerSteps
<1>6. TasksOK'
  BY <1>1, <1>3 DEF QueueInv, TasksOK
<1>7. PlacesOK'
  <2>1. Len(Held(task)) = 0 /\ TasksOf(Held(task)) = {}
    BY <1>1, HeldTasks
  <2>2. Len(Held(task')) = 1 /\ TasksOf(Held(task')) = {task'}
    BY <1>4, HeldTasks
  <2>3. Len(m_queue') + 1 + Len(executed) = pushed
    BY <1>2, <1>3, <2>1 DEF QueueInv, PlacesOK
  <2>4. TasksOf(m_queue') \cup {task'} \cup TasksOf(executed) = 1 .. pushed
    BY <1>3, <2>1 DEF QueueInv, PlacesOK
  <2> QED
    BY <1>1, <2>2, <2>3, <2>4 DEF PlacesOK
<1>8. OrderOK'
  <2>1. 1 \in 1 .. Len(m_queue)
    BY <1>3
  <2>2. \A i, j \in 1 .. Len(m_queue') : i < j => i + 1 < j + 1
    BY <1>3
  <2>3. \A j \in 1 .. Len(m_queue') : 1 < j + 1
    BY <1>3
  <2>4. \A k, m : Before(k, m, high') <=> Before(k, m, high)
    BY <1>1 DEF Before
  <2>5. \A i, j \in 1 .. Len(executed) : i < j => Before(executed[i], executed[j], high)
    BY DEF QueueInv, OrderOK
  <2>6. \A i, j \in 1 .. Len(m_queue') : i < j => Before(m_queue'[i], m_queue'[j], high)
    BY <1>3, <2>2 DEF QueueInv, OrderOK
  <2>7. \A i \in 1 .. Len(executed), j \in 1 .. Len(m_queue') : Before(executed[i], m_queue'[j], high)
    BY <1>3 DEF QueueInv, OrderOK
  <2>8. \A i \in 1 .. Len(executed) : Before(executed[i], task', high)
    BY <1>3, <2>1 DEF QueueInv, OrderOK
  <2>9. \A j \in 1 .. Len(m_queue') : Before(task', m_queue'[j], high)
    BY <1>3, <2>1, <2>3 DEF QueueInv, OrderOK
  <2> QED
    BY <1>1, <2>4, <2>5, <2>6, <2>7, <2>8, <2>9 DEF OrderOK
<1>9. StoppedOK'
  BY <1>1 DEF QueueInv, StoppedOK
<1> QED
  BY <1>5, <1>6, <1>7, <1>8, <1>9 DEF QueueInv

LEMMA ExecuteKeeps ==
  ASSUME QueueInv, execute
  PROVE  QueueInv'
<1>1. /\ worker = "run" /\ task # 0 /\ task' = 0 /\ worker' = "loop"
      /\ executed' = Append(executed, task)
      /\ UNCHANGED <<m_queue, stop_requested, m_running, high, pushed>>
  BY DEF execute, QueueInv, WorkerOK, stopVars
<1>2. /\ m_queue \in Seq(Nat) /\ executed \in Seq(Nat) /\ pushed \in Nat /\ task \in Nat
      /\ Len(executed) \in Nat /\ Len(m_queue) \in Nat
  BY DEF QueueInv, TasksOK, WorkerOK
<1>3. /\ executed' \in Seq(Nat)
      /\ Len(executed') = Len(executed) + 1
      /\ \A i \in 1 .. Len(executed) : executed'[i] = executed[i]
      /\ executed'[Len(executed) + 1] = task
      /\ TasksOf(executed') = TasksOf(executed) \cup {task}
  BY <1>1, <1>2, TasksOfAppend
<1>4. WorkerOK'
  BY <1>1 DEF QueueInv, WorkerOK, WorkerSteps
<1>5. TasksOK'
  BY <1>1, <1>3 DEF QueueInv, TasksOK
<1>6. PlacesOK'
  <2>1. Len(Held(task)) = 1 /\ TasksOf(Held(task)) = {task}
    BY <1>1, <1>2, HeldTasks
  <2>2. Len(Held(task')) = 0 /\ TasksOf(Held(task')) = {}
    BY <1>1, HeldTasks
  <2> QED
    BY <1>1, <1>2, <1>3, <2>1, <2>2 DEF QueueInv, PlacesOK
<1>7. OrderOK'
  <2>1. \A i \in 1 .. Len(executed) + 1 : i \in 1 .. Len(executed) \/ i = Len(executed) + 1
    BY <1>2
  <2>2. \A k, m : Before(k, m, high') <=> Before(k, m, high)
    BY <1>1 DEF Before
  <2>3. \A i, j \in 1 .. Len(executed') : i < j => Before(executed'[i], executed'[j], high)
    BY <1>1, <1>2, <1>3, <2>1 DEF QueueInv, OrderOK
  <2>4. \A i \in 1 .. Len(executed'), j \in 1 .. Len(m_queue) : Before(executed'[i], m_queue[j], high)
    BY <1>1, <1>3, <2>1 DEF QueueInv, OrderOK
  <2>5. \A i, j \in 1 .. Len(m_queue) : i < j => Before(m_queue[i], m_queue[j], high)
    BY DEF QueueInv, OrderOK
  <2> QED
    BY <1>1, <2>2, <2>3, <2>4, <2>5 DEF OrderOK
<1>8. StoppedOK'
  BY <1>1 DEF QueueInv, StoppedOK
<1> QED
  BY <1>4, <1>5, <1>6, <1>7, <1>8 DEF QueueInv

LEMMA WorkerKeeps ==
  ASSUME QueueInv, checkStop \/ lock \/ test \/ block \/ leave \/ wakeSpuriously
  PROVE  QueueInv'
<1>1. UNCHANGED <<m_queue, task, high, pushed, executed, stop_requested, m_running>>
  BY DEF checkStop, lock, test, block, leave, wakeSpuriously, workerGoes, stopVars, taskHistory
<1>2. /\ worker \in {"loop", "relock", "test", "block", "take", "asleep"}
      /\ worker' \in WorkerSteps \ {"run"}
      /\ worker' = "take" => stop_requested \/ m_queue # << >>
  BY DEF checkStop, lock, test, block, leave, wakeSpuriously, workerGoes, WorkerSteps
<1>3. WorkerOK'
  BY <1>1, <1>2 DEF QueueInv, WorkerOK
<1>4. StoppedOK'
  BY <1>1, <1>2 DEF QueueInv, StoppedOK
<1> QED
  BY <1>1, <1>3, <1>4, MoveKeeps

LEMMA QueueStep == QueueInv /\ [QueueNext]_queueVars => QueueInv'
<1> SUFFICES ASSUME QueueInv, [QueueNext]_queueVars PROVE QueueInv'
  OBVIOUS
<1>1. CASE UNCHANGED queueVars
  BY <1>1, MoveKeeps DEF queueVars, workerVars, stopVars, taskHistory, QueueInv, WorkerOK, StoppedOK
<1>2. CASE QueueNext
  BY <1>2, EnqueueKeeps, CallsKeep, TakeKeeps, ExecuteKeeps, WorkerKeeps DEF QueueNext, workerLoop
<1> QED
  BY <1>1, <1>2

LEMMA QueueInvariant == QueueSpec => []QueueInv
  BY QueueInit_Inv, QueueStep, PTL DEF QueueSpec

\* The invariant counts the places apart, the property in one sequence.
LEMMA PlacesCounted == QueueInv => TasksAreInOnePlace
<1> SUFFICES ASSUME QueueInv PROVE TasksAreInOnePlace
  OBVIOUS
<1> PICK held, front, places : held = Held(task) /\ front = m_queue \o held /\ places = front \o executed
  OBVIOUS
<1>1. m_queue \in Seq(Nat) /\ held \in Seq(Nat) /\ executed \in Seq(Nat)
  BY HeldTasks DEF QueueInv, TasksOK, WorkerOK
<1>2. /\ front \in Seq(Nat)
      /\ Len(front) = Len(m_queue) + Len(held)
      /\ Range(front) = Range(m_queue) \cup Range(held)
  BY <1>1, ConcatProperties, RangeConcatenation
<1>3. /\ places \in Seq(Nat)
      /\ Len(places) = Len(front) + Len(executed)
      /\ Range(places) = Range(front) \cup Range(executed)
  <2>1. places \in Seq(Nat) /\ Len(places) = Len(front) + Len(executed)
    BY <1>1, <1>2, ConcatProperties
  <2>2. Range(places) = Range(front) \cup Range(executed)
    <3>1. front \in Seq(Nat)
      BY <1>2
    <3>2. Range(front \o executed) = Range(front) \cup Range(executed)
      BY ONLY <1>1, <3>1, RangeConcatenation
    <3> QED
      BY ONLY <3>2, places = front \o executed
  <2> QED
    BY <2>1, <2>2
<1>4. \A s \in Seq(Nat) : Range(s) = TasksOf(s)
  BY RangeEquality DEF TasksOf
<1>5. DOMAIN places = 1 .. Len(places)
  BY <1>3, LenProperties
<1>6. {places[i] : i \in DOMAIN places} = TasksOf(m_queue) \cup TasksOf(held) \cup TasksOf(executed)
  BY <1>1, <1>2, <1>3, <1>4, <1>5 DEF TasksOf
<1>7. Len(places) = pushed /\ {places[i] : i \in DOMAIN places} = 1 .. pushed
  BY <1>1, <1>2, <1>3, <1>6 DEF QueueInv, PlacesOK
<1> QED
  BY <1>7 DEF TasksAreInOnePlace, QueueInv, WorkerOK, Held

\* Every task pushed is pending, held by the worker or executed, in one place only,
\* whoever pushes, notifies and stops meanwhile.
THEOREM TasksStayInOnePlace == QueueSpec => []TasksAreInOnePlace
  BY QueueInvariant, PlacesCounted, PTL

\* Normal tasks are executed in the order they were pushed.
THEOREM NormalTasksKeepOrder == QueueSpec => []NormalTasksInOrder
<1>1. QueueInv => NormalTasksInOrder
  <2> SUFFICES ASSUME QueueInv PROVE NormalTasksInOrder
    OBVIOUS
  <2>1. DOMAIN executed = 1 .. Len(executed)
    BY LenProperties DEF QueueInv, TasksOK
  <2> QED
    BY <2>1 DEF QueueInv, OrderOK, Before, NormalTasksInOrder
<1> QED
  BY <1>1, QueueInvariant, PTL

-----------------------------------------------------------------------------
(* The clock                                                               *)

\* The clock uses the queue only through its operations: a step is one of the
\* queue or leaves it alone.
LEMMA StepOfQueue == [SchedulerNext]_schedulerVars => [QueueNext]_queueVars
<1> SUFFICES ASSUME [SchedulerNext]_schedulerVars PROVE [QueueNext]_queueVars
  OBVIOUS
<1>1. CASE start \/ triggerNow \/ beginStop \/ cancelTimer \/ stopContext \/ endStop
             \/ fire \/ onTimer \/ scheduleNext \/ endIo
  BY <1>1 DEF start, triggerNow, beginStop, cancelTimer, stopContext, endStop,
     fire, onTimer, scheduleNext, endIo
<1>2. CASE pushManual \/ pushBeat
  BY <1>2, QueueAssumption, SchedulerAssumption DEF pushManual, pushBeat, QueueNext
<1>3. CASE stopQueue
  BY <1>3, QueueAssumption DEF stopQueue, QueueNext
<1>4. CASE queueStep
  BY <1>4 DEF queueStep, QueueNext
<1>5. CASE UNCHANGED schedulerVars
  BY <1>5 DEF schedulerVars
<1> QED
  BY <1>1, <1>2, <1>3, <1>4, <1>5 DEF SchedulerNext

LEMMA SchedulerUsesQueue == SchedulerSpec => QueueSpec
<1>1. SchedulerInit => QueueInit
  BY DEF SchedulerInit
<1> QED
  BY <1>1, StepOfQueue, PTL DEF SchedulerSpec, QueueSpec

\* Every beat of the clock is one task, and the tasks keep their places and order
\* under it, and under its stop.
THEOREM BeatsStayInOnePlace == SchedulerSpec => []TasksAreInOnePlace
  BY SchedulerUsesQueue, TasksStayInOnePlace, PTL

\* What is counted and not pushed yet is in the hands of one of the two threads; a
\* clock that was not started has neither.
BeatInv ==
  /\ BeatsAreTasks
  /\ pushed \in Nat
  /\ m_beatCount \in Nat
  /\ main = "created" => pushed = 0 /\ ~ manual /\ io = "none"

\* stop has returned only when the queue was stopped.
StopInv == main = "stopped" => ~ m_running

LEMMA PushCounts ==
  ASSUME NEW c \in Callers, NEW priority \in {"Normal", "High"}, enqueue(c, priority)
  PROVE  pushed' = pushed + 1 /\ m_running' = m_running
  BY DEF enqueue, stopVars

LEMMA CallsCountNothing ==
  ASSUME queueStep
  PROVE  /\ pushed' = pushed /\ UNCHANGED schedulerState
         /\ m_running' = m_running \/ ~ m_running'
  BY DEF queueStep, continueCall, notify, wakeToStop, join, workerLoop, checkStop, lock, test, block,
     leave, takeTask, execute, wakeSpuriously, workerGoes, taskHistory, stopVars

LEMMA BeatStep == BeatInv /\ [SchedulerNext]_schedulerVars => BeatInv'
<1> SUFFICES ASSUME BeatInv, [SchedulerNext]_schedulerVars PROVE BeatInv'
  OBVIOUS
<1>1. CASE start
  BY <1>1 DEF start, BeatInv, BeatsAreTasks, queueVars, taskHistory
<1>2. CASE triggerNow
  BY <1>2 DEF triggerNow, BeatInv, BeatsAreTasks, queueVars, taskHistory
<1>3. CASE pushManual
  <2>1. pushed' = pushed + 1
    BY <1>3, PushCounts, QueueAssumption DEF pushManual
  <2> QED
    BY <1>3, <2>1 DEF pushManual, BeatInv, BeatsAreTasks
<1>4. CASE beginStop \/ cancelTimer \/ stopContext \/ endStop \/ fire \/ scheduleNext \/ endIo
  BY <1>4 DEF beginStop, cancelTimer, stopContext, endStop, fire, scheduleNext, endIo,
     BeatInv, BeatsAreTasks, queueVars, taskHistory
<1>5. CASE stopQueue
  BY <1>5 DEF stopQueue, stop, BeatInv, BeatsAreTasks, taskHistory
<1>6. CASE onTimer
  BY <1>6 DEF onTimer, BeatInv, BeatsAreTasks, queueVars, taskHistory
<1>7. CASE pushBeat
  <2>1. pushed' = pushed + 1
    BY <1>7, PushCounts, SchedulerAssumption DEF pushBeat
  <2> QED
    BY <1>7, <2>1 DEF pushBeat, BeatInv, BeatsAreTasks
<1>8. CASE queueStep
  BY <1>8, CallsCountNothing DEF schedulerState, BeatInv, BeatsAreTasks
<1>9. CASE UNCHANGED schedulerVars
  BY <1>9 DEF schedulerVars, schedulerState, queueVars, taskHistory, BeatInv, BeatsAreTasks
<1> QED
  BY <1>1, <1>2, <1>3, <1>4, <1>5, <1>6, <1>7, <1>8, <1>9 DEF SchedulerNext

LEMMA StopStep == StopInv /\ [SchedulerNext]_schedulerVars => StopInv'
<1> SUFFICES ASSUME StopInv, [SchedulerNext]_schedulerVars PROVE StopInv'
  OBVIOUS
<1>1. CASE start \/ triggerNow \/ beginStop \/ cancelTimer \/ stopContext \/ endStop
             \/ fire \/ onTimer \/ scheduleNext \/ endIo
  BY <1>1 DEF start, triggerNow, beginStop, cancelTimer, stopContext, endStop,
     fire, onTimer, scheduleNext, endIo, queueVars, stopVars, StopInv
<1>2. CASE pushManual \/ pushBeat
  BY <1>2, PushCounts, QueueAssumption, SchedulerAssumption DEF pushManual, pushBeat, StopInv
<1>3. CASE stopQueue
  BY <1>3 DEF stopQueue, StopInv
<1>4. CASE queueStep
  BY <1>4, CallsCountNothing DEF schedulerState, StopInv
<1>5. CASE UNCHANGED schedulerVars
  BY <1>5 DEF schedulerVars, schedulerState, queueVars, stopVars, StopInv
<1> QED
  BY <1>1, <1>2, <1>3, <1>4, <1>5 DEF SchedulerNext

\* No beat is lost or doubled between the counter and the queue, even when the clock
\* is stopped in between.
THEOREM BeatsBecomeTasks == SchedulerSpec => []BeatsAreTasks
<1>1. SchedulerInit => BeatInv
  BY DEF SchedulerInit, QueueInit, BeatInv, BeatsAreTasks
<1>2. BeatInv => BeatsAreTasks
  BY DEF BeatInv
<1> QED
  BY <1>1, <1>2, BeatStep, PTL DEF SchedulerSpec

\* When the stop of the clock has returned, the worker that runs the analyses is gone.
THEOREM StopEndsAnalyses == SchedulerSpec => []NoAnalysisAfterStop
<1>1. SchedulerInit => StopInv
  BY DEF SchedulerInit, StopInv
<1>2. QueueInv /\ StopInv => NoAnalysisAfterStop
  BY DEF QueueInv, StoppedOK, StopInv, NoAnalysisAfterStop
<1> QED
  BY <1>1, <1>2, StopStep, SchedulerUsesQueue, QueueInvariant, PTL DEF SchedulerSpec

-----------------------------------------------------------------------------
(* The new messages of a batch                                             *)

\* f[n] are the new ones of the first n: the definition inside Unseen.
IsScan(f, len, batch, known) ==
  f = [n \in 0 .. len |->
        IF n = 0 THEN << >>
        ELSE IF batch[n] \in known \cup {Malformed} \cup ToSet(f[n - 1]) THEN f[n - 1]
        ELSE Append(f[n - 1], batch[n])]

\* The recursion of Unseen defines a function.
LEMMA ScanExists ==
  ASSUME NEW len \in Nat, NEW batch, NEW known
  PROVE  \E f : IsScan(f, len, batch, known)
<1> DEFINE S == {k \in 0 .. len : \E f : IsScan(f, k, batch, known)}
<1>1. 0 \in S
  <2>1. IsScan([n \in 0 .. 0 |-> << >>], 0, batch, known)
    BY DEF IsScan
  <2> QED
    BY <2>1
<1>2. ASSUME NEW k \in 0 .. len - 1, k \in S
      PROVE  k + 1 \in S
  <2>1. PICK f : IsScan(f, k, batch, known)
    BY <1>2
  <2> DEFINE next == IF batch[k + 1] \in known \cup {Malformed} \cup ToSet(f[k]) THEN f[k]
                     ELSE Append(f[k], batch[k + 1])
             g == [n \in 0 .. k + 1 |-> IF n = k + 1 THEN next ELSE f[n]]
  <2>2. \A n \in 0 .. k + 1 : n = k + 1 \/ n \in 0 .. k
    OBVIOUS
  <2>3. \A n \in 0 .. k : g[n] = f[n]
    OBVIOUS
  <2>4. g[k + 1] = next
    OBVIOUS
  <2>5. \A n \in 0 .. k : f[n] = IF n = 0 THEN << >>
                           ELSE IF batch[n] \in known \cup {Malformed} \cup ToSet(f[n - 1]) THEN f[n - 1]
                           ELSE Append(f[n - 1], batch[n])
    BY <2>1 DEF IsScan
  <2>6. \A n \in 1 .. k + 1 : n - 1 \in 0 .. k /\ g[n - 1] = f[n - 1]
    BY <2>3
  <2>7. \A n \in 0 .. k + 1 :
           g[n] = IF n = 0 THEN << >>
                  ELSE IF batch[n] \in known \cup {Malformed} \cup ToSet(g[n - 1]) THEN g[n - 1]
                  ELSE Append(g[n - 1], batch[n])
    <3> SUFFICES ASSUME NEW n \in 0 .. k + 1
                 PROVE  g[n] = IF n = 0 THEN << >>
                               ELSE IF batch[n] \in known \cup {Malformed} \cup ToSet(g[n - 1]) THEN g[n - 1]
                               ELSE Append(g[n - 1], batch[n])
      OBVIOUS
    <3> HIDE DEF g, next
    <3>1. CASE n = k + 1
      <4>1. n - 1 = k /\ n # 0 /\ g[k] = f[k]
        BY <2>3, <3>1
      <4> QED
        BY <2>4, <3>1, <4>1 DEF next
    <3>2. CASE n \in 0 .. k
      BY <2>3, <2>5, <2>6, <3>2
    <3> QED
      BY <2>2, <3>1, <3>2
  <2>8. DOMAIN g = 0 .. k + 1 /\ g = [n \in DOMAIN g |-> g[n]]
    OBVIOUS
  <2> HIDE DEF g
  <2>9. IsScan(g, k + 1, batch, known)
    BY <2>7, <2>8 DEF IsScan
  <2> QED
    BY <2>9
<1>3. len \in S
  <2> HIDE DEF S
  <2>1. \A k \in 0 .. len : k \in S
    BY <1>1, <1>2, Induction
  <2> QED
    BY <2>1
<1> QED
  BY <1>3

\* What Unseen returns is new, and each message of it is there once.
LEMMA UnseenIsNew ==
  ASSUME NEW V, NEW batch \in Seq(V), NEW known
  PROVE  /\ Unseen(batch, known) \in Seq(V)
         /\ IsInjective(Unseen(batch, known))
         /\ ToSet(Unseen(batch, known)) \cap known = {}
<1> PICK len : len = Len(batch)
  OBVIOUS
<1>1. len \in Nat /\ \A n \in 1 .. len : batch[n] \in V
  BY LenProperties, ElementOfSeq
<1> DEFINE f == CHOOSE new : IsScan(new, len, batch, known)
<1>2. IsScan(f, len, batch, known)
  BY <1>1, ScanExists
<1>3. Unseen(batch, known) = f[len]
  BY DEF Unseen, IsScan
<1> HIDE DEF f
<1>4. f[0] = << >>
  BY <1>1, <1>2 DEF IsScan
<1>5. ASSUME NEW n \in 1 .. len
      PROVE  \/ f[n] = f[n - 1]
             \/ /\ f[n] = Append(f[n - 1], batch[n])
                /\ batch[n] \notin known \cup ToSet(f[n - 1])
  <2>1. n \in 0 .. len /\ n # 0
    BY <1>1
  <2>2. f[n] = IF n = 0 THEN << >>
               ELSE IF batch[n] \in known \cup {Malformed} \cup ToSet(f[n - 1]) THEN f[n - 1]
               ELSE Append(f[n - 1], batch[n])
    BY <1>2, <2>1 DEF IsScan
  <2> QED
    BY <2>1, <2>2
<1> DEFINE Fine(s) == s \in Seq(V) /\ IsInjective(s) /\ ToSet(s) \cap known = {}
           S == {k \in 0 .. len : Fine(f[k])}
<1>6. 0 \in S
  <2>1. << >> \in Seq(V) /\ DOMAIN << >> = {}
    BY EmptySeq
  <2>2. Fine(<< >>)
    BY <2>1 DEF IsInjective, ToSet
  <2>3. Fine(f[0])
    BY <1>4, <2>2
  <2> HIDE DEF Fine
  <2> QED
    BY <1>1, <2>3
<1>7. ASSUME NEW k \in 0 .. len - 1, k \in S
      PROVE  k + 1 \in S
  <2>1. k + 1 \in 1 .. len /\ (k + 1) - 1 = k /\ Fine(f[k])
    BY <1>1, <1>7
  <2> SUFFICES Fine(f[k + 1])
    BY <1>1
  <2>2. CASE f[k + 1] = f[k]
    BY <2>1, <2>2
  <2>3. CASE /\ f[k + 1] = Append(f[k], batch[k + 1])
             /\ batch[k + 1] \notin known \cup ToSet(f[k])
    <3> PICK s, e : s = f[k] /\ e = batch[k + 1]
      OBVIOUS
    <3>1. e \in V /\ s \in Seq(V) /\ IsInjective(s) /\ ToSet(s) \cap known = {}
          /\ e \notin known /\ e \notin ToSet(s)
      BY <1>1, <2>1, <2>3
    <3>2. /\ Append(s, e) \in Seq(V)
          /\ Len(Append(s, e)) = Len(s) + 1
          /\ \A i \in 1 .. Len(s) : Append(s, e)[i] = s[i]
          /\ Append(s, e)[Len(s) + 1] = e
      BY <3>1, AppendProperties
    <3>3. /\ DOMAIN Append(s, e) = 1 .. Len(s) + 1
          /\ DOMAIN s = 1 .. Len(s) /\ Len(s) \in Nat
      BY <3>1, <3>2, LenProperties
    <3>4. \A i \in 1 .. Len(s) + 1 : i \in 1 .. Len(s) \/ i = Len(s) + 1
      BY <3>3
    <3>5. \A i \in 1 .. Len(s) : s[i] # e
      BY <3>1, <3>3 DEF ToSet
    <3> PICK a : a = Append(s, e)
      OBVIOUS
    <3>6. IsInjective(a)
      BY <3>1, <3>2, <3>3, <3>4, <3>5 DEF IsInjective
    <3>7. ToSet(a) \cap known = {}
      BY <3>1, <3>2, <3>3, <3>4 DEF ToSet
    <3>8. Fine(a)
      BY <3>2, <3>6, <3>7
    <3> QED
      BY <2>3, <3>8
  <2> QED
    BY <1>5, <2>1, <2>2, <2>3
<1>8. len \in S
  <2> HIDE DEF S
  <2>1. \A k \in 0 .. len : k \in S
    BY <1>1, <1>6, <1>7, Induction
  <2> QED
    BY <1>1, <2>1
<1> QED
  BY <1>3, <1>8

-----------------------------------------------------------------------------
(* The windows                                                             *)

AnyMessage == Messages \cup {Malformed}

WindowInv ==
  /\ m_tweets \in Seq(AnyMessage)
  /\ m_articles \in Seq(AnyMessage)
  /\ threw \in BOOLEAN
  /\ WindowsHoldEachOnce

\* A window and new messages after it.
LEMMA JoinedWindow ==
  ASSUME NEW V, NEW w \in Seq(V), NEW new \in Seq(V), IsInjective(w), IsInjective(new),
         ToSet(new) \cap ToSet(w) = {}
  PROVE  /\ w \o new \in Seq(V)
         /\ IsInjective(w \o new)
         /\ ToSet(w \o new) = ToSet(w) \cup ToSet(new)
<1> PICK a : a = w \o new
  OBVIOUS
<1>1. Len(w) \in Nat /\ Len(new) \in Nat /\ DOMAIN w = 1 .. Len(w) /\ DOMAIN new = 1 .. Len(new)
  BY LenProperties
<1>2. /\ a \in Seq(V)
      /\ Len(a) = Len(w) + Len(new)
      /\ \A i \in 1 .. Len(w) + Len(new) : a[i] = IF i <= Len(w) THEN w[i] ELSE new[i - Len(w)]
  BY ConcatProperties
<1>3. DOMAIN a = 1 .. Len(w) + Len(new)
  BY <1>2, LenProperties
<1>4. ASSUME NEW i \in DOMAIN a
      PROVE  \/ i \in DOMAIN w /\ a[i] = w[i]
             \/ i \notin DOMAIN w /\ i - Len(w) \in DOMAIN new /\ a[i] = new[i - Len(w)]
  BY <1>1, <1>2, <1>3
<1>5. \A i \in DOMAIN w : w[i] \in ToSet(w)
  BY DEF ToSet
<1>6. \A i \in DOMAIN new : new[i] \in ToSet(new)
  BY DEF ToSet
<1>7. IsInjective(a)
  <2> SUFFICES ASSUME NEW i \in DOMAIN a, NEW j \in DOMAIN a, a[i] = a[j]
               PROVE  i = j
    BY DEF IsInjective
  <2>1. CASE i \in DOMAIN w /\ j \in DOMAIN w
    BY <1>4, <2>1, <1>1 DEF IsInjective
  <2>2. CASE i \notin DOMAIN w /\ j \notin DOMAIN w
    <3>1. i - Len(w) = j - Len(w)
      BY <1>4, <2>2 DEF IsInjective
    <3> QED
      BY <1>1, <1>3, <3>1
  <2>3. CASE i \in DOMAIN w /\ j \notin DOMAIN w
    BY <1>4, <1>5, <1>6, <2>3
  <2>4. CASE i \notin DOMAIN w /\ j \in DOMAIN w
    BY <1>4, <1>5, <1>6, <2>4
  <2> QED
    BY <2>1, <2>2, <2>3, <2>4
<1>8. ToSet(a) \subseteq ToSet(w) \cup ToSet(new)
  BY <1>4, <1>5, <1>6 DEF ToSet
<1>9. ASSUME NEW i \in DOMAIN w
      PROVE  w[i] \in ToSet(a)
  <2>1. i \in DOMAIN a /\ a[i] = w[i]
    BY <1>1, <1>2, <1>3
  <2> QED
    BY <2>1 DEF ToSet
<1>10. ASSUME NEW i \in DOMAIN new
       PROVE  new[i] \in ToSet(a)
  <2>1. i + Len(w) \in DOMAIN a /\ a[i + Len(w)] = new[i]
    BY <1>1, <1>2, <1>3
  <2> QED
    BY <2>1 DEF ToSet
<1>11. ToSet(a) = ToSet(w) \cup ToSet(new)
  <2>1. ToSet(w) \subseteq ToSet(a)
    BY <1>9 DEF ToSet
  <2>2. ToSet(new) \subseteq ToSet(a)
    BY <1>10 DEF ToSet
  <2> QED
    BY <1>8, <2>1, <2>2
<1> QED
  BY <1>2, <1>7, <1>11

\* A trimmed window, and what is still known of it.
LEMMA TrimmedWindow ==
  ASSUME NEW V, NEW w \in Seq(V), IsInjective(w)
  PROVE  /\ Trimmed(w) \in Seq(V)
         /\ IsInjective(Trimmed(w))
         /\ Len(Trimmed(w)) <= max_window
         /\ Forgotten(w, ToSet(w)) = ToSet(Trimmed(w))
<1> PICK t : t = Trimmed(w)
  OBVIOUS
<1>1. max_window \in Nat /\ Len(w) \in Nat /\ DOMAIN w = 1 .. Len(w)
  BY PipelineAssumption, LenProperties
<1>2. CASE Len(w) <= max_window
  <2>1. t = w
    BY <1>1, <1>2 DEF Trimmed
  <2> QED
    BY <1>2, <2>1 DEF Forgotten
<1>3. CASE Len(w) > max_window
  <2> PICK d : d = Len(w) - max_window
    OBVIOUS
  <2>1. t = SubSeq(w, d + 1, Len(w)) /\ d \in Nat
    BY <1>1, <1>3 DEF Trimmed
  <2>2. \A i \in d + 1 .. Len(w) : w[i] \in V
    BY <1>1, <2>1, ElementOfSeq
  <2>3. /\ SubSeq(w, d + 1, Len(w)) \in Seq(V)
        /\ Len(SubSeq(w, d + 1, Len(w))) = IF d + 1 <= Len(w) THEN Len(w) - (d + 1) + 1 ELSE 0
        /\ \A i \in 1 .. Len(w) - (d + 1) + 1 : SubSeq(w, d + 1, Len(w))[i] = w[d + 1 + i - 1]
    BY <1>1, <2>1, <2>2, SubSeqProperties
  <2>4. t \in Seq(V) /\ Len(t) = max_window
    BY <1>1, <1>3, <2>1, <2>3
  <2>5. DOMAIN t = 1 .. max_window
    BY <2>4, LenProperties
  <2>6. \A i \in DOMAIN t : i + d \in DOMAIN w /\ t[i] = w[i + d]
    BY <1>1, <1>3, <2>1, <2>3, <2>5
  <2>7. IsInjective(t)
    <3> SUFFICES ASSUME NEW i \in DOMAIN t, NEW j \in DOMAIN t, t[i] = t[j]
                 PROVE  i = j
      BY DEF IsInjective
    <3>1. i + d = j + d
      BY <2>6 DEF IsInjective
    <3> QED
      BY <2>1, <2>5, <3>1
  <2>8. ToSet(t) \subseteq ToSet(w)
    BY <2>6 DEF ToSet
  <2>9. Forgotten(w, ToSet(w)) = ToSet(t)
    BY <2>8 DEF Forgotten
  <2> QED
    BY <1>1, <2>4, <2>7, <2>9
<1> QED
  BY <1>1, <1>2, <1>3

\* A window that knows exactly what it holds, trimmed or not.
Exact(window, known) ==
  /\ window \in Seq(AnyMessage) /\ Trimmed(window) \in Seq(AnyMessage)
  /\ IsInjective(window) /\ IsInjective(Trimmed(window))
  /\ ToSet(window) = known
  /\ ToSet(Trimmed(window)) = Forgotten(window, known)
  /\ Len(Trimmed(window)) <= max_window

\* New messages keep a window exact.
LEMMA GrownWindow ==
  ASSUME NEW w \in Seq(AnyMessage), IsInjective(w), NEW batch \in Seq(AnyMessage)
  PROVE  Exact(w \o Unseen(batch, ToSet(w)), ToSet(w) \cup ToSet(Unseen(batch, ToSet(w))))
<1> PICK new, window : new = Unseen(batch, ToSet(w)) /\ window = w \o new
  OBVIOUS
<1>1. new \in Seq(AnyMessage) /\ IsInjective(new) /\ ToSet(new) \cap ToSet(w) = {}
  BY UnseenIsNew
<1>2. window \in Seq(AnyMessage) /\ IsInjective(window) /\ ToSet(window) = ToSet(w) \cup ToSet(new)
  BY <1>1, JoinedWindow
<1>3. /\ Trimmed(window) \in Seq(AnyMessage) /\ IsInjective(Trimmed(window))
      /\ Len(Trimmed(window)) <= max_window
      /\ Forgotten(window, ToSet(window)) = ToSet(Trimmed(window))
  BY <1>2, TrimmedWindow
<1> QED
  BY <1>2, <1>3 DEF Exact

\* A batch of a feed is a sequence of messages, and so is the part of it before one.
LEMMA BatchIsSeq ==
  ASSUME NEW batch \in Batches
  PROVE  /\ batch \in Seq(AnyMessage)
         /\ \A bad \in Nat : bad # 0 /\ bad <= Len(batch) => SubSeq(batch, 1, bad - 1) \in Seq(AnyMessage)
<1>1. batch \in Seq(AnyMessage)
  <2>1. PICK m \in 0 .. MaxBatch : batch \in [1 .. m -> AnyMessage]
    BY DEF Batches, BoundedSeq, SeqOf, AnyMessage
  <2>2. m \in Nat
    BY PipelineAssumption
  <2> QED
    BY <2>1, <2>2
<1>2. ASSUME NEW bad \in Nat, bad # 0, bad <= Len(batch)
      PROVE  SubSeq(batch, 1, bad - 1) \in Seq(AnyMessage)
  <2>1. \A i \in 1 .. bad - 1 : batch[i] \in AnyMessage
    BY <1>1, <1>2, ElementOfSeq, LenProperties
  <2> QED
    BY <1>2, <2>1, SubSeqProperties
<1> QED
  BY <1>1, <1>2

\* The first malformed message, if there is one.
LEMMA FirstBad ==
  ASSUME NEW batch \in Batches
  PROVE  LET bad == SelectInSeq(batch, LAMBDA m : m = Malformed)
         IN  bad \in Nat /\ bad <= Len(batch)
<1> DEFINE I == {i \in 1 .. Len(batch) : batch[i] = Malformed}
<1>1. Len(batch) \in Nat
  BY BatchIsSeq, LenProperties
<1>2. CASE I = {}
  BY <1>1, <1>2 DEF SelectInSeq
<1>3. CASE I # {}
  <2>1. I \in SUBSET Nat
    BY <1>1
  <2> HIDE DEF I
  <2>2. \E x \in I : \A y \in I : x <= y
    BY <1>3, <2>1, LeastNatural
  <2>3. Min(I) \in I
    BY <2>2 DEF Min
  <2>4. SelectInSeq(batch, LAMBDA m : m = Malformed) = Min(I)
    BY <1>3 DEF SelectInSeq, I
  <2> QED
    BY <1>1, <2>3, <2>4 DEF I
<1> QED
  BY <1>2, <1>3

LEMMA TwitterKeepsWindows ==
  ASSUME WindowInv, pollTwitter
  PROVE  WindowInv'
<1>1. CASE UNCHANGED windowVars
  BY <1>1 DEF windowVars, WindowInv, WindowsHoldEachOnce
<1>2. CASE \E answer \in TwitterAnswers \ {NoAnswer} :
             LET bad    == SelectInSeq(answer.batch, LAMBDA m : m = Malformed)
                 usable == IF bad = 0 THEN answer.batch ELSE SubSeq(answer.batch, 1, bad - 1)
                 new    == Unseen(usable, m_seenIds)
                 window == m_tweets \o new
                 known  == m_seenIds \cup ToSet(new)
             IN  /\ threw' = (bad # 0)
                 /\ m_tweets' = IF threw' THEN window ELSE Trimmed(window)
                 /\ m_seenIds' = IF threw' THEN known ELSE Forgotten(window, known)
                 /\ tweet_text' = IF threw' THEN << >> ELSE recentText(m_tweets')
                 /\ UNCHANGED <<m_articles, m_seenUrls>>
  <2>1. PICK answer \in TwitterAnswers \ {NoAnswer} :
             LET bad    == SelectInSeq(answer.batch, LAMBDA m : m = Malformed)
                 usable == IF bad = 0 THEN answer.batch ELSE SubSeq(answer.batch, 1, bad - 1)
                 new    == Unseen(usable, m_seenIds)
                 window == m_tweets \o new
                 known  == m_seenIds \cup ToSet(new)
             IN  /\ threw' = (bad # 0)
                 /\ m_tweets' = IF threw' THEN window ELSE Trimmed(window)
                 /\ m_seenIds' = IF threw' THEN known ELSE Forgotten(window, known)
                 /\ tweet_text' = IF threw' THEN << >> ELSE recentText(m_tweets')
                 /\ UNCHANGED <<m_articles, m_seenUrls>>
    BY <1>2
  <2>2. answer.batch \in Batches
    BY DEF TwitterAnswers
  <2> PICK bad : bad = SelectInSeq(answer.batch, LAMBDA m : m = Malformed)
    OBVIOUS
  <2> PICK usable : usable = IF bad = 0 THEN answer.batch ELSE SubSeq(answer.batch, 1, bad - 1)
    OBVIOUS
  <2> PICK new, window, known : /\ new = Unseen(usable, m_seenIds)
                                /\ window = m_tweets \o new
                                /\ known = m_seenIds \cup ToSet(new)
    OBVIOUS
  <2>3. usable \in Seq(AnyMessage)
    BY <2>2, BatchIsSeq, FirstBad
  <2>4. /\ m_tweets \in Seq(AnyMessage) /\ IsInjective(m_tweets) /\ ToSet(m_tweets) = m_seenIds
    BY DEF WindowInv, WindowsHoldEachOnce
  <2>5. Exact(window, known)
    <3>1. Exact(m_tweets \o Unseen(usable, ToSet(m_tweets)),
                ToSet(m_tweets) \cup ToSet(Unseen(usable, ToSet(m_tweets))))
      BY <2>3, <2>4, GrownWindow
    <3> QED
      BY <2>4, <3>1
  <2>6. /\ threw' = (bad # 0)
        /\ m_tweets' = IF threw' THEN window ELSE Trimmed(window)
        /\ m_seenIds' = IF threw' THEN known ELSE Forgotten(window, known)
        /\ UNCHANGED <<m_articles, m_seenUrls>>
    BY <2>1
  <2>7. threw' \in BOOLEAN
    BY <2>6
  <2>8. max_window \in Nat /\ Len(Trimmed(window)) \in Nat
    BY <2>5, PipelineAssumption, LenProperties DEF Exact
  <2>9. CASE threw'
    BY <2>4, <2>5, <2>6, <2>7, <2>9 DEF WindowInv, WindowsHoldEachOnce, Exact
  <2>10. CASE ~ threw'
    <3>1. m_tweets' = Trimmed(window) /\ m_seenIds' = Forgotten(window, known)
      BY <2>6, <2>10
    <3>2. ~ (Len(m_tweets') > max_window)
      BY <2>5, <2>8, <3>1 DEF Exact
    <3> QED
      BY <2>4, <2>5, <2>6, <2>7, <3>1, <3>2 DEF WindowInv, WindowsHoldEachOnce, Exact
  <2> QED
    BY <2>9, <2>10
<1> QED
  BY <1>1, <1>2 DEF pollTwitter

LEMMA NewsKeepsWindows ==
  ASSUME WindowInv, pollNews
  PROVE  WindowInv'
<1>1. PICK answer \in NewsAnswers :
         LET new    == Unseen(IF provider = "newsapi" THEN parseNewsapi(answer)
                              ELSE parseCryptopanic(answer), m_seenUrls)
             window == m_articles \o new
         IN  /\ m_articles' = Trimmed(window)
             /\ m_seenUrls' = Forgotten(window, m_seenUrls \cup ToSet(new))
  BY DEF pollNews
<1>2. answer.batch \in Seq(AnyMessage) \/ answer.batch = << >>
  BY BatchIsSeq DEF NewsAnswers, NoAnswer
<1> PICK parsed : parsed = IF provider = "newsapi" THEN parseNewsapi(answer) ELSE parseCryptopanic(answer)
  OBVIOUS
<1> PICK new, window, known : /\ new = Unseen(parsed, m_seenUrls)
                              /\ window = m_articles \o new
                              /\ known = m_seenUrls \cup ToSet(new)
  OBVIOUS
<1>3. parsed \in Seq(AnyMessage)
  BY <1>2, EmptySeq DEF parseNewsapi, parseCryptopanic
<1>4. /\ m_articles \in Seq(AnyMessage) /\ IsInjective(m_articles) /\ ToSet(m_articles) = m_seenUrls
  BY DEF WindowInv, WindowsHoldEachOnce
<1>5. Exact(window, known)
  <2>1. Exact(m_articles \o Unseen(parsed, ToSet(m_articles)),
              ToSet(m_articles) \cup ToSet(Unseen(parsed, ToSet(m_articles))))
    BY <1>3, <1>4, GrownWindow
  <2> QED
    BY <1>4, <2>1
<1>6. m_articles' = Trimmed(window) /\ m_seenUrls' = Forgotten(window, known)
  BY <1>1
<1>7. UNCHANGED <<m_tweets, m_seenIds, threw>>
  BY DEF pollNews
<1> QED
  BY <1>5, <1>6, <1>7 DEF WindowInv, WindowsHoldEachOnce, Exact

LEMMA WindowStep == WindowInv /\ [AnalysisNext]_pipelineVars => WindowInv'
<1> SUFFICES ASSUME WindowInv, [AnalysisNext]_pipelineVars PROVE WindowInv'
  OBVIOUS
<1>1. CASE UNCHANGED windowVars
  BY <1>1 DEF windowVars, WindowInv, WindowsHoldEachOnce
<1>2. UNCHANGED windowVars \/ pollTwitter \/ pollNews
  BY DEF AnalysisNext, continueCycle, run, analyze, backOff, applyOne, storeResult, pipelineVars
<1> QED
  BY <1>1, <1>2, TwitterKeepsWindows, NewsKeepsWindows

\* The windows of tweets and articles hold each message once and know exactly what
\* they hold, whatever the feeds answer, again, twice or malformed.
THEOREM WindowsStayExact == AnalysisSpec => []WindowsHoldEachOnce
<1>1. ASSUME AnalysisInit
      PROVE  WindowInv
  <2>1. << >> \in Seq(AnyMessage) /\ Len(<< >>) = 0 /\ DOMAIN << >> = {} /\ max_window \in Nat
    BY EmptySeq, PipelineAssumption
  <2>2. IsInjective(<< >>) /\ ToSet(<< >>) = {}
    BY <2>1 DEF IsInjective, ToSet
  <2>3. /\ m_tweets = << >> /\ m_seenIds = {} /\ m_articles = << >> /\ m_seenUrls = {}
        /\ threw = FALSE
    BY <1>1 DEF AnalysisInit
  <2>4. WindowsHoldEachOnce
    BY <2>1, <2>2, <2>3 DEF WindowsHoldEachOnce
  <2> QED
    BY <2>1, <2>3, <2>4 DEF WindowInv
<1>2. WindowInv => WindowsHoldEachOnce
  BY DEF WindowInv
<1> QED
  BY <1>1, <1>2, WindowStep, PTL DEF AnalysisSpec

-----------------------------------------------------------------------------
(* The parameters                                                          *)

\* Where a delta puts a value.
Target(old, delta, p) == IF delta = 0 THEN old ELSE Moved(old, delta, m_bounds[p])

Values == [Strategies -> [Params -> Int]]

\* The stores that are done when the next one is at.
Behind(i, j) == i < at[1] \/ (i = at[1] /\ j < at[2])

\* While the stores go on: those behind moved their parameter, those ahead did not.
Applying ==
  \A i \in 1 .. Len(allParams), j \in 1 .. Len(ParamNames) :
    LET s == allParams[i]
        p == ParamNames[j]
    IN  params[s][p] = IF Behind(i, j) THEN Target(before[s][p], analysis[p], p) ELSE before[s][p]

\* After them.
Applied(deltas) ==
  \A s \in Strategies, p \in Params : params[s][p] = Target(before[s][p], deltas[p], p)

CycleInv ==
  /\ params \in Values /\ before \in Values
  /\ analysis \in [Params -> Int]
  /\ at \in (Nat \ {0}) \X (1 .. Len(ParamNames))
  /\ cycle \in Nat
  /\ step # "idle" => cycle > 0
  /\ failed => step = "idle" /\ params = before
  /\ step \in {"twitter", "news", "ask", "backoff"} \/ (step = "idle" /\ cycle = 0) => params = before
  /\ step \in {"ask", "backoff", "apply"} => prompt.values = before[allParams[1]]
  /\ step = "apply" => Applying
  /\ step = "idle" /\ cycle > 0 /\ ~ failed =>
       /\ m_lastResult \in [Params -> Int]
       /\ prompt.values = before[allParams[1]]
       /\ Applied(m_lastResult)
  /\ step \in {"idle", "twitter", "news", "ask", "backoff", "apply"}

\* The strategies and the parameters, by their indexes.
LEMMA Indexes ==
  /\ Len(allParams) \in Nat \ {0} /\ Len(ParamNames) \in Nat \ {0}
  /\ \A i \in 1 .. Len(allParams) : allParams[i] \in Strategies
  /\ \A j \in 1 .. Len(ParamNames) : ParamNames[j] \in Params
  /\ \A s \in Strategies : \E i \in 1 .. Len(allParams) : s = allParams[i]
  /\ \A p \in Params : \E j \in 1 .. Len(ParamNames) : p = ParamNames[j]
  /\ \A i, k \in 1 .. Len(allParams) : allParams[i] = allParams[k] => i = k
  /\ \A j, l \in 1 .. Len(ParamNames) : ParamNames[j] = ParamNames[l] => j = l
<1>1. /\ DOMAIN allParams = 1 .. Len(allParams) /\ DOMAIN ParamNames = 1 .. Len(ParamNames)
      /\ Len(allParams) \in Nat \ {0} /\ Len(ParamNames) \in Nat \ {0}
  BY PipelineAssumption, LenProperties, EmptySeq
<1> QED
  BY <1>1, PipelineAssumption DEF Strategies, Params, ToSet, IsInjective

\* A moved value is an integer within the bounds, and not further than the largest
\* delta from where the bounds put the old one.
LEMMA MovedLittle ==
  ASSUME NEW p \in Params, NEW old \in Int, NEW delta \in Int
  PROVE  LET bound == m_bounds[p]
             new   == Moved(old, delta, bound)
             base  == Clamped(old, bound.hard_min, bound.hard_max)
         IN  /\ new \in Int /\ base \in Int
             /\ new \in bound.hard_min .. bound.hard_max
             /\ new - base \in - bound.max_delta .. bound.max_delta
<1> PICK lo, hi, most : lo = m_bounds[p].hard_min /\ hi = m_bounds[p].hard_max /\ most = m_bounds[p].max_delta
  OBVIOUS
<1>1. lo \in Int /\ hi \in Int /\ most \in Nat /\ lo <= hi
  BY PipelineAssumption
<1> PICK d : d = Clamped(delta, - most, most)
  OBVIOUS
<1>2. d \in Int /\ - most <= d /\ d <= most
  BY <1>1 DEF Clamped
<1> PICK from, to : from = Clamped(old, lo, hi) /\ to = Clamped(old + d, lo, hi)
  OBVIOUS
<1>3. from \in lo .. hi /\ to \in lo .. hi
  BY <1>1, <1>2 DEF Clamped
<1>4. to - from <= most
  BY <1>1, <1>2, <1>3 DEF Clamped
<1>5. - most <= to - from
  BY <1>1, <1>2, <1>3 DEF Clamped
<1>6. Moved(old, delta, m_bounds[p]) = to
  BY DEF Moved
<1> QED
  BY <1>1, <1>3, <1>4, <1>5, <1>6

LEMMA TargetType ==
  ASSUME NEW p \in Params, NEW old \in Int, NEW delta \in Int
  PROVE  Target(old, delta, p) \in Int
  BY MovedLittle DEF Target

\* One store.
LEMMA ApplyOneKeeps ==
  ASSUME CycleInv, applyOne
  PROVE  CycleInv'
<1> PICK i, j : at = <<i, j>> /\ i \in Nat \ {0} /\ j \in 1 .. Len(ParamNames)
  BY DEF CycleInv
<1>1. i \in 1 .. Len(allParams) /\ step = "apply" /\ step' = "apply" /\ ~ failed /\ ~ failed'
  BY Indexes DEF applyOne, CycleInv
<1> PICK s, p : s = allParams[i] /\ p = ParamNames[j]
  OBVIOUS
<1>2. s \in Strategies /\ p \in Params
  BY <1>1, Indexes
<1>3. params[s][p] = before[s][p] /\ before[s][p] \in Int /\ analysis[p] \in Int
  BY <1>1, <1>2 DEF CycleInv, Applying, Behind, Values
<1> PICK new : new = Target(before[s][p], analysis[p], p)
  OBVIOUS
<1>4. new \in Int
  BY <1>2, <1>3, TargetType
<1>5. params' = [params EXCEPT ![s][p] = new]
  BY <1>1, <1>2, <1>3 DEF applyOne, Target, CycleInv, Values
<1>6. /\ params' \in Values
      /\ params'[s][p] = new
      /\ \A t \in Strategies, q \in Params : (t # s \/ q # p) => params'[t][q] = params[t][q]
  BY <1>2, <1>4, <1>5 DEF CycleInv, Values
<1>7. /\ at' = nextStore(at)
      /\ UNCHANGED <<analysis, before, prompt, cycle, m_lastResult>>
  BY DEF applyOne, promptVars
<1>8. at' \in (Nat \ {0}) \X (1 .. Len(ParamNames))
  BY <1>7, Indexes DEF nextStore
<1>9. ASSUME NEW k \in 1 .. Len(allParams), NEW l \in 1 .. Len(ParamNames)
      PROVE  Behind(k, l)' <=> Behind(k, l) \/ (k = i /\ l = j)
  BY <1>1, <1>7, Indexes DEF Behind, nextStore
<1>10. ASSUME NEW k \in 1 .. Len(allParams), NEW l \in 1 .. Len(ParamNames)
       PROVE  params'[allParams[k]][ParamNames[l]] =
                IF Behind(k, l)'
                THEN Target(before[allParams[k]][ParamNames[l]], analysis[ParamNames[l]], ParamNames[l])
                ELSE before[allParams[k]][ParamNames[l]]
  <2>1. CASE k = i /\ l = j
    BY <1>6, <1>9, <2>1
  <2>2. CASE ~ (k = i /\ l = j)
    <3>1. allParams[k] # s \/ ParamNames[l] # p
      BY <1>1, <2>2, Indexes
    <3>2. params'[allParams[k]][ParamNames[l]] = params[allParams[k]][ParamNames[l]]
      BY <1>6, <3>1, Indexes
    <3>3. Behind(k, l)' <=> Behind(k, l)
      BY <1>9, <2>2
    <3> QED
      BY <1>1, <3>2, <3>3 DEF CycleInv, Applying
  <2> QED
    BY <2>1, <2>2
<1>11. Applying'
  BY <1>7, <1>10 DEF Applying, Target
<1> QED
  BY <1>1, <1>6, <1>7, <1>8, <1>11 DEF CycleInv

\* When all stores are done, all values are where the deltas put them.
LEMMA StoreResultKeeps ==
  ASSUME CycleInv, storeResult
  PROVE  CycleInv'
<1>1. /\ step = "apply" /\ step' = "idle" /\ at[1] > Len(allParams)
      /\ m_lastResult' = analysis
      /\ UNCHANGED <<prompt, analysis, at, params, cycle, before, failed>>
  BY DEF storeResult, promptVars
<1>2. Applied(analysis)
  <2> SUFFICES ASSUME NEW s \in Strategies, NEW p \in Params
               PROVE  params[s][p] = Target(before[s][p], analysis[p], p)
    BY DEF Applied
  <2>1. PICK i \in 1 .. Len(allParams), j \in 1 .. Len(ParamNames) : s = allParams[i] /\ p = ParamNames[j]
    BY Indexes
  <2>2. Behind(i, j)
    BY <1>1, Indexes DEF Behind, CycleInv
  <2> QED
    BY <1>1, <2>1, <2>2 DEF CycleInv, Applying
<1>3. Applied(m_lastResult)'
  BY <1>1, <1>2 DEF Applied, Target
<1>4. m_lastResult' \in [Params -> Int] /\ prompt'.values = before'[allParams[1]] /\ ~ failed' /\ ~ failed
  BY <1>1 DEF CycleInv
<1>5. /\ params' \in Values /\ before' \in Values /\ analysis' \in [Params -> Int]
      /\ at' \in (Nat \ {0}) \X (1 .. Len(ParamNames)) /\ cycle' \in Nat
  BY <1>1 DEF CycleInv
<1>6. cycle' > 0
  BY <1>1 DEF CycleInv
<1> QED
  BY <1>1, <1>3, <1>4, <1>5, <1>6 DEF CycleInv

\* An answer that is an analysis starts the stores with deltas.
LEMMA AnalyzeKeeps ==
  ASSUME CycleInv, analyze
  PROVE  CycleInv'
<1>1. /\ step = "ask" /\ params = before /\ ~ failed
      /\ UNCHANGED <<prompt, params, m_lastResult, cycle, before>>
  BY DEF analyze, CycleInv, promptVars
<1>2. CASE step' = "backoff" /\ UNCHANGED <<failed, analysis, at>>
  BY <1>1, <1>2 DEF CycleInv
<1>3. CASE step' = "idle" /\ failed' = TRUE /\ UNCHANGED <<analysis, at>>
  BY <1>1, <1>3 DEF CycleInv
<1>4. CASE /\ step' = "apply" /\ at' = <<1, 1>> /\ UNCHANGED failed
           /\ \E answer \in Answers : analysis' = Deltas(answer)
  <2>1. analysis' \in [Params -> Int]
    BY <1>4, PipelineAssumption DEF Deltas
  <2>2. at' \in (Nat \ {0}) \X (1 .. Len(ParamNames))
    BY <1>4, Indexes
  <2>3. \A k \in 1 .. Len(allParams), l \in 1 .. Len(ParamNames) : ~ Behind(k, l)'
    BY <1>4, Indexes DEF Behind
  <2>4. Applying'
    BY <1>1, <2>3 DEF Applying
  <2> QED
    BY <1>1, <1>4, <2>1, <2>2, <2>4 DEF CycleInv
<1>5. ASSUME NEW reply \in Replies, curlTransport(reply) = "none"
      PROVE  reply.deltas \in Answers
  BY <1>5 DEF Replies, curlTransport
<1> QED
  BY <1>2, <1>3, <1>4, <1>5 DEF analyze

LEMMA CycleStep == CycleInv /\ [AnalysisNext]_pipelineVars => CycleInv'
<1> SUFFICES ASSUME CycleInv, [AnalysisNext]_pipelineVars PROVE CycleInv'
  OBVIOUS
<1>1. CASE run
  <2>1. /\ step = "idle" /\ step' = "twitter" /\ cycle' = cycle + 1 /\ before' = params /\ ~ failed'
        /\ UNCHANGED <<analysis, at, params, m_lastResult>>
    BY <1>1 DEF run
  <2>2. params \in Values /\ cycle' \in Nat
    BY <2>1 DEF CycleInv
  <2>3. failed' => step' = "idle" /\ params' = before'
    BY <2>1
  <2> QED
    BY <2>1, <2>2, <2>3 DEF CycleInv
<1>2. CASE pollTwitter
  <2>1. step = "twitter" /\ step' = "news" /\ UNCHANGED <<analysis, at, params, m_lastResult, cycle, before, failed>>
    BY <1>2 DEF pollTwitter, cycleVars
  <2> QED
    BY <2>1 DEF CycleInv
<1>3. CASE pollNews
  <2>1. /\ step = "news" /\ step' = "ask" /\ prompt'.values = params[allParams[1]]
        /\ UNCHANGED <<analysis, at, params, m_lastResult, cycle, before, failed>>
    BY <1>3 DEF pollNews, cycleVars, userPrompt
  <2> QED
    BY <2>1 DEF CycleInv
<1>4. CASE analyze
  BY <1>4, AnalyzeKeeps
<1>5. CASE backOff
  <2>1. /\ step = "backoff" /\ step' = "ask" /\ prompt' = prompt
        /\ UNCHANGED <<analysis, at, params, m_lastResult, cycle, before, failed>>
    BY <1>5 DEF backOff, cycleVars, promptVars
  <2> QED
    BY <2>1 DEF CycleInv
<1>6. CASE applyOne
  BY <1>6, ApplyOneKeeps
<1>7. CASE storeResult
  BY <1>7, StoreResultKeeps
<1>8. CASE UNCHANGED pipelineVars
  BY <1>8 DEF pipelineVars, cycleVars, promptVars, CycleInv, Applying, Applied, Behind, Target
<1> QED
  BY <1>1, <1>2, <1>3, <1>4, <1>5, <1>6, <1>7, <1>8 DEF AnalysisNext, continueCycle

LEMMA CycleInvariant == AnalysisSpec => []CycleInv
<1>1. AnalysisInit => CycleInv
  <2> SUFFICES ASSUME AnalysisInit PROVE CycleInv
    OBVIOUS
  <2>1. NoDeltas \in [Params -> Int]
    BY DEF NoDeltas
  <2>2. <<1, 1>> \in (Nat \ {0}) \X (1 .. Len(ParamNames))
    BY Indexes
  <2>3. /\ params = Configured /\ before = Configured /\ analysis = NoDeltas /\ at = <<1, 1>>
        /\ step = "idle" /\ cycle = 0 /\ failed = FALSE
    BY DEF AnalysisInit
  <2>4. params \in Values
    BY <2>3, PipelineAssumption DEF Values
  <2> QED
    BY <2>1, <2>2, <2>3, <2>4 DEF CycleInv
<1> QED
  BY <1>1, CycleStep, PTL DEF AnalysisSpec

\* Whatever a model answers, a cycle moves a parameter by no more than its largest
\* delta, and into its bounds; a cycle that failed moves none.
THEOREM ModelsMoveLittle == AnalysisSpec => []CyclesMoveLittle
<1>1. ASSUME CycleInv, NEW s \in Strategies, NEW p \in Params
      PROVE  \/ params[s][p] = before[s][p]
             \/ ~ failed /\ \E delta \in Int : params[s][p] = Moved(before[s][p], delta, m_bounds[p])
  <2>1. CASE step = "apply"
    <3>1. PICK i \in 1 .. Len(allParams), j \in 1 .. Len(ParamNames) : s = allParams[i] /\ p = ParamNames[j]
      BY Indexes
    <3>2. analysis[p] \in Int
      BY <1>1 DEF CycleInv
    <3> QED
      BY <1>1, <2>1, <3>1, <3>2 DEF CycleInv, Applying, Target
  <2>2. CASE step = "idle" /\ cycle > 0 /\ ~ failed
    <3>1. m_lastResult[p] \in Int
      BY <1>1, <2>2 DEF CycleInv
    <3> QED
      BY <1>1, <2>2, <3>1 DEF CycleInv, Applied, Target
  <2>3. CASE params = before
    BY <2>3
  <2>4. step = "apply" \/ (step = "idle" /\ cycle > 0 /\ ~ failed) \/ params = before
    BY <1>1 DEF CycleInv
  <2> QED
    BY <2>1, <2>2, <2>3, <2>4
<1>2. ASSUME CycleInv
      PROVE  CyclesMoveLittle
  <2> SUFFICES ASSUME NEW s \in Strategies, NEW p \in Params
               PROVE  LET old   == before[s][p]
                          new   == params[s][p]
                          bound == m_bounds[p]
                          base  == Clamped(old, bound.hard_min, bound.hard_max)
                      IN  \/ new = old
                          \/ /\ ~ failed
                             /\ new \in bound.hard_min .. bound.hard_max
                             /\ new - base \in - bound.max_delta .. bound.max_delta
    BY DEF CyclesMoveLittle
  <2>1. before[s][p] \in Int
    BY <1>2 DEF CycleInv, Values
  <2> QED
    BY <1>1, <1>2, <2>1, MovedLittle
<1> QED
  BY <1>2, CycleInvariant, PTL

\* What the dashboard shows is what every strategy was moved by.
THEOREM ShownIsApplied == AnalysisSpec => []PublishedIsApplied
<1>1. ASSUME CycleInv
      PROVE  PublishedIsApplied
  <2>1. allParams[1] \in Strategies
    BY Indexes
  <2> QED
    BY <1>1, <2>1 DEF CycleInv, Applied, Target, PublishedIsApplied
<1> QED
  BY <1>1, CycleInvariant, PTL
=============================================================================
