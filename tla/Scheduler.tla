----------------------------- MODULE Scheduler ------------------------------
(***************************************************************************)
(* CScheduler (scheduler.cpp): threads take tasks from a queue in the      *)
(* order of their times and run them without the lock.                     *)
(*                                                                         *)
(* An action is what a thread does from one release of newTaskMutex to the *)
(* next.  The clock is that of wait_until, which may return at any time    *)
(* after its deadline.                                                     *)
(***************************************************************************)
EXTENDS Integers, Sequences

CONSTANTS
    Servicers,   \* the threads that run serviceQueue
    Tasks,       \* the functions that are scheduled
    Repeated,    \* those that were given to scheduleEvery, and schedule themselves
    Period,      \* deltaSeconds
    Horizon      \* bound: the last moment for which anything is scheduled

ASSUME SchedulerAssumption ==
    /\ Repeated \subseteq Tasks
    /\ Period \in Nat \ {0} /\ Horizon \in Nat

VARIABLES
    clock,
    taskQueue,              \* pairs <<time, task>>, in the order of the multimap
    stopRequested, stopWhenEmpty,
    nThreadsServicingQueue,
    servicer                \* where each thread is, and the deadline or task it has

schedulerVars == <<clock, taskQueue, stopRequested, stopWhenEmpty,
                   nThreadsServicingQueue, servicer>>

None == <<0, 0>>

SchedulerInit ==
    /\ clock = 0 /\ taskQueue = <<>>
    /\ stopRequested = FALSE /\ stopWhenEmpty = FALSE
    /\ nThreadsServicingQueue = 0
    /\ servicer = [s \in Servicers |-> [pc |-> "enter", has |-> None]]

shouldStop == stopRequested \/ (stopWhenEmpty /\ taskQueue = <<>>)

\* taskQueue.insert: behind the entries with the same time.
Inserted(e) ==
    SelectSeq(taskQueue, LAMBDA f : f[1] <= e[1]) \o <<e>>
        \o SelectSeq(taskQueue, LAMBDA f : f[1] > e[1])

Queued(task) == \E i \in DOMAIN taskQueue : taskQueue[i][2] = task

Asleep == {s \in Servicers : servicer[s].pc \in {"wait", "wait_until"}}
Roused(S) == [s \in Servicers |->
                 IF s \in S THEN [servicer[s] EXCEPT !.pc = "woken"] ELSE servicer[s]]

\* A task is added and nobody is told.
NotifyNobody == UNCHANGED servicer

\* The condition variable with its two notifications.
NotifyOne ==
    \/ Asleep = {} /\ UNCHANGED servicer
    \/ \E s \in Asleep : servicer' = Roused({s})

NotifyAll == servicer' = Roused(Asleep)

-----------------------------------------------------------------------------
\* CScheduler::schedule.
Schedule(time, task) ==
    /\ time >= clock /\ time <= Horizon
    /\ ~ Queued(task)
    /\ \A s \in Servicers : servicer[s].pc = "run" => servicer[s].has[2] # task
    /\ taskQueue' = Inserted(<<time, task>>)
    /\ NotifyOne
    /\ UNCHANGED <<clock, stopRequested, stopWhenEmpty, nThreadsServicingQueue>>

\* CScheduler::stop, called once for each way to stop.
Stop(drain) ==
    /\ ~ stopRequested /\ ~ (drain /\ stopWhenEmpty)
    /\ IF drain THEN stopWhenEmpty' = TRUE /\ UNCHANGED stopRequested
                ELSE stopRequested' = TRUE /\ UNCHANGED stopWhenEmpty
    /\ NotifyAll
    /\ UNCHANGED <<clock, taskQueue, nThreadsServicingQueue>>

\* The head of serviceQueue's loop, for a thread that has the lock: it returns,
\* waits for a task, or waits for the time of the first one.
AtLoopHead(s, count) ==
    \/ /\ shouldStop
       /\ nThreadsServicingQueue' = count - 1
       /\ \/ Asleep \ {s} = {}
             /\ servicer' = [servicer EXCEPT ![s] = [pc |-> "left", has |-> None]]
          \/ \E r \in Asleep \ {s} :
                servicer' = [servicer EXCEPT ![s] = [pc |-> "left", has |-> None],
                                             ![r].pc = "woken"]
    \/ /\ ~ shouldStop /\ taskQueue = <<>>
       /\ servicer' = [servicer EXCEPT ![s] = [pc |-> "wait", has |-> None]]
       /\ nThreadsServicingQueue' = count
    \/ /\ ~ shouldStop /\ taskQueue # <<>>
       /\ servicer' = [servicer EXCEPT ![s] = [pc |-> "wait_until", has |-> Head(taskQueue)]]
       /\ nThreadsServicingQueue' = count

Enter(s) ==
    /\ servicer[s].pc = "enter"
    /\ AtLoopHead(s, nThreadsServicingQueue + 1)
    /\ UNCHANGED <<clock, taskQueue, stopRequested, stopWhenEmpty>>

\* Back from wait, or from wait_until before the deadline.
Wake(s) ==
    /\ servicer[s].pc = "woken"
    /\ AtLoopHead(s, nThreadsServicingQueue)
    /\ UNCHANGED <<clock, taskQueue, stopRequested, stopWhenEmpty>>

Spurious(s) ==
    /\ s \in Asleep
    /\ servicer' = Roused({s})
    /\ UNCHANGED <<clock, taskQueue, stopRequested, stopWhenEmpty, nThreadsServicingQueue>>

\* wait_until returned since the deadline has passed.
TimesOut(s) == servicer[s].pc = "wait_until" /\ servicer[s].has[1] <= clock

\* After the timeout the first entry is taken, whichever it is by now.
Timeout(s) ==
    /\ TimesOut(s)
    /\ \/ /\ ~ shouldStop /\ taskQueue # <<>>
          /\ taskQueue' = Tail(taskQueue)
          /\ servicer' = [servicer EXCEPT ![s] = [pc |-> "run", has |-> Head(taskQueue)]]
          /\ UNCHANGED nThreadsServicingQueue
       \/ /\ shouldStop \/ taskQueue = <<>>
          /\ AtLoopHead(s, nThreadsServicingQueue)
          /\ UNCHANGED taskQueue
    /\ UNCHANGED <<clock, stopRequested, stopWhenEmpty>>

\* The function is over: a repeated task is scheduled again, and the thread that
\* it notifies is not the one that ran it.
Run(s) ==
    LET task == servicer[s].has[2]
        again == task \in Repeated /\ clock + Period <= Horizon
        back == [servicer EXCEPT ![s] = [pc |-> "woken", has |-> None]]
    IN  /\ servicer[s].pc = "run"
        /\ taskQueue' = IF again THEN Inserted(<<clock + Period, task>>) ELSE taskQueue
        /\ \/ again /\ \E r \in Asleep : servicer' = [back EXCEPT ![r].pc = "woken"]
           \/ (~ again \/ Asleep = {}) /\ servicer' = back
        /\ UNCHANGED <<clock, stopRequested, stopWhenEmpty, nThreadsServicingQueue>>

\* The function throws, or the thread is interrupted in a wait: the exception
\* leaves serviceQueue.
Throw(s) ==
    /\ s \in Asleep \/ servicer[s].pc = "run"
    /\ servicer' = [servicer EXCEPT ![s] = [pc |-> "thrown", has |-> None]]
    /\ nThreadsServicingQueue' = nThreadsServicingQueue - 1
    /\ UNCHANGED <<clock, taskQueue, stopRequested, stopWhenEmpty>>

Pass ==
    /\ clock < Horizon
    /\ clock' = clock + 1
    /\ UNCHANGED <<taskQueue, stopRequested, stopWhenEmpty, nThreadsServicingQueue, servicer>>

ServicerStep(s) == Enter(s) \/ Wake(s) \/ Timeout(s) \/ Run(s)

SchedulerNext ==
    \/ \E time \in 0..Horizon, task \in Tasks : Schedule(time, task)
    \/ \E drain \in BOOLEAN : Stop(drain)
    \/ \E s \in Servicers : ServicerStep(s) \/ Spurious(s) \/ Throw(s)
    \/ Pass

SchedulerSpec == SchedulerInit /\ [][SchedulerNext]_schedulerVars

\* Time passes, a thread that can go on does, and a wait_until whose deadline has
\* passed is not woken for another reason for ever.
SchedulerFairness ==
    /\ WF_schedulerVars(Pass)
    /\ \A s \in Servicers : /\ WF_schedulerVars(Enter(s) \/ Wake(s) \/ Run(s))
                            /\ SF_schedulerVars(Timeout(s))

-----------------------------------------------------------------------------
\* "Call func at/after time t" (scheduler.h): no task is run before its time.
NotEarly == \A s \in Servicers : servicer[s].pc = "run" => servicer[s].has[1] <= clock

\* A task whose time has come is taken from the queue, unless the scheduler was
\* stopped or every thread has died of an exception: no notification is lost that
\* anybody needed.
DueTasksRun ==
    \A task \in Tasks :
        Queued(task) ~> \/ ~ Queued(task) \/ stopRequested
                        \/ \A s \in Servicers : servicer[s].pc \in {"thrown", "left"}

\* A scheduled function runs, and never before its time, although a thread that
\* has timed out takes the first entry without a look at it.
TasksRunInTime == []NotEarly /\ DueTasksRun
=============================================================================
