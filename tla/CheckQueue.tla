----------------------------- MODULE CheckQueue -----------------------------
(***************************************************************************)
(* CCheckQueue and CCheckQueueControl (checkqueue.h): the script checks of *)
(* a block are pushed by the master, the thread in ConnectBlock, and run   *)
(* by worker threads; in Wait the master works like the others and returns *)
(* when nothing is left to do.                                             *)
(*                                                                         *)
(* One action is one critical section of the mutex, or what a thread does  *)
(* between two of them.  A thread blocked in wait may be notified, may     *)
(* wake up for no reason, and a worker may be interrupted there when the   *)
(* node shuts down.  The queue is a set: it is used as a stack, but "the   *)
(* order of booleans doesn't matter", and here any part may be taken.      *)
(***************************************************************************)
EXTENDS Integers, FiniteSets

CONSTANTS
    Workers,     \* the threads that run CCheckQueue::Thread
    Master,      \* the thread that holds the control
    Checks,      \* the checks that may be added under one control
    Failing,     \* those of them that return false
    BatchSize    \* nBatchSize

Threads == Workers \cup {Master}

ASSUME QueueAssumption ==
    /\ IsFiniteSet(Workers)
    /\ Master \notin Workers
    /\ IsFiniteSet(Checks)
    /\ Failing \subseteq Checks
    /\ BatchSize \in Nat \ {0}

VARIABLES
    queue,     \* the checks nobody has taken yet
    nIdle, nTotal, nTodo, fAllOk,
    pc,        \* where each thread is: see TypeOK
    batch,     \* vChecks of each thread, and what nNow counts
    fOk,       \* each thread's fOk
    added,     \* the checks added under the current control
    result     \* what the last Wait returned

vars == <<queue, nIdle, nTotal, nTodo, fAllOk, pc, batch, fOk, added, result>>

-----------------------------------------------------------------------------
\* A worker starts its thread once; the master is outside the queue.
Init ==
    /\ queue = {} /\ nIdle = 0 /\ nTotal = 0 /\ nTodo = 0 /\ fAllOk = TRUE
    /\ pc = [t \in Threads |-> IF t = Master THEN "out" ELSE "enter"]
    /\ batch = [t \in Threads |-> {}]
    /\ fOk = [t \in Threads |-> TRUE]
    /\ added = {} /\ result = TRUE

IsIdle == nTotal = nIdle /\ nTodo = 0 /\ fAllOk = TRUE

\* CCheckQueueControl, which asserts IsIdle: see ControlFindsQueueIdle.
Begin ==
    /\ pc[Master] = "out"
    /\ pc' = [pc EXCEPT ![Master] = "add"]
    /\ added' = {}
    /\ UNCHANGED <<queue, nIdle, nTotal, nTodo, fAllOk, batch, fOk, result>>

\* notify_one wakes some waiting worker, notify_all every one of them; a
\* notification is lost when nobody waits.
Waiting == {w \in Workers : pc[w] = "wait"}

Woken(S) == [t \in Threads |-> IF t \in S THEN "woken" ELSE pc[t]]

\* CCheckQueue::Add; an empty vector changes nothing.
Add(S) ==
    /\ pc[Master] = "add"
    /\ S \subseteq Checks \ added
    /\ queue' = queue \cup S
    /\ nTodo' = nTodo + Cardinality(S)
    /\ added' = added \cup S
    /\ \/ Cardinality(S) = 1 /\ Waiting # {} /\ \E w \in Waiting : pc' = Woken({w})
       \/ Cardinality(S) = 1 /\ Waiting = {} /\ pc' = pc
       \/ Cardinality(S) > 1 /\ pc' = Woken(Waiting)
    /\ UNCHANGED <<nIdle, nTotal, fAllOk, batch, fOk, result>>

\* CCheckQueue::Wait, called by the control's Wait or by its destructor.
Wait ==
    /\ pc[Master] = "add"
    /\ pc' = [pc EXCEPT ![Master] = "enter"]
    /\ UNCHANGED <<queue, nIdle, nTotal, nTodo, fAllOk, batch, fOk,
                   added, result>>

-----------------------------------------------------------------------------
(* Loop.                                                                   *)

\* The number of checks to take, from the counters as they are then.
BatchNow(total, idle) ==
    LET share == Cardinality(queue) \div (total + idle + 1)
        capped == IF share < BatchSize THEN share ELSE BatchSize
    IN  IF capped < 1 THEN 1 ELSE capped

\* The queue once the checks S are popped from it.
Remaining(S) == queue \ S

\* "reset the status for new work later".
StatusForNewWork(allOk) == TRUE

\* At the head of "while (queue.empty())" with the lock held, for a thread t
\* and given values of the program counters and of the shared counters: return
\* (the master, with nothing to do), wait, or take a batch.
AtHead(t, counters, total, idle, todo, allOk) ==
    \/ /\ queue = {} /\ t = Master /\ todo = 0
       /\ nTotal' = total - 1
       /\ result' = allOk
       /\ fAllOk' = StatusForNewWork(allOk)
       /\ pc' = [counters EXCEPT ![t] = "out"]
       /\ batch' = [batch EXCEPT ![t] = {}]
       /\ nIdle' = idle
       /\ UNCHANGED <<queue, fOk>>
    \/ /\ queue = {} /\ ~ (t = Master /\ todo = 0)
       /\ nIdle' = idle + 1
       /\ pc' = [counters EXCEPT ![t] = "wait"]
       /\ batch' = [batch EXCEPT ![t] = {}]
       /\ nTotal' = total /\ fAllOk' = allOk
       /\ UNCHANGED <<queue, fOk, result>>
    \/ /\ queue # {}
       /\ \E S \in SUBSET queue :
             /\ Cardinality(S) = BatchNow(total, idle)
             /\ batch' = [batch EXCEPT ![t] = S]
             /\ queue' = Remaining(S)
       /\ fOk' = [fOk EXCEPT ![t] = allOk]
       /\ pc' = [counters EXCEPT ![t] = "work"]
       /\ nTotal' = total /\ nIdle' = idle /\ fAllOk' = allOk
       /\ UNCHANGED result

\* The first critical section of a thread: it counts itself in.
Join(t) ==
    /\ pc[t] = "enter"
    /\ AtHead(t, pc, nTotal + 1, nIdle, nTodo, fAllOk)
    /\ nTodo' = nTodo
    /\ UNCHANGED added

\* The worker that finishes last does not tell the master.
NotifyMasterNever(t, todo) == pc

\* The worker that finishes the last check wakes the master, if it waits.
NotifyMaster(t, todo) ==
    IF todo = 0 /\ t # Master /\ pc[Master] = "wait"
      THEN [pc EXCEPT ![Master] = "woken"] ELSE pc

\* The thread's result replaces those of the others.
MergeResultOverwrite(t) == fOk[t]

\* fAllOk &= fOk.
MergeResult(t) == fAllOk /\ fOk[t]

\* The number of checks subtracted from nTodo.
Done(t) == Cardinality(batch[t])

\* The clean-up of the previous run of the loop, and its head.
Report(t) ==
    /\ pc[t] = "report"
    /\ LET todo == nTodo - Done(t)
       IN  /\ AtHead(t, NotifyMaster(t, todo), nTotal, nIdle, todo, MergeResult(t))
           /\ nTodo' = todo
    /\ UNCHANGED added

\* Back from wait with the lock held again.
Resume(t) ==
    /\ pc[t] = "woken"
    /\ AtHead(t, pc, nTotal, nIdle - 1, nTodo, fAllOk)
    /\ nTodo' = nTodo
    /\ UNCHANGED added

\* Run the checks of the batch, without the lock; after the first failure, and
\* if fAllOk was already false, the others are skipped.
Work(t) ==
    /\ pc[t] = "work"
    /\ fOk' = [fOk EXCEPT ![t] = @ /\ batch[t] \cap Failing = {}]
    /\ pc' = [pc EXCEPT ![t] = "report"]
    /\ UNCHANGED <<queue, nIdle, nTotal, nTodo, fAllOk, batch, added, result>>

\* A wait that returns without a notification.
SpuriousWakeup(t) ==
    /\ pc[t] = "wait"
    /\ pc' = [pc EXCEPT ![t] = "woken"]
    /\ UNCHANGED <<queue, nIdle, nTotal, nTodo, fAllOk, batch, fOk,
                   added, result>>

\* threadGroup.interrupt_all: wait throws in a worker, which leaves the loop
\* without the counters being touched.
Interrupt(w) ==
    /\ pc[w] \in {"wait", "woken"}
    /\ pc' = [pc EXCEPT ![w] = "gone"]
    /\ UNCHANGED <<queue, nIdle, nTotal, nTodo, fAllOk, batch, fOk,
                   added, result>>

Step(t) == Join(t) \/ Report(t) \/ Resume(t) \/ Work(t)

Next ==
    \/ Begin \/ Wait
    \/ \E S \in SUBSET Checks : Add(S)
    \/ \E t \in Threads : Step(t) \/ SpuriousWakeup(t)
    \/ \E w \in Workers : Interrupt(w)

Spec == Init /\ [][Next]_vars

\* The operating system runs every thread that is not blocked, and hands the
\* mutex to every thread that asks for it.
FairSpec == Spec /\ \A t \in Threads : WF_vars(Step(t))

-----------------------------------------------------------------------------
\* The places a thread can be in: outside the loop ("out", "add": the master
\* only), about to enter it, blocked in or waking up from wait, running its
\* batch, about to report it, or interrupted.
Places == {"out", "add", "enter", "wait", "woken", "work", "report", "gone"}

\* The types of the queue's members; checks only come from the control.
TypeOK ==
    /\ queue \subseteq Checks /\ added \subseteq Checks
    /\ nIdle \in Nat /\ nTotal \in Nat /\ nTodo \in Nat
    /\ fAllOk \in BOOLEAN /\ result \in BOOLEAN
    /\ pc \in [Threads -> Places]
    /\ batch \in [Threads -> SUBSET Checks]
    /\ fOk \in [Threads -> BOOLEAN]

\* The checks that are queued or in a batch, the threads that are counted as
\* idle, and those that are counted at all.
Pending(q, b) == {c \in Checks : c \in q \/ \E t \in Threads : c \in b[t]}
Idlers(p) == {t \in Threads : p[t] \in {"wait", "woken", "gone"}}
Inside(p) == {t \in Threads : p[t] \notin {"out", "add", "enter"}}

\* The comments on the members: nTodo is the number of checks that have not
\* completed, whether still queued or in a thread's batch, and nIdle the number
\* of threads that wait.  An interrupted worker stays counted for ever, in
\* nTotal as well.
CountersExact ==
    /\ nTodo = Cardinality(Pending(queue, batch))
    /\ nIdle = Cardinality(Idlers(pc))
    /\ nTotal = Cardinality(Inside(pc))

\* No check is run twice or by two threads: a check is in the queue or in one
\* batch, never in two places.
NoCheckTwice ==
    /\ \A t \in Threads : batch[t] \cap queue = {}
    /\ \A t, u \in Threads : t # u => batch[t] \cap batch[u] = {}

\* CCheckQueueControl asserts that the queue is idle when a block's checks
\* begin, although the workers of the previous block go to sleep on their own
\* and may have been interrupted.
ControlFindsQueueIdle == pc[Master] = "out" => IsIdle

\* Wait returns true exactly when every check that was added is true, although
\* checks are skipped after a failure and results are merged by threads that
\* run concurrently: a block with a bad script is never connected, and a good
\* block is never refused.
ResultExact == pc[Master] = "out" => result = (added \cap Failing = {})

\* Wait returns: the last notification is never lost, whatever part of the
\* workers is asleep, busy or gone.
WaitReturns == pc[Master] = "enter" ~> pc[Master] = "out"
=============================================================================
