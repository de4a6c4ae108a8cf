-------------------------- MODULE CheckQueueProofs --------------------------
(***************************************************************************)
(* The check queue is right for any number of workers, checks and blocks:  *)
(* its counters are exact, no check is in two hands, every control finds   *)
(* the queue idle and Wait returns the conjunction of the checks.          *)
(***************************************************************************)
EXTENDS CheckQueue, FiniteSetTheorems, TLAPS

\* Who holds what: a batch is in the hands of the threads that run or report
\* it, workers do not leave the loop by returning, and everything unfinished
\* was added under the current control.
Holding ==
    /\ queue \subseteq added
    /\ \A t \in Threads :
        /\ batch[t] \subseteq added
        /\ batch[t] # {} <=> pc[t] \in {"work", "report"}
        /\ t # Master => pc[t] \notin {"out", "add"}
    /\ pc[Master] # "gone"

\* What the verdicts say of the checks: as long as fAllOk holds, every failing
\* check is unfinished; a negative verdict has a failing check behind it; and
\* after Wait nothing is left but the result.
Verdicts ==
    /\ fAllOk /\ pc[Master] # "out" => added \cap Failing \subseteq Pending(queue, batch)
    /\ ~ fAllOk => added \cap Failing # {}
    /\ \A t \in Threads :
        /\ pc[t] \in {"work", "report"} /\ ~ fOk[t] => added \cap Failing # {}
        /\ pc[t] = "report" /\ fOk[t] => batch[t] \cap Failing = {}
    /\ pc[Master] = "out" =>
        /\ fAllOk
        /\ queue = {}
        /\ \A t \in Threads : batch[t] = {}
        /\ result = (added \cap Failing = {})

QueueInvariant == TypeOK /\ CountersExact /\ NoCheckTwice /\ Holding /\ Verdicts

\* Thread t holds the lock at the head of the loop; p, total, idle, todo and
\* allOk are the values that the critical section has computed so far: t is
\* counted among the threads, not among the idle ones, and its batch is done.
Ready(t, p, total, idle, todo, allOk) ==
    LET b == [batch EXCEPT ![t] = {}]
    IN  /\ p \in [Threads -> Places]
        /\ allOk \in BOOLEAN
        /\ total = Cardinality(Inside(p) \cup {t})
        /\ idle = Cardinality(Idlers(p) \ {t})
        /\ todo = Cardinality(Pending(queue, b))
        /\ p[t] # "out"
        /\ p[Master] # "gone"
        /\ \A u \in Threads \ {t} :
            /\ batch[u] # {} <=> p[u] \in {"work", "report"}
            /\ u # Master => p[u] \notin {"out", "add"}
            /\ p[u] \in {"work", "report"} /\ ~ fOk[u] => added \cap Failing # {}
            /\ p[u] = "report" /\ fOk[u] => batch[u] \cap Failing = {}
        /\ allOk /\ p[Master] # "out" => added \cap Failing \subseteq Pending(queue, b)
        /\ ~ allOk => added \cap Failing # {}
        /\ p[Master] = "out" =>
            /\ allOk
            /\ queue = {}
            /\ \A u \in Threads : batch[u] = {}
            /\ result = (added \cap Failing = {})

-----------------------------------------------------------------------------
(* Finite sets.                                                            *)

\* The cardinality of a disjoint union.
LEMMA DisjointUnion ==
    ASSUME NEW A, NEW B, IsFiniteSet(A), IsFiniteSet(B), A \cap B = {}
    PROVE  Cardinality(A \cup B) = Cardinality(A) + Cardinality(B)
  <1>1. Cardinality(A \cup B) = Cardinality(A) + Cardinality(B) - Cardinality(A \cap B)
    BY FS_Union
  <1>2. Cardinality(A) \in Nat /\ Cardinality(B) \in Nat
    BY FS_CardinalityType
  <1> QED BY <1>1, <1>2, FS_EmptySet

\* There are finitely many threads, and so there are of any kind of them; the
\* same holds of checks.
LEMMA Finite ==
    /\ IsFiniteSet(Threads) /\ Master \in Threads
    /\ \A S \in SUBSET Threads : IsFiniteSet(S) /\ Cardinality(S) \in Nat
    /\ \A S \in SUBSET Checks : IsFiniteSet(S) /\ Cardinality(S) \in Nat
  <1>1. IsFiniteSet(Threads)
    BY QueueAssumption, FS_AddElement DEF Threads
  <1> QED BY <1>1, QueueAssumption, FS_Subset, FS_CardinalityType DEF Threads

\* A batch has at least one check, whatever the counters are (Loop: "Don't do
\* batches smaller than 1").
LEMMA BatchPositive ==
    ASSUME queue \in SUBSET Checks, NEW total \in Nat, NEW idle \in Nat
    PROVE  BatchNow(total, idle) \in Nat \ {0}
  <1> DEFINE n == Cardinality(queue)
             d == total + idle + 1
  <1>1. n \in Nat BY Finite
  <1>2. d \in Nat \ {0} OBVIOUS
  <1> HIDE DEF n, d
  <1>3. n \div d \in Int BY <1>1, <1>2
  <1>4. BatchSize \in Nat \ {0} BY QueueAssumption
  <1> QED BY <1>3, <1>4 DEF BatchNow, n, d

-----------------------------------------------------------------------------
(* The head of the loop.                                                   *)

\* Whatever brought the thread to the head of the loop, what it does there
\* (Loop: return, wait, or take a batch) keeps the invariant.
LEMMA HeadKeeps ==
    ASSUME QueueInvariant, NEW t \in Threads, NEW STATE p, NEW STATE total,
           NEW STATE idle, NEW STATE todo, NEW STATE allOk,
           Ready(t, p, total, idle, todo, allOk), AtHead(t, p, total, idle, todo, allOk),
           nTodo' = todo, added' = added
    PROVE  QueueInvariant'
  <1> DEFINE b == [batch EXCEPT ![t] = {}]
             P == Pending(queue, b)
  <1>1. /\ Inside(p) \cup {t} \in SUBSET Threads
        /\ Idlers(p) \ {t} \in SUBSET Threads
        /\ P \in SUBSET Checks
    BY DEF Inside, Idlers, Pending
  <1>2. total \in Nat /\ idle \in Nat /\ todo \in Nat
    BY <1>1, Finite DEF Ready
  <1>3. b \in [Threads -> SUBSET Checks]
    BY DEF QueueInvariant, TypeOK
  <1>4. p \in [Threads -> Places] /\ Inside(p) \in SUBSET Threads
        /\ Idlers(p) \in SUBSET Threads
    BY DEF Ready, Inside, Idlers
  <1>a. CASE queue = {} /\ t = Master /\ todo = 0
    <2>1. /\ nTotal' = total - 1 /\ result' = allOk /\ fAllOk' = TRUE
          /\ pc' = [p EXCEPT ![t] = "out"] /\ batch' = b /\ nIdle' = idle
          /\ queue' = queue /\ fOk' = fOk
      BY <1>a DEF AtHead, StatusForNewWork
    <2>2. P = {}
      BY <1>a, <1>1, Finite, FS_EmptySet DEF Ready
    <2>3. \A u \in Threads : b[u] = {}
      BY <2>2, <1>3 DEF Pending
    <2>4. Inside(pc') = (Inside(p) \cup {t}) \ {t} /\ Idlers(pc') = Idlers(p) \ {t}
      BY <2>1, <1>4 DEF Inside, Idlers
    <2>5. Cardinality((Inside(p) \cup {t}) \ {t}) = total - 1
      BY <1>1, Finite, FS_RemoveElement DEF Ready
    <2>6. (Inside(p) \cup {t}) \ {t} \in SUBSET Threads
      BY <1>1
    <2>7. CountersExact'
      BY <2>1, <2>4, <2>5 DEF CountersExact, Ready
    <2>8. nTotal' \in Nat
      BY <2>1, <2>5, <2>6, Finite
    <2>9. TypeOK'
      BY <2>1, <2>8, <1>2, <1>3, <1>4 DEF QueueInvariant, TypeOK, Ready, Places
    <2>10. NoCheckTwice'
      BY <2>1, <2>3 DEF NoCheckTwice
    <2>11. Holding'
      BY <2>1, <2>3, <1>a, <1>3, <1>4 DEF Holding, QueueInvariant, Ready
    <2>12. allOk = (added \cap Failing = {})
      BY <1>a, <2>2 DEF Ready
    <2>13. Verdicts'
      BY <2>1, <2>3, <2>12, <1>a, <1>4 DEF Verdicts, Ready
    <2> QED BY <2>7, <2>9, <2>10, <2>11, <2>13 DEF QueueInvariant
  <1>b. CASE queue = {} /\ ~ (t = Master /\ todo = 0)
    <2>1. /\ nTotal' = total /\ result' = result /\ fAllOk' = allOk
          /\ pc' = [p EXCEPT ![t] = "wait"] /\ batch' = b /\ nIdle' = idle + 1
          /\ queue' = queue /\ fOk' = fOk
      BY <1>b DEF AtHead
    <2>2. Inside(pc') = Inside(p) \cup {t} /\ Idlers(pc') = (Idlers(p) \ {t}) \cup {t}
      BY <2>1, <1>4 DEF Inside, Idlers
    <2>3. Cardinality((Idlers(p) \ {t}) \cup {t}) = idle + 1
      BY <1>1, Finite, FS_AddElement DEF Ready
    <2>4. TypeOK'
      BY <2>1, <1>2, <1>3, <1>4 DEF QueueInvariant, TypeOK, Ready, Places
    <2>5. CountersExact'
      BY <2>1, <2>2, <2>3 DEF CountersExact, Ready
    <2>6. NoCheckTwice'
      BY <2>1, <1>3 DEF NoCheckTwice, QueueInvariant, TypeOK
    <2>7. Holding'
      BY <2>1, <1>3, <1>4 DEF Holding, QueueInvariant, Ready, TypeOK
    <2>8. Verdicts'
      <3>1. Pending(queue', batch') = P
        BY <2>1
      <3>2. ASSUME fAllOk', pc'[Master] # "out"
            PROVE  added \cap Failing \subseteq P
        <4>1. p[Master] # "out"
          BY <3>2, <2>1, <1>4, Finite DEF Ready
        <4> QED BY <4>1, <3>2, <2>1 DEF Ready
      <3>3. ~ fAllOk' => added \cap Failing # {}
        BY <2>1 DEF Ready
      <3>4. ASSUME NEW u \in Threads
            PROVE  /\ pc'[u] \in {"work", "report"} /\ ~ fOk'[u] => added \cap Failing # {}
                   /\ pc'[u] = "report" /\ fOk'[u] => batch'[u] \cap Failing = {}
        BY <2>1, <1>4 DEF Ready, QueueInvariant, TypeOK
      <3>5. ASSUME pc'[Master] = "out"
            PROVE  /\ fAllOk' /\ queue' = {}
                   /\ \A u \in Threads : batch'[u] = {}
                   /\ result' = (added \cap Failing = {})
        <4>1. p[Master] = "out"
          BY <3>5, <2>1, <1>4, Finite
        <4> QED BY <4>1, <2>1, <1>3 DEF Ready, QueueInvariant, TypeOK
      <3> QED BY <3>1, <3>2, <3>3, <3>4, <3>5 DEF Verdicts
    <2> QED BY <2>4, <2>5, <2>6, <2>7, <2>8 DEF QueueInvariant
  <1>c. CASE queue # {}
    <2>1. /\ nTotal' = total /\ result' = result /\ fAllOk' = allOk
          /\ pc' = [p EXCEPT ![t] = "work"] /\ nIdle' = idle
          /\ fOk' = [fOk EXCEPT ![t] = allOk]
      BY <1>c DEF AtHead
    <2>2. PICK S \in SUBSET queue :
              /\ Cardinality(S) = BatchNow(total, idle)
              /\ batch' = [batch EXCEPT ![t] = S]
              /\ queue' = queue \ S
      BY <1>c DEF AtHead, Remaining
    <2>3. S # {}
      BY <2>2, <1>2, BatchPositive, FS_EmptySet DEF QueueInvariant, TypeOK
    <2>4. Inside(pc') = Inside(p) \cup {t} /\ Idlers(pc') = Idlers(p) \ {t}
      BY <2>1, <1>4 DEF Inside, Idlers
    <2>5. Pending(queue', batch') = P
      BY <2>2 DEF Pending, QueueInvariant, TypeOK
    <2>6. TypeOK'
      BY <2>1, <2>2, <1>2, <1>4 DEF QueueInvariant, TypeOK, Ready, Places
    <2>7. CountersExact'
      BY <2>1, <2>4, <2>5 DEF CountersExact, Ready
    <2>8. NoCheckTwice'
      BY <2>2 DEF NoCheckTwice, QueueInvariant, TypeOK
    <2>9. Holding'
      BY <2>1, <2>2, <2>3, <1>4 DEF Holding, QueueInvariant, Ready, TypeOK
    <2>10. Verdicts'
      BY <2>1, <2>2, <2>5, <1>c, <1>4 DEF Verdicts, Ready, QueueInvariant, TypeOK
    <2> QED BY <2>6, <2>7, <2>8, <2>9, <2>10 DEF QueueInvariant
  <1> QED BY <1>a, <1>b, <1>c

-----------------------------------------------------------------------------
(* The three ways to the head of the loop.                                 *)

\* Threads that are notified, wake up or are interrupted in wait stay counted
\* as they were: the counters change only when a thread has the lock again.
LEMMA SameSleepers ==
    ASSUME NEW p, NEW q,
           \A u \in Threads : q[u] = p[u] \/ {p[u], q[u]} \subseteq {"wait", "woken", "gone"}
    PROVE  Idlers(q) = Idlers(p) /\ Inside(q) = Inside(p)
  BY DEF Idlers, Inside

\* A thread that enters the loop counts itself in (Loop: "nTotal++").
LEMMA JoinKeeps ==
    ASSUME QueueInvariant, NEW t \in Threads, Join(t)
    PROVE  QueueInvariant'
  <1>1. pc[t] = "enter" /\ pc \in [Threads -> Places] /\ batch[t] = {}
    BY DEF Join, QueueInvariant, TypeOK, Holding
  <1>2. [batch EXCEPT ![t] = {}] = batch
    BY <1>1 DEF QueueInvariant, TypeOK
  <1>3. /\ Inside(pc) \in SUBSET Threads /\ t \notin Inside(pc)
        /\ Idlers(pc) \ {t} = Idlers(pc)
    BY <1>1 DEF Inside, Idlers
  <1>4. Cardinality(Inside(pc) \cup {t}) = nTotal + 1
    BY <1>3, Finite, FS_AddElement DEF QueueInvariant, CountersExact
  <1>5. Ready(t, pc, nTotal + 1, nIdle, nTodo, fAllOk)
    BY <1>1, <1>2, <1>3, <1>4
       DEF Ready, QueueInvariant, TypeOK, CountersExact, Holding, Verdicts
  <1> QED BY <1>5, HeadKeeps DEF Join

\* A thread back from wait is not idle any more (Loop: "nIdle--").
LEMMA ResumeKeeps ==
    ASSUME QueueInvariant, NEW t \in Threads, Resume(t)
    PROVE  QueueInvariant'
  <1>1. pc[t] = "woken" /\ pc \in [Threads -> Places] /\ batch[t] = {}
    BY DEF Resume, QueueInvariant, TypeOK, Holding
  <1>2. [batch EXCEPT ![t] = {}] = batch
    BY <1>1 DEF QueueInvariant, TypeOK
  <1>3. /\ Inside(pc) \cup {t} = Inside(pc)
        /\ Idlers(pc) \in SUBSET Threads /\ t \in Idlers(pc)
    BY <1>1 DEF Inside, Idlers
  <1>4. Cardinality(Idlers(pc) \ {t}) = nIdle - 1
    BY <1>3, Finite, FS_RemoveElement DEF QueueInvariant, CountersExact
  <1>5. Ready(t, pc, nTotal, nIdle - 1, nTodo, fAllOk)
    BY <1>1, <1>2, <1>3, <1>4
       DEF Ready, QueueInvariant, TypeOK, CountersExact, Holding, Verdicts
  <1> QED BY <1>5, HeadKeeps DEF Resume

\* A thread that reports its batch subtracts exactly what it took, and merges a
\* result that is right about it (Loop: "fAllOk &= fOk; nTodo -= nNow").
LEMMA ReportKeeps ==
    ASSUME QueueInvariant, NEW t \in Threads, Report(t)
    PROVE  QueueInvariant'
  <1> DEFINE b == [batch EXCEPT ![t] = {}]
             P == Pending(queue, b)
             todo == nTodo - Done(t)
             p == NotifyMaster(t, todo)
             allOk == MergeResult(t)
  <1>1. pc[t] = "report" /\ pc \in [Threads -> Places]
    BY DEF Report, QueueInvariant, TypeOK
  <1>2. P \in SUBSET Checks /\ batch[t] \in SUBSET Checks
    BY DEF Pending, QueueInvariant, TypeOK
  <1>3. Pending(queue, batch) = P \cup batch[t] /\ P \cap batch[t] = {}
    BY DEF Pending, QueueInvariant, TypeOK, NoCheckTwice
  <1>4. todo = Cardinality(P)
    <2>1. nTodo = Cardinality(P) + Cardinality(batch[t])
      BY <1>2, <1>3, Finite, DisjointUnion DEF QueueInvariant, CountersExact
    <2>2. Cardinality(P) \in Nat /\ Cardinality(batch[t]) \in Nat
      BY <1>2, Finite
    <2> HIDE DEF P
    <2> QED BY <2>1, <2>2 DEF Done
  <1>5. /\ p \in [Threads -> Places]
        /\ \A u \in Threads : p[u] = pc[u] \/ (pc[u] = "wait" /\ p[u] = "woken")
    BY <1>1, Finite DEF NotifyMaster, Places
  <1>6. Idlers(p) = Idlers(pc) /\ Inside(p) = Inside(pc)
    BY <1>5, SameSleepers
  <1>7. Inside(p) \cup {t} = Inside(pc) /\ Idlers(p) \ {t} = Idlers(pc)
    BY <1>1, <1>6 DEF Inside, Idlers
  <1>8. p[t] = "report" /\ pc[Master] # "out" /\ p[Master] \notin {"out", "gone"}
    BY <1>1, <1>5, Finite DEF QueueInvariant, Holding, Verdicts
  <1>9. allOk \in BOOLEAN /\ (~ allOk => added \cap Failing # {})
    BY <1>1 DEF MergeResult, QueueInvariant, TypeOK, Verdicts
  <1>10. allOk => added \cap Failing \subseteq P
    BY <1>1, <1>3, <1>8 DEF MergeResult, QueueInvariant, TypeOK, Verdicts
  <1>11. ASSUME NEW u \in Threads \ {t}
         PROVE  /\ batch[u] # {} <=> p[u] \in {"work", "report"}
                /\ u # Master => p[u] \notin {"out", "add"}
                /\ p[u] \in {"work", "report"} /\ ~ fOk[u] => added \cap Failing # {}
                /\ p[u] = "report" /\ fOk[u] => batch[u] \cap Failing = {}
    BY <1>5 DEF QueueInvariant, Holding, Verdicts
  <1> HIDE DEF p, todo, allOk
  <1>12. Ready(t, p, nTotal, nIdle, todo, allOk)
    BY <1>4, <1>5, <1>7, <1>8, <1>9, <1>10, <1>11 DEF Ready, QueueInvariant, CountersExact
  <1>13. /\ AtHead(t, p, nTotal, nIdle, todo, allOk)
         /\ nTodo' = todo /\ added' = added
    BY DEF Report, p, todo, allOk
  <1> QED BY <1>12, <1>13, HeadKeeps

-----------------------------------------------------------------------------
(* The control and the threads outside the head of the loop.               *)

\* The constructor of the control starts a new set of checks.
LEMMA BeginKeeps ==
    ASSUME QueueInvariant, Begin
    PROVE  QueueInvariant'
  <1>1. pc[Master] = "out" /\ queue = {} /\ \A t \in Threads : batch[t] = {}
    BY DEF Begin, QueueInvariant, Verdicts
  <1>2. /\ pc' \in [Threads -> Places] /\ pc'[Master] = "add"
        /\ \A t \in Threads : t # Master => pc'[t] = pc[t]
    BY Finite DEF Begin, QueueInvariant, TypeOK, Places
  <1>3. Inside(pc') = Inside(pc) /\ Idlers(pc') = Idlers(pc)
    BY <1>1, <1>2 DEF Inside, Idlers
  <1>4. TypeOK' /\ CountersExact' /\ NoCheckTwice'
    BY <1>2, <1>3 DEF Begin, QueueInvariant, TypeOK, CountersExact, NoCheckTwice
  <1>5. Holding'
    BY <1>1, <1>2 DEF Begin, QueueInvariant, Holding
  <1>6. Verdicts'
    BY <1>1, <1>2 DEF Begin, QueueInvariant, Verdicts, Holding
  <1> QED BY <1>4, <1>5, <1>6 DEF QueueInvariant

\* Add counts the checks that it queues, whoever it wakes up.
LEMMA AddKeeps ==
    ASSUME QueueInvariant, NEW S \in SUBSET Checks, Add(S)
    PROVE  QueueInvariant'
  <1>1. /\ pc' \in [Threads -> Places] /\ pc'[Master] = "add" /\ pc[Master] = "add"
        /\ \A u \in Threads : pc'[u] = pc[u] \/ (pc[u] = "wait" /\ pc'[u] = "woken")
    BY Finite, QueueAssumption DEF Add, Woken, Waiting, QueueInvariant, TypeOK, Places
  <1>2. Idlers(pc') = Idlers(pc) /\ Inside(pc') = Inside(pc)
    BY <1>1, SameSleepers
  <1>3. /\ Pending(queue', batch') = Pending(queue, batch) \cup S
        /\ Pending(queue, batch) \cap S = {}
        /\ Pending(queue, batch) \in SUBSET Checks
    BY DEF Add, Pending, QueueInvariant, Holding
  <1>4. nTodo' = Cardinality(Pending(queue', batch'))
    BY <1>3, Finite, DisjointUnion DEF Add, QueueInvariant, CountersExact
  <1>5. nTodo' \in Nat
    BY Finite DEF Add, QueueInvariant, TypeOK
  <1>6. TypeOK' /\ CountersExact'
    BY <1>1, <1>2, <1>4, <1>5 DEF Add, QueueInvariant, TypeOK, CountersExact
  <1>7. NoCheckTwice'
    BY DEF Add, QueueInvariant, NoCheckTwice, Holding
  <1>8. Holding'
    BY <1>1 DEF Add, QueueInvariant, Holding
  <1>9. Verdicts'
    BY <1>1, <1>3 DEF Add, QueueInvariant, Verdicts
  <1> QED BY <1>6, <1>7, <1>8, <1>9 DEF QueueInvariant

\* The master goes from adding checks to working on them.
LEMMA WaitKeeps ==
    ASSUME QueueInvariant, Wait
    PROVE  QueueInvariant'
  <1>1. /\ pc' \in [Threads -> Places] /\ pc'[Master] = "enter" /\ pc[Master] = "add"
        /\ \A t \in Threads : t # Master => pc'[t] = pc[t]
    BY Finite DEF Wait, QueueInvariant, TypeOK, Places
  <1>2. Inside(pc') = Inside(pc) /\ Idlers(pc') = Idlers(pc)
    BY <1>1 DEF Inside, Idlers
  <1>3. TypeOK' /\ CountersExact' /\ NoCheckTwice'
    BY <1>1, <1>2 DEF Wait, QueueInvariant, TypeOK, CountersExact, NoCheckTwice
  <1>4. Holding' /\ Verdicts'
    BY <1>1 DEF Wait, QueueInvariant, Holding, Verdicts
  <1> QED BY <1>3, <1>4 DEF QueueInvariant

\* Running a batch without the lock changes nothing the others see.
LEMMA WorkKeeps ==
    ASSUME QueueInvariant, NEW t \in Threads, Work(t)
    PROVE  QueueInvariant'
  <1>1. /\ pc' \in [Threads -> Places] /\ pc'[t] = "report" /\ pc[t] = "work"
        /\ \A u \in Threads : u # t => pc'[u] = pc[u] /\ fOk'[u] = fOk[u]
        /\ fOk' \in [Threads -> BOOLEAN]
        /\ fOk'[t] = (fOk[t] /\ batch[t] \cap Failing = {})
    BY DEF Work, QueueInvariant, TypeOK, Places
  <1>2. Inside(pc') = Inside(pc) /\ Idlers(pc') = Idlers(pc)
    BY <1>1 DEF Inside, Idlers
  <1>3. TypeOK' /\ CountersExact' /\ NoCheckTwice'
    BY <1>1, <1>2 DEF Work, QueueInvariant, TypeOK, CountersExact, NoCheckTwice
  <1>4. Holding'
    BY <1>1, Finite DEF Work, QueueInvariant, Holding
  <1>5. Verdicts'
    BY <1>1, Finite DEF Work, QueueInvariant, Verdicts, Holding
  <1> QED BY <1>3, <1>4, <1>5 DEF QueueInvariant

\* A thread that leaves wait without a notification, or is interrupted there.
LEMMA LeaveWaitKeeps ==
    ASSUME QueueInvariant, NEW t \in Threads,
           SpuriousWakeup(t) \/ (t \in Workers /\ Interrupt(t))
    PROVE  QueueInvariant'
  <1>1. /\ pc' \in [Threads -> Places]
        /\ pc[t] \in {"wait", "woken"} /\ pc'[t] \in {"woken", "gone"}
        /\ t = Master => pc'[t] # "gone"
        /\ \A u \in Threads : u # t => pc'[u] = pc[u]
    BY QueueAssumption DEF SpuriousWakeup, Interrupt, QueueInvariant, TypeOK, Places
  <1>2. Inside(pc') = Inside(pc) /\ Idlers(pc') = Idlers(pc)
    BY <1>1, SameSleepers
  <1>3. UNCHANGED <<queue, nIdle, nTotal, nTodo, fAllOk, batch, fOk, added, result>>
    BY DEF SpuriousWakeup, Interrupt
  <1>4. TypeOK' /\ CountersExact' /\ NoCheckTwice'
    BY <1>1, <1>2, <1>3 DEF QueueInvariant, TypeOK, CountersExact, NoCheckTwice
  <1>5. Holding'
    BY <1>1, <1>3, Finite DEF QueueInvariant, Holding
  <1>6. Verdicts'
    BY <1>1, <1>3, Finite DEF QueueInvariant, Verdicts
  <1> QED BY <1>4, <1>5, <1>6 DEF QueueInvariant

-----------------------------------------------------------------------------
(* The theorems.                                                           *)

\* Nothing is queued, counted or decided before the first control.
LEMMA QueueInit == Init => QueueInvariant
  <1> SUFFICES ASSUME Init PROVE QueueInvariant
    OBVIOUS
  <1>1. pc \in [Threads -> Places] /\ pc[Master] = "out"
        /\ \A t \in Threads : t # Master => pc[t] = "enter"
    BY Finite DEF Init, Places
  <1>2. Inside(pc) = {} /\ Idlers(pc) = {} /\ Pending(queue, batch) = {}
    BY <1>1 DEF Init, Inside, Idlers, Pending
  <1>3. TypeOK /\ NoCheckTwice
    BY <1>1 DEF Init, TypeOK, NoCheckTwice
  <1>4. CountersExact
    BY <1>2, FS_EmptySet DEF Init, CountersExact
  <1>5. Holding /\ Verdicts
    BY <1>1, Finite DEF Init, Holding, Verdicts
  <1> QED BY <1>3, <1>4, <1>5 DEF QueueInvariant

\* Every step of the control, of a thread or of the scheduler keeps the
\* invariant.
LEMMA QueueStep == QueueInvariant /\ [Next]_vars => QueueInvariant'
  <1> SUFFICES ASSUME QueueInvariant, [Next]_vars PROVE QueueInvariant'
    OBVIOUS
  <1>1. CASE Begin BY <1>1, BeginKeeps
  <1>2. CASE Wait BY <1>2, WaitKeeps
  <1>3. ASSUME NEW S \in SUBSET Checks, Add(S) PROVE QueueInvariant'
    BY <1>3, AddKeeps
  <1>4. ASSUME NEW t \in Threads, Join(t) PROVE QueueInvariant'
    BY <1>4, JoinKeeps
  <1>5. ASSUME NEW t \in Threads, Report(t) PROVE QueueInvariant'
    BY <1>5, ReportKeeps
  <1>6. ASSUME NEW t \in Threads, Resume(t) PROVE QueueInvariant'
    BY <1>6, ResumeKeeps
  <1>7. ASSUME NEW t \in Threads, Work(t) PROVE QueueInvariant'
    BY <1>7, WorkKeeps
  <1>8. ASSUME NEW t \in Threads, SpuriousWakeup(t) PROVE QueueInvariant'
    BY <1>8, LeaveWaitKeeps
  <1>9. ASSUME NEW w \in Workers, Interrupt(w) PROVE QueueInvariant'
    BY <1>9, LeaveWaitKeeps DEF Threads
  <1>10. CASE UNCHANGED vars
    BY <1>10 DEF vars, QueueInvariant, TypeOK, CountersExact, NoCheckTwice, Holding, Verdicts
  <1> QED BY <1>1, <1>2, <1>3, <1>4, <1>5, <1>6, <1>7, <1>8, <1>9, <1>10 DEF Next, Step

\* The inductive invariant holds in every reachable state.
THEOREM QueueCorrect == Spec => []QueueInvariant
  BY QueueInit, QueueStep, PTL DEF Spec

\* The members of the queue keep their types; in particular no counter of
\* checkqueue.h is ever negative.
THEOREM QueueTypeCorrect == Spec => []TypeOK
  <1>1. QueueInvariant => TypeOK BY DEF QueueInvariant
  <1> QED BY <1>1, QueueCorrect, PTL

\* nTodo, nIdle and nTotal count what their comments say, at every release of
\* the mutex.
THEOREM QueueCounters == Spec => []CountersExact
  <1>1. QueueInvariant => CountersExact BY DEF QueueInvariant
  <1> QED BY <1>1, QueueCorrect, PTL

\* No check is in two hands: a batch is taken out of the queue by one thread.
THEOREM QueueNoCheckTwice == Spec => []NoCheckTwice
  <1>1. QueueInvariant => NoCheckTwice BY DEF QueueInvariant
  <1> QED BY <1>1, QueueCorrect, PTL

\* Wait returns the conjunction of the checks that were added, with any number
\* of workers and any batch size.
THEOREM QueueResult == Spec => []ResultExact
  <1>1. QueueInvariant => ResultExact BY DEF QueueInvariant, Verdicts, ResultExact
  <1> QED BY <1>1, QueueCorrect, PTL

\* The assertion in CCheckQueueControl's constructor holds.  The threads inside
\* the loop are then exactly the idle ones: a thread that is neither waiting
\* nor gone would hold a batch, and there is none.
THEOREM QueueIdle == Spec => []ControlFindsQueueIdle
  <1>1. ASSUME QueueInvariant, pc[Master] = "out" PROVE IsIdle
    <2>1. queue = {} /\ fAllOk = TRUE /\ \A t \in Threads : batch[t] = {}
      BY <1>1 DEF QueueInvariant, Verdicts, TypeOK
    <2>2. nTodo = 0
      <3>1. Pending(queue, batch) = {} BY <2>1 DEF Pending
      <3> QED BY <3>1, <1>1, FS_EmptySet DEF QueueInvariant, CountersExact
    <2>3. Inside(pc) = Idlers(pc)
      BY <1>1, <2>1 DEF Inside, Idlers, QueueInvariant, Holding, TypeOK, Places
    <2> QED BY <2>1, <2>2, <2>3, <1>1 DEF IsIdle, QueueInvariant, CountersExact
  <1>2. QueueInvariant => ControlFindsQueueIdle
    BY <1>1 DEF ControlFindsQueueIdle
  <1> QED BY <1>2, QueueCorrect, PTL
=============================================================================
