----------------------------- MODULE HttpServer -----------------------------
(***************************************************************************)
(* The HTTP server (httpserver.cpp): the event thread puts requests into   *)
(* WorkQueue, worker threads run them, and at shutdown the main thread     *)
(* interrupts the queue, waits for the workers and deletes it.             *)
(*                                                                         *)
(* An action is a critical section of the queue's mutex, or a step of one  *)
(* thread between two of them.  How a request is handled is not modelled:  *)
(* its handler takes some time and answers.                                *)
(***************************************************************************)
EXTENDS Integers, Sequences, FiniteSets

CONSTANTS
    HttpWorkers,  \* the worker threads
    Requests,     \* the requests that arrive for a registered handler
    MaxDepth,     \* -rpcworkqueue
    CalmStop      \* the server is stopped only once its workers run and while
                  \* the event thread is not inside http_request_cb

ASSUME HttpAssumption ==
    /\ IsFiniteSet(HttpWorkers) /\ MaxDepth \in Nat \ {0} /\ CalmStop \in BOOLEAN

VARIABLES
    running,     \* of the queue
    httpQueue,   \* queue
    numThreads,
    workers,     \* where each worker is, and the request it has
    callback,    \* the requests inside http_request_cb: at most one
    rejecting,   \* the callback is http_reject_request_cb
    reply,       \* the answers to each request
    main         \* how far the main thread is with shutting down

httpVars == <<running, httpQueue, numThreads, workers, callback, rejecting, reply, main>>

HttpInit ==
    /\ running = TRUE /\ httpQueue = <<>> /\ numThreads = 0
    /\ workers = [w \in HttpWorkers |-> [pc |-> "created", has |-> {}]]
    /\ callback = {} /\ rejecting = FALSE
    /\ reply = [r \in Requests |-> <<>>]
    /\ main = "serving"

At(pcs) == {w \in HttpWorkers : workers[w].pc \in pcs}
Sleepers == At({"wait"})
AllWoken == [w \in HttpWorkers |->
                IF w \in Sleepers THEN [workers[w] EXCEPT !.pc = "woken"] ELSE workers[w]]

WriteReply(r, status) == [reply EXCEPT ![r] = Append(@, status)]

-----------------------------------------------------------------------------
(* The event thread.                                                       *)

\* libevent calls the callback that is set.
Arrive(r) ==
    /\ callback = {} /\ reply[r] = <<>> /\ main # "stopped"
    /\ \A w \in HttpWorkers : r \notin workers[w].has
    /\ \A i \in DOMAIN httpQueue : httpQueue[i] # r
    /\ IF rejecting THEN reply' = WriteReply(r, "unavailable") /\ UNCHANGED callback
                    ELSE callback' = {r} /\ UNCHANGED reply
    /\ UNCHANGED <<running, httpQueue, numThreads, workers, rejecting, main>>

\* WorkQueue::Enqueue refuses an item.
Full == Len(httpQueue) >= MaxDepth

\* WorkQueue::Enqueue, and the answer to a request that it refuses.
Enqueue ==
    /\ \E r \in callback :
        \/ /\ Full
           /\ reply' = WriteReply(r, "depth exceeded")
           /\ UNCHANGED <<httpQueue, workers>>
        \/ /\ ~ Full
           /\ httpQueue' = Append(httpQueue, r)
           /\ \/ Sleepers = {} /\ UNCHANGED workers
              \/ \E w \in Sleepers : workers' = [workers EXCEPT ![w].pc = "woken"]
           /\ UNCHANGED reply
    /\ callback' = {}
    /\ UNCHANGED <<running, numThreads, rejecting, main>>

-----------------------------------------------------------------------------
(* WorkQueue::Run.                                                         *)

\* The lock is held: leave, wait, or take the first item.
AtTop(w) ==
    \/ ~ running /\ workers' = [workers EXCEPT ![w] = [pc |-> "leaving", has |-> {}]]
       /\ UNCHANGED httpQueue
    \/ running /\ httpQueue = <<>>
       /\ workers' = [workers EXCEPT ![w] = [pc |-> "wait", has |-> {}]]
       /\ UNCHANGED httpQueue
    \/ running /\ httpQueue # <<>>
       /\ workers' = [workers EXCEPT ![w] = [pc |-> "busy", has |-> {Head(httpQueue)}]]
       /\ httpQueue' = Tail(httpQueue)

\* The constructor of ThreadCounter.
CountIn(w) ==
    /\ workers[w].pc = "created"
    /\ numThreads' = numThreads + 1
    /\ workers' = [workers EXCEPT ![w].pc = "woken"]
    /\ UNCHANGED <<running, httpQueue, callback, rejecting, reply, main>>

Proceed(w) ==
    /\ workers[w].pc = "woken"
    /\ AtTop(w)
    /\ UNCHANGED <<running, numThreads, callback, rejecting, reply, main>>

\* The handler answers.
Handle(w) ==
    /\ workers[w].pc = "busy"
    /\ \E r \in workers[w].has : reply' = WriteReply(r, "answered")
    /\ workers' = [workers EXCEPT ![w] = [pc |-> "woken", has |-> {}]]
    /\ UNCHANGED <<running, httpQueue, numThreads, callback, rejecting, main>>

\* The worker leaves and the main thread, which waits for it, is not woken.
CountedOutQuietly(w) == main

\* notify_all in the destructor of ThreadCounter, as the main thread sees it.
CountedOut(w) == IF main = "waiting" THEN "woken" ELSE main

CountOut(w) ==
    /\ workers[w].pc = "leaving"
    /\ numThreads' = numThreads - 1
    /\ workers' = [AllWoken EXCEPT ![w].pc = "gone"]
    /\ main' = CountedOut(w)
    /\ UNCHANGED <<running, httpQueue, callback, rejecting, reply>>

-----------------------------------------------------------------------------
(* The main thread: Interrupt, then Shutdown.                              *)

\* InterruptHTTPServer: the callback is replaced.
Unlisten ==
    /\ main = "serving"
    /\ CalmStop => At({"created"}) = {}
    /\ rejecting' = TRUE /\ main' = "unlistened"
    /\ UNCHANGED <<running, httpQueue, numThreads, workers, callback, reply>>

\* WorkQueue::Interrupt.
InterruptQueue ==
    /\ main = "unlistened"
    /\ running' = FALSE /\ workers' = AllWoken /\ main' = "interrupted"
    /\ UNCHANGED <<httpQueue, numThreads, callback, rejecting, reply>>

\* WorkQueue::WaitExit.
WaitExit ==
    /\ main \in {"interrupted", "woken"}
    /\ \/ numThreads > 0 /\ main' = "waiting"
       \/ numThreads = 0 /\ (CalmStop => callback = {}) /\ main' = "exited"
    /\ UNCHANGED <<running, httpQueue, numThreads, workers, callback, rejecting, reply>>

\* The destructor of an HTTPRequest that was not answered answers it.
LeftOver ==
    [r \in Requests |-> IF \E i \in DOMAIN httpQueue : httpQueue[i] = r
                          THEN Append(reply[r], "unhandled") ELSE reply[r]]

\* delete workQueue.
DeleteQueue ==
    /\ main = "exited"
    /\ reply' = LeftOver /\ httpQueue' = <<>> /\ main' = "deleted"
    /\ UNCHANGED <<running, numThreads, workers, callback, rejecting>>

\* The event loop ends, by itself or by event_base_loopbreak, and is joined.
JoinEventThread ==
    /\ main = "deleted" /\ callback = {}
    /\ main' = "stopped"
    /\ UNCHANGED <<running, httpQueue, numThreads, workers, callback, rejecting, reply>>

-----------------------------------------------------------------------------
WorkerStep(w) == CountIn(w) \/ Proceed(w) \/ Handle(w) \/ CountOut(w)
MainStep == InterruptQueue \/ WaitExit \/ DeleteQueue \/ JoinEventThread

HttpNext ==
    \/ Enqueue \/ Unlisten \/ MainStep
    \/ \E r \in Requests : Arrive(r)
    \/ \E w \in HttpWorkers : WorkerStep(w)

HttpSpec == HttpInit /\ [][HttpNext]_httpVars

\* Every thread that is not blocked runs, and every handler returns.
HttpFairness ==
    /\ WF_httpVars(MainStep) /\ WF_httpVars(Enqueue)
    /\ \A w \in HttpWorkers : WF_httpVars(WorkerStep(w))

-----------------------------------------------------------------------------
\* A server that is stopped comes to a stop: the main thread is woken by the last
\* worker, whatever the others and the event thread are doing.
StopReturns == main = "unlistened" ~> main = "stopped"

\* Every request that the server has taken is answered: by a worker, or since
\* the queue was full, or when the queue is deleted with the request in it.
RequestsAnswered == \A r \in Requests : r \in callback ~> reply[r] # <<>>

\* Both hold while requests arrive and the server is stopped in any order: no
\* client and no shutdown is left hanging.
ServerServesAndStops == RequestsAnswered /\ StopReturns
=============================================================================
