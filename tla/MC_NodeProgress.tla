-------------------------- MODULE MC_NodeProgress --------------------------
(* What must happen in the end inside the node, each part on an instance of  *)
(* its own and with the fairness of its module: the check queue, the         *)
(* interest rate, the scheduler, the HTTP server, and mining.                *)
EXTENDS CheckQueue, Interest, Scheduler, HttpServer, Mining, TLC

VARIABLE part

\* Totals and lock times below, at, between and above the thresholds.
MCTotals == {0, 9, 10, 25, 131}
MCLockTimes == {0, 3, 64}
MCThresholds == <<1, 2, 4, 8, 16, 32, 64, 64>>

\* Only the rate has many initial states, and the other parts start from one of them.
ProgressInit ==
    /\ Init /\ RateInit /\ SchedulerInit /\ HttpInit /\ MiningInit
    /\ part \in {"queue", "rate", "scheduler", "http", "mining"}
    /\ part # "rate" => total = 0 /\ left = 0 /\ lock = 0

ProgressNext ==
    /\ UNCHANGED part
    /\ \/ /\ part = "queue" /\ Next
          /\ UNCHANGED <<rateVars, schedulerVars, httpVars, miningVars>>
       \/ /\ part = "rate" /\ RateNext
          /\ UNCHANGED <<vars, schedulerVars, httpVars, miningVars>>
       \/ /\ part = "scheduler" /\ SchedulerNext
          /\ UNCHANGED <<vars, rateVars, httpVars, miningVars>>
       \/ /\ part = "http" /\ HttpNext
          /\ UNCHANGED <<vars, rateVars, schedulerVars, miningVars>>
       \/ /\ part = "mining" /\ MiningNext
          /\ UNCHANGED <<vars, rateVars, schedulerVars, httpVars>>

progressVars == <<part, vars, rateVars, schedulerVars, httpVars, miningVars>>

\* The fairness of each module, in the behaviours of its part.
ProgressFairness ==
    /\ \A t \in Threads : WF_vars(part = "queue" /\ Step(t))
    /\ WF_rateVars(part = "rate" /\ RateNext)
    /\ WF_schedulerVars(part = "scheduler" /\ Pass)
    /\ \A s \in Servicers :
          /\ WF_schedulerVars(part = "scheduler" /\ (Enter(s) \/ Wake(s) \/ Run(s)))
          /\ SF_schedulerVars(part = "scheduler" /\ Timeout(s))
    /\ WF_httpVars(part = "http" /\ MainStep)
    /\ WF_httpVars(part = "http" /\ Enqueue)
    /\ \A w \in HttpWorkers : WF_httpVars(part = "http" /\ WorkerStep(w))
    /\ WF_miningVars(part = "mining" /\ DispatcherStep)
    /\ WF_miningVars(part = "mining" /\ (DagBegin \/ DagEnd))
    /\ \A n \in Miners : /\ WF_miningVars(part = "mining" /\ MinerStep(n))
                         /\ SF_miningVars(part = "mining" /\ Find(n))

ProgressSpec == ProgressInit /\ [][ProgressNext]_progressVars /\ ProgressFairness
=============================================================================
