----------------------------- MODULE WorkerPool -----------------------------
(***************************************************************************)
(* The worker pool of a multiplexed transfer: WorkerOrchestrator           *)
(* (proto/orchestrator.cpp), the ticker thread that scales it, and the     *)
(* main thread of MuxSender::run and MuxReceiver::run (proto/               *)
(* mux_transfer.cpp), from the start of the pool to the single-threaded    *)
(* tail.  What the tasks do is in Mux; here a task begins and ends.        *)
(* Utilisation and the stabilisation window are left open: a tick may      *)
(* scale out, scale in or do neither.  A critical section is one step.     *)
(***************************************************************************)
EXTENDS Integers, Sequences, Functions

CONSTANTS
    MinWorkers, MaxWorkers,
    MaxSpawns  \* worker threads ever started

ASSUME PoolAssumption ==
    /\ MinWorkers \in Nat
    /\ MaxSpawns \in Nat
    /\ MinWorkers <= MaxSpawns

VARIABLES
    pool,     \* workers_, oldest first
    spawned,  \* next_id_
    thread,   \* each worker thread: "none", "loop", "task" or "exited"
    drain,    \* workers whose drain flag is set
    running,  \* running_
    ticker,   \* "check", "tick", "join" or "exited"
    retired,  \* retired: {} or {the worker the ticker is joining}
    doomed,   \* doomed: the workers stop() joins
    stopTicker, \* stop_ticker
    main      \* "poll", "joinTicker", "stop", "joinWorkers" or "tail"

poolVars == <<pool, spawned, thread, drain, running, ticker, retired, doomed, stopTicker, main>>

Workers == 0 .. MaxSpawns - 1

(* orch.start(), and the ticker thread. *)
PoolInit ==
    /\ pool = [i \in 1 .. MinWorkers |-> i - 1]
    /\ spawned = MinWorkers
    /\ thread = [w \in Workers |-> IF w < MinWorkers THEN "loop" ELSE "none"]
    /\ drain = {} /\ running = TRUE
    /\ ticker = "check" /\ retired = {} /\ doomed = {} /\ stopTicker = FALSE
    /\ main = "poll"

-----------------------------------------------------------------------------
(* run_worker(). *)

WorkerLoop(w) ==
    /\ thread[w] = "loop"
    /\ thread' = [thread EXCEPT ![w] = IF w \in drain THEN "exited" ELSE "task"]
    /\ UNCHANGED <<pool, spawned, drain, running, ticker, retired, doomed, stopTicker, main>>

TaskEnds(w) ==
    /\ thread[w] = "task"
    /\ thread' = [thread EXCEPT ![w] = "loop"]
    /\ UNCHANGED <<pool, spawned, drain, running, ticker, retired, doomed, stopTicker, main>>

-----------------------------------------------------------------------------
(* The ticker thread. *)

TickerLoop ==
    /\ ticker = "check"
    /\ ticker' = IF stopTicker THEN "exited" ELSE "tick"
    /\ UNCHANGED <<pool, spawned, thread, drain, running, retired, doomed, stopTicker, main>>

(* tick() without a scaling action: not running, within the band, at a bound
   of the pool, or too soon after the last action. *)
TickIdle ==
    /\ ticker = "tick"
    /\ ticker' = "check"
    /\ UNCHANGED <<pool, spawned, thread, drain, running, retired, doomed, stopTicker, main>>

ScaleOut ==
    /\ ticker = "tick"
    /\ running /\ pool # <<>>
    /\ Len(pool) < MaxWorkers /\ spawned < MaxSpawns
    /\ pool' = Append(pool, spawned)
    /\ thread' = [thread EXCEPT ![spawned] = "loop"]
    /\ spawned' = spawned + 1
    /\ ticker' = "check"
    /\ UNCHANGED <<drain, running, retired, doomed, stopTicker, main>>

(* Wrong variant: the retired worker is not told. *)
ScaleInUntold ==
    /\ ticker = "tick"
    /\ running /\ pool # <<>>
    /\ Len(pool) > MinWorkers
    /\ retired' = {pool[Len(pool)]}
    /\ pool' = SubSeq(pool, 1, Len(pool) - 1)
    /\ ticker' = "join"
    /\ UNCHANGED <<spawned, thread, drain, running, doomed, stopTicker, main>>

(* The youngest worker leaves the pool and is told to finish... *)
ScaleIn ==
    /\ ticker = "tick"
    /\ running /\ pool # <<>>
    /\ Len(pool) > MinWorkers
    /\ retired' = {pool[Len(pool)]}
    /\ pool' = SubSeq(pool, 1, Len(pool) - 1)
    /\ drain' = drain \cup {pool[Len(pool)]}
    /\ ticker' = "join"
    /\ UNCHANGED <<spawned, thread, running, doomed, stopTicker, main>>

(* ... and the ticker waits for it without the lock. *)
JoinRetired ==
    /\ ticker = "join"
    /\ \A w \in retired : thread[w] = "exited"
    /\ ticker' = "check" /\ retired' = {}
    /\ UNCHANGED <<pool, spawned, thread, drain, running, doomed, stopTicker, main>>

-----------------------------------------------------------------------------
(* The main thread. *)

(* Every stream is done, or the deadline has passed. *)
LeavePoll ==
    /\ main = "poll"
    /\ stopTicker' = TRUE
    /\ main' = "joinTicker"
    /\ UNCHANGED <<pool, spawned, thread, drain, running, ticker, retired, doomed>>

(* Wrong variant: the ticker is told, not waited for. *)
JoinTickerNot ==
    /\ main = "joinTicker"
    /\ main' = "stop"
    /\ UNCHANGED <<pool, spawned, thread, drain, running, ticker, retired, doomed, stopTicker>>

JoinTicker ==
    /\ main = "joinTicker"
    /\ ticker = "exited"
    /\ main' = "stop"
    /\ UNCHANGED <<pool, spawned, thread, drain, running, ticker, retired, doomed, stopTicker>>

(* stop(): every worker still in the pool is told to finish, and joined.  The
   worker the ticker may be joining is not in it. *)
StopPool ==
    /\ main = "stop"
    /\ running' = FALSE
    /\ drain' = drain \cup Range(pool)
    /\ doomed' = Range(pool) /\ pool' = <<>>
    /\ main' = "joinWorkers"
    /\ UNCHANGED <<spawned, thread, ticker, retired, stopTicker>>

JoinWorkers ==
    /\ main = "joinWorkers"
    /\ \A w \in doomed : thread[w] = "exited"
    /\ main' = "tail"
    /\ UNCHANGED <<pool, spawned, thread, drain, running, ticker, retired, doomed, stopTicker>>

PoolNext ==
    \/ \E w \in Workers : WorkerLoop(w) \/ TaskEnds(w)
    \/ TickerLoop \/ TickIdle \/ ScaleOut \/ ScaleIn \/ JoinRetired
    \/ LeavePoll \/ JoinTicker \/ StopPool \/ JoinWorkers

(* Every thread gets its turn, a task ends (its socket reads have a timeout),
   and the deadline ends the main loop at the latest. *)
PoolFairness ==
    /\ \A w \in Workers : WF_poolVars(WorkerLoop(w)) /\ WF_poolVars(TaskEnds(w))
    /\ WF_poolVars(TickerLoop) /\ WF_poolVars(JoinRetired)
    /\ WF_poolVars(TickIdle \/ ScaleOut \/ ScaleIn)
    /\ WF_poolVars(LeavePoll) /\ WF_poolVars(JoinTicker)
    /\ WF_poolVars(StopPool) /\ WF_poolVars(JoinWorkers)

PoolSpec == PoolInit /\ [][PoolNext]_poolVars /\ PoolFairness

-----------------------------------------------------------------------------
(* The tail is single-threaded, as the comments say (mux_transfer.cpp:566, 908):
   when the main thread reads the streams without their locks no worker and no
   ticker runs any more, although stop() does not know of a worker that the
   ticker has taken out of the pool and is still waiting for. *)
SingleThreadedTail ==
    main = "tail" => ticker = "exited" /\ \A w \in Workers : thread[w] \in {"none", "exited"}

(* run() gets there: no join waits for a thread that was not told to finish,
   and no thread waits for a lock whose holder is waiting for it. *)
PoolStops == <>(main = "tail")
=============================================================================
