----------------------------- MODULE WorkerPool -----------------------------
(***************************************************************************)
(* The dispatcher task and the pinned Lua workers of src/worker.rs.        *)
(*                                                                         *)
(* A HandlerRequest is represented by the identity of the frontend request *)
(* it was built from; its oneshot reply channel is hreply[r].  A step of   *)
(* the dispatcher or of a worker is what its task does between two await   *)
(* points; call_lua, which blocks the pinned thread while every other task *)
(* runs on, is split into its start (WorkerRecv) and its end.              *)
(***************************************************************************)
EXTENDS Integers, Sequences, Functions

CONSTANTS
    Request,       \* frontend requests, each sent at most once
    MinWorkers,    \* worker.min(n)
    MaxWorkers,    \* worker.max(n)
    InflateDepth,  \* queue depth above which the pool grows (5 in the code)
    HandlerCap     \* capacity of the handler channel (64 in the code)

ASSUME PoolAssumption ==
    /\ MinWorkers \in Nat
    /\ MaxWorkers \in Nat
    /\ InflateDepth \in Nat
    /\ HandlerCap \in Nat \ {0}

\* Slots of the worker table.  A slot not in the dispatcher's Vec is free, so
\* max(MinWorkers, MaxWorkers) slots never run out.
Worker == 1 .. (IF MinWorkers > MaxWorkers THEN MinWorkers ELSE MaxWorkers)

VARIABLES
    hq,       \* handler channel, router -> dispatcher
    hopen,    \* the router still holds its handler_tx
    hreply,   \* oneshot reply channel of each HandlerRequest
    dstate,   \* dispatcher: "run", "drain" (final sleep) or "gone"
    workers,  \* the dispatcher's Vec of workers
    next,     \* its round-robin index
    wstate,   \* life cycle of each worker task
    wq,       \* unbounded channel of each worker; a busy worker runs its head
    ran       \* history: how often call_lua was started for the request

poolVars == <<hq, hopen, hreply, dstate, workers, next, wstate, wq, ran>>

HReply == {"none", "pending", "ok", "err", "noworkers", "dropped"}
WState == {"free", "starting", "idle", "busy", "closed", "finished"}

\* States in which the worker's receiver exists, so a send to it succeeds.
Listening == {"starting", "idle", "busy"}

Free == {w \in Worker : wstate[w] = "free"}

PoolTypeOK ==
    /\ hq \in Seq(Request)
    /\ hopen \in BOOLEAN
    /\ hreply \in [Request -> HReply]
    /\ dstate \in {"run", "drain", "gone"}
    /\ workers \in Seq(Worker)
    /\ next \in Nat
    /\ wstate \in [Worker -> WState]
    /\ wq \in [Worker -> Seq(Request)]
    /\ ran \in [Request -> Nat]

\* dispatcher_loop spawns MinWorkers workers whatever MaxWorkers is.
PoolInit ==
    /\ hq = <<>>
    /\ hopen = TRUE
    /\ hreply = [r \in Request |-> "none"]
    /\ dstate = "run"
    /\ workers = [i \in 1 .. MinWorkers |-> i]
    /\ next = 0
    /\ wstate = [w \in Worker |-> IF w <= MinWorkers THEN "starting" ELSE "free"]
    /\ wq = [w \in Worker |-> <<>>]
    /\ ran = [r \in Request |-> 0]

-----------------------------------------------------------------------------
(* The dispatcher.                                                         *)

\* Vec::swap_remove: the last element takes the removed one's place.
SwapRemove(s, k) ==
    [i \in 1 .. Len(s) - 1 |-> IF i = k THEN s[Len(s)] ELSE s[i]]

\* The queue is deep after the recv and the pool is below its maximum.
Inflates == Len(hq) - 1 > InflateDepth /\ Len(workers) < MaxWorkers

\* The slot spawn_worker pushes to the Vec when the pool grows.
NewWorker == CHOOSE w \in Worker : w \in Free

VecAtDispatch == IF Inflates THEN Append(workers, NewWorker) ELSE workers

StateAtDispatch ==
    IF Inflates THEN [wstate EXCEPT ![NewWorker] = "starting"] ELSE wstate

\* The recv arm of the select, when no worker exists: answer with an error.
DispatchNoWorkers ==
    /\ dstate = "run"
    /\ hq # <<>>
    /\ VecAtDispatch = <<>>
    /\ hq' = Tail(hq)
    /\ hreply' = [hreply EXCEPT ![Head(hq)] = "noworkers"]
    /\ UNCHANGED <<hopen, dstate, workers, next, wstate, wq, ran>>

\* The recv arm when the worker whose turn it is still has its receiver.
DispatchSend ==
    /\ dstate = "run"
    /\ hq # <<>>
    /\ VecAtDispatch # <<>>
    /\ LET k == (next % Len(VecAtDispatch)) + 1
           w == VecAtDispatch[k]
       IN /\ StateAtDispatch[w] \in Listening
          /\ wq' = [wq EXCEPT ![w] = Append(@, Head(hq))]
          /\ next' = k
    /\ hq' = Tail(hq)
    /\ workers' = VecAtDispatch
    /\ wstate' = StateAtDispatch
    /\ UNCHANGED <<hopen, hreply, dstate, ran>>

\* The recv arm when that worker has dropped its receiver: the send fails, the
\* worker is removed, and the request inside the SendError is dropped with its
\* reply sender.
DispatchDead ==
    /\ dstate = "run"
    /\ hq # <<>>
    /\ VecAtDispatch # <<>>
    /\ LET i == next % Len(VecAtDispatch)
           w == VecAtDispatch[i + 1]
       IN /\ StateAtDispatch[w] \notin Listening
          /\ workers' = SwapRemove(VecAtDispatch, i + 1)
          /\ wstate' = [StateAtDispatch EXCEPT ![w] = "free"]
          /\ next' = i
    /\ hq' = Tail(hq)
    /\ hreply' = [hreply EXCEPT ![Head(hq)] = "dropped"]
    /\ UNCHANGED <<hopen, dstate, wq, ran>>

\* Mutant of Replenish: the loop stops one worker short.
ReplenishOneShort(n) ==
    LET target == IF MinWorkers < MaxWorkers THEN MinWorkers ELSE MaxWorkers
    IN  IF n + 1 < target THEN target - n - 1 ELSE 0

\* Number of workers the cleanup arm spawns when n are left.
Replenish(n) ==
    LET target == IF MinWorkers < MaxWorkers THEN MinWorkers ELSE MaxWorkers
    IN  IF n < target THEN target - n ELSE 0

\* The cleanup arm: retain the workers whose task is not finished, in order
\* (f enumerates their indices), then spawn up to the minimum.
CleanupTick ==
    /\ dstate = "run"
    /\ \E n \in 0 .. Len(workers) : \E f \in [1 .. n -> 1 .. Len(workers)] :
         /\ \A i, j \in 1 .. n : i < j => f[i] < f[j]
         /\ Range(f) = {i \in 1 .. Len(workers) : wstate[workers[i]] # "finished"}
         /\ LET kept == [i \in 1 .. n |-> workers[f[i]]]
                removed == {w \in Range(workers) : wstate[w] = "finished"}
            IN \E g \in Injection(1 .. Replenish(n), Free \cup removed) :
                 /\ workers' = kept \o g
                 /\ wstate' = [w \in Worker |->
                                 IF w \in Range(g) THEN "starting"
                                 ELSE IF w \in removed THEN "free"
                                 ELSE wstate[w]]
    /\ UNCHANGED <<hq, hopen, hreply, dstate, next, wq, ran>>

\* recv returns None: the router is gone and the channel is drained.
DispatcherStops ==
    /\ dstate = "run"
    /\ hq = <<>>
    /\ ~hopen
    /\ dstate' = "drain"
    /\ UNCHANGED <<hq, hopen, hreply, workers, next, wstate, wq, ran>>

\* After the final sleep the Vec is dropped, and every worker channel with it.
DispatcherDrops ==
    /\ dstate = "drain"
    /\ dstate' = "gone"
    /\ workers' = <<>>
    /\ UNCHANGED <<hq, hopen, hreply, next, wstate, wq, ran>>

-----------------------------------------------------------------------------
(* A worker.                                                               *)

\* Mutant of CloseWorker: queued requests outlive the worker.
CloseWorkerLeaksQueue(w) ==
    /\ wstate' = [wstate EXCEPT ![w] = "closed"]
    /\ UNCHANGED <<hq, hopen, hreply, dstate, workers, next, wq, ran>>

\* The worker's future ends: its receiver is dropped with every request that is
\* still queued (the one being executed included), and so are their reply senders.
CloseWorker(w) ==
    /\ wstate' = [wstate EXCEPT ![w] = "closed"]
    /\ hreply' = [r \in Request |-> IF r \in Range(wq[w]) THEN "dropped" ELSE hreply[r]]
    /\ wq' = [wq EXCEPT ![w] = <<>>]
    /\ UNCHANGED <<hq, hopen, dstate, workers, next, ran>>

\* build_runtime re-executes the script and succeeds.
WorkerBuilt(w) ==
    /\ wstate[w] = "starting"
    /\ wstate' = [wstate EXCEPT ![w] = "idle"]
    /\ UNCHANGED <<hq, hopen, hreply, dstate, workers, next, wq, ran>>

\* build_runtime fails and worker_fn returns.
WorkerBuildFails(w) ==
    /\ wstate[w] = "starting"
    /\ CloseWorker(w)

\* The recv arm of worker_fn; call_lua starts.
WorkerRecv(w) ==
    /\ wstate[w] = "idle"
    /\ wq[w] # <<>>
    /\ wstate' = [wstate EXCEPT ![w] = "busy"]
    /\ ran' = [ran EXCEPT ![Head(wq[w])] = @ + 1]
    /\ UNCHANGED <<hq, hopen, hreply, dstate, workers, next, wq>>

\* call_lua returned Ok or Err and the worker sends it as the reply.
WorkerReply(w) ==
    /\ wstate[w] = "busy"
    /\ wstate' = [wstate EXCEPT ![w] = "idle"]
    /\ wq' = [wq EXCEPT ![w] = Tail(@)]
    /\ \E result \in {"ok", "err"} :
         hreply' = [hreply EXCEPT ![Head(wq[w])] = result]
    /\ UNCHANGED <<hq, hopen, dstate, workers, next, ran>>

\* Mutant of WorkerPanics: the worker is restarted with its queue.
WorkerPanicsRestarts(w) ==
    /\ wstate[w] = "busy"
    /\ wstate' = [wstate EXCEPT ![w] = "starting"]
    /\ UNCHANGED <<hq, hopen, hreply, dstate, workers, next, wq, ran>>

\* A panic inside call_lua unwinds the worker task.
WorkerPanics(w) ==
    /\ wstate[w] = "busy"
    /\ CloseWorker(w)

\* The idle timer fires.  The select is unbiased: a request that became ready at
\* the same time may be left in the channel.
WorkerTtl(w) ==
    /\ wstate[w] = "idle"
    /\ CloseWorker(w)

\* recv returns None: the dispatcher dropped the Vec.
WorkerChannelClosed(w) ==
    /\ wstate[w] = "idle"
    /\ dstate = "gone"
    /\ wq[w] = <<>>
    /\ CloseWorker(w)

\* The task is over and JoinHandle::is_finished becomes true.
WorkerFinishes(w) ==
    /\ wstate[w] = "closed"
    /\ wstate' = [wstate EXCEPT ![w] = "finished"]
    /\ UNCHANGED <<hq, hopen, hreply, dstate, workers, next, wq, ran>>
=============================================================================
