------------------------------- MODULE Pinhead -------------------------------
(***************************************************************************)
(* The request pipeline of pinhead as main() wires it: frontend tasks send *)
(* Requests to the router, the router sends HandlerRequests to the worker  *)
(* pool, and replies travel back over oneshot channels.  Also the shutdown *)
(* sequence of main().                                                     *)
(*                                                                         *)
(* A frontend is reduced to what it does to the channels: client[r] is the *)
(* task that sends request r and awaits its reply.                         *)
(***************************************************************************)
EXTENDS Router, FiniteSets

CONSTANTS
    Timed,   \* requests of the SFTP frontend, which waits 60 s for a reply
    Inline,  \* requests sent by a listener task itself (9P over UDP)
    Parent   \* Parent[r]: the request whose handler sends r through
             \* ninep_client to this very server, or NoRequest

ASSUME FrontendAssumption ==
    /\ Timed \subseteq Request
    /\ Inline \subseteq Request
    /\ Parent \in [Request -> Request \cup {NoRequest}]

VARIABLES
    client,  \* "idle", "waiting", "done", "gave_up" or "closed"
    main     \* main(): "run", "cleanup" or "exited"

frontVars == <<client, main>>
vars == <<poolVars, routerVars, frontVars>>

TypeOK ==
    /\ PoolTypeOK
    /\ RouterTypeOK
    /\ client \in [Request -> {"idle", "waiting", "done", "gave_up", "closed"}]
    /\ main \in {"run", "cleanup", "exited"}

Init ==
    /\ PoolInit
    /\ RouterInit
    /\ client = [r \in Request |-> "idle"]
    /\ main = "run"

\* The handler of p is being executed.
Executing(p) == \E w \in Worker : wstate[w] = "busy" /\ Head(wq[w]) = p

\* tx.send(Request).await of a frontend: waits for room in the request channel.
\* A request of a handler is sent while that handler is being executed.
Submit(r) ==
    /\ client[r] = "idle"
    /\ Len(reqq) < RequestCap
    /\ Parent[r] # NoRequest => Executing(Parent[r])
    /\ reqq' = Append(reqq, r)
    /\ client' = [client EXCEPT ![r] = "waiting"]
    /\ UNCHANGED <<rstate, cur, reply, main>>
    /\ UNCHANGED poolVars

\* reply_rx.await of a frontend completes.
Receive(r) ==
    /\ client[r] = "waiting"
    /\ reply[r] # "none"
    /\ client' = [client EXCEPT ![r] = "done"]
    /\ UNCHANGED main
    /\ UNCHANGED <<routerVars, poolVars>>

\* The SFTP frontend's timeout: the receiver is dropped, the request is not
\* withdrawn.
TimesOut(r) ==
    /\ r \in Timed
    /\ client[r] = "waiting"
    /\ client' = [client EXCEPT ![r] = "gave_up"]
    /\ UNCHANGED main
    /\ UNCHANGED <<routerVars, poolVars>>

\* The connection ends and its task drops its sender of the request channel.
Hangup(r) ==
    /\ client[r] \in {"idle", "done", "gave_up"}
    /\ client' = [client EXCEPT ![r] = "closed"]
    /\ UNCHANGED main
    /\ UNCHANGED <<routerVars, poolVars>>

\* SIGINT: main drops its sender and aborts the listener tasks.  Connection
\* tasks are not aborted and keep their senders.
Sigint ==
    /\ main = "run"
    /\ main' = "cleanup"
    /\ client' = [r \in Request |-> IF r \in Inline THEN "closed" ELSE client[r]]
    /\ UNCHANGED <<routerVars, poolVars>>

\* The pause at the end of main is over and the process exits.
Exit ==
    /\ main = "cleanup"
    /\ main' = "exited"
    /\ UNCHANGED client
    /\ UNCHANGED <<routerVars, poolVars>>

\* Some task still holds a sender of the request channel.
SenderLeft == main = "run" \/ \E r \in Request : client[r] # "closed"

\* call_lua cannot return while its handler awaits a reply through ninep_client.
HandlerReturns(w) ==
    /\ \A r \in Request :
         wq[w] # <<>> /\ Parent[r] = Head(wq[w]) => client[r] # "waiting"
    /\ WorkerReply(w)

FrontendNext ==
    \/ \E r \in Request : Submit(r) \/ Receive(r) \/ TimesOut(r) \/ Hangup(r)
    \/ Sigint
    \/ Exit

RouterNext ==
    \/ (RouterRejects \/ RouterMatches \/ RouterSends \/ RouterForwards)
         /\ UNCHANGED frontVars
    \/ RouterStops(SenderLeft) /\ UNCHANGED frontVars

DispatcherNext ==
    /\ \/ DispatchNoWorkers \/ DispatchSend \/ DispatchDead
       \/ CleanupTick \/ DispatcherStops \/ DispatcherDrops
    /\ UNCHANGED <<routerVars, frontVars>>

WorkerProgress(w) ==
    /\ \/ WorkerBuilt(w) \/ WorkerRecv(w) \/ HandlerReturns(w)
       \/ WorkerTtl(w) \/ WorkerChannelClosed(w) \/ WorkerFinishes(w)
    /\ UNCHANGED <<routerVars, frontVars>>

WorkerFault(w) ==
    /\ WorkerBuildFails(w) \/ WorkerPanics(w)
    /\ UNCHANGED <<routerVars, frontVars>>

Next ==
    /\ main # "exited"
    /\ \/ FrontendNext \/ RouterNext \/ DispatcherNext
       \/ \E w \in Worker : WorkerProgress(w) \/ WorkerFault(w)

Spec == Init /\ [][Next]_vars

Alive(A) == main # "exited" /\ A

\* Tokio keeps running every task that can make progress, and select! takes a
\* ready arm at random, so neither arm of the dispatcher starves.  A handler
\* that waits for nobody returns.  Nobody has to send a request, to give up, to
\* fail or to interrupt.
Fairness ==
    /\ WF_vars(Alive(RouterNext))
    /\ WF_vars(Alive(/\ DispatchNoWorkers \/ DispatchSend \/ DispatchDead
                         \/ DispatcherStops \/ DispatcherDrops
                     /\ UNCHANGED <<routerVars, frontVars>>))
    /\ WF_vars(Alive(CleanupTick /\ UNCHANGED <<routerVars, frontVars>>))
    /\ \A w \in Worker : WF_vars(Alive(WorkerProgress(w)))
    /\ \A r \in Request : WF_vars(Alive(Receive(r)))

FairSpec == Spec /\ Fairness

-----------------------------------------------------------------------------
(* Safety.                                                                 *)

\* r is the request whose reply the router is waiting for.
InFlight(r) == rstate = "await" /\ cur = r /\ hreply[r] = "pending"

\* run_router awaits dispatch, so between the handler channel and the workers
\* there is never more than the one request the router waits for, in one place,
\* whatever the number of frontends, workers and timed-out callers.
SingleInFlight ==
    /\ hq # <<>> => hq = <<cur>> /\ InFlight(cur)
    /\ \A w \in Worker : wq[w] # <<>> =>
         /\ wq[w] = <<cur>> /\ InFlight(cur)
         /\ hq = <<>>
         /\ \A v \in Worker \ {w} : wq[v] = <<>>

\* Since the handler channel never holds a second request when the dispatcher
\* looks at its depth, the inflation branch of dispatcher_loop is never taken:
\* the pool never exceeds worker.min, whatever worker.max allows.  This is not
\* what the comments of dispatcher_loop say (PoolInflates below).
PoolNeverInflates == Len(workers) <= MinWorkers

\* "Monitors pending queue depth and inflates/deflates the worker pool"
\* (worker.rs:56-57): when the dispatcher takes a request while more than
\* InflateDepth others are pending, and worker.max allows, it adds a worker.
PoolInflates ==
    [][LET pending == {r \in Request \ {cur} : client[r] = "waiting" /\ reply[r] = "none"} IN
       /\ hq # <<>> /\ hq' = Tail(hq)
       /\ Cardinality(pending) > InflateDepth /\ Len(workers) < MaxWorkers
       => Len(workers') > Len(workers)]_vars

\* While the router waits for a handler's reply, somebody who can still send or
\* drop that reply holds the request: the reply channel never dangles.
NoLostReply ==
    InFlight(cur) =>
        \/ dstate = "run" /\ cur \in Range(hq)
        \/ \E w \in Worker : wstate[w] \in Listening /\ cur \in Range(wq[w])

\* The dispatcher cannot end before the router has dropped handler_tx, so the
\* send of dispatch never fails; its error path would leave the caller without
\* the reply that the comment in run_router promises.
DispatcherOutlivesRouter == rstate # "gone" => dstate = "run"

\* Router and pool together are a serial first-come-first-served service that
\* starts each handler at most once and answers truthfully.
Service == INSTANCE SerialService WITH
    line <- (IF cur = NoRequest THEN <<>> ELSE <<cur>>) \o reqq,
    answer <- reply,
    runs <- ran

ServesSerially == Service!Spec

-----------------------------------------------------------------------------
(* Liveness, under Fairness.                                               *)

\* A handler that is being executed awaits a reply of its own server.
CallsItself ==
    \E r \in Request :
        /\ Parent[r] # NoRequest /\ Executing(Parent[r])
        /\ client[r] = "waiting"

\* Every accepted request is answered, through worker deaths, failed starts and
\* panics, unless its caller times out or the process exits.  The one thing that
\* can keep requests waiting is a handler that calls its own server through
\* ninep_client ("blocking I/O is fine"): the router waits for that handler.
EveryRequestAnswered ==
    \A r \in Request :
        client[r] = "waiting"
            ~> client[r] # "waiting" \/ main = "exited" \/ CallsItself

\* A pool that lost workers is refilled to its minimum while the server runs:
\* the cleanup arm replaces the ones that ended, however often they end.
PoolRecovers ==
    LET live == Cardinality({w \in Range(workers) : wstate[w] # "finished"})
    IN  []<>(\/ live >= MinWorkers \/ live >= MaxWorkers
             \/ dstate # "run" \/ main = "exited")
=============================================================================
