------------------------------- MODULE Router -------------------------------
(***************************************************************************)
(* The router task of src/router.rs: run_router receives one Request at a  *)
(* time and awaits the whole of dispatch before it receives the next one.  *)
(*                                                                         *)
(* What the trie says about a request is a constant, Verdict[r]: "handler" *)
(* or the error dispatch answers with before it reaches the worker pool.   *)
(* Module RouteTable defines verdicts from the registered routes.          *)
(***************************************************************************)
EXTENDS WorkerPool

CONSTANTS
    Verdict,     \* outcome of matching path and operation of each request
    RequestCap,  \* capacity of the request channel (128 in the code)
    NoRequest    \* "no request"

RouteErrors == {"no_route", "no_handler", "is_directory"}

ASSUME RouterAssumption ==
    /\ Verdict \in [Request -> RouteErrors \cup {"handler"}]
    /\ RequestCap \in Nat \ {0}
    /\ NoRequest \notin Request

VARIABLES
    reqq,   \* request channel, frontends -> router
    rstate, \* router: "recv", "send" or "await" (inside dispatch), "gone"
    cur,    \* the request dispatch works on
    reply   \* oneshot reply channel of each Request

routerVars == <<reqq, rstate, cur, reply>>

Reply == {"none", "ok", "err", "noworkers", "no_response"} \cup RouteErrors

RouterTypeOK ==
    /\ reqq \in Seq(Request)
    /\ rstate \in {"recv", "send", "await", "gone"}
    /\ cur \in Request \cup {NoRequest}
    /\ reply \in [Request -> Reply]

RouterInit ==
    /\ reqq = <<>>
    /\ rstate = "recv"
    /\ cur = NoRequest
    /\ reply = [r \in Request |-> "none"]

\* Mutant of RouterRejects: an early return that forgets the reply.
RouterRejectsSilently ==
    /\ rstate = "recv"
    /\ reqq # <<>>
    /\ Verdict[Head(reqq)] # "handler"
    /\ reqq' = Tail(reqq)
    /\ UNCHANGED <<rstate, cur, reply>>
    /\ UNCHANGED poolVars

\* dispatch answers by itself: the path matches no route, the route has no
\* handler for the operation, or a file operation hits a directory.
RouterRejects ==
    /\ rstate = "recv"
    /\ reqq # <<>>
    /\ Verdict[Head(reqq)] # "handler"
    /\ reqq' = Tail(reqq)
    /\ reply' = [reply EXCEPT ![Head(reqq)] = Verdict[Head(reqq)]]
    /\ UNCHANGED <<rstate, cur>>
    /\ UNCHANGED poolVars

\* dispatch found the handler and is about to send the HandlerRequest.
RouterMatches ==
    /\ rstate = "recv"
    /\ reqq # <<>>
    /\ Verdict[Head(reqq)] = "handler"
    /\ reqq' = Tail(reqq)
    /\ cur' = Head(reqq)
    /\ rstate' = "send"
    /\ UNCHANGED reply
    /\ UNCHANGED poolVars

\* Mutant of RouterSends: dispatch is spawned instead of awaited.
RouterSendsWithoutAwait ==
    /\ rstate = "send"
    /\ Len(hq) < HandlerCap
    /\ hq' = Append(hq, cur)
    /\ hreply' = [hreply EXCEPT ![cur] = "pending"]
    /\ rstate' = "recv"
    /\ cur' = NoRequest
    /\ UNCHANGED <<reqq, reply>>
    /\ UNCHANGED <<hopen, dstate, workers, next, wstate, wq, ran>>

\* handler_tx.send(hreq).await: waits for room in the handler channel.
RouterSends ==
    /\ rstate = "send"
    /\ Len(hq) < HandlerCap
    /\ hq' = Append(hq, cur)
    /\ hreply' = [hreply EXCEPT ![cur] = "pending"]
    /\ rstate' = "await"
    /\ UNCHANGED <<reqq, cur, reply>>
    /\ UNCHANGED <<hopen, dstate, workers, next, wstate, wq, ran>>

\* reply_rx.await completed: forward the response or the error; a dropped
\* sender becomes "handler did not respond".
RouterForwards ==
    /\ rstate = "await"
    /\ hreply[cur] # "pending"
    /\ reply' = [reply EXCEPT ![cur] =
                   IF hreply[cur] = "dropped" THEN "no_response" ELSE hreply[cur]]
    /\ cur' = NoRequest
    /\ rstate' = "recv"
    /\ UNCHANGED reqq
    /\ UNCHANGED poolVars

\* recv returns None once every sender of the request channel is dropped; the
\* task ends and drops handler_tx.
RouterStops(senderLeft) ==
    /\ rstate = "recv"
    /\ reqq = <<>>
    /\ ~senderLeft
    /\ rstate' = "gone"
    /\ hopen' = FALSE
    /\ UNCHANGED <<reqq, cur, reply>>
    /\ UNCHANGED <<hq, hreply, dstate, workers, next, wstate, wq, ran>>
=============================================================================
