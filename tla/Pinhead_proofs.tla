--------------------------- MODULE Pinhead_proofs ---------------------------
(***************************************************************************)
(* Safety of the request pipeline, and that it implements SerialService,   *)
(* for every set of requests, every worker configuration and every channel *)
(* capacity.                                                               *)
(***************************************************************************)
EXTENDS Pinhead, TLAPS

-----------------------------------------------------------------------------
(* The inductive invariant.                                                *)

\* The router holds a request exactly while it is inside dispatch.
CurInv == (cur = NoRequest) <=> (rstate \in {"recv", "gone"})

\* Once the HandlerRequest is sent its reply channel exists.
AwaitInv == rstate = "await" => hreply[cur] # "none"

\* Only a worker with a receiver has queued requests, and a busy one has the
\* request it executes.
QueueInv ==
    \A w \in Worker :
        /\ wq[w] # <<>> => wstate[w] \in Listening
        /\ wstate[w] = "busy" => wq[w] # <<>>

\* A request in flight is in the handler channel or with a worker.
HeldInv == InFlight(cur) => hq # <<>> \/ \E w \in Worker : wq[w] # <<>>

\* handler_tx lives as long as the router, the dispatcher's loop longer.
LifeInv ==
    /\ hopen <=> rstate # "gone"
    /\ dstate # "run" => ~hopen

Inv ==
    /\ TypeOK
    /\ CurInv
    /\ AwaitInv
    /\ SingleInFlight
    /\ QueueInv
    /\ HeldInv
    /\ LifeInv
    /\ PoolNeverInflates

-----------------------------------------------------------------------------
(* Facts about sequences.                                                  *)

\* Sequences are equal that have the same elements.
LEMMA SameSeq ==
    ASSUME NEW S, NEW p \in Seq(S), NEW q \in Seq(S), Len(p) = Len(q),
           \A i \in 1 .. Len(p) : p[i] = q[i]
    PROVE  p = q
<1>1. p = [i \in 1 .. Len(p) |-> p[i]] /\ q = [i \in 1 .. Len(q) |-> q[i]]
  OBVIOUS
<1> QED  BY <1>1

\* What a concatenation is, and that of three.
LEMMA AppendedIs ==
    ASSUME NEW S, NEW q \in Seq(S), NEW e \in S
    PROVE  /\ DOMAIN Append(q, e) = 1 .. Len(q) + 1 /\ Append(q, e)[Len(q) + 1] = e
           /\ \A i \in DOMAIN q : Append(q, e)[i] = q[i]
OBVIOUS

LEMMA ConcatIs ==
    ASSUME NEW S, NEW p \in Seq(S), NEW q \in Seq(S)
    PROVE  /\ p \o q \in Seq(S) /\ Len(p \o q) = Len(p) + Len(q)
           /\ \A i \in 1 .. Len(p) : (p \o q)[i] = p[i]
           /\ \A i \in 1 .. Len(q) : (p \o q)[Len(p) + i] = q[i]
<1>1. Len(p \o q) = Len(p) + Len(q) /\ Len(p) \in Nat /\ Len(q) \in Nat
  OBVIOUS
<1>2. p \o q \in Seq(S)
  OBVIOUS
<1>3. \A i \in 1 .. Len(p) : (p \o q)[i] = p[i]
  OBVIOUS
<1>4. \A i \in 1 .. Len(q) : (p \o q)[Len(p) + i] = q[i]
  OBVIOUS
<1> QED  BY <1>1, <1>2, <1>3, <1>4

LEMMA ConcatEmpty ==
    ASSUME NEW S, NEW p \in Seq(S)
    PROVE  p \o <<>> = p /\ <<>> \o p = p
<1>1. <<>> \in Seq(S) /\ Len(<<>>) = 0 /\ Len(p) \in Nat
  OBVIOUS
<1>2. /\ p \o <<>> \in Seq(S) /\ <<>> \o p \in Seq(S)
      /\ Len(p \o <<>>) = Len(p) /\ Len(<<>> \o p) = Len(p)
  BY <1>1, ConcatIs
<1>3. \A i \in 1 .. Len(p) : (p \o <<>>)[i] = p[i] /\ (<<>> \o p)[i] = p[i]
  BY <1>1
<1> QED  BY <1>2, <1>3, SameSeq

\* Append is a concatenation.
LEMMA AppendConcat ==
    ASSUME NEW S, NEW p \in Seq(S), NEW x \in S
    PROVE  Append(p, x) = p \o <<x>>
<1>1. <<x>> \in Seq(S) /\ Len(<<x>>) = 1 /\ <<x>>[1] = x /\ Len(p) \in Nat
  OBVIOUS
<1>2. /\ p \o <<x>> \in Seq(S) /\ Len(p \o <<x>>) = Len(p) + 1
      /\ \A i \in 1 .. Len(p) : (p \o <<x>>)[i] = p[i]
      /\ (p \o <<x>>)[Len(p) + 1] = x
  <2>1. 1 \in 1 .. Len(<<x>>)
    BY <1>1
  <2> QED  BY <1>1, <2>1, ConcatIs
<1>3. /\ Append(p, x) \in Seq(S) /\ Len(Append(p, x)) = Len(p) + 1
      /\ \A i \in 1 .. Len(p) : Append(p, x)[i] = p[i]
      /\ Append(p, x)[Len(p) + 1] = x
  OBVIOUS
<1>4. \A i \in 1 .. Len(p) + 1 : i \in 1 .. Len(p) \/ i = Len(p) + 1
  BY <1>1
<1> QED  BY <1>2, <1>3, <1>4, SameSeq

LEMMA ConcatTwice ==
    ASSUME NEW S, NEW p \in Seq(S), NEW q \in Seq(S), NEW r \in Seq(S)
    PROVE  (p \o q) \o r = p \o (q \o r)
<1> DEFINE a == (p \o q) \o r
           b == p \o (q \o r)
<1>1. Len(p) \in Nat /\ Len(q) \in Nat /\ Len(r) \in Nat
  OBVIOUS
<1>2. p \o q \in Seq(S) /\ Len(p \o q) = Len(p) + Len(q)
  BY ConcatIs
<1>3. q \o r \in Seq(S) /\ Len(q \o r) = Len(q) + Len(r)
  BY ConcatIs
<1>4. a \in Seq(S) /\ b \in Seq(S) /\ Len(a) = Len(p) + Len(q) + Len(r) /\ Len(b) = Len(a)
  BY <1>1, <1>2, <1>3, ConcatIs
<1>5. ASSUME NEW i \in 1 .. Len(a) PROVE a[i] = b[i]
  <2>1. CASE i <= Len(p)
    <3>1. i \in 1 .. Len(p) /\ i \in 1 .. Len(p \o q)
      BY <1>1, <1>2, <2>1
    <3>2. a[i] = (p \o q)[i] /\ (p \o q)[i] = p[i] /\ b[i] = p[i]
      BY <1>2, <1>3, <3>1, ConcatIs
    <3> QED  BY <3>2
  <2>2. CASE i > Len(p) /\ i <= Len(p) + Len(q)
    <3>1. PICK k \in 1 .. Len(q) : i = Len(p) + k
      <4>1. i - Len(p) \in 1 .. Len(q) /\ i = Len(p) + (i - Len(p))
        BY <1>1, <2>2
      <4> QED  BY <4>1, Zenon
    <3>2. i \in 1 .. Len(p \o q) /\ k \in 1 .. Len(q \o r)
      BY <1>1, <1>2, <1>3, <2>2
    <3>3. a[i] = (p \o q)[i] /\ (p \o q)[i] = q[k]
      BY <1>2, <3>1, <3>2, ConcatIs
    <3>4. b[i] = (q \o r)[k] /\ (q \o r)[k] = q[k]
      BY <1>3, <3>1, <3>2, ConcatIs
    <3> QED  BY <3>3, <3>4
  <2>3. CASE i > Len(p) + Len(q)
    <3>1. PICK k \in 1 .. Len(r) : i = Len(p) + Len(q) + k
      <4>1. i - (Len(p) + Len(q)) \in 1 .. Len(r) /\ i = Len(p) + Len(q) + (i - (Len(p) + Len(q)))
        BY <1>1, <1>4, <2>3
      <4> QED  BY <4>1, Zenon
    <3>2. i = Len(p \o q) + k /\ Len(q) + k \in 1 .. Len(q \o r) /\ i = Len(p) + (Len(q) + k)
      BY <1>1, <1>2, <1>3, <3>1
    <3>3. a[i] = r[k]
      BY <1>2, <3>1, <3>2, ConcatIs
    <3>4. b[i] = (q \o r)[Len(q) + k] /\ (q \o r)[Len(q) + k] = r[k]
      BY <1>3, <3>1, <3>2, ConcatIs
    <3> QED  BY <3>3, <3>4
  <2> QED  BY <1>1, <2>1, <2>2, <2>3
<1> HIDE DEF a, b
<1>6. a = b
  BY <1>4, <1>5, SameSeq
<1> QED  BY <1>6 DEF a, b

\* A sequence of one element: what Head, Tail and Range make of it.
LEMMA Singleton ==
    ASSUME NEW S, NEW x \in S
    PROVE  /\ <<x>> \in Seq(S) /\ Len(<<x>>) = 1
           /\ Head(<<x>>) = x /\ Tail(<<x>>) = <<>> /\ <<x>> # <<>>
           /\ Range(<<x>>) = {x}
<1>1. /\ <<x>> \in Seq(S) /\ Len(<<x>>) = 1
      /\ Head(<<x>>) = x /\ Tail(<<x>>) = <<>> /\ <<x>> # <<>>
  OBVIOUS
<1>2. Range(<<x>>) = {x}
  BY DOMAIN <<x>> = {1} DEF Range
<1> QED  BY <1>1, <1>2

\* swap_remove keeps the elements in the set they come from and shortens by one.
LEMMA SwapRemoveType ==
    ASSUME NEW S, NEW s \in Seq(S), s # <<>>, NEW k \in 1 .. Len(s)
    PROVE  /\ SwapRemove(s, k) \in Seq(S)
           /\ Len(SwapRemove(s, k)) = Len(s) - 1
<1>1. Len(s) \in Nat /\ Len(s) > 0
  OBVIOUS
<1>2. \A i \in 1 .. Len(s) : s[i] \in S
  OBVIOUS
<1>3. SwapRemove(s, k) \in [1 .. Len(s) - 1 -> S]
  BY <1>1, <1>2 DEF SwapRemove
<1> QED  BY <1>1, <1>3

-----------------------------------------------------------------------------

\* The pipeline starts in a state that satisfies the invariant.
LEMMA InitInv == Init => Inv
<1> SUFFICES ASSUME Init PROVE Inv
  OBVIOUS
<1> USE DEF Init, PoolInit, RouterInit
<1>1. MinWorkers \in Nat /\ 1 .. MinWorkers \subseteq Worker
  BY PoolAssumption DEF PoolAssumption, Worker
<1>2. workers \in Seq(Worker) /\ Len(workers) = MinWorkers
  BY <1>1
<1>3. TypeOK
  BY <1>2 DEF TypeOK, PoolTypeOK, RouterTypeOK, HReply, WState, Reply, RouteErrors
<1>4. CurInv /\ AwaitInv /\ SingleInFlight /\ LifeInv
  BY DEF CurInv, AwaitInv, SingleInFlight, LifeInv
<1>5. QueueInv
  BY DEF QueueInv
<1>6. HeldInv
  BY DEF HeldInv, InFlight
<1>7. PoolNeverInflates
  BY <1>1, <1>2 DEF PoolNeverInflates
<1> QED  BY <1>3, <1>4, <1>5, <1>6, <1>7 DEF Inv

-----------------------------------------------------------------------------
(* One lemma per task: its steps preserve the invariant.                   *)

\* Frontend tasks and main touch the pipeline only by appending to the request
\* channel.
LEMMA FrontendInv == Inv /\ FrontendNext => Inv'
<1> SUFFICES ASSUME Inv, FrontendNext PROVE Inv'
  OBVIOUS
<1> USE DEF Inv, TypeOK
<1>1. /\ UNCHANGED poolVars
      /\ UNCHANGED <<rstate, cur, reply>>
  BY DEF FrontendNext, Submit, Receive, TimesOut, Hangup, Sigint, Exit, routerVars
<1>2. reqq' \in Seq(Request)
  BY DEF RouterTypeOK, FrontendNext, Submit, Receive, TimesOut, Hangup, Sigint,
         Exit, routerVars
<1>3. /\ client' \in [Request -> {"idle", "waiting", "done", "gave_up", "closed"}]
      /\ main' \in {"run", "cleanup", "exited"}
  BY DEF FrontendNext, Submit, Receive, TimesOut, Hangup, Sigint, Exit
<1>4. TypeOK'
  BY <1>1, <1>2, <1>3 DEF PoolTypeOK, RouterTypeOK, poolVars
<1>5. (CurInv /\ AwaitInv /\ SingleInFlight /\ QueueInv /\ HeldInv /\ LifeInv
         /\ PoolNeverInflates)'
  BY <1>1 DEF CurInv, AwaitInv, SingleInFlight, QueueInv, HeldInv, LifeInv,
              PoolNeverInflates, InFlight, poolVars
<1> QED  BY <1>4, <1>5

\* Outside of an await nothing is in the handler channel or with a worker.
LEMMA IdleEmpty ==
    ASSUME Inv, rstate # "await"
    PROVE  hq = <<>> /\ \A w \in Worker : wq[w] = <<>>
BY DEF Inv, SingleInFlight, InFlight

\* The router puts a request into the handler channel only when the pool is
\* empty, and takes the next one only after the reply.
LEMMA RouterInv == Inv /\ RouterNext => Inv'
<1> SUFFICES ASSUME Inv, RouterNext PROVE Inv'
  OBVIOUS
<1> USE DEF Inv, TypeOK
<1>1. CASE RouterRejects /\ UNCHANGED frontVars
  <2>1. Head(reqq) \in Request /\ Tail(reqq) \in Seq(Request)
    BY <1>1 DEF RouterRejects, RouterTypeOK
  <2>2. Verdict[Head(reqq)] \in Reply
    BY <1>1, <2>1, RouterAssumption DEF RouterAssumption, RouterRejects, Reply
  <2>3. TypeOK'
    BY <1>1, <2>1, <2>2 DEF RouterRejects, PoolTypeOK, RouterTypeOK, poolVars, frontVars
  <2> QED
    BY <1>1, <2>3 DEF RouterRejects, poolVars, CurInv, AwaitInv, SingleInFlight,
       QueueInv, HeldInv, LifeInv, PoolNeverInflates, InFlight
<1>2. CASE RouterMatches /\ UNCHANGED frontVars
  <2>1. Head(reqq) \in Request /\ Tail(reqq) \in Seq(Request)
    BY <1>2 DEF RouterMatches, RouterTypeOK
  <2>2. TypeOK'
    BY <1>2, <2>1 DEF RouterMatches, PoolTypeOK, RouterTypeOK, poolVars, frontVars
  <2>3. CurInv'
    BY <1>2, <2>1, RouterAssumption DEF RouterAssumption, RouterMatches, CurInv
  <2>4. hq = <<>> /\ \A w \in Worker : wq[w] = <<>>
    BY <1>2, IdleEmpty DEF RouterMatches
  <2>5. SingleInFlight' /\ HeldInv'
    BY <1>2, <2>4 DEF RouterMatches, poolVars, SingleInFlight, HeldInv, InFlight
  <2> QED
    BY <1>2, <2>2, <2>3, <2>5 DEF RouterMatches, poolVars, AwaitInv, QueueInv,
       LifeInv, PoolNeverInflates
<1>3. CASE RouterSends /\ UNCHANGED frontVars
  <2>1. cur \in Request
    BY <1>3 DEF RouterSends, CurInv, RouterTypeOK
  <2>2. hq = <<>> /\ \A w \in Worker : wq[w] = <<>>
    BY <1>3, IdleEmpty DEF RouterSends
  <2>3. hq' = <<cur>> /\ hreply'[cur] = "pending" /\ cur' = cur /\ wq' = wq
    BY <1>3, <2>1, <2>2 DEF RouterSends, PoolTypeOK
  <2>4. TypeOK'
    BY <1>3, <2>1, <2>3, Singleton DEF RouterSends, PoolTypeOK, RouterTypeOK, HReply, frontVars
  <2>5. SingleInFlight' /\ HeldInv' /\ AwaitInv'
    BY <1>3, <2>1, <2>2, <2>3, Singleton DEF RouterSends, SingleInFlight, HeldInv, AwaitInv, InFlight
  <2> QED
    BY <1>3, <2>4, <2>5 DEF RouterSends, CurInv, QueueInv, LifeInv, PoolNeverInflates
<1>4. CASE RouterForwards /\ UNCHANGED frontVars
  <2>1. cur \in Request
    BY <1>4 DEF RouterForwards, CurInv, RouterTypeOK
  <2>2. hreply[cur] \in HReply \ {"none", "pending"}
    BY <1>4, <2>1 DEF RouterForwards, AwaitInv, PoolTypeOK
  <2>3. TypeOK'
    BY <1>4, <2>1, <2>2 DEF RouterForwards, PoolTypeOK, RouterTypeOK, HReply, Reply,
       poolVars, frontVars
  <2>4. hq = <<>> /\ \A w \in Worker : wq[w] = <<>>
    BY <1>4 DEF RouterForwards, SingleInFlight, InFlight
  <2>5. SingleInFlight' /\ HeldInv'
    BY <1>4, <2>4 DEF RouterForwards, poolVars, SingleInFlight, HeldInv, InFlight
  <2> QED
    BY <1>4, <2>3, <2>5 DEF RouterForwards, poolVars, CurInv, AwaitInv, QueueInv,
       LifeInv, PoolNeverInflates
<1>5. CASE RouterStops(SenderLeft) /\ UNCHANGED frontVars
  <2>1. TypeOK'
    BY <1>5, Zenon DEF RouterStops, PoolTypeOK, RouterTypeOK, frontVars
  <2>2. hq = <<>> /\ \A w \in Worker : wq[w] = <<>>
    BY <1>5, IdleEmpty DEF RouterStops
  <2> QED
    BY <1>5, <2>1, <2>2 DEF RouterStops, CurInv, AwaitInv, SingleInFlight, QueueInv,
       HeldInv, LifeInv, PoolNeverInflates, InFlight
<1> QED  BY <1>1, <1>2, <1>3, <1>4, <1>5 DEF RouterNext

\* The handler channel holds no second request when the dispatcher looks at its
\* depth, so the Vec of workers is used as it is.
LEMMA NoInflation ==
    ASSUME Inv, hq # <<>>
    PROVE  /\ VecAtDispatch = workers /\ StateAtDispatch = wstate
           /\ hq = <<cur>> /\ InFlight(cur) /\ cur \in Request
           /\ Head(hq) = cur /\ Tail(hq) = <<>>
           /\ \A w \in Worker : wq[w] = <<>>
<1> USE DEF Inv, TypeOK
<1>1. hq = <<cur>> /\ InFlight(cur)
  BY DEF SingleInFlight
<1>2. cur \in Request
  BY <1>1 DEF InFlight, CurInv, RouterTypeOK
<1>3. ~Inflates
  BY <1>1, <1>2, Singleton, PoolAssumption DEF PoolAssumption, Inflates
<1>4. \A w \in Worker : wq[w] = <<>>
  BY DEF SingleInFlight
<1> QED
  BY <1>1, <1>2, <1>3, <1>4, Singleton DEF VecAtDispatch, StateAtDispatch

\* A step that leaves the queues alone, starts no handler and closes no receiver
\* keeps QueueInv.
LEMMA QueueFrame ==
    ASSUME QueueInv, wq' = wq,
           \A w \in Worker : /\ wstate'[w] = "busy" => wstate[w] = "busy"
                             /\ wstate[w] \in Listening => wstate'[w] \in Listening
    PROVE  QueueInv'
BY DEF QueueInv, Listening

\* What the cleanup arm does: it keeps some workers, adds new ones up to the
\* minimum, and leaves the state of every worker with a receiver alone.
LEMMA TickParts ==
    ASSUME Inv, CleanupTick
    PROVE  /\ \E kept, fresh \in Seq(Worker) :
                /\ workers' = kept \o fresh
                /\ Len(kept) + Len(fresh) <= MinWorkers
           /\ wstate' \in [Worker -> WState]
           /\ \A w \in Worker :
                /\ wstate'[w] = "busy" <=> wstate[w] = "busy"
                /\ wstate[w] \in Listening => wstate'[w] \in Listening
<1> USE DEF Inv, TypeOK
<1> DEFINE removed == {w \in Range(workers) : wstate[w] = "finished"}
           Tick(n, f, g) ==
             /\ workers' = [i \in 1 .. n |-> workers[f[i]]] \o g
             /\ wstate' = [w \in Worker |->
                             IF w \in Range(g) THEN "starting"
                             ELSE IF w \in removed THEN "free"
                             ELSE wstate[w]]
<1>1. PICK n \in 0 .. Len(workers) : \E f \in [1 .. n -> 1 .. Len(workers)] :
        \E g \in Injection(1 .. Replenish(n), Free \cup removed) : Tick(n, f, g)
  BY Zenon DEF CleanupTick
<1>2. PICK f \in [1 .. n -> 1 .. Len(workers)],
           g \in Injection(1 .. Replenish(n), Free \cup removed) : Tick(n, f, g)
  BY <1>1, Zenon
<1> DEFINE old == [i \in 1 .. n |-> workers[f[i]]]
<1>3. workers \in Seq(Worker) /\ Len(workers) \in Nat /\ Len(workers) <= MinWorkers
  BY DEF PoolTypeOK, PoolNeverInflates
<1>4. n \in Nat /\ Replenish(n) \in Nat /\ n + Replenish(n) <= MinWorkers
  BY <1>3, PoolAssumption DEF PoolAssumption, Replenish
<1>5. old \in Seq(Worker) /\ Len(old) = n
  <2>1. \A i \in 1 .. n : workers[f[i]] \in Worker
    BY <1>3
  <2> QED  BY <1>4, <2>1
<1>6. Free \cup removed \subseteq Worker
  <2>1. Range(workers) \subseteq Worker
    BY <1>3 DEF Range
  <2> QED  BY <2>1 DEF Free
<1>7. g \in Seq(Worker) /\ Len(g) = Replenish(n)
  <2>1. g \in [1 .. Replenish(n) -> Free \cup removed]
    BY <1>2 DEF Injection
  <2>2. g \in [1 .. Replenish(n) -> Worker]
    BY <1>6, <2>1
  <2> QED  BY <1>4, <2>2
<1>8. \E kept, fresh \in Seq(Worker) :
        workers' = kept \o fresh /\ Len(kept) + Len(fresh) <= MinWorkers
  <2>1. workers' = old \o g
    BY <1>2
  <2> HIDE DEF old
  <2> QED  BY <1>4, <1>5, <1>7, <2>1, Zenon
<1>9. wstate' \in [Worker -> WState]
  BY <1>2 DEF PoolTypeOK, WState
<1>10. \A w \in Worker :
         /\ wstate'[w] = "busy" <=> wstate[w] = "busy"
         /\ wstate[w] \in Listening => wstate'[w] \in Listening
  <2>1. g \in [1 .. Replenish(n) -> Free \cup removed]
    BY <1>2 DEF Injection
  <2>2. Range(g) \subseteq Free \cup removed
    BY <2>1 DEF Range
  <2> QED  BY <1>2, <2>2 DEF Listening, Free
<1> QED  BY <1>8, <1>9, <1>10, Zenon

\* The cleanup arm leaves at most MinWorkers workers in the Vec.
LEMMA TickInv == Inv /\ CleanupTick /\ UNCHANGED <<routerVars, frontVars>> => Inv'
<1> SUFFICES ASSUME Inv, CleanupTick, UNCHANGED <<routerVars, frontVars>> PROVE Inv'
  OBVIOUS
<1> USE DEF Inv, TypeOK
<1>1. workers' \in Seq(Worker) /\ Len(workers') <= MinWorkers
  <2>1. PICK kept, fresh \in Seq(Worker) :
          workers' = kept \o fresh /\ Len(kept) + Len(fresh) <= MinWorkers
    BY TickParts, Zenon
  <2> QED  BY <2>1, ConcatIs
<1>2. UNCHANGED <<hq, hopen, hreply, dstate, next, wq, ran>>
  BY DEF CleanupTick
<1>3. TypeOK'
  BY <1>1, <1>2, TickParts DEF PoolTypeOK, RouterTypeOK, routerVars, frontVars
<1>4. QueueInv'
  BY <1>2, TickParts, QueueFrame
<1>5. (CurInv /\ AwaitInv /\ SingleInFlight /\ HeldInv /\ LifeInv)'
  BY <1>2 DEF CurInv, AwaitInv, SingleInFlight, HeldInv, LifeInv, InFlight, routerVars
<1> QED  BY <1>1, <1>3, <1>4, <1>5 DEF PoolNeverInflates

\* The dispatcher moves the request in flight from the handler channel to one
\* worker, or answers or drops it.
LEMMA DispatcherInv == Inv /\ DispatcherNext => Inv'
<1> SUFFICES ASSUME Inv, DispatcherNext PROVE Inv'
  OBVIOUS
<1> USE DEF Inv, TypeOK
<1>0. UNCHANGED <<routerVars, frontVars>>
  BY DEF DispatcherNext
<1>1. CASE DispatchNoWorkers
  <2>1. hq = <<cur>> /\ InFlight(cur) /\ cur \in Request
        /\ Head(hq) = cur /\ Tail(hq) = <<>> /\ \A w \in Worker : wq[w] = <<>>
    BY <1>1, NoInflation DEF DispatchNoWorkers
  <2>2. TypeOK'
    BY <1>0, <1>1, <2>1 DEF DispatchNoWorkers, PoolTypeOK, RouterTypeOK, HReply,
       routerVars, frontVars
  <2>3. hreply'[cur] = "noworkers" /\ cur' = cur
    BY <1>0, <1>1, <2>1 DEF DispatchNoWorkers, PoolTypeOK, routerVars
  <2> QED
    BY <1>0, <1>1, <2>1, <2>2, <2>3, Zenon DEF DispatchNoWorkers, CurInv, AwaitInv,
       SingleInFlight, QueueInv, HeldInv, LifeInv, PoolNeverInflates, InFlight, routerVars
<1>2. CASE DispatchSend
  <2>1. /\ VecAtDispatch = workers /\ StateAtDispatch = wstate
        /\ hq = <<cur>> /\ InFlight(cur) /\ cur \in Request
        /\ Head(hq) = cur /\ Tail(hq) = <<>>
        /\ \A w \in Worker : wq[w] = <<>>
    BY <1>2, NoInflation DEF DispatchSend
  <2> DEFINE k == (next % Len(workers)) + 1
  <2>2. k \in 1 .. Len(workers) /\ workers[k] \in Worker
    BY <1>2, <2>1 DEF DispatchSend, PoolTypeOK
  <2>3. PICK w \in Worker : /\ wstate[w] \in Listening
                            /\ wq' = [wq EXCEPT ![w] = Append(@, cur)]
    BY <1>2, <2>1, <2>2, Zenon DEF DispatchSend
  <2>4. wq' = [wq EXCEPT ![w] = <<cur>>]
    <3>1. wq[w] = <<>> /\ Append(<<>>, cur) = <<cur>>
      BY <2>1
    <3> QED  BY <2>3, <3>1 DEF PoolTypeOK
  <2>5. next' \in Nat
    BY <1>2, <2>1, <2>2 DEF DispatchSend
  <2>6. UNCHANGED <<hopen, hreply, dstate, ran, workers, wstate, rstate, cur>> /\ hq' = <<>>
    BY <1>0, <1>2, <2>1 DEF DispatchSend, routerVars
  <2>7. TypeOK'
    BY <1>0, <2>1, <2>4, <2>5, <2>6, Singleton DEF PoolTypeOK, RouterTypeOK, routerVars, frontVars
  <2>8. wq'[w] = <<cur>> /\ \A v \in Worker \ {w} : wq'[v] = <<>>
    BY <2>1, <2>4 DEF PoolTypeOK
  <2>9. SingleInFlight' /\ QueueInv' /\ HeldInv'
    BY <2>1, <2>3, <2>6, <2>8, Singleton DEF SingleInFlight, QueueInv, HeldInv, InFlight,
       Listening
  <2> QED
    BY <2>6, <2>7, <2>9 DEF CurInv, AwaitInv, LifeInv, PoolNeverInflates
<1>3. CASE DispatchDead
  <2>1. /\ VecAtDispatch = workers /\ StateAtDispatch = wstate
        /\ hq = <<cur>> /\ InFlight(cur) /\ cur \in Request
        /\ Head(hq) = cur /\ Tail(hq) = <<>>
        /\ \A w \in Worker : wq[w] = <<>>
    BY <1>3, NoInflation DEF DispatchDead
  <2> DEFINE i == next % Len(workers)
  <2>2. workers \in Seq(Worker) /\ workers # <<>>
    BY <1>3, <2>1 DEF DispatchDead, PoolTypeOK
  <2>3. i \in Nat /\ i + 1 \in 1 .. Len(workers) /\ workers[i + 1] \in Worker
    BY <2>2 DEF PoolTypeOK
  <2>4. /\ workers' = SwapRemove(workers, i + 1)
        /\ wstate' = [wstate EXCEPT ![workers[i + 1]] = "free"]
        /\ next' = i
    BY <1>3, <2>1 DEF DispatchDead
  <2>5. workers' \in Seq(Worker) /\ Len(workers') <= MinWorkers
    <3>1. workers' \in Seq(Worker) /\ Len(workers') = Len(workers) - 1
      BY <2>2, <2>3, <2>4, SwapRemoveType
    <3> QED  BY <2>2, <3>1, PoolAssumption DEF PoolAssumption, PoolNeverInflates
  <2>6. /\ UNCHANGED <<hopen, dstate, ran, wq, rstate, cur>> /\ hq' = <<>>
        /\ hreply' = [hreply EXCEPT ![cur] = "dropped"]
    BY <1>0, <1>3, <2>1 DEF DispatchDead, routerVars
  <2>7. TypeOK'
    <3>1. RouterTypeOK' /\ UNCHANGED <<client, main>>
      BY <1>0, Zenon DEF RouterTypeOK, routerVars, frontVars
    <3>2. next' \in Nat /\ hq' \in Seq(Request)
      BY <2>3, <2>4, <2>6
    <3>3. wstate' \in [Worker -> WState] /\ hreply' \in [Request -> HReply]
      BY <2>4, <2>6 DEF PoolTypeOK, HReply, WState
    <3>4. PoolTypeOK'
      BY <2>5, <2>6, <3>2, <3>3, Zenon DEF PoolTypeOK
    <3> QED  BY <3>1, <3>4, Zenon
  <2>8. hreply'[cur] = "dropped"
    BY <2>1, <2>6 DEF PoolTypeOK
  <2>9. QueueInv'
    BY <2>1, <2>3, <2>4, <2>6 DEF QueueInv, PoolTypeOK, Listening
  <2> QED
    BY <2>1, <2>5, <2>6, <2>7, <2>8, <2>9 DEF CurInv, AwaitInv, SingleInFlight, HeldInv,
       LifeInv, PoolNeverInflates, InFlight
<1>4. CASE CleanupTick
  BY <1>0, <1>4, TickInv
<1>5. CASE DispatcherStops
  BY <1>0, <1>5 DEF DispatcherStops, PoolTypeOK, RouterTypeOK, CurInv, AwaitInv,
     SingleInFlight, QueueInv, HeldInv, LifeInv, PoolNeverInflates, InFlight,
     routerVars, frontVars
<1>6. CASE DispatcherDrops
  <2>1. workers' \in Seq(Worker) /\ Len(workers') <= MinWorkers
    BY <1>6, PoolAssumption DEF PoolAssumption, DispatcherDrops
  <2>2. TypeOK'
    BY <1>0, <1>6, <2>1 DEF DispatcherDrops, PoolTypeOK, RouterTypeOK, routerVars, frontVars
  <2> QED
    BY <1>0, <1>6, <2>1, <2>2, Zenon DEF DispatcherDrops, CurInv, AwaitInv, SingleInFlight,
       QueueInv, HeldInv, LifeInv, PoolNeverInflates, InFlight, routerVars
<1> QED  BY <1>1, <1>2, <1>3, <1>4, <1>5, <1>6 DEF DispatcherNext

\* A worker that ends drops the request it holds, so the router's await ends
\* with an error instead of hanging.
LEMMA CloseInv ==
    ASSUME Inv, NEW w \in Worker, CloseWorker(w), UNCHANGED <<routerVars, frontVars>>
    PROVE  Inv'
<1> USE DEF Inv, TypeOK
<1>1. /\ wstate' = [wstate EXCEPT ![w] = "closed"]
      /\ wq' = [wq EXCEPT ![w] = <<>>]
      /\ UNCHANGED <<hq, hopen, dstate, workers, next, ran, rstate, cur>>
  BY DEF CloseWorker, routerVars
<1>2. \A v \in Worker : v # w => wq'[v] = wq[v] /\ wstate'[v] = wstate[v]
  BY <1>1 DEF PoolTypeOK
<1>3. wq'[w] = <<>> /\ wstate'[w] = "closed"
  BY <1>1 DEF PoolTypeOK
<1>4. TypeOK'
  <2>1. wstate' \in [Worker -> WState] /\ wq' \in [Worker -> Seq(Request)]
    BY <1>1 DEF PoolTypeOK, WState
  <2>2. hreply' \in [Request -> HReply]
    BY DEF CloseWorker, PoolTypeOK, HReply
  <2> QED  BY <1>1, <2>1, <2>2 DEF PoolTypeOK, RouterTypeOK, routerVars, frontVars
<1>5. QueueInv'
  BY <1>2, <1>3 DEF QueueInv, Listening
<1>6. CASE wq[w] = <<>>
  <2>1. hreply' = hreply
    BY <1>6 DEF CloseWorker, PoolTypeOK, Range
  <2>2. wq' = wq
    BY <1>1, <1>6 DEF PoolTypeOK
  <2> QED
    BY <1>1, <1>4, <1>5, <2>1, <2>2 DEF CurInv, AwaitInv, SingleInFlight, HeldInv,
       LifeInv, PoolNeverInflates, InFlight
<1>7. CASE wq[w] # <<>>
  <2>1. wq[w] = <<cur>> /\ InFlight(cur) /\ hq = <<>>
        /\ \A v \in Worker \ {w} : wq[v] = <<>>
    BY <1>7 DEF SingleInFlight
  <2>2. cur \in Request
    BY <2>1 DEF InFlight, CurInv, RouterTypeOK
  <2>3. hreply'[cur] = "dropped"
    BY <2>1, <2>2, Singleton DEF CloseWorker
  <2>4. \A v \in Worker : wq'[v] = <<>>
    BY <1>2, <1>3, <2>1
  <2> QED
    BY <1>1, <1>4, <1>5, <2>1, <2>3, <2>4 DEF CurInv, AwaitInv, SingleInFlight, HeldInv,
       LifeInv, PoolNeverInflates, InFlight
<1> QED  BY <1>6, <1>7

\* A worker executes and answers only the request in flight.
LEMMA WorkerInv ==
    ASSUME Inv, NEW w \in Worker, WorkerProgress(w) \/ WorkerFault(w)
    PROVE  Inv'
<1> USE DEF Inv, TypeOK
<1>0. UNCHANGED <<routerVars, frontVars>>
  BY DEF WorkerProgress, WorkerFault
<1>1. CASE WorkerBuilt(w)
  <2>1. /\ wstate[w] = "starting" /\ wstate' = [wstate EXCEPT ![w] = "idle"]
        /\ UNCHANGED <<hq, hopen, hreply, dstate, workers, next, wq, ran, rstate, cur>>
    BY <1>0, <1>1 DEF WorkerBuilt, routerVars
  <2>2. TypeOK'
    BY <1>0, <2>1 DEF PoolTypeOK, RouterTypeOK, WState, routerVars, frontVars
  <2>3. QueueInv'
    BY <2>1, QueueFrame DEF PoolTypeOK, Listening
  <2> QED
    BY <2>1, <2>2, <2>3, Zenon DEF CurInv, AwaitInv, SingleInFlight, HeldInv, LifeInv,
       PoolNeverInflates, InFlight
<1>2. CASE WorkerRecv(w)
  <2>1. /\ wq[w] # <<>> /\ wstate' = [wstate EXCEPT ![w] = "busy"]
        /\ UNCHANGED <<hq, hopen, hreply, dstate, workers, next, wq, rstate, cur>>
    BY <1>0, <1>2 DEF WorkerRecv, routerVars
  <2>2. ran' \in [Request -> Nat]
    BY <1>2 DEF WorkerRecv, PoolTypeOK
  <2>3. TypeOK'
    BY <1>0, <2>1, <2>2 DEF PoolTypeOK, RouterTypeOK, WState, routerVars, frontVars
  <2>4. QueueInv'
    BY <2>1 DEF QueueInv, PoolTypeOK, Listening
  <2> QED
    BY <2>1, <2>3, <2>4 DEF CurInv, AwaitInv, SingleInFlight, HeldInv, LifeInv,
       PoolNeverInflates, InFlight
<1>3. CASE HandlerReturns(w)
  <2>1. wstate[w] = "busy" /\ wq[w] # <<>>
    BY <1>3 DEF HandlerReturns, WorkerReply, QueueInv
  <2>2. wq[w] = <<cur>> /\ InFlight(cur) /\ hq = <<>>
        /\ \A v \in Worker \ {w} : wq[v] = <<>>
    BY <2>1, Zenon DEF SingleInFlight
  <2>3. cur \in Request
    BY <2>2 DEF InFlight, CurInv, RouterTypeOK
  <2>4. Head(wq[w]) = cur /\ Tail(wq[w]) = <<>>
    BY <2>2, <2>3, Singleton
  <2>5. /\ wstate' = [wstate EXCEPT ![w] = "idle"]
        /\ wq' = [wq EXCEPT ![w] = <<>>]
        /\ UNCHANGED <<hq, hopen, dstate, workers, next, ran, rstate, cur>>
    BY <1>0, <1>3, <2>4, Zenon DEF HandlerReturns, WorkerReply, routerVars
  <2>6. PICK result \in {"ok", "err"} : hreply' = [hreply EXCEPT ![cur] = result]
    BY <1>3, <2>4, Zenon DEF HandlerReturns, WorkerReply
  <2>7. TypeOK'
    <3>1. RouterTypeOK' /\ UNCHANGED <<client, main>>
      BY <1>0, <2>5 DEF RouterTypeOK, routerVars, frontVars
    <3>2. hreply' \in [Request -> HReply]
      BY <2>3, <2>6 DEF PoolTypeOK, HReply
    <3>3. wstate' \in [Worker -> WState] /\ wq' \in [Worker -> Seq(Request)]
      BY <2>5 DEF PoolTypeOK, WState
    <3>4. PoolTypeOK'
      BY <2>5, <3>2, <3>3, Zenon DEF PoolTypeOK
    <3> QED  BY <3>1, <3>4
  <2>8. (\A v \in Worker : wq'[v] = <<>>) /\ hreply'[cur] \in {"ok", "err"}
    BY <2>2, <2>3, <2>5, <2>6 DEF PoolTypeOK
  <2>9. QueueInv'
    <3>1. \A v \in Worker : wstate'[v] # "busy"
      BY <2>1, <2>2, <2>5 DEF QueueInv, PoolTypeOK
    <3> QED  BY <2>8, <3>1, Zenon DEF QueueInv
  <2> QED
    BY <2>2, <2>5, <2>7, <2>8, <2>9 DEF CurInv, AwaitInv, SingleInFlight, HeldInv,
       LifeInv, PoolNeverInflates, InFlight
<1>4. CASE WorkerFinishes(w)
  <2>1. /\ wstate[w] = "closed" /\ wstate' = [wstate EXCEPT ![w] = "finished"]
        /\ UNCHANGED <<hq, hopen, hreply, dstate, workers, next, wq, ran, rstate, cur>>
    BY <1>0, <1>4 DEF WorkerFinishes, routerVars
  <2>2. TypeOK'
    BY <1>0, <2>1 DEF PoolTypeOK, RouterTypeOK, WState, routerVars, frontVars
  <2>3. QueueInv'
    BY <2>1, QueueFrame DEF PoolTypeOK, Listening
  <2> QED
    BY <2>1, <2>2, <2>3, Zenon DEF CurInv, AwaitInv, SingleInFlight, HeldInv, LifeInv,
       PoolNeverInflates, InFlight
<1>5. CASE CloseWorker(w)
  BY <1>0, <1>5, CloseInv
<1> QED
  BY <1>1, <1>2, <1>3, <1>4, <1>5, Zenon DEF WorkerProgress, WorkerFault, WorkerBuildFails,
     WorkerPanics, WorkerTtl, WorkerChannelClosed

\* Every step of the pipeline preserves the invariant.
LEMMA NextInv == Inv /\ [Next]_vars => Inv'
<1> SUFFICES ASSUME Inv, [Next]_vars PROVE Inv'
  OBVIOUS
<1>1. CASE FrontendNext
  BY <1>1, FrontendInv
<1>2. CASE RouterNext
  BY <1>2, RouterInv
<1>3. CASE DispatcherNext
  BY <1>3, DispatcherInv
<1>4. CASE \E w \in Worker : WorkerProgress(w) \/ WorkerFault(w)
  BY <1>4, WorkerInv
<1>5. CASE UNCHANGED vars
  BY <1>5, Zenon DEF Inv, TypeOK, PoolTypeOK, RouterTypeOK, CurInv, AwaitInv, SingleInFlight,
     QueueInv, HeldInv, LifeInv, PoolNeverInflates, InFlight, Listening,
     vars, poolVars, routerVars, frontVars
<1> QED  BY <1>1, <1>2, <1>3, <1>4, <1>5 DEF Next

-----------------------------------------------------------------------------
(* The theorems.                                                           *)

\* The invariant holds in every reachable state.
LEMMA Invariance == Spec => []Inv
BY InitInv, NextInv, PTL DEF Spec

\* Every variable of router, dispatcher, workers and frontends keeps its type;
\* in particular a frontend is answered only with what dispatch can send.
THEOREM TypeCorrect == Spec => []TypeOK
<1>1. Inv => TypeOK
  BY DEF Inv
<1> QED  BY <1>1, Invariance, PTL

\* The serial router keeps at most one request in the handler channel and the
\* workers, in exactly one place, for any number of clients and workers.
THEOREM SerialPipeline == Spec => []SingleInFlight
<1>1. Inv => SingleInFlight
  BY DEF Inv
<1> QED  BY <1>1, Invariance, PTL

\* The inflation branch of dispatcher_loop is dead code: worker.max never makes
\* the pool larger than worker.min.
THEOREM MaxWorkersUnused == Spec => []PoolNeverInflates
<1>1. Inv => PoolNeverInflates
  BY DEF Inv
<1> QED  BY <1>1, Invariance, PTL

\* Whenever the router awaits a reply somebody alive holds its sender.
THEOREM ReplyNeverDangles == Spec => []NoLostReply
<1>1. Inv => NoLostReply
  <2> SUFFICES ASSUME Inv, InFlight(cur)
               PROVE  \/ dstate = "run" /\ cur \in Range(hq)
                      \/ \E w \in Worker : wstate[w] \in Listening /\ cur \in Range(wq[w])
    BY DEF NoLostReply
  <2>1. cur \in Request
    BY DEF Inv, InFlight, CurInv, TypeOK, RouterTypeOK
  <2>2. CASE hq # <<>>
    BY <2>1, <2>2, Singleton, Zenon DEF Inv, SingleInFlight, LifeInv, InFlight
  <2>3. CASE \E w \in Worker : wq[w] # <<>>
    BY <2>1, <2>3, Singleton, Zenon DEF Inv, SingleInFlight, QueueInv
  <2> QED  BY <2>2, <2>3, Zenon DEF Inv, HeldInv
<1> QED  BY <1>1, Invariance, PTL

\* The handler channel is open whenever the router sends to it.
THEOREM HandlerNeverGone == Spec => []DispatcherOutlivesRouter
<1>1. Inv => DispatcherOutlivesRouter
  BY DEF Inv, LifeInv, DispatcherOutlivesRouter, TypeOK, PoolTypeOK
<1> QED  BY <1>1, Invariance, PTL

-----------------------------------------------------------------------------
(* Refinement.  Router and worker pool implement SerialService: what the   *)
(* mapping needs besides the invariant above.                              *)

\* A request is accepted once: it is in the channel once, or dispatched.
AcceptedInv ==
    /\ \A i, j \in DOMAIN reqq : reqq[i] = reqq[j] => i = j
    /\ \A i \in DOMAIN reqq :
         reqq[i] # cur /\ client[reqq[i]] # "idle" /\ ran[reqq[i]] = 0
    /\ cur # NoRequest => client[cur] # "idle"
    /\ \A r \in Request : client[r] = "idle" => reply[r] = "none" /\ ran[r] = 0

\* Whether the handler of the dispatched request was started can be told from
\* the place of the request, and from its reply.
StartedInv ==
    /\ cur # NoRequest => Verdict[cur] = "handler"
    /\ rstate = "send" => ran[cur] = 0
    /\ rstate = "await" =>
         /\ hreply[cur] = "noworkers" => ran[cur] = 0
         /\ hreply[cur] \in {"ok", "err"} => ran[cur] = 1
         /\ hq # <<>> => ran[cur] = 0
         /\ \A w \in Worker : wq[w] # <<>> =>
              ran[cur] = IF wstate[w] = "busy" THEN 1 ELSE 0

RefInv == Inv /\ AcceptedInv /\ StartedInv

-----------------------------------------------------------------------------
(* Facts about sequences.                                                  *)

\* Taking the head of a line off and putting it back.
LEMMA HeadOfLine ==
    ASSUME NEW S, NEW x \in S, NEW q \in Seq(S)
    PROVE  /\ <<x>> \o q \in Seq(S) /\ <<x>> \o q # <<>>
           /\ Head(<<x>> \o q) = x /\ Tail(<<x>> \o q) = q
           /\ \A y \in S : Append(<<x>> \o q, y) = <<x>> \o Append(q, y)
           /\ q # <<>> => <<Head(q)>> \o Tail(q) = q
<1> DEFINE L == <<x>> \o q
<1>1. <<x>> \in Seq(S) /\ Len(<<x>>) = 1 /\ <<x>>[1] = x
  OBVIOUS
<1>2. /\ L \in Seq(S) /\ Len(L) = 1 + Len(q) /\ Len(q) \in Nat
      /\ \A i \in 1 .. 1 + Len(q) : L[i] = IF i <= 1 THEN <<x>>[i] ELSE q[i - 1]
  BY <1>1, ConcatIs
<1> HIDE DEF L
<1>3. L # <<>> /\ Head(L) = x
  BY <1>1, <1>2
<1>4. Tail(L) = q
  <2>1. /\ Tail(L) \in Seq(S) /\ Len(Tail(L)) = Len(q)
        /\ \A i \in 1 .. Len(q) : Tail(L)[i] = L[i + 1]
    BY <1>2, <1>3
  <2>2. \A i \in 1 .. Len(q) : Tail(L)[i] = q[i]
    BY <1>2, <2>1
  <2> QED  BY <2>1, <2>2, SameSeq
<1>5. ASSUME NEW y \in S PROVE Append(L, y) = <<x>> \o Append(q, y)
  <2>1. /\ Append(L, y) = L \o <<y>> /\ Append(q, y) = q \o <<y>> /\ <<y>> \in Seq(S)
    BY <1>2, AppendConcat
  <2>2. L \o <<y>> = <<x>> \o (q \o <<y>>)
    BY <1>1, <2>1, ConcatTwice DEF L
  <2> QED  BY <2>1, <2>2
<1>6. ASSUME q # <<>> PROVE <<Head(q)>> \o Tail(q) = q
  <2>1. /\ Head(q) \in S /\ Tail(q) \in Seq(S) /\ Len(Tail(q)) = Len(q) - 1
        /\ \A i \in 1 .. Len(Tail(q)) : Tail(q)[i] = q[i + 1]
        /\ Head(q) = q[1]
    BY <1>6
  <2> DEFINE M == <<Head(q)>> \o Tail(q)
  <2>2. <<Head(q)>> \in Seq(S) /\ Len(<<Head(q)>>) = 1 /\ <<Head(q)>>[1] = q[1]
    BY <2>1
  <2>3. /\ M \in Seq(S) /\ Len(M) = 1 + Len(Tail(q))
        /\ \A i \in 1 .. 1 + Len(Tail(q)) :
             M[i] = IF i <= 1 THEN <<Head(q)>>[i] ELSE Tail(q)[i - 1]
    BY <2>1, <2>2, ConcatIs
  <2> HIDE DEF M
  <2>4. Len(M) = Len(q) /\ \A i \in 1 .. Len(M) : M[i] = q[i]
    BY <1>2, <2>1, <2>2, <2>3
  <2>5. M = q
    BY <2>3, <2>4, SameSeq
  <2> QED  BY <2>5 DEF M
<1> QED  BY <1>2, <1>3, <1>4, <1>5, <1>6 DEF L

-----------------------------------------------------------------------------
(* The invariant.                                                          *)

LEMMA RefInit == Init => RefInv
<1> SUFFICES ASSUME Init PROVE RefInv
  OBVIOUS
<1>1. AcceptedInv
  BY DEF Init, RouterInit, PoolInit, AcceptedInv
<1>2. StartedInv
  BY DEF Init, RouterInit, StartedInv
<1> QED  BY <1>1, <1>2, InitInv DEF RefInv

\* Types that the steps below use.
LEMMA RefTypes ==
    ASSUME Inv
    PROVE  /\ reqq \in Seq(Request) /\ Len(reqq) \in Nat /\ DOMAIN reqq = 1 .. Len(reqq)
           /\ \A i \in DOMAIN reqq : reqq[i] \in Request
           /\ ran \in [Request -> Nat] /\ reply \in [Request -> Reply]
           /\ hreply \in [Request -> HReply] /\ wstate \in [Worker -> WState]
           /\ client \in [Request -> {"idle", "waiting", "done", "gave_up", "closed"}]
           /\ cur # NoRequest => cur \in Request
           /\ NoRequest \notin Request
           /\ wq \in [Worker -> Seq(Request)]
<1>1. reqq \in Seq(Request)
  BY DEF Inv, TypeOK, RouterTypeOK
<1>2. Len(reqq) \in Nat /\ DOMAIN reqq = 1 .. Len(reqq) /\ \A i \in DOMAIN reqq : reqq[i] \in Request
  BY <1>1
<1>3. /\ ran \in [Request -> Nat] /\ hreply \in [Request -> HReply]
      /\ wstate \in [Worker -> WState] /\ wq \in [Worker -> Seq(Request)]
  BY Zenon DEF Inv, TypeOK, PoolTypeOK
<1>4. /\ reply \in [Request -> Reply] /\ cur \in Request \cup {NoRequest}
      /\ client \in [Request -> {"idle", "waiting", "done", "gave_up", "closed"}]
  BY Zenon DEF Inv, TypeOK, RouterTypeOK
<1>5. NoRequest \notin Request
  BY RouterAssumption, Zenon DEF RouterAssumption
<1> QED  BY <1>1, <1>2, <1>3, <1>4, <1>5, Zenon

\* A frontend submits a request it has not submitted before.
LEMMA FrontendRef ==
    ASSUME RefInv, FrontendNext
    PROVE  (AcceptedInv /\ StartedInv)'
<1> USE DEF RefInv
<1>0. UNCHANGED poolVars /\ UNCHANGED <<rstate, cur, reply>>
  BY DEF FrontendNext, Submit, Receive, TimesOut, Hangup, Sigint, Exit, routerVars
<1>1. StartedInv'
  BY <1>0, Zenon DEF StartedInv, poolVars
<1>2. ASSUME NEW r \in Request, Submit(r) PROVE AcceptedInv'
  <2>1. /\ client[r] = "idle" /\ reqq' = Append(reqq, r)
        /\ client' = [client EXCEPT ![r] = "waiting"] /\ UNCHANGED <<cur, ran, reply>>
    BY <1>0, <1>2 DEF Submit, poolVars
  <2>2. DOMAIN reqq' = 1 .. Len(reqq) + 1 /\ reqq'[Len(reqq) + 1] = r
        /\ \A i \in DOMAIN reqq : reqq'[i] = reqq[i]
    <3>1. reqq \in Seq(Request) /\ reqq' = Append(reqq, r)
      BY <2>1, RefTypes, Zenon
    <3>2. /\ DOMAIN Append(reqq, r) = 1 .. Len(reqq) + 1 /\ Append(reqq, r)[Len(reqq) + 1] = r
          /\ \A i \in DOMAIN reqq : Append(reqq, r)[i] = reqq[i]
      BY <3>1, AppendedIs
    <3> QED  BY <3>1, <3>2, Zenon
  <2>3. \A i \in DOMAIN reqq : reqq[i] # r
    BY <2>1 DEF AcceptedInv
  <2>4. \A q \in Request : client'[q] = IF q = r THEN "waiting" ELSE client[q]
    BY <2>1, RefTypes
  <2>5. \A i \in DOMAIN reqq' : i \in DOMAIN reqq \/ i = Len(reqq) + 1
    BY <2>2, RefTypes
  <2>6. \A i, j \in DOMAIN reqq' : reqq'[i] = reqq'[j] => i = j
    BY <2>2, <2>3, <2>5 DEF AcceptedInv
  <2>7. r # cur /\ ran[r] = 0
    BY <2>1, RefTypes DEF AcceptedInv
  <2>8. \A i \in DOMAIN reqq' :
           reqq'[i] # cur /\ client'[reqq'[i]] # "idle" /\ ran[reqq'[i]] = 0
    <3> SUFFICES ASSUME NEW i \in DOMAIN reqq'
                 PROVE  reqq'[i] # cur /\ client'[reqq'[i]] # "idle" /\ ran[reqq'[i]] = 0
      OBVIOUS
    <3>1. CASE i = Len(reqq) + 1
      BY <2>2, <2>4, <2>7, <3>1
    <3>2. CASE i \in DOMAIN reqq
      <4>1. reqq'[i] = reqq[i] /\ reqq[i] \in Request
        BY <2>2, <3>2, RefTypes
      <4>2. reqq[i] # cur /\ client[reqq[i]] # "idle" /\ ran[reqq[i]] = 0
        BY <3>2 DEF AcceptedInv
      <4> QED  BY <2>4, <4>1, <4>2
    <3> QED  BY <2>5, <3>1, <3>2
  <2>9. /\ cur # NoRequest => client'[cur] # "idle"
        /\ \A q \in Request : client'[q] = "idle" => reply[q] = "none" /\ ran[q] = 0
    BY <2>4, RefTypes DEF AcceptedInv
  <2> QED  BY <2>1, <2>6, <2>8, <2>9, Zenon DEF AcceptedInv
<1>3. ASSUME UNCHANGED reqq, \A q \in Request : client'[q] = "idle" => client[q] = "idle"
      PROVE  AcceptedInv'
  <2>1. UNCHANGED <<cur, reply, ran>>
    BY <1>0 DEF poolVars
  <2>2. \A i \in DOMAIN reqq : client'[reqq[i]] # "idle"
    BY <1>3, RefTypes DEF AcceptedInv
  <2>3. cur # NoRequest => client'[cur] # "idle"
    BY <1>3, RefTypes DEF AcceptedInv
  <2>4. \A q \in Request : client'[q] = "idle" => reply[q] = "none" /\ ran[q] = 0
    BY <1>3 DEF AcceptedInv
  <2> QED  BY <1>3, <2>1, <2>2, <2>3, <2>4 DEF AcceptedInv
<1>4. ASSUME NEW r \in Request, Receive(r) \/ TimesOut(r) \/ Hangup(r) PROVE AcceptedInv'
  <2>1. /\ UNCHANGED reqq
        /\ \E v \in {"done", "gave_up", "closed"} : client' = [client EXCEPT ![r] = v]
    BY <1>4 DEF Receive, TimesOut, Hangup, routerVars
  <2>2. \A q \in Request : client'[q] = "idle" => client[q] = "idle"
    BY <2>1, RefTypes
  <2> QED  BY <1>3, <2>1, <2>2
<1>5. ASSUME Sigint \/ Exit PROVE AcceptedInv'
  <2>1. UNCHANGED reqq /\ \A q \in Request : client'[q] = "closed" \/ client'[q] = client[q]
    BY <1>5 DEF Sigint, Exit, routerVars
  <2> QED  BY <1>3, <2>1
<1>6. AcceptedInv'
  BY <1>2, <1>4, <1>5 DEF FrontendNext
<1> QED  BY <1>1, <1>6

\* The router takes the oldest request.
LEMMA RouterRef ==
    ASSUME RefInv, RouterNext
    PROVE  (AcceptedInv /\ StartedInv)'
<1> USE DEF RefInv
<1>0. UNCHANGED <<client, ran, wq, wstate>>
  BY DEF RouterNext, RouterRejects, RouterMatches, RouterSends, RouterForwards,
         RouterStops, frontVars, poolVars
<1> DEFINE r == Head(reqq)
<1>1. ASSUME reqq # <<>>, reqq' = Tail(reqq)
      PROVE  /\ r \in Request /\ 1 \in DOMAIN reqq /\ r = reqq[1]
             /\ DOMAIN reqq' = 1 .. Len(reqq) - 1
             /\ \A i \in DOMAIN reqq' : i + 1 \in DOMAIN reqq /\ reqq'[i] = reqq[i + 1]
             /\ \A i, j \in DOMAIN reqq' : reqq'[i] = reqq'[j] => i = j
             /\ \A i \in DOMAIN reqq' : reqq'[i] # r
             /\ client[r] # "idle" /\ ran[r] = 0
  <2>1. /\ r \in Request /\ 1 \in DOMAIN reqq /\ r = reqq[1]
        /\ DOMAIN reqq' = 1 .. Len(reqq) - 1
        /\ \A i \in DOMAIN reqq' : i + 1 \in DOMAIN reqq /\ reqq'[i] = reqq[i + 1]
    BY <1>1, RefTypes
  <2>2. \A i, j \in DOMAIN reqq' : reqq'[i] = reqq'[j] => i = j
    <3> SUFFICES ASSUME NEW i \in DOMAIN reqq', NEW j \in DOMAIN reqq', reqq'[i] = reqq'[j]
                 PROVE  i = j
      BY Zenon
    <3>0. i + 1 \in DOMAIN reqq /\ j + 1 \in DOMAIN reqq /\ reqq[i + 1] = reqq[j + 1]
      BY <2>1, Zenon
    <3>1. i + 1 = j + 1
      BY <3>0, Zenon DEF AcceptedInv
    <3>2. i \in 1 .. Len(reqq) - 1 /\ j \in 1 .. Len(reqq) - 1 /\ Len(reqq) \in Nat
      BY <2>1, RefTypes, Zenon
    <3> QED  BY <3>1, <3>2
  <2>3. \A i \in DOMAIN reqq' : reqq'[i] # r
    <3> SUFFICES ASSUME NEW i \in DOMAIN reqq' PROVE reqq'[i] # r
      OBVIOUS
    <3>1. i + 1 \in DOMAIN reqq /\ i + 1 # 1 /\ reqq'[i] = reqq[i + 1]
      <4>1. i \in 1 .. Len(reqq) - 1 /\ Len(reqq) \in Nat
        BY <2>1, RefTypes, Zenon
      <4>2. i + 1 # 1
        BY <4>1
      <4> QED  BY <2>1, <4>2, Zenon
    <3> QED  BY <2>1, <3>1 DEF AcceptedInv
  <2>4. client[r] # "idle" /\ ran[r] = 0
    BY <2>1 DEF AcceptedInv
  <2> QED  BY <2>1, <2>2, <2>3, <2>4
<1>a. \A i \in DOMAIN reqq : reqq[i] # cur /\ client[reqq[i]] # "idle" /\ ran[reqq[i]] = 0
  BY Zenon DEF AcceptedInv
<1>2. CASE RouterRejects
  <2>1. /\ reqq # <<>> /\ reqq' = Tail(reqq) /\ UNCHANGED <<rstate, cur, hreply, hq>>
        /\ reply' = [reply EXCEPT ![r] = Verdict[r]]
    BY <1>2 DEF RouterRejects, poolVars
  <2>a. /\ r \in Request /\ client[r] # "idle"
        /\ \A i, j \in DOMAIN reqq' : reqq'[i] = reqq'[j] => i = j
        /\ \A i \in DOMAIN reqq' : i + 1 \in DOMAIN reqq /\ reqq'[i] = reqq[i + 1]
    BY <1>1, <2>1, Zenon
  <2>b. ASSUME NEW i \in DOMAIN reqq'
        PROVE  reqq'[i] # cur /\ client[reqq'[i]] # "idle" /\ ran[reqq'[i]] = 0
    <3>1. i + 1 \in DOMAIN reqq /\ reqq'[i] = reqq[i + 1]
      BY <2>a, Zenon
    <3> QED  BY <1>a, <3>1, Zenon
  <2>c. \A q \in Request : client[q] = "idle" => reply'[q] = "none" /\ ran[q] = 0
    <3>1. \A q \in Request : q # r => reply'[q] = reply[q]
      BY <2>1, RefTypes, Zenon
    <3> QED  BY <2>a, <3>1, Zenon DEF AcceptedInv
  <2>d. (cur # NoRequest => client[cur] # "idle") /\ client' = client /\ ran' = ran /\ cur' = cur
    BY <1>0, <2>1, Zenon DEF AcceptedInv
  <2>2. AcceptedInv'
    BY <2>a, <2>b, <2>c, <2>d, Zenon DEF AcceptedInv
  <2>3. StartedInv'
    BY <1>0, <2>1, Zenon DEF StartedInv
  <2> QED  BY <2>2, <2>3
<1>3. CASE RouterMatches
  <2>1. /\ reqq # <<>> /\ reqq' = Tail(reqq) /\ cur' = r /\ rstate' = "send"
        /\ UNCHANGED reply /\ Verdict[r] = "handler"
    BY <1>3 DEF RouterMatches
  <2>a. /\ r \in Request /\ client[r] # "idle"
        /\ \A i, j \in DOMAIN reqq' : reqq'[i] = reqq'[j] => i = j
        /\ \A i \in DOMAIN reqq' : i + 1 \in DOMAIN reqq /\ reqq'[i] = reqq[i + 1]
        /\ \A i \in DOMAIN reqq' : reqq'[i] # r
    BY <1>1, <2>1, Zenon
  <2>b. ASSUME NEW i \in DOMAIN reqq'
        PROVE  client[reqq'[i]] # "idle" /\ ran[reqq'[i]] = 0
    <3>1. i + 1 \in DOMAIN reqq /\ reqq'[i] = reqq[i + 1]
      BY <2>a, Zenon
    <3> QED  BY <1>a, <3>1, Zenon
  <2>c. /\ client' = client /\ ran' = ran /\ reply' = reply /\ cur' = r
        /\ \A q \in Request : client[q] = "idle" => reply[q] = "none" /\ ran[q] = 0
    BY <1>0, <2>1, Zenon DEF AcceptedInv
  <2>2. AcceptedInv'
    BY <2>a, <2>b, <2>c, Zenon DEF AcceptedInv
  <2>3. StartedInv'
    BY <1>0, <1>1, <2>1, Zenon DEF StartedInv
  <2> QED  BY <2>2, <2>3
<1>4. CASE RouterSends
  <2>1. /\ rstate = "send" /\ rstate' = "await" /\ UNCHANGED <<reqq, cur, reply>>
        /\ hreply' = [hreply EXCEPT ![cur] = "pending"] /\ cur \in Request
    BY <1>4, RefTypes DEF RouterSends, Inv, CurInv
  <2>2. hreply'[cur] = "pending" /\ \A w \in Worker : wq[w] = <<>>
    BY <2>1, RefTypes, IdleEmpty
  <2>3. AcceptedInv'
    BY <1>0, <2>1 DEF AcceptedInv
  <2>4. StartedInv'
    BY <1>0, <2>1, <2>2 DEF StartedInv
  <2> QED  BY <2>3, <2>4
<1>5. CASE RouterForwards
  <2>1. /\ cur' = NoRequest /\ rstate' = "recv" /\ UNCHANGED reqq /\ cur \in Request
        /\ \A q \in Request : q # cur => reply'[q] = reply[q]
    BY <1>5, RefTypes DEF RouterForwards, Inv, CurInv
  <2>2. AcceptedInv'
    BY <1>0, <2>1, RefTypes DEF AcceptedInv
  <2>3. StartedInv'
    BY <2>1, Zenon DEF StartedInv
  <2> QED  BY <2>2, <2>3
<1>6. CASE RouterStops(SenderLeft)
  BY <1>0, <1>6 DEF RouterStops, AcceptedInv, StartedInv
<1> QED  BY <1>2, <1>3, <1>4, <1>5, <1>6 DEF RouterNext

\* The dispatcher moves the request to a worker that is not busy, or answers it
\* without running it.
LEMMA DispatcherRef ==
    ASSUME RefInv, DispatcherNext
    PROVE  (AcceptedInv /\ StartedInv)'
<1> USE DEF RefInv
<1>0. UNCHANGED <<reqq, rstate, cur, reply, client, ran>>
  BY Zenon DEF DispatcherNext, DispatchNoWorkers, DispatchSend, DispatchDead, CleanupTick,
         DispatcherStops, DispatcherDrops, routerVars, frontVars
<1>1. AcceptedInv'
  BY <1>0 DEF AcceptedInv
<1>2. ASSUME hq # <<>>
      PROVE  /\ ran[cur] = 0 /\ rstate = "await" /\ hreply[cur] = "pending"
             /\ \A w \in Worker : wq[w] = <<>> /\ wstate[w] # "busy"
  BY <1>2, NoInflation, Zenon DEF StartedInv, InFlight, Inv, QueueInv
<1>3. CASE DispatchNoWorkers \/ DispatchDead
  <2>1. hq # <<>> /\ hq' = Tail(hq) /\ UNCHANGED wq
    BY <1>3 DEF DispatchNoWorkers, DispatchDead
  <2>2. hq' = <<>> /\ Head(hq) = cur /\ cur \in Request
    BY <2>1, NoInflation, Zenon
  <2>3. hreply'[cur] \in {"noworkers", "dropped"}
    BY <1>3, <2>2, RefTypes DEF DispatchNoWorkers, DispatchDead
  <2>4. StartedInv'
    BY <1>0, <1>2, <2>1, <2>2, <2>3 DEF StartedInv
  <2> QED  BY <1>1, <2>4
<1>4. CASE DispatchSend
  <2>1. hq # <<>> /\ hq' = Tail(hq) /\ UNCHANGED hreply /\ wstate' = StateAtDispatch
    BY <1>4 DEF DispatchSend
  <2>2. hq' = <<>> /\ wstate' = wstate
    BY <2>1, NoInflation
  <2>3. StartedInv'
    BY <1>0, <1>2, <2>1, <2>2 DEF StartedInv
  <2> QED  BY <1>1, <2>3
<1>5. CASE CleanupTick
  <2>1. \A w \in Worker : wstate'[w] = "busy" <=> wstate[w] = "busy"
    BY <1>5, TickParts
  <2>2. UNCHANGED <<hq, hreply, wq>>
    BY <1>5 DEF CleanupTick
  <2>3. StartedInv'
    BY <1>0, <2>1, <2>2 DEF StartedInv
  <2> QED  BY <1>1, <2>3
<1>6. CASE DispatcherStops \/ DispatcherDrops
  <2>1. StartedInv'
    BY <1>0, <1>6 DEF DispatcherStops, DispatcherDrops, StartedInv
  <2> QED  BY <1>1, <2>1
<1> QED  BY <1>3, <1>4, <1>5, <1>6 DEF DispatcherNext

\* What is known of a worker that has something in its channel.
LEMMA Holder ==
    ASSUME RefInv, NEW w \in Worker, wq[w] # <<>>
    PROVE  /\ rstate = "await" /\ hreply[cur] = "pending" /\ cur \in Request
           /\ wq[w] = <<cur>> /\ Head(wq[w]) = cur /\ Tail(wq[w]) = <<>>
           /\ Range(wq[w]) = {cur} /\ hq = <<>>
           /\ \A v \in Worker \ {w} : wq[v] = <<>>
           /\ ran[cur] = IF wstate[w] = "busy" THEN 1 ELSE 0
<1>1. /\ wq[w] = <<cur>> /\ InFlight(cur) /\ hq = <<>>
      /\ \A v \in Worker \ {w} : wq[v] = <<>>
  BY DEF RefInv, Inv, SingleInFlight
<1>2. cur \in Request
  BY <1>1, RefTypes DEF InFlight, RefInv, Inv, CurInv
<1>3. ran[cur] = IF wstate[w] = "busy" THEN 1 ELSE 0
  BY <1>1 DEF InFlight, RefInv, StartedInv
<1> QED  BY <1>1, <1>2, <1>3, Singleton DEF InFlight

\* A worker that ends drops the reply of the request it holds.
LEMMA CloseRef ==
    ASSUME RefInv, NEW w \in Worker, CloseWorker(w), UNCHANGED <<routerVars, frontVars>>
    PROVE  (AcceptedInv /\ StartedInv)'
<1>0. /\ UNCHANGED <<reqq, rstate, cur, reply, client, ran, hq>>
      /\ wstate' = [wstate EXCEPT ![w] = "closed"] /\ wq' = [wq EXCEPT ![w] = <<>>]
      /\ hreply' = [r \in Request |-> IF r \in Range(wq[w]) THEN "dropped" ELSE hreply[r]]
  BY DEF CloseWorker, routerVars, frontVars
<1>1. AcceptedInv'
  BY <1>0 DEF RefInv, AcceptedInv
<1>2. /\ wq'[w] = <<>>
      /\ \A v \in Worker : v # w => wq'[v] = wq[v] /\ wstate'[v] = wstate[v]
  BY <1>0, RefTypes DEF RefInv
<1>3. rstate = "await" => cur \in Request
  BY RefTypes DEF RefInv, Inv, CurInv
<1>4. CASE wq[w] # <<>>
  <2>1. hreply'[cur] = "dropped" /\ hq = <<>> /\ \A v \in Worker : wq'[v] = <<>>
    BY <1>0, <1>2, <1>4, Holder
  <2>2. StartedInv'
    BY <1>0, <2>1, Holder, <1>4, Zenon DEF RefInv, StartedInv
  <2> QED  BY <1>1, <2>2
<1>5. CASE wq[w] = <<>>
  <2>1. Range(wq[w]) = {}
    BY <1>5 DEF Range
  <2>2. rstate = "await" => hreply'[cur] = hreply[cur]
    BY <1>0, <1>3, <2>1
  <2>3. StartedInv'
    BY <1>0, <1>2, <2>2 DEF RefInv, StartedInv
  <2> QED  BY <1>1, <2>3
<1> QED  BY <1>4, <1>5

\* A worker starts the handler of the request it holds, and answers it after that.
LEMMA WorkerRef ==
    ASSUME RefInv, NEW w \in Worker, WorkerProgress(w) \/ WorkerFault(w)
    PROVE  (AcceptedInv /\ StartedInv)'
<1>0. UNCHANGED <<routerVars, frontVars>> /\ UNCHANGED <<reqq, rstate, cur, reply, client>>
  BY DEF WorkerProgress, WorkerFault, routerVars, frontVars
<1>1. CASE WorkerBuilt(w) \/ WorkerFinishes(w)
  <2>1. /\ UNCHANGED <<hq, hreply, wq, ran>>
        /\ \A v \in Worker : wstate'[v] = "busy" <=> wstate[v] = "busy"
    BY <1>1, RefTypes DEF WorkerBuilt, WorkerFinishes, RefInv
  <2>2. AcceptedInv'
    BY <1>0, <2>1 DEF RefInv, AcceptedInv
  <2>3. StartedInv'
    BY <1>0, <2>1 DEF RefInv, StartedInv
  <2> QED  BY <2>2, <2>3
<1>2. CASE CloseWorker(w)
  BY <1>0, <1>2, CloseRef
<1>3. CASE WorkerRecv(w)
  <2>1. /\ wq[w] # <<>> /\ wstate[w] = "idle" /\ UNCHANGED <<hq, hreply, wq>>
        /\ wstate' = [wstate EXCEPT ![w] = "busy"]
        /\ ran' = [ran EXCEPT ![Head(wq[w])] = @ + 1]
    BY <1>3 DEF WorkerRecv
  <2>2. wstate'[w] = "busy"
    BY <2>1, RefTypes DEF RefInv
  <2>3. ran'[cur] = 1 /\ \A q \in Request : q # cur => ran'[q] = ran[q]
    <3>1. Head(wq[w]) = cur /\ cur \in Request /\ ran[cur] = 0
      BY <2>1, Holder, Zenon
    <3>2. ran \in [Request -> Nat]
      BY RefTypes DEF RefInv
    <3>3. ran' = [ran EXCEPT ![cur] = ran[cur] + 1]
      BY <2>1, <3>1, Zenon
    <3> QED  BY <3>1, <3>2, <3>3
  <2>4. AcceptedInv'
    <3>1. \A i \in DOMAIN reqq : ran'[reqq[i]] = 0
      BY <2>3, RefTypes DEF RefInv, AcceptedInv
    <3>2. \A r \in Request : client[r] = "idle" => reply[r] = "none" /\ ran'[r] = 0
      BY <2>1, <2>3, Holder, RefTypes, Zenon DEF RefInv, AcceptedInv
    <3> QED  BY <1>0, <3>1, <3>2 DEF RefInv, AcceptedInv
  <2>5. StartedInv'
    <3>1. Verdict[cur] = "handler"
      BY <2>1, Holder, RefTypes, Zenon DEF RefInv, StartedInv
    <3>2. \A v \in Worker : wq'[v] # <<>> => v = w
      BY <2>1, Holder, Zenon
    <3> QED  BY <1>0, <2>1, <2>2, <2>3, <3>1, <3>2, Holder, Zenon DEF StartedInv
  <2> QED  BY <2>4, <2>5
<1>4. CASE WorkerReply(w)
  <2>1. /\ wstate[w] = "busy" /\ UNCHANGED <<hq, ran>> /\ wq' = [wq EXCEPT ![w] = Tail(@)]
        /\ \E result \in {"ok", "err"} : hreply' = [hreply EXCEPT ![Head(wq[w])] = result]
    BY <1>4, Zenon DEF WorkerReply
  <2>2. wq[w] # <<>>
    BY <2>1, Zenon DEF RefInv, Inv, QueueInv
  <2>3. hreply'[cur] \in {"ok", "err"} /\ ran[cur] = 1
    BY <2>1, <2>2, Holder, RefTypes DEF RefInv
  <2>4. \A v \in Worker : wq'[v] = <<>>
    BY <2>1, <2>2, Holder, RefTypes DEF RefInv
  <2>5. AcceptedInv'
    BY <1>0, <2>1 DEF RefInv, AcceptedInv
  <2>6. StartedInv'
    BY <1>0, <2>1, <2>2, <2>3, <2>4, Holder, Zenon DEF RefInv, StartedInv
  <2> QED  BY <2>5, <2>6
<1> QED  BY <1>1, <1>2, <1>3, <1>4, Zenon DEF WorkerProgress, WorkerFault, HandlerReturns,
            WorkerTtl, WorkerChannelClosed, WorkerBuildFails, WorkerPanics

\* Every step keeps the invariant.
LEMMA RefNext == RefInv /\ [Next]_vars => RefInv'
<1> SUFFICES ASSUME RefInv, [Next]_vars PROVE RefInv'
  OBVIOUS
<1>1. Inv'
  BY NextInv DEF RefInv
<1>2. CASE UNCHANGED vars
  <2>1. (AcceptedInv /\ StartedInv)'
    BY <1>2, Zenon DEF RefInv, AcceptedInv, StartedInv, vars, routerVars, poolVars, frontVars
  <2> QED  BY <1>1, <2>1 DEF RefInv
<1>3. CASE FrontendNext
  BY <1>1, <1>3, FrontendRef DEF RefInv
<1>4. CASE RouterNext
  BY <1>1, <1>4, RouterRef DEF RefInv
<1>5. CASE DispatcherNext
  BY <1>1, <1>5, DispatcherRef DEF RefInv
<1>6. CASE \E w \in Worker : WorkerProgress(w) \/ WorkerFault(w)
  BY <1>1, <1>6, WorkerRef DEF RefInv
<1> QED  BY <1>2, <1>3, <1>4, <1>5, <1>6 DEF Next

-----------------------------------------------------------------------------
(* The steps.                                                              *)

\* The line of the service: the dispatched request, then the channel.
Line == (IF cur = NoRequest THEN <<>> ELSE <<cur>>) \o reqq

LEMMA LineIs ==
    ASSUME RefInv
    PROVE  /\ cur = NoRequest => Line = reqq
           /\ cur # NoRequest =>
                /\ Line # <<>> /\ Head(Line) = cur /\ Tail(Line) = reqq
                /\ \A r \in Request : Append(Line, r) = <<cur>> \o Append(reqq, r)
<1>1. reqq \in Seq(Request)
  BY RefTypes DEF RefInv
<1>2. ASSUME cur = NoRequest PROVE Line = reqq
  BY <1>1, <1>2, ConcatEmpty DEF Line
<1>3. ASSUME cur # NoRequest
      PROVE  /\ Line # <<>> /\ Head(Line) = cur /\ Tail(Line) = reqq
             /\ \A r \in Request : Append(Line, r) = <<cur>> \o Append(reqq, r)
  <2>0. cur \in Request
    BY <1>3, RefTypes DEF RefInv
  <2>1. Line = <<cur>> \o reqq
    BY <1>3 DEF Line
  <2>2. /\ <<cur>> \o reqq # <<>> /\ Head(<<cur>> \o reqq) = cur /\ Tail(<<cur>> \o reqq) = reqq
        /\ \A r \in Request : Append(<<cur>> \o reqq, r) = <<cur>> \o Append(reqq, r)
    <3>1. \A x \in Request, q \in Seq(Request) :
             /\ <<x>> \o q # <<>> /\ Head(<<x>> \o q) = x /\ Tail(<<x>> \o q) = q
             /\ \A r \in Request : Append(<<x>> \o q, r) = <<x>> \o Append(q, r)
      BY HeadOfLine
    <3> QED  BY <1>1, <2>0, <3>1, Zenon
  <2> QED  BY <2>1, <2>2, Zenon
<1> QED  BY <1>2, <1>3

\* Nobody is in the line who has not submitted.
LEMMA InLine ==
    ASSUME RefInv, NEW r \in Request, client[r] = "idle"
    PROVE  r \notin Range(Line)
<1>0. reqq \in Seq(Request)
  BY RefTypes DEF RefInv
<1>1. reqq \in Seq(Request) /\ r \notin Range(reqq)
  BY <1>0 DEF RefInv, AcceptedInv, Range
<1>2. CASE cur = NoRequest
  BY <1>1, <1>2, LineIs
<1>3. CASE cur # NoRequest
  <2>1. cur \in Request /\ Line = <<cur>> \o reqq /\ r # cur
    BY <1>3, RefTypes, Zenon DEF RefInv, AcceptedInv, Line
  <2>2. /\ Len(Line) = 1 + Len(reqq) /\ Line \in Seq(Request) /\ Len(reqq) \in Nat
        /\ Line[1] = cur /\ \A k \in 1 .. Len(reqq) : Line[1 + k] = reqq[k]
    <3> DEFINE h == <<cur>>
    <3>1. h \in Seq(Request) /\ Len(h) = 1 /\ Line = h \o reqq
      BY <2>1, Singleton, Zenon
    <3>2. h[1] = cur /\ 1 \in 1 .. 1
      OBVIOUS
    <3>3. Len(reqq) \in Nat
      BY <1>0
    <3> HIDE DEF h
    <3>4. /\ h \o reqq \in Seq(Request) /\ Len(h \o reqq) = Len(h) + Len(reqq)
          /\ \A k \in 1 .. Len(h) : (h \o reqq)[k] = h[k]
          /\ \A k \in 1 .. Len(reqq) : (h \o reqq)[Len(h) + k] = reqq[k]
      <4>1. h \in Seq(Request)
        BY <3>1, Zenon
      <4> QED  BY <1>0, <4>1, ConcatIs
    <3>5. Line \in Seq(Request) /\ Len(Line) = 1 + Len(reqq)
      BY <3>1, <3>4, Zenon
    <3>6. Line[1] = cur
      BY <3>1, <3>2, <3>4, Zenon
    <3>7. \A k \in 1 .. Len(reqq) : Line[1 + k] = reqq[k]
      BY <3>1, <3>4, Zenon
    <3> QED  BY <3>3, <3>5, <3>6, <3>7, Zenon
  <2>3. ASSUME NEW i \in DOMAIN Line PROVE Line[i] # r
    <3> DEFINE k == i - 1
    <3>1. i = 1 \/ (k \in 1 .. Len(reqq) /\ 1 + k = i)
      <4>1. i \in 1 .. 1 + Len(reqq)
        BY <2>2
      <4> QED  BY <2>2, <4>1
    <3>2. DOMAIN reqq = 1 .. Len(reqq)
      BY <1>0
    <3> HIDE DEF k
    <3>3. CASE i = 1
      BY <2>1, <2>2, <3>3, Zenon
    <3>4. CASE k \in 1 .. Len(reqq) /\ 1 + k = i
      <4>1. Line[i] = reqq[k] /\ k \in DOMAIN reqq
        BY <2>2, <3>2, <3>4, Zenon
      <4> QED  BY <1>1, <4>1, Zenon DEF Range
    <3> QED  BY <3>1, <3>3, <3>4, Zenon
  <2> QED  BY <2>3 DEF Range
<1> QED  BY <1>2, <1>3

\* Submitting is joining the line.
LEMMA SubmitMaps ==
    ASSUME RefInv, NEW r \in Request, Submit(r)
    PROVE  Service!Accept(r)
<1>1. /\ client[r] = "idle" /\ reqq' = Append(reqq, r) /\ UNCHANGED <<cur, reply, ran>>
  BY DEF Submit, poolVars
<1>2. r \notin Range(Line) /\ reply[r] = "none"
  BY <1>1, InLine DEF RefInv, AcceptedInv
<1>3. Line' = Append(Line, r)
  <2>1. CASE cur = NoRequest
    <3>1. Append(reqq, r) \in Seq(Request)
      BY RefTypes DEF RefInv
    <3>2. Line' = Append(reqq, r)
      BY <1>1, <2>1, <3>1, ConcatEmpty DEF Line
    <3> QED  BY <2>1, <3>2, LineIs
  <2>2. CASE cur # NoRequest
    BY <1>1, <2>2, LineIs, Zenon DEF Line
  <2> QED  BY <2>1, <2>2
<1> QED  BY <1>1, <1>2, <1>3 DEF Service!Accept, Service!Range, Range, Line

\* Rejecting answers the head of the line, dispatching leaves the line as it is,
\* and forwarding the reply answers truthfully.
LEMMA RouterMaps ==
    ASSUME RefInv, RouterNext
    PROVE  Service!Answer \/ UNCHANGED <<Line, reply, ran>>
<1>0. UNCHANGED ran /\ reqq \in Seq(Request)
  BY RefTypes DEF RouterNext, RouterRejects, RouterMatches, RouterSends, RouterForwards,
         RouterStops, poolVars, RefInv
<1>1. CASE RouterRejects
  <2>1. /\ cur = NoRequest /\ cur' = cur /\ reqq # <<>> /\ reqq' = Tail(reqq)
        /\ Verdict[Head(reqq)] # "handler"
        /\ reply' = [reply EXCEPT ![Head(reqq)] = Verdict[Head(reqq)]]
    BY <1>1 DEF RouterRejects, RefInv, Inv, CurInv
  <2>2. Line = reqq /\ Line' = Tail(reqq)
    <3>1. Tail(reqq) \in Seq(Request)
      BY <1>0, <2>1
    <3> QED  BY <2>1, <3>1, LineIs, ConcatEmpty DEF Line
  <2>3. Verdict[Head(reqq)] \in Service!Truthful(Head(reqq), ran[Head(reqq)])
    BY <2>1 DEF Service!Truthful
  <2> QED  BY <1>0, <2>1, <2>2, <2>3, Zenon DEF Service!Answer, Line
<1>2. CASE RouterMatches
  <2>1. /\ cur = NoRequest /\ cur' = Head(reqq) /\ reqq # <<>> /\ reqq' = Tail(reqq)
        /\ UNCHANGED reply
    BY <1>2 DEF RouterMatches, RefInv, Inv, CurInv
  <2>2. Head(reqq) \in Request /\ cur' # NoRequest
    BY <1>0, <2>1, RefTypes DEF RefInv
  <2>3. Line' = <<Head(reqq)>> \o Tail(reqq)
    BY <2>1, <2>2 DEF Line
  <2>4. Line' = Line
    BY <1>0, <2>1, <2>2, <2>3, LineIs, HeadOfLine
  <2> QED  BY <1>0, <2>1, <2>4
<1>3. CASE RouterSends \/ RouterStops(SenderLeft)
  BY <1>0, <1>3 DEF RouterSends, RouterStops, Line
<1>4. CASE RouterForwards
  <2>1. /\ rstate = "await" /\ cur # NoRequest /\ cur' = NoRequest /\ UNCHANGED reqq
        /\ hreply[cur] # "pending" /\ hreply[cur] # "none"
        /\ reply' = [reply EXCEPT ![cur] =
                       IF hreply[cur] = "dropped" THEN "no_response" ELSE hreply[cur]]
    BY <1>4 DEF RouterForwards, RefInv, Inv, CurInv, AwaitInv
  <2>2. Line # <<>> /\ Head(Line) = cur /\ Tail(Line) = reqq
    BY <2>1, LineIs
  <2>3. Line' = Tail(Line)
    BY <1>0, <2>1, <2>2, ConcatEmpty DEF Line
  <2>4. (IF hreply[cur] = "dropped" THEN "no_response" ELSE hreply[cur])
            \in Service!Truthful(cur, ran[cur])
    <3>1. cur \in Request /\ hreply[cur] \in HReply /\ Verdict[cur] = "handler"
      BY <2>1, RefTypes DEF RefInv, StartedInv
    <3>2. /\ hreply[cur] = "noworkers" => ran[cur] = 0
          /\ hreply[cur] \in {"ok", "err"} => ran[cur] = 1
      BY <2>1 DEF RefInv, StartedInv
    <3>3. hreply[cur] \in {"ok", "err", "noworkers", "dropped"}
      BY <2>1, <3>1, Zenon DEF HReply
    <3>4. Service!Truthful(cur, ran[cur]) =
            {"no_response"} \cup (IF ran[cur] = 0 THEN {"noworkers"} ELSE {"ok", "err"})
      BY <3>1, Zenon DEF Service!Truthful
    <3>5. hreply[cur] \in {"ok", "err"} => ran[cur] # 0
      BY <3>2
    <3> QED  BY <3>2, <3>3, <3>4, <3>5, Zenon
  <2> QED  BY <1>0, <2>1, <2>2, <2>3, <2>4, Zenon DEF Service!Answer, Line
<1> QED  BY <1>1, <1>2, <1>3, <1>4 DEF RouterNext

\* Starting call_lua is running the handler of the head of the line; no other
\* step of a worker shows.
LEMMA WorkerMaps ==
    ASSUME RefInv, NEW w \in Worker, WorkerProgress(w) \/ WorkerFault(w)
    PROVE  Service!Run \/ UNCHANGED <<Line, reply, ran>>
<1>0. UNCHANGED <<reqq, cur, reply, Line>>
  BY DEF WorkerProgress, WorkerFault, routerVars, Line
<1>1. CASE WorkerRecv(w)
  <2>1. wq[w] # <<>> /\ wstate[w] = "idle" /\ ran' = [ran EXCEPT ![Head(wq[w])] = @ + 1]
    BY <1>1 DEF WorkerRecv
  <2>2. Head(wq[w]) = cur /\ cur \in Request /\ ran[cur] = 0
    BY <2>1, Holder, Zenon
  <2>3. cur # NoRequest /\ Verdict[cur] = "handler"
    BY <2>2, RefTypes, Zenon DEF RefInv, StartedInv
  <2>4. ran' = [ran EXCEPT ![cur] = 1]
    <3>1. ran' = [ran EXCEPT ![cur] = ran[cur] + 1]
      BY <2>1, <2>2, Zenon
    <3>2. ran[cur] + 1 = 1
      BY <2>2
    <3> QED  BY <3>1, <3>2, Zenon
  <2>5. Line # <<>> /\ Head(Line) = cur
    BY <2>3, LineIs
  <2> QED  BY <1>0, <2>2, <2>3, <2>4, <2>5 DEF Service!Run, Line
<1>2. CASE ~WorkerRecv(w)
  BY <1>0, <1>2, Zenon DEF WorkerProgress, WorkerFault, WorkerBuilt, HandlerReturns, WorkerReply,
        WorkerTtl, WorkerChannelClosed, WorkerFinishes, WorkerBuildFails, WorkerPanics,
        CloseWorker
<1> QED  BY <1>1, <1>2

\* Every step of the pipeline is a step of the service or leaves it unchanged.
LEMMA StepMaps == RefInv /\ [Next]_vars => [Service!Next]_(Service!serviceVars)
<1> SUFFICES ASSUME RefInv, [Next]_vars
             PROVE  Service!Next \/ UNCHANGED <<Line, reply, ran>>
  BY DEF Service!serviceVars, Line
<1>1. CASE UNCHANGED vars
  BY <1>1 DEF vars, routerVars, poolVars, Line
<1>2. ASSUME NEW r \in Request, Submit(r) PROVE Service!Next
  BY <1>2, SubmitMaps DEF Service!Next
<1>3. CASE FrontendNext
  <2>1. ASSUME NEW r \in Request, Receive(r) \/ TimesOut(r) \/ Hangup(r)
        PROVE  UNCHANGED <<Line, reply, ran>>
    BY <2>1 DEF Receive, TimesOut, Hangup, routerVars, poolVars, Line
  <2>2. ASSUME Sigint \/ Exit PROVE UNCHANGED <<Line, reply, ran>>
    BY <2>2 DEF Sigint, Exit, routerVars, poolVars, Line
  <2> QED  BY <1>2, <1>3, <2>1, <2>2 DEF FrontendNext
<1>4. CASE RouterNext
  BY <1>4, RouterMaps DEF Service!Next
<1>5. CASE DispatcherNext
  BY <1>5, Zenon DEF DispatcherNext, DispatchNoWorkers, DispatchSend, DispatchDead, CleanupTick,
        DispatcherStops, DispatcherDrops, routerVars, Line
<1>6. CASE \E w \in Worker : WorkerProgress(w) \/ WorkerFault(w)
  BY <1>6, WorkerMaps DEF Service!Next
<1> QED  BY <1>1, <1>3, <1>4, <1>5, <1>6 DEF Next

\* The initial state of router and pool is that of the service.
LEMMA InitMaps == Init => Service!Init
<1> SUFFICES ASSUME Init PROVE Service!Init
  OBVIOUS
<1>1. /\ cur = NoRequest /\ reqq = <<>> /\ reply = [r \in Request |-> "none"]
      /\ ran = [r \in Request |-> 0]
  BY DEF Init, RouterInit, PoolInit
<1> QED  BY <1>1 DEF Service!Init

\* Router and pool together serve the requests one after the other in the order
\* in which they were accepted; each handler is started at most once, only while
\* its request is the oldest unanswered one, and the answer is true: "ok" and
\* "err" only after the handler ran, "no workers" only if it did not.
THEOREM PipelineIsSerialService == Spec => ServesSerially
<1>1. Init => Service!Init
  BY InitMaps
<1>2. RefInv /\ [Next]_vars => [Service!Next]_(Service!serviceVars)
  BY StepMaps
<1> QED  BY <1>1, <1>2, RefInit, RefNext, PTL DEF Spec, ServesSerially, Service!Spec
=============================================================================
