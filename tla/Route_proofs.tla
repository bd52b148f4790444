---------------------------- MODULE Route_proofs -----------------------------
(***************************************************************************)
(* The route table, for any script: which of its registrations a request   *)
(* runs.  The trie is compared with the list of registrations; the loop    *)
(* over the segments of a path and the merge of a router's routes are      *)
(* recursive functions, and what they compute is shown by counting up to   *)
(* their bound.                                                            *)
(***************************************************************************)
EXTENDS RouteTable, FiniteSetTheorems, Iteration_proofs

\* A non-empty set of indices has a greatest one.
LEMMA MaxIs ==
    ASSUME NEW N \in Nat, NEW T \in SUBSET (1 .. N), T # {}
    PROVE  Max(T) \in T /\ \A y \in T : y <= Max(T)
<1> DEFINE D == {N - y : y \in T}
<1>1. D \in SUBSET Nat /\ D # {}
  <2>1. \A y \in T : N - y \in Nat
    OBVIOUS
  <2>2. PICK y \in T : TRUE
    BY Zenon
  <2>3. N - y \in D
    OBVIOUS
  <2> QED  BY <2>1, <2>3
<1>2. PICK d \in D : \A e \in D : d <= e
  BY <1>1, NatMin, Zenon
<1>3. PICK x \in T : d = N - x
  BY <1>2
<1>4. \A y \in T : N - x <= N - y
  BY <1>2, <1>3, Zenon
<1>5. x \in T /\ \A y \in T : x >= y
  BY <1>4
<1> QED  BY <1>5, Zenon DEF Max

-----------------------------------------------------------------------------
(* The trie.                                                               *)

\* What the trie is given: sequences of segments, at least one.
Segments(p) == DOMAIN p = 1 .. Len(p) /\ Len(p) \in Nat \ {0}

LEMMA RankIs ==
    ASSUME NEW seg
    PROVE  /\ Rank(seg) \in 0 .. 2
           /\ Rank(seg) = 2 <=> seg \in CatchAllSeg
           /\ Rank(seg) = 0 => seg \notin ParamSeg
BY DEF Rank

\* Of two patterns neither of which is tried before the other, no position of
\* both differs in kind.
LEMMA SameKinds ==
    ASSUME NEW p, NEW q, Segments(p), Segments(q), ~Before(p, q), ~Before(q, p)
    PROVE  \A i \in 1 .. Len(p) : i <= Len(q) => Rank(p[i]) = Rank(q[i])
<1> DEFINE T == {i \in 1 .. Len(p) : i <= Len(q) /\ Rank(p[i]) # Rank(q[i])}
<1> SUFFICES ASSUME T # {} PROVE FALSE
  OBVIOUS
<1>1. Len(p) \in Nat /\ Len(q) \in Nat
  BY DEF Segments
<1>2. T \in SUBSET Nat
  BY <1>1
<1>3. PICK i \in T : \A j \in T : i <= j
  BY <1>2, NatMin, Zenon
<1>4. \A j \in 1 .. i - 1 : j \in 1 .. Len(p) /\ j <= Len(q) /\ ~(i <= j)
  BY <1>1
<1>5. \A j \in 1 .. i - 1 : Rank(p[j]) = Rank(q[j])
  BY <1>3, <1>4
<1>6. i \in 1 .. Len(p) /\ i \in 1 .. Len(q) /\ i <= Len(q) /\ i <= Len(p)
  BY <1>1
<1>7. Rank(p[i]) \in Nat /\ Rank(q[i]) \in Nat /\ Rank(p[i]) # Rank(q[i])
  BY RankIs
<1>8. Rank(p[i]) < Rank(q[i]) \/ Rank(q[i]) < Rank(p[i])
  BY <1>7
<1> QED  BY <1>5, <1>6, <1>8 DEF Before

\* A segment that is neither a parameter nor a catch-all is in the path.
LEMMA LiteralMatches ==
    ASSUME NEW p, NEW path, Segments(p), Segments(path), Matches(p, path),
           NEW i \in 1 .. Len(p), Rank(p[i]) = 0
    PROVE  p[i] = path[i]
<1>1. CASE Rank(p[Len(p)]) = 2
  <2>1. i # Len(p)
    BY <1>1
  <2>2. i \in 1 .. Len(p) - 1
    <3>1. Len(p) \in Nat
      BY DEF Segments
    <3> QED  BY <2>1, <3>1
  <2> QED  BY <1>1, <2>2, RankIs, Zenon DEF Matches, SegMatches
<1>2. CASE Rank(p[Len(p)]) # 2
  <2>1. DOMAIN p = 1 .. Len(p)
    BY DEF Segments
  <2> QED  BY <1>2, <2>1, RankIs, Zenon DEF Matches, SegMatches
<1> QED  BY <1>1, <1>2

\* Two well-formed patterns of one path, neither tried before the other, have the
\* same length.
LEMMA SameLength ==
    ASSUME NEW p, NEW q, NEW path, Segments(p), Segments(q), Segments(path),
           ~Malformed(q), Matches(p, path), Matches(q, path), Len(p) < Len(q),
           \A i \in 1 .. Len(p) : i <= Len(q) => Rank(p[i]) = Rank(q[i])
    PROVE  FALSE
<1>1. Len(p) \in Nat \ {0} /\ Len(q) \in Nat \ {0} /\ Len(path) \in Nat
  BY DEF Segments
<1>2. Len(p) \in 1 .. Len(p) /\ Len(p) \in 1 .. Len(q) - 1 /\ Len(p) <= Len(q)
  BY <1>1
<1>3. Rank(p[Len(p)]) = Rank(q[Len(p)]) /\ Rank(q[Len(p)]) # 2
  BY <1>2 DEF Malformed
<1>4. Len(path) = Len(p)
  BY <1>3 DEF Matches
<1>5. Len(path) >= Len(q)
  BY <1>1 DEF Matches
<1> QED  BY <1>1, <1>4, <1>5

\* insert refuses one of two patterns that the trie could not tell apart.
LEMMA Unambiguous ==
    ASSUME NEW P, \A p \in P : Segments(p), Accepted(P), NEW path, Segments(path),
           NEW p \in At(P, path), NEW q \in At(P, path)
    PROVE  p = q
<1>1. /\ p \in P /\ q \in P /\ Segments(p) /\ Segments(q)
      /\ Matches(p, path) /\ Matches(q, path) /\ ~Before(p, q) /\ ~Before(q, p)
  BY DEF At
<1>2. ~Malformed(p) /\ ~Malformed(q) /\ ~Conflict(p, q)
  BY <1>1 DEF Accepted
<1>3. /\ \A i \in 1 .. Len(p) : i <= Len(q) => Rank(p[i]) = Rank(q[i])
      /\ \A i \in 1 .. Len(q) : i <= Len(p) => Rank(q[i]) = Rank(p[i])
  BY <1>1, SameKinds
<1>4. ~(Len(p) < Len(q)) /\ ~(Len(q) < Len(p))
  BY <1>1, <1>2, <1>3, SameLength
<1>5. Len(p) = Len(q) /\ Len(p) \in Nat /\ DOMAIN p = 1 .. Len(p) /\ DOMAIN q = 1 .. Len(p)
  <2>1. Len(p) \in Nat /\ Len(q) \in Nat /\ DOMAIN p = 1 .. Len(p) /\ DOMAIN q = 1 .. Len(q)
    BY <1>1 DEF Segments
  <2>2. ASSUME NEW a \in Nat, NEW b \in Nat, ~(a < b), ~(b < a) PROVE a = b
    BY <2>2
  <2>3. Len(p) = Len(q)
    BY <1>4, <2>1, <2>2, Zenon
  <2> QED  BY <2>1, <2>3
<1>6. \A i \in 1 .. Len(p) : Rank(p[i]) = Rank(q[i])
  BY <1>3, <1>5
<1>7. Ranks(p) = Ranks(q)
  BY <1>5, <1>6 DEF Ranks
<1>8. ASSUME NEW i \in DOMAIN p, Rank(p[i]) = 0 PROVE p[i] = q[i]
  BY <1>1, <1>5, <1>6, <1>8, LiteralMatches
<1> QED  BY <1>2, <1>7, <1>8 DEF Conflict

-----------------------------------------------------------------------------
(* The loops of main and of a worker over the registrations.               *)

NoHandlers == [op \in Op \cup {"*"} |-> {}]
MergeStep(h, r, p) == IF r.pattern = p THEN Claim(h, r) ELSE h

LEMMA MergeLoopIs ==
    ASSUME NEW rs, NEW p, Len(rs) \in Nat
    PROVE  /\ MergeLoop(rs, p)[0] = NoHandlers
           /\ \A n \in 1 .. Len(rs) :
                MergeLoop(rs, p)[n] = MergeStep(MergeLoop(rs, p)[n - 1], rs[n], p)
<1> DEFINE N == Len(rs)
           S == [Op \cup {"*"} -> SUBSET {rs[n].name : n \in 1 .. N}]
           step == [n \in 1 .. N |-> [h \in S |-> MergeStep(h, rs[n], p)]]
           Body(f) == [n \in 0 .. N |->
                         IF n = 0 THEN [op \in Op \cup {"*"} |-> {}]
                         ELSE IF rs[n].pattern = p THEN Claim(f[n - 1], rs[n]) ELSE f[n - 1]]
<1>1. NoHandlers \in S
  BY DEF NoHandlers
<1>2. ASSUME NEW n \in 1 .. N, NEW h \in S PROVE MergeStep(h, rs[n], p) \in S
  BY DEF MergeStep, Claim
<1>3. step \in [1 .. N -> [S -> S]]
  BY <1>2, Zenon
<1>4. \A n \in 1 .. N : \A h \in S : step[n][h] = MergeStep(h, rs[n], p)
  OBVIOUS
<1> HIDE DEF S, step
<1>5. PICK f \in [0 .. N -> S] :
        f[0] = NoHandlers /\ \A n \in 1 .. N : f[n] = step[n][f[n - 1]]
  <2>1. Steps(S, NoHandlers, N, step)
    BY <1>1, <1>3, Zenon DEF Steps
  <2>2. PICK f : IsRun(f, S, NoHandlers, N, step)
    BY <2>1, Iterates, Zenon
  <2> QED  BY <2>2, Zenon DEF IsRun
<1>6. \A n \in 1 .. N : f[n] = MergeStep(f[n - 1], rs[n], p)
  BY <1>4, <1>5
<1>7. f = Body(f)
  BY <1>5, <1>6 DEF NoHandlers, MergeStep
<1>8. MergeLoop(rs, p) = Body(MergeLoop(rs, p))
  <2>1. MergeLoop(rs, p) = CHOOSE g : g = Body(g)
    BY DEF MergeLoop
  <2> HIDE DEF Body
  <2> QED  BY <1>7, <2>1, Zenon
<1>9. \A n \in 0 .. N :
        MergeLoop(rs, p)[n] = IF n = 0 THEN NoHandlers
                              ELSE MergeStep(MergeLoop(rs, p)[n - 1], rs[n], p)
  <2> DEFINE m == MergeLoop(rs, p)
  <2>1. m = Body(m)
    BY <1>8, Zenon
  <2> HIDE DEF m
  <2>2. \A n \in 0 .. N : m[n] = IF n = 0 THEN NoHandlers ELSE MergeStep(m[n - 1], rs[n], p)
    BY <2>1, Zenon DEF NoHandlers, MergeStep
  <2> QED  BY <2>2 DEF m
<1> QED  BY <1>9

\* The registrations among the first n that claim operation o of pattern p.
ClaimsIn(rs, p, o, n) ==
    {i \in 1 .. n : /\ rs[i].pattern = p
                    /\ IF rs[i].ops = {} THEN o = "*" ELSE o \in rs[i].ops}
LastOf(T, i) == i \in T /\ \A j \in T : j <= i

\* The last registration that claims an operation has it.
LEMMA HandlersAre ==
    ASSUME NEW rs, NEW p, NEW o \in Op \cup {"*"}, Len(rs) \in Nat
    PROVE  /\ ClaimsIn(rs, p, o, Len(rs)) = {} => Handlers(rs, p)[o] = {}
           /\ \A i : LastOf(ClaimsIn(rs, p, o, Len(rs)), i) => Handlers(rs, p)[o] = {rs[i].name}
<1> DEFINE N == Len(rs)
           m == MergeLoop(rs, p)
           C(n) == ClaimsIn(rs, p, o, n)
           T == {n \in 0 .. N : /\ DOMAIN m[n] = Op \cup {"*"}
                                /\ C(n) = {} => m[n][o] = {}
                                /\ \A i : LastOf(C(n), i) => m[n][o] = {rs[i].name}}
<1>1. m[0] = NoHandlers /\ \A n \in 1 .. N : m[n] = MergeStep(m[n - 1], rs[n], p)
  BY MergeLoopIs
<1> HIDE DEF m
<1>2. 0 \in T
  <2>1. C(0) = {}
    BY DEF ClaimsIn
  <2> HIDE DEF C
  <2> QED  BY <1>1, <2>1 DEF NoHandlers, LastOf
<1>3. ASSUME NEW n \in 1 .. N, n - 1 \in T PROVE n \in T
  <2>1. m[n] = MergeStep(m[n - 1], rs[n], p) /\ n \in Nat /\ n - 1 \in Nat
    BY <1>1
  <2>2. CASE n \in C(n)
    <3>1. rs[n].pattern = p /\ (IF rs[n].ops = {} THEN o = "*" ELSE o \in rs[n].ops)
      BY <2>2 DEF ClaimsIn
    <3>2. DOMAIN m[n] = Op \cup {"*"} /\ m[n][o] = {rs[n].name}
      BY <1>3, <2>1, <3>1 DEF MergeStep, Claim
    <3>3. ASSUME NEW i, LastOf(C(n), i) PROVE i = n
      <4>1. i \in 1 .. n /\ n <= i
        BY <2>2, <3>3 DEF LastOf, ClaimsIn
      <4> QED  BY <4>1
    <3> HIDE DEF C
    <3> QED  BY <2>2, <3>2, <3>3
  <2>3. CASE n \notin C(n)
    <3>1. C(n) = C(n - 1)
      <4>1. \A i : i \in 1 .. n <=> i = n \/ i \in 1 .. n - 1
        OBVIOUS
      <4> QED  BY <2>3, <4>1 DEF ClaimsIn
    <3>2. ~(rs[n].pattern = p /\ (IF rs[n].ops = {} THEN o = "*" ELSE o \in rs[n].ops))
      BY <2>3 DEF ClaimsIn
    <3>3. DOMAIN m[n] = Op \cup {"*"} /\ m[n][o] = m[n - 1][o]
      BY <1>3, <2>1, <3>2 DEF MergeStep, Claim
    <3> HIDE DEF C
    <3> QED  BY <1>3, <3>1, <3>3
  <2> QED  BY <2>2, <2>3
<1> HIDE DEF T
<1>4. \A n \in 1 .. N : n - 1 \in T => n \in T
  BY <1>3
<1>5. \A n \in 0 .. N : n \in T
  BY <1>2, <1>4, UpTo, Zenon
<1>6. N \in T
  BY <1>5
<1> QED  BY <1>6 DEF T, Handlers, m

NoFunctions == [funcs |-> <<>>, default |-> {}]

LEMMA ExecutionIs ==
    ASSUME NEW calls, Len(calls) \in Nat
    PROVE  /\ Execution(calls)[0] = NoFunctions
           /\ \A n \in 1 .. Len(calls) :
                Execution(calls)[n] = Execute(Execution(calls)[n - 1], calls[n], n)
<1> DEFINE N == Len(calls)
           S == [funcs : Seq(1 .. N), default : SUBSET (1 .. N)]
           step == [n \in 1 .. N |-> [w \in S |-> Execute(w, calls[n], n)]]
           Body(f) == [n \in 0 .. N |->
                         IF n = 0 THEN [funcs |-> <<>>, default |-> {}]
                         ELSE Execute(f[n - 1], calls[n], n)]
<1>1. NoFunctions \in S
  BY DEF NoFunctions
<1>2. ASSUME NEW n \in 1 .. N, NEW w \in S PROVE Execute(w, calls[n], n) \in S
  <2>1. Append(w.funcs, n) \in Seq(1 .. N) /\ {n} \in SUBSET (1 .. N)
    OBVIOUS
  <2>2. [w EXCEPT !.funcs = Append(w.funcs, n)] \in S
    BY <2>1, Zenon
  <2>3. [w EXCEPT !.default = {n}] \in S
    BY <2>1
  <2> HIDE DEF S
  <2> QED  BY <2>2, <2>3 DEF Execute
<1>3. step \in [1 .. N -> [S -> S]]
  BY <1>2
<1>4. \A n \in 1 .. N : \A w \in S : step[n][w] = Execute(w, calls[n], n)
  OBVIOUS
<1> HIDE DEF S, step
<1>5. PICK f \in [0 .. N -> S] :
        f[0] = NoFunctions /\ \A n \in 1 .. N : f[n] = step[n][f[n - 1]]
  <2>1. Steps(S, NoFunctions, N, step)
    BY <1>1, <1>3, Zenon DEF Steps
  <2>2. PICK f : IsRun(f, S, NoFunctions, N, step)
    BY <2>1, Iterates, Zenon
  <2> QED  BY <2>2, Zenon DEF IsRun
<1>6. \A n \in 1 .. N : f[n] = Execute(f[n - 1], calls[n], n)
  BY <1>4, <1>5
<1>7. f = Body(f)
  BY <1>5, <1>6 DEF NoFunctions
<1>8. Execution(calls) = Body(Execution(calls))
  <2>1. Execution(calls) = CHOOSE g : g = Body(g)
    BY DEF Execution
  <2> HIDE DEF Body
  <2> QED  BY <1>7, <2>1, Zenon
<1>9. \A n \in 0 .. N :
        Execution(calls)[n] = IF n = 0 THEN NoFunctions
                              ELSE Execute(Execution(calls)[n - 1], calls[n], n)
  <2> DEFINE m == Execution(calls)
  <2>1. m = Body(m)
    BY <1>8, Zenon
  <2> HIDE DEF m
  <2>2. \A n \in 0 .. N : m[n] = IF n = 0 THEN NoFunctions ELSE Execute(m[n - 1], calls[n], n)
    BY <2>1, Zenon DEF NoFunctions
  <2> QED  BY <2>2 DEF m
<1> QED  BY <1>9

\* One call more is one step more of a worker.
LEMMA ExecutionAppend ==
    ASSUME NEW S, NEW calls \in Seq(S), NEW c \in S
    PROVE  FromBytecodes(Append(calls, c)) = Execute(FromBytecodes(calls), c, Len(calls) + 1)
<1> DEFINE N == Len(calls)
           more == Append(calls, c)
           f == Execution(calls)
           g == Execution(more)
<1>1. N \in Nat /\ Len(more) = N + 1 /\ more[N + 1] = c /\ \A n \in 1 .. N : more[n] = calls[n]
  OBVIOUS
<1>2. f[0] = NoFunctions /\ \A n \in 1 .. N : f[n] = Execute(f[n - 1], calls[n], n)
  BY <1>1, ExecutionIs
<1>3. g[0] = NoFunctions /\ \A n \in 1 .. N + 1 : g[n] = Execute(g[n - 1], more[n], n)
  <2>1. Len(more) \in Nat
    BY <1>1
  <2> QED  BY <1>1, <2>1, ExecutionIs, Zenon
<1> HIDE DEF f, g, more
<1>4. \A n \in 1 .. N : n \in 1 .. N + 1
  BY <1>1
<1>5. \A n \in 1 .. N : f[n - 1] = g[n - 1] => f[n] = g[n]
  BY <1>1, <1>2, <1>3, <1>4
<1>6. \A n \in 0 .. N : f[n] = g[n]
  <2> DEFINE T == {n \in 0 .. N : f[n] = g[n]}
  <2>1. 0 \in T /\ \A n \in 1 .. N : n - 1 \in T => n \in T
    BY <1>1, <1>2, <1>3, <1>5
  <2> HIDE DEF T
  <2>2. \A n \in 0 .. N : n \in T
    BY <1>1, <2>1, UpTo, Zenon
  <2> QED  BY <2>2 DEF T
<1>7. f[N] = g[N] /\ N + 1 \in 1 .. N + 1 /\ (N + 1) - 1 = N
  BY <1>1, <1>6
<1>8. g[N + 1] = Execute(g[N], more[N + 1], N + 1)
  BY <1>3, <1>7
<1> QED  BY <1>1, <1>7, <1>8 DEF FromBytecodes, f, g, more

-----------------------------------------------------------------------------
(* The routes of a script.                                                 *)

Registration ==
    [pattern : Pattern \cup {DefaultPattern}, ops : {Bundle(name) : name \in BundleName},
     name : Nat, func : Nat]

\* A worker finds the function of the i-th route under the name main gave it.
RouteInv ==
    /\ RouteTypeOK
    /\ script \in Seq({"register", "rejected", "default"}) /\ routes \in Seq(Registration)
    /\ FromBytecodes(script) \in [funcs : Seq(Nat), default : SUBSET Nat]
    /\ Len(FromBytecodes(script).funcs) = Len(routes)
    /\ \A i \in 1 .. Len(routes) : FromBytecodes(script).funcs[i] = routes[i].func
    /\ phase = "serving" => Accepted(Patterns(routes))

LEMMA CallsBound == MaxCalls \in Nat
BY RouteAssumption, Zenon DEF RouteAssumption

LEMMA RouteInitInv == RouteInit => RouteInv
<1> SUFFICES ASSUME RouteInit PROVE RouteInv
  OBVIOUS
<1>1. script = <<>> /\ routes = <<>> /\ phase = "script" /\ Len(script) = 0 /\ Len(routes) = 0
  BY DEF RouteInit
<1>2. FromBytecodes(script) = NoFunctions
  BY <1>1, ExecutionIs DEF FromBytecodes
<1>3. NoFunctions \in [funcs : Seq(Nat), default : SUBSET Nat] /\ NoFunctions.funcs = <<>>
  BY DEF NoFunctions
<1>4. RouteTypeOK
  BY <1>1, CallsBound DEF RouteTypeOK
<1> QED  BY <1>1, <1>2, <1>3, <1>4 DEF RouteInv

\* What every call of the script does to the invariant.
LEMMA ExecutesInv ==
    ASSUME RouteInv, NEW c \in {"register", "rejected", "default"}, Executes(c)
    PROVE  /\ script' \in Seq({"register", "rejected", "default"})
           /\ Len(script') = Len(script) + 1 /\ Len(script') <= MaxCalls
           /\ DOMAIN script \subseteq DOMAIN script' /\ Len(script) + 1 \in DOMAIN script'
           /\ \A n \in DOMAIN script' : script'[n] \in {"register", "rejected", "default"}
           /\ FromBytecodes(script') = Execute(FromBytecodes(script), c, Len(script) + 1)
           /\ phase' = "script" /\ Len(script) \in Nat
<1>1. /\ script' = Append(script, c) /\ phase' = "script" /\ Len(script) < MaxCalls
      /\ script \in Seq({"register", "rejected", "default"}) /\ MaxCalls \in Nat
  BY CallsBound DEF Executes, RouteInv
<1>3. FromBytecodes(script') = Execute(FromBytecodes(script), c, Len(script) + 1)
  BY <1>1, ExecutionAppend
<1>4. /\ script' \in Seq({"register", "rejected", "default"}) /\ Len(script) \in Nat
      /\ Len(script') = Len(script) + 1
      /\ DOMAIN script = 1 .. Len(script) /\ DOMAIN script' = 1 .. Len(script) + 1
  BY <1>1
<1>5. Len(script') <= MaxCalls /\ DOMAIN script \subseteq DOMAIN script'
      /\ Len(script) + 1 \in DOMAIN script'
  BY <1>1, <1>4
<1>6. \A n \in DOMAIN script' : script'[n] \in {"register", "rejected", "default"}
  BY <1>4
<1> QED  BY <1>1, <1>3, <1>4, <1>5, <1>6

\* A call that registers nothing.
LEMMA NothingRegistered ==
    ASSUME RouteInv, NEW c \in {"rejected", "default"}, Executes(c), UNCHANGED routes
    PROVE  RouteInv'
<1> DEFINE w == FromBytecodes(script)
<1>1. /\ script' \in Seq({"register", "rejected", "default"}) /\ Len(script') <= MaxCalls
      /\ DOMAIN script \subseteq DOMAIN script'
      /\ \A n \in DOMAIN script' : script'[n] \in {"register", "rejected", "default"}
      /\ FromBytecodes(script') = Execute(w, c, Len(script) + 1)
      /\ phase' = "script" /\ Len(script) + 1 \in Nat
  BY ExecutesInv
<1>2. w \in [funcs : Seq(Nat), default : SUBSET Nat]
  BY DEF RouteInv
<1> HIDE DEF w
<1>3. /\ FromBytecodes(script') \in [funcs : Seq(Nat), default : SUBSET Nat]
      /\ FromBytecodes(script').funcs = w.funcs
  BY <1>1, <1>2 DEF Execute
<1>4. RouteTypeOK'
  BY <1>1 DEF RouteInv, RouteTypeOK
<1> QED  BY <1>1, <1>3, <1>4 DEF RouteInv, w

\* A registration: main and the worker count the same number out.
LEMMA RegisterInv ==
    ASSUME RouteInv, NEW p \in Pattern \cup {DefaultPattern}, NEW name \in BundleName,
           Register(p, Bundle(name))
    PROVE  RouteInv'
<1> DEFINE w == FromBytecodes(script)
           r == [pattern |-> p, ops |-> Bundle(name),
                 name |-> Len(routes) + 1, func |-> Len(script) + 1]
<1>1. /\ script' \in Seq({"register", "rejected", "default"}) /\ Len(script') <= MaxCalls
      /\ DOMAIN script \subseteq DOMAIN script' /\ Len(script) + 1 \in DOMAIN script'
      /\ \A n \in DOMAIN script' : script'[n] \in {"register", "rejected", "default"}
      /\ FromBytecodes(script') = Execute(w, "register", Len(script) + 1)
      /\ phase' = "script" /\ Len(script) + 1 \in Nat
  BY ExecutesInv DEF Register
<1>2. /\ w \in [funcs : Seq(Nat), default : SUBSET Nat] /\ Len(w.funcs) = Len(routes)
      /\ \A i \in 1 .. Len(routes) : w.funcs[i] = routes[i].func
      /\ routes \in Seq(Registration) /\ Len(routes) \in Nat
  BY DEF RouteInv
<1>3. routes' = Append(routes, r) /\ r \in Registration
  BY <1>1, <1>2 DEF Register, Registration
<1>4. r.pattern = p /\ r.ops = Bundle(name) /\ r.name = Len(routes) + 1 /\ r.func = Len(script) + 1
  OBVIOUS
<1> HIDE DEF w, r
<1>5. /\ FromBytecodes(script') \in [funcs : Seq(Nat), default : SUBSET Nat]
      /\ FromBytecodes(script').funcs = Append(w.funcs, Len(script) + 1)
  <2>1. Append(w.funcs, Len(script) + 1) \in Seq(Nat)
    BY <1>1, <1>2
  <2>2. FromBytecodes(script') = [w EXCEPT !.funcs = Append(w.funcs, Len(script) + 1)]
    BY <1>1 DEF Execute
  <2> QED  BY <1>2, <2>1, <2>2, Zenon
<1>6. /\ routes' \in Seq(Registration) /\ Len(routes') = Len(routes) + 1
      /\ routes'[Len(routes) + 1] = r /\ \A i \in 1 .. Len(routes) : routes'[i] = routes[i]
      /\ DOMAIN routes = 1 .. Len(routes) /\ DOMAIN routes' = 1 .. Len(routes) + 1
  BY <1>2, <1>3
<1>7. \A i \in 1 .. Len(routes) + 1 : i \in 1 .. Len(routes) \/ i = Len(routes) + 1
  BY <1>2
<1>8. /\ Len(FromBytecodes(script').funcs) = Len(routes')
      /\ \A i \in 1 .. Len(routes') : FromBytecodes(script').funcs[i] = routes'[i].func
  <2> DEFINE g == Append(w.funcs, Len(script) + 1)
  <2>1. /\ Len(g) = Len(routes) + 1 /\ g[Len(routes) + 1] = Len(script) + 1
        /\ \A i \in 1 .. Len(routes) : g[i] = w.funcs[i]
    BY <1>1, <1>2
  <2> HIDE DEF g
  <2>2. \A i \in 1 .. Len(routes) + 1 : g[i] = routes'[i].func
    BY <1>2, <1>4, <1>6, <1>7, <2>1
  <2> QED  BY <1>5, <1>6, <2>1, <2>2 DEF g
<1>9. RouteTypeOK'
  <2>1. ASSUME NEW i \in DOMAIN routes'
        PROVE  /\ routes'[i].pattern \in Pattern \cup {DefaultPattern}
               /\ routes'[i].ops \in {Bundle(n) : n \in BundleName}
               /\ routes'[i].func \in DOMAIN script'
               /\ routes'[i].name = i
    <3>1. CASE i \in 1 .. Len(routes)
      <4>1. routes'[i] = routes[i] /\ i \in DOMAIN routes
        BY <1>6, <3>1
      <4> QED  BY <1>1, <4>1 DEF RouteInv, RouteTypeOK
    <3>2. CASE i = Len(routes) + 1
      BY <1>1, <1>4, <1>6, <3>2
    <3> QED  BY <1>6, <1>7, <3>1, <3>2
  <2> QED  BY <1>1, <2>1, Zenon DEF RouteTypeOK
<1> QED  BY <1>1, <1>5, <1>6, <1>8, <1>9 DEF RouteInv

LEMMA RouteNextInv == RouteInv /\ [RouteNext]_routeVars => RouteInv'
<1> SUFFICES ASSUME RouteInv, [RouteNext]_routeVars PROVE RouteInv'
  OBVIOUS
<1>1. CASE UNCHANGED routeVars
  BY <1>1 DEF routeVars, RouteInv, RouteTypeOK
<1>2. CASE \E name \in BundleName : \/ \E p \in Pattern : Register(p, Bundle(name))
                                    \/ Register(DefaultPattern, Bundle(name))
  BY <1>2, RegisterInv
<1>3. CASE RegisterRejected \/ RouteDefault
  BY <1>3, NothingRegistered DEF RegisterRejected, RouteDefault
<1>4. CASE BuildRouter
  BY <1>4 DEF BuildRouter, RouteInv, RouteTypeOK
<1> QED  BY <1>1, <1>2, <1>3, <1>4 DEF RouteNext

THEOREM RouteInvariant == RouteSpec => []RouteInv
BY RouteInitInv, RouteNextInv, PTL DEF RouteSpec

LEMMA SegmentsGiven ==
    /\ \A p \in Pattern \cup {DefaultPattern} : Segments(p)
    /\ \A path \in Path : Segments(path)
<1>1. \A p \in Pattern \cup Path : p \in Seq(Segment) /\ Len(p) > 0
  BY RouteAssumption, Zenon DEF RouteAssumption
<1>2. ASSUME NEW p \in Seq(Segment), Len(p) > 0 PROVE Segments(p)
  BY <1>2 DEF Segments
<1>3. Segments(DefaultPattern)
  BY DEF Segments, DefaultPattern
<1> QED  BY <1>1, <1>2, <1>3

LEMMA PatternsGiven == RouteInv => \A p \in Patterns(routes) : Segments(p)
<1> SUFFICES ASSUME RouteInv, NEW i \in DOMAIN routes PROVE Segments(routes[i].pattern)
  BY DEF Patterns
<1>1. routes[i].pattern \in Pattern \cup {DefaultPattern}
  BY DEF RouteInv, RouteTypeOK
<1> QED  BY <1>1, SegmentsGiven

\* Once main serves, one pattern at most is tried first for a path.
LEMMA OneFound ==
    ASSUME RouteInv, phase = "serving", NEW path \in Path,
           NEW p \in At(Patterns(routes), path), NEW q \in At(Patterns(routes), path)
    PROVE  p = q
<1>1. Accepted(Patterns(routes)) /\ Segments(path) /\ \A r \in Patterns(routes) : Segments(r)
  BY SegmentsGiven, PatternsGiven DEF RouteInv
<1> QED  BY <1>1, Unambiguous

\* Once main serves, no path is ambiguous, whatever patterns the script registers
\* and in whatever order the map of patterns is inserted: BuildRouter panics
\* otherwise.
THEOREM RoutesUnambiguous == RouteSpec => []MatchUnambiguous
<1>1. RouteInv => MatchUnambiguous
  <2> SUFFICES ASSUME RouteInv, phase = "serving", NEW path \in Path
               PROVE  Cardinality(At(Patterns(routes), path)) <= 1
    BY DEF MatchUnambiguous
  <2> DEFINE found == At(Patterns(routes), path)
  <2>1. \A p, q \in found : p = q
    BY OneFound
  <2> HIDE DEF found
  <2>2. CASE found = {}
    BY <2>2, FS_EmptySet DEF found
  <2>3. CASE found # {}
    <3>1. PICK p : found = {p}
      BY <2>1, <2>3
    <3>2. Cardinality(found) = 1
      BY <3>1, FS_Singleton
    <3> QED  BY <3>2 DEF found
  <2> QED  BY <2>2, <2>3
<1> QED  BY <1>1, RouteInvariant, PTL

\* No wrapper names the operation "*".
LEMMA BundlesNameOps == \A name \in BundleName : "*" \notin Bundle(name)
<1>1. BundleName \subseteq Wrapper
  BY RouteAssumption, Zenon DEF RouteAssumption
<1>2. ASSUME NEW name \in Wrapper PROVE "*" \notin Bundle(name)
  BY DEF Wrapper, Bundle
<1> QED  BY <1>1, <1>2

\* The claims on an operation, and those on all, as Registered has them.
LEMMA ClaimsAre ==
    ASSUME RouteInv, NEW p, NEW op \in Op
    PROVE  /\ ClaimsIn(routes, p, op, Len(routes)) =
                {i \in DOMAIN routes : routes[i].pattern = p /\ op \in routes[i].ops}
           /\ ClaimsIn(routes, p, "*", Len(routes)) =
                {i \in DOMAIN routes : routes[i].pattern = p /\ routes[i].ops = {}}
<1>1. DOMAIN routes = 1 .. Len(routes)
  BY DEF RouteInv
<1>2. op # "*"
  BY RouteAssumption, Zenon DEF RouteAssumption
<1>3. \A i \in DOMAIN routes : "*" \notin routes[i].ops
  BY BundlesNameOps DEF RouteInv, RouteTypeOK
<1> QED  BY <1>1, <1>2, <1>3 DEF ClaimsIn

\* A worker runs the function of the route that has a name.
LEMMA CallLuaRuns ==
    ASSUME RouteInv, NEW i \in DOMAIN routes
    PROVE  /\ routes[i].name = i
           /\ CallLua(FromBytecodes(script), i) = Runs(routes[i].func)
<1>1. /\ DOMAIN routes = 1 .. Len(routes)
      /\ DOMAIN FromBytecodes(script).funcs = 1 .. Len(routes)
      /\ FromBytecodes(script).funcs[i] = routes[i].func
  BY DEF RouteInv
<1>2. routes[i].name = i
  BY DEF RouteInv, RouteTypeOK
<1> QED  BY <1>1, <1>2 DEF CallLua

\* What the merged handlers of a pattern have for an operation that some
\* registration claims, and for one that none does.
LEMMA HandlerOf ==
    ASSUME RouteInv, NEW p, NEW o \in Op \cup {"*"}
    PROVE  LET C == ClaimsIn(routes, p, o, Len(routes)) IN
           /\ C = {} => Handlers(routes, p)[o] = {}
           /\ C # {} => /\ Max(C) \in DOMAIN routes
                        /\ Handlers(routes, p)[o] = {Max(C)}
<1> DEFINE C == ClaimsIn(routes, p, o, Len(routes))
<1>1. Len(routes) \in Nat /\ DOMAIN routes = 1 .. Len(routes)
  BY DEF RouteInv
<1>2. C = {} => Handlers(routes, p)[o] = {}
  BY <1>1, HandlersAre
<1>3. ASSUME C # {} PROVE Max(C) \in DOMAIN routes /\ Handlers(routes, p)[o] = {Max(C)}
  <2>1. C \in SUBSET (1 .. Len(routes))
    BY DEF ClaimsIn
  <2>2. LastOf(C, Max(C)) /\ Max(C) \in DOMAIN routes
    <3> HIDE DEF C
    <3> QED  BY <1>1, <1>3, <2>1, MaxIs, Zenon DEF LastOf
  <2>3. Handlers(routes, p)[o] = {routes[Max(C)].name}
    BY <1>1, <2>2, HandlersAre
  <2> QED  BY <2>2, <2>3, CallLuaRuns
<1> QED  BY <1>2, <1>3

\* The function that serves: the one the last registration of the most specific
\* pattern which
\* names op passed, else the last one for all operations.  A registration for
\* all operations never overrides one that names op, and a less specific
\* pattern, the default's included, is never a fall-back.
Registered(path, op) ==
    LET explicit == {i \in Specific(path) : op \in routes[i].ops}
        wildcard == {i \in Specific(path) : routes[i].ops = {}}
    IN  IF Specific(path) = {} THEN NoRoute
        ELSE IF explicit # {} THEN Runs(routes[Max(explicit)].func)
        ELSE IF wildcard # {} THEN Runs(routes[Max(wildcard)].func)
        ELSE NoHandler

\* Dispatch once the pattern is known.
LEMMA DispatchFound ==
    ASSUME RouteInv, NEW path, NEW op \in Op, NEW p, At(Patterns(routes), path) = {p}
    PROVE  Serve(path, op) \in {Registered(path, op), IsDirectory}
<1> DEFINE w == FromBytecodes(script)
           h == Handlers(routes, p)
           chosen == IF h[op] # {} THEN h[op] ELSE h["*"]
           E == ClaimsIn(routes, p, op, Len(routes))
           W == ClaimsIn(routes, p, "*", Len(routes))
           refused == HasChildren(routes, path, p) /\ op \in {"open", "read", "write", "release"}
<1>1. Specific(path) = {i \in DOMAIN routes : routes[i].pattern = p} /\ Specific(path) # {}
  <2>1. /\ \A i \in DOMAIN routes : routes[i].pattern \in Patterns(routes)
        /\ \A q \in Patterns(routes) : \E i \in DOMAIN routes : routes[i].pattern = q
    BY DEF Patterns
  <2>2. /\ p \in Patterns(routes) /\ Matches(p, path)
        /\ \A q \in Patterns(routes) : Matches(q, path) => ~Before(q, p)
        /\ \A q \in Patterns(routes) :
             Matches(q, path) /\ (\A r \in Patterns(routes) : Matches(r, path) => ~Before(r, q))
               => q = p
    BY DEF At
  <2>3. \A i \in DOMAIN routes : i \in Specific(path) <=> routes[i].pattern = p
    BY <2>1, <2>2 DEF Specific
  <2>4. Specific(path) \subseteq DOMAIN routes
    BY DEF Specific
  <2> QED  BY <2>1, <2>2, <2>3, <2>4
<1>2. /\ {i \in Specific(path) : op \in routes[i].ops} = E
      /\ {i \in Specific(path) : routes[i].ops = {}} = W
  BY <1>1, ClaimsAre
<1>3. Registered(path, op) = IF E # {} THEN Runs(routes[Max(E)].func)
                             ELSE IF W # {} THEN Runs(routes[Max(W)].func) ELSE NoHandler
  BY <1>1, <1>2, Zenon DEF Registered
<1>4. Serve(path, op) = IF chosen = {} THEN NoHandler
                        ELSE IF refused THEN IsDirectory
                        ELSE CallLua(w, CHOOSE n \in chosen : TRUE)
  <2> DEFINE found == At(Patterns(routes), path)
  <2>1. (CHOOSE q \in found : TRUE) = p /\ found # {}
    OBVIOUS
  <2> HIDE DEF found
  <2>2. Serve(path, op) =
          LET pattern == CHOOSE q \in found : TRUE
              handlers == Handlers(routes, pattern)
              some == IF handlers[op] # {} THEN handlers[op] ELSE handlers["*"]
          IN  IF found = {} THEN NoRoute
              ELSE IF some = {} THEN NoHandler
              ELSE IF /\ HasChildren(routes, path, pattern)
                      /\ op \in {"open", "read", "write", "release"} THEN IsDirectory
              ELSE CallLua(w, CHOOSE n \in some : TRUE)
    BY DEF Serve, Dispatch, found
  <2> QED  BY <2>1, <2>2, Zenon
<1>5. /\ E = {} => h[op] = {}
      /\ E # {} => Max(E) \in DOMAIN routes /\ h[op] = {Max(E)}
      /\ W = {} => h["*"] = {}
      /\ W # {} => Max(W) \in DOMAIN routes /\ h["*"] = {Max(W)}
  BY HandlerOf
<1>6. \A i : (CHOOSE n \in {i} : TRUE) = i
  OBVIOUS
<1>7. \A i \in DOMAIN routes : CallLua(w, i) = Runs(routes[i].func)
  BY CallLuaRuns
<1> HIDE DEF w, h, E, W, refused
<1>8. CASE E # {}
  <2>1. chosen = {Max(E)} /\ chosen # {}
    BY <1>5, <1>8
  <2> HIDE DEF chosen
  <2> QED  BY <1>3, <1>4, <1>5, <1>6, <1>7, <1>8, <2>1
<1>9. CASE E = {} /\ W # {}
  <2>1. chosen = {Max(W)} /\ chosen # {}
    BY <1>5, <1>9
  <2> HIDE DEF chosen
  <2> QED  BY <1>3, <1>4, <1>5, <1>6, <1>7, <1>9, <2>1
<1>10. CASE E = {} /\ W = {}
  BY <1>3, <1>4, <1>5, <1>10
<1> QED  BY <1>8, <1>9, <1>10

\* Dispatch, whatever the trie finds.
LEMMA DispatchIs ==
    ASSUME RouteInv, phase = "serving", NEW path \in Path, NEW op \in Op
    PROVE  Serve(path, op) \in {Registered(path, op), IsDirectory}
<1>1. CASE At(Patterns(routes), path) = {}
  <2>1. Serve(path, op) = NoRoute
    BY <1>1 DEF Serve, Dispatch
  <2>2. Specific(path) = {}
    BY <1>1 DEF Specific, At, Patterns
  <2> QED  BY <2>1, <2>2 DEF Registered
<1>2. CASE At(Patterns(routes), path) # {}
  <2>1. PICK p : At(Patterns(routes), path) = {p}
    BY <1>2, OneFound
  <2> QED  BY <2>1, DispatchFound, Zenon
<1> QED  BY <1>1, <1>2

\* The largest member of a set of registrations is the only one.
LEMMA LastIs ==
    ASSUME RouteInv, NEW T \in SUBSET DOMAIN routes, T # {}
    PROVE  /\ Max(T) \in T /\ \A y \in T : y <= Max(T)
           /\ \A x \in T : (\A y \in T : y <= x) => x = Max(T)
<1>1. DOMAIN routes = 1 .. Len(routes) /\ Len(routes) \in Nat
  BY DEF RouteInv
<1>2. Max(T) \in T /\ \A y \in T : y <= Max(T)
  BY <1>1, MaxIs
<1>3. \A x \in T : x \in Nat
  BY <1>1
<1> QED  BY <1>2, <1>3

\* The function that serves is one of those that claim the request, and the last
\* of them where that one names the operation, or none does.
LEMMA RegisteredClaims ==
    ASSUME RouteInv, NEW path \in Path, NEW op \in Op
    PROVE  LET C == Claims(path, op) IN
           /\ Registered(path, op).kind = "runs" =>
                \E i \in C : Registered(path, op) = Runs(routes[i].func)
           /\ C # {} /\ (op \in routes[Max(C)].ops \/ \A i \in C : routes[i].ops = {}) =>
                Registered(path, op) = Runs(routes[Max(C)].func)
<1> DEFINE C == Claims(path, op)
           E == {i \in Specific(path) : op \in routes[i].ops}
           W == {i \in Specific(path) : routes[i].ops = {}}
<1>1. /\ E \subseteq DOMAIN routes /\ W \subseteq DOMAIN routes /\ C \subseteq DOMAIN routes
      /\ C = E \cup W /\ E \cap W = {}
      /\ \A i \in C : (op \in routes[i].ops <=> i \in E) /\ (routes[i].ops = {} <=> i \in W)
      /\ (E # {} \/ W # {}) => Specific(path) # {}
  BY DEF Claims, Specific
<1>2. Registered(path, op) = IF Specific(path) = {} THEN NoRoute
                             ELSE IF E # {} THEN Runs(routes[Max(E)].func)
                             ELSE IF W # {} THEN Runs(routes[Max(W)].func) ELSE NoHandler
  BY DEF Registered
<1>3. \A T \in SUBSET DOMAIN routes : T # {} =>
         Max(T) \in T /\ \A x \in T : (\A y \in T : y <= x) => x = Max(T)
  BY LastIs
<1>4. NoRoute.kind # "runs" /\ NoHandler.kind # "runs"
  BY DEF NoRoute, NoHandler
<1> HIDE DEF C, E, W
<1>5. Registered(path, op).kind = "runs" =>
         \E i \in C : Registered(path, op) = Runs(routes[i].func)
  BY <1>1, <1>2, <1>3, <1>4
<1>6. ASSUME C # {}, op \in routes[Max(C)].ops
      PROVE  Registered(path, op) = Runs(routes[Max(C)].func)
  <2>1. Max(C) \in C /\ \A y \in C : y <= Max(C)
    BY <1>1, <1>6, LastIs
  <2>2. Max(C) \in E /\ \A y \in E : y <= Max(C)
    BY <1>1, <1>6, <2>1
  <2>3. Max(E) = Max(C)
    BY <1>1, <1>3, <2>2
  <2> QED  BY <1>1, <1>2, <2>2, <2>3
<1>7. ASSUME C # {}, \A i \in C : routes[i].ops = {}
      PROVE  Registered(path, op) = Runs(routes[Max(C)].func)
  <2>1. E = {} /\ W = C
    BY <1>1, <1>7
  <2> QED  BY <1>1, <1>2, <1>7, <2>1
<1> QED  BY <1>5, <1>6, <1>7 DEF C

\* A request runs no other function than one the script registered for it, for
\* any script and any set of patterns, and the one registered last where that
\* registration names the operation, or none does: merging by pattern, the
\* numbers that main and the workers count out each for itself, the trie and the
\* fall-back to "*" lose, add and exchange nothing; only a directory refuses a
\* request that has one.
THEOREM RequestsRunRegistered == RouteSpec => []DispatchAsRegistered
<1>1. RouteInv => DispatchAsRegistered
  <2> SUFFICES ASSUME RouteInv, phase = "serving", NEW path \in Path, NEW op \in Op
               PROVE  LET C == Claims(path, op) IN
                      /\ Serve(path, op).kind = "runs" =>
                           \E i \in C : Serve(path, op) = Runs(routes[i].func)
                      /\ C # {} /\ (\/ op \in routes[Max(C)].ops
                                    \/ \A i \in C : routes[i].ops = {}) =>
                           Serve(path, op) \in {Runs(routes[Max(C)].func), IsDirectory}
    BY DEF DispatchAsRegistered
  <2>1. Serve(path, op) \in {Registered(path, op), IsDirectory}
    BY DispatchIs
  <2>2. IsDirectory.kind # "runs"
    BY DEF IsDirectory
  <2> QED  BY <2>1, <2>2, RegisteredClaims
<1> QED  BY <1>1, RouteInvariant, PTL

\* The handlers of another pattern are not touched by a registration.
LEMMA OtherHandlers ==
    ASSUME RouteInv, NEW r, NEW p, r.pattern # p, NEW o \in Op \cup {"*"}
    PROVE  Handlers(Append(routes, r), p)[o] = Handlers(routes, p)[o]
<1> DEFINE N == Len(routes)
           more == Append(routes, r)
           C == ClaimsIn(routes, p, o, N)
<1>1. N \in Nat
  BY DEF RouteInv
<1>2. /\ Len(more) = N + 1 /\ more[N + 1] = r /\ \A i \in 1 .. N : more[i] = routes[i]
  <2>1. routes \in Seq(Registration \cup {r})
    <3>1. routes \in Seq(Registration)
      BY DEF RouteInv
    <3> HIDE DEF Registration
    <3> QED  BY <3>1
  <2> QED  BY <2>1
<1> HIDE DEF N, more
<1>3. \A i : i \in 1 .. N + 1 <=> i = N + 1 \/ i \in 1 .. N
  BY <1>1
<1>4. ClaimsIn(more, p, o, N + 1) = C
  BY <1>2, <1>3 DEF ClaimsIn
<1>5. C \in SUBSET (1 .. N)
  BY DEF ClaimsIn
<1>6. N + 1 \in Nat
  BY <1>1
<1>7. /\ C = {} => Handlers(routes, p)[o] = {} /\ Handlers(more, p)[o] = {}
      /\ \A i : LastOf(C, i) => /\ Handlers(routes, p)[o] = {routes[i].name}
                                /\ Handlers(more, p)[o] = {more[i].name}
  BY <1>1, <1>2, <1>4, <1>6, HandlersAre DEF N
<1> HIDE DEF C
<1>8. CASE C = {}
  BY <1>7, <1>8, Zenon DEF more
<1>9. CASE C # {}
  <2>1. LastOf(C, Max(C)) /\ Max(C) \in 1 .. N
    BY <1>1, <1>5, <1>9, MaxIs, Zenon DEF LastOf
  <2> QED  BY <1>2, <1>7, <2>1, Zenon DEF more
<1> QED  BY <1>8, <1>9

\* A pattern that does not match a path does not change what is found for it.
LEMMA OtherFound ==
    ASSUME NEW P, NEW p, NEW path, ~Matches(p, path)
    PROVE  At(P \cup {p}, path) = At(P, path)
BY DEF At

\* The name of a handler is the number of a route.
LEMMA HandlersAreRoutes ==
    ASSUME RouteInv, NEW p, NEW o \in Op \cup {"*"}, NEW n \in Handlers(routes, p)[o]
    PROVE  n \in DOMAIN routes
BY HandlerOf

\* A registration leaves what is served as it is for every path that its pattern
\* does not match, the one below the path that has_children probes included.
LEMMA RegisterLocal ==
    ASSUME RouteInv, NEW p \in Pattern \cup {DefaultPattern}, NEW name \in BundleName,
           Register(p, Bundle(name)), NEW path, NEW op \in Op,
           ~Matches(p, path), ~Matches(p, Probe(path))
    PROVE  Serve(path, op)' = Serve(path, op)
<1> DEFINE r == [pattern |-> p, ops |-> Bundle(name),
                 name |-> Len(routes) + 1, func |-> Len(script) + 1]
           found == At(Patterns(routes), path)
           q == CHOOSE x \in found : TRUE
           w == FromBytecodes(script)
           v == FromBytecodes(script')
           h == Handlers(routes, q)
           g == Handlers(routes', q)
           chosen == IF h[op] # {} THEN h[op] ELSE h["*"]
<1>1. routes' = Append(routes, r) /\ r.pattern = p
  BY DEF Register
<1>2. Patterns(routes') = Patterns(routes) \cup {p}
  <2>1. Len(routes) \in Nat /\ DOMAIN routes = 1 .. Len(routes) /\ routes \in Seq(Registration)
    BY DEF RouteInv
  <2>2. DOMAIN routes' = 1 .. Len(routes) + 1 /\ routes'[Len(routes) + 1].pattern = p
        /\ \A i \in 1 .. Len(routes) : routes'[i] = routes[i]
    <3> HIDE DEF r, Registration
    <3> QED  BY <1>1, <2>1
  <2>3. \A i : i \in 1 .. Len(routes) + 1 <=> i = Len(routes) + 1 \/ i \in 1 .. Len(routes)
    BY <2>1
  <2> QED  BY <2>1, <2>2, <2>3 DEF Patterns
<1>3. /\ At(Patterns(routes'), path) = found
      /\ At(Patterns(routes'), Probe(path)) = At(Patterns(routes), Probe(path))
  BY <1>2, OtherFound
<1>4. HasChildren(routes', path, q) <=> HasChildren(routes, path, q)
  BY <1>3 DEF HasChildren
<1>5. ASSUME NEW n \in DOMAIN routes PROVE CallLua(v, n) = CallLua(w, n)
  <2>1. /\ w \in [funcs : Seq(Nat), default : SUBSET Nat]
        /\ Len(w.funcs) = Len(routes) /\ DOMAIN routes = 1 .. Len(routes)
        /\ Len(routes) \in Nat /\ Len(script) \in Nat
    BY DEF RouteInv
  <2>2. v = [w EXCEPT !.funcs = Append(w.funcs, Len(script) + 1)]
    BY ExecutesInv DEF Register, Execute
  <2>3. v.funcs = Append(w.funcs, Len(script) + 1) /\ w.funcs \in Seq(Nat)
    BY <2>1, <2>2
  <2>4. n \in DOMAIN w.funcs /\ n \in DOMAIN v.funcs /\ v.funcs[n] = w.funcs[n]
    BY <2>1, <2>3
  <2> QED  BY <2>4 DEF CallLua
<1>6. CASE found = {}
  BY <1>3, <1>6, Zenon DEF Serve, Dispatch
<1>7. CASE found # {}
  <2>1. q \in found /\ q # p
    <3>1. q \in found
      BY <1>7
    <3> QED  BY <3>1 DEF At
  <2>2. g[op] = h[op] /\ g["*"] = h["*"]
    BY <1>1, <2>1, OtherHandlers
  <2>3. \A n \in chosen : n \in DOMAIN routes
    BY HandlersAreRoutes
  <2>4. chosen # {} => CallLua(v, CHOOSE n \in chosen : TRUE) = CallLua(w, CHOOSE n \in chosen : TRUE)
    <3> HIDE DEF chosen
    <3> QED  BY <1>5, <2>3
  <2>5. Serve(path, op) = IF chosen = {} THEN NoHandler
                          ELSE IF /\ HasChildren(routes, path, q)
                                  /\ op \in {"open", "read", "write", "release"} THEN IsDirectory
                          ELSE CallLua(w, CHOOSE n \in chosen : TRUE)
    BY <1>7, Zenon DEF Serve, Dispatch
  <2> DEFINE after == IF g[op] # {} THEN g[op] ELSE g["*"]
  <2>6. Serve(path, op)' = IF after = {} THEN NoHandler
                           ELSE IF /\ HasChildren(routes', path, q)
                                   /\ op \in {"open", "read", "write", "release"} THEN IsDirectory
                           ELSE CallLua(v, CHOOSE n \in after : TRUE)
    <3> DEFINE F == At(Patterns(routes'), path)
    <3>1. F = found /\ F # {}
      BY <1>3, <1>7
    <3> HIDE DEF found
    <3>2. Serve(path, op)' =
            LET x == CHOOSE y \in F : TRUE
                handlers == Handlers(routes', x)
                some == IF handlers[op] # {} THEN handlers[op] ELSE handlers["*"]
            IN  IF F = {} THEN NoRoute
                ELSE IF some = {} THEN NoHandler
                ELSE IF /\ HasChildren(routes', path, x)
                        /\ op \in {"open", "read", "write", "release"} THEN IsDirectory
                ELSE CallLua(v, CHOOSE n \in some : TRUE)
      BY DEF Serve, Dispatch
    <3> HIDE DEF F
    <3> QED  BY <3>1, <3>2, Zenon
  <2>7. after = chosen
    <3> HIDE DEF g, h
    <3> QED  BY <2>2
  <2> HIDE DEF after, chosen, v, w, q
  <2> QED  BY <1>4, <2>4, <2>5, <2>6, <2>7
<1> QED  BY <1>6, <1>7

\* A registration changes what is served only for the paths its pattern matches
\* and for their parents, whatever was registered before it.
THEOREM RegistrationsAreLocal == RouteSpec => RegistrationIsLocal
<1> DEFINE Local ==
      phase = "script" /\ Len(routes') > Len(routes) =>
         LET new == routes'[Len(routes')].pattern IN
         Accepted(Patterns(routes')) =>
         \A path \in Path, op \in Op :
             Serve(path, op)' # Serve(path, op) =>
                 Matches(new, path) \/ Matches(new, Probe(path))
<1>1. RouteInv /\ [RouteNext]_routeVars => [Local]_routeVars
  <2> SUFFICES ASSUME RouteInv, RouteNext, Len(routes') > Len(routes)
               PROVE  \A path \in Path, op \in Op :
                        Serve(path, op)' # Serve(path, op) =>
                          Matches(routes'[Len(routes')].pattern, path)
                            \/ Matches(routes'[Len(routes')].pattern, Probe(path))
    OBVIOUS
  <2>1. Len(routes) \in Nat /\ routes \in Seq(Registration)
    BY DEF RouteInv
  <2>2. PICK p \in Pattern \cup {DefaultPattern}, name \in BundleName : Register(p, Bundle(name))
    BY <2>1 DEF RouteNext, RegisterRejected, RouteDefault, BuildRouter
  <2>3. routes'[Len(routes')].pattern = p
    <3> DEFINE r == [pattern |-> p, ops |-> Bundle(name),
                     name |-> Len(routes) + 1, func |-> Len(script) + 1]
    <3>1. routes' = Append(routes, r) /\ r.pattern = p
      BY <2>2 DEF Register
    <3> HIDE DEF r, Registration
    <3>2. Len(routes') = Len(routes) + 1 /\ routes'[Len(routes) + 1] = r
      BY <2>1, <3>1
    <3> QED  BY <3>1, <3>2
  <2>4. ASSUME NEW path, NEW op \in Op, ~Matches(p, path), ~Matches(p, Probe(path))
        PROVE  Serve(path, op)' = Serve(path, op)
    BY <2>2, <2>4, RegisterLocal
  <2> QED  BY <2>3, <2>4
<1> QED  BY <1>1, RouteInvariant, PTL DEF RouteSpec, RegistrationIsLocal

=============================================================================
