-------------------------- MODULE Iteration_proofs --------------------------
(***************************************************************************)
(* Induction and recursion over numbers, for the loops of the model that   *)
(* are recursive functions over an interval: what holds at 0 and is kept   *)
(* by every step holds up to the bound, and the definition has a solution. *)
(* Sequences are compared by their elements.                               *)
(***************************************************************************)
EXTENDS Integers, Sequences, WellFoundedInduction, TLAPS

\* A non-empty set of numbers has a least one.
LEMMA NatMin ==
    ASSUME NEW T \in SUBSET Nat, T # {}
    PROVE  \E x \in T : \A y \in T : x <= y
<1>1. IsWellFoundedOn(OpToRel(<, Nat), Nat)
  BY NatLessThanWellFounded, Zenon
<1>2. PICK x \in T : \A y \in T : ~(<<y, x>> \in OpToRel(<, Nat))
  BY <1>1, WFMin, Zenon
<1>3. \A y \in T : ~(y < x)
  BY <1>2, Zenon DEF OpToRel
<1> QED  BY <1>3

\* What holds of 0 and of every number after one it holds of, up to N.
LEMMA UpTo ==
    ASSUME NEW N \in Nat, NEW T, 0 \in T, \A n \in 1 .. N : n - 1 \in T => n \in T
    PROVE  \A n \in 0 .. N : n \in T
<1> SUFFICES ASSUME (0 .. N) \ T # {} PROVE FALSE
  OBVIOUS
<1>1. (0 .. N) \ T \in SUBSET Nat
  OBVIOUS
<1>2. PICK x \in (0 .. N) \ T : \A y \in (0 .. N) \ T : x <= y
  BY <1>1, NatMin, Zenon
<1>3. x \in 1 .. N /\ x - 1 \in 0 .. N /\ ~(x <= x - 1)
  BY <1>2
<1>4. x - 1 \in T
  BY <1>2, <1>3
<1> QED  BY <1>2, <1>3, <1>4

\* The steps of an iteration over S, and a run of them.
Steps(S, init, N, step) == init \in S /\ N \in Nat /\ step \in [1 .. N -> [S -> S]]
IsRun(f, S, init, N, step) ==
    f \in [0 .. N -> S] /\ f[0] = init /\ \A n \in 1 .. N : f[n] = step[n][f[n - 1]]

\* A step can be iterated N times from init.
LEMMA Iterates ==
    ASSUME NEW S, NEW init, NEW N, NEW step, Steps(S, init, N, step)
    PROVE  \E f : IsRun(f, S, init, N, step)
<1>0. init \in S /\ N \in Nat /\ step \in [1 .. N -> [S -> S]]
  BY DEF Steps
<1> DEFINE Run(m, f) == /\ f \in [0 .. m -> S] /\ f[0] = init
                        /\ \A n \in 1 .. m : f[n] = step[n][f[n - 1]]
           T == {m \in 0 .. N : \E f : Run(m, f)}
<1>1. 0 \in T
  <2>1. Run(0, [n \in 0 .. 0 |-> init])
    BY <1>0
  <2> HIDE DEF Run
  <2>2. 0 \in 0 .. N
    BY <1>0
  <2> QED  BY <2>1, <2>2
<1>2. ASSUME NEW m \in 1 .. N, m - 1 \in T PROVE m \in T
  <2>1. PICK f : Run(m - 1, f)
    BY <1>2
  <2> DEFINE g == [n \in 0 .. m |-> IF n = m THEN step[m][f[m - 1]] ELSE f[n]]
  <2>2. f[m - 1] \in S /\ step[m][f[m - 1]] \in S
    BY <1>0, <2>1
  <2>3. g \in [0 .. m -> S] /\ g[0] = init
    BY <1>0, <2>1, <2>2
  <2>4. ASSUME NEW n \in 1 .. m PROVE g[n] = step[n][g[n - 1]]
    <3>1. g[n - 1] = f[n - 1]
      BY <1>0
    <3>2. CASE n = m
      BY <3>1, <3>2
    <3>3. CASE n # m
      <4>1. n \in 1 .. m - 1 /\ g[n] = f[n]
        BY <1>0, <3>3
      <4> QED  BY <2>1, <3>1, <4>1
    <3> QED  BY <3>2, <3>3
  <2>5. Run(m, g)
    BY <2>3, <2>4, Zenon
  <2> HIDE DEF Run, g
  <2>6. m \in 0 .. N
    BY <1>0
  <2> QED  BY <2>5, <2>6
<1> HIDE DEF T, Run
<1>3. N \in T
  <2>1. \A n \in 1 .. N : n - 1 \in T => n \in T
    BY <1>2
  <2>2. \A n \in 0 .. N : n \in T
    BY <1>0, <1>1, <2>1, UpTo, Zenon
  <2> QED  BY <1>0, <2>2
<1>4. PICK f : Run(N, f)
  BY <1>3 DEF T
<1> QED  BY <1>4, Zenon DEF Run, IsRun

-----------------------------------------------------------------------------
(* Sequences.                                                              *)

\* Two sequences with the same elements at the same places are one.
LEMMA SameSeq ==
    ASSUME NEW S, NEW p \in Seq(S), NEW q \in Seq(S), Len(p) = Len(q),
           \A i \in 1 .. Len(p) : p[i] = q[i]
    PROVE  p = q
<1>1. p = [i \in 1 .. Len(p) |-> p[i]] /\ q = [i \in 1 .. Len(q) |-> q[i]]
  OBVIOUS
<1> QED  BY <1>1

\* The elements of a concatenation are those of its parts, in order.
LEMMA ConcatIs ==
    ASSUME NEW S, NEW p \in Seq(S), NEW q \in Seq(S)
    PROVE  /\ p \o q \in Seq(S) /\ Len(p \o q) = Len(p) + Len(q)
           /\ \A i \in 1 .. Len(p) : (p \o q)[i] = p[i]
           /\ \A i \in 1 .. Len(q) : (p \o q)[Len(p) + i] = q[i]
<1>1. Len(p \o q) = Len(p) + Len(q) /\ Len(p) \in Nat /\ Len(q) \in Nat
  OBVIOUS
<1>2. p \o q \in Seq(S)
  OBVIOUS
<1>3. \A i \in 1 .. Len(p) : (p \o q)[i] = p[i]
  OBVIOUS
<1>4. \A i \in 1 .. Len(q) : (p \o q)[Len(p) + i] = q[i]
  OBVIOUS
<1> QED  BY <1>1, <1>2, <1>3, <1>4

=============================================================================
