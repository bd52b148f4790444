--------------------------- MODULE NinepTcp_proofs ---------------------------
(***************************************************************************)
(* Proofs about the TCP and TLS listeners, for any number of clients and   *)
(* streams, any limit on connections and any way of cutting streams into   *)
(* frames.                                                                 *)
(*                                                                         *)
(* The pieces of a stream are numbered, so a payload is a run of numbers.  *)
(* What waits in a socket or a channel covers an interval: there are marks *)
(* between its elements such that each element is the run between the two  *)
(* marks around it.  The intervals of the socket, the two channels, the    *)
(* buffer and the message in progress join up, from the last reply to the  *)
(* last piece sent.                                                        *)
(***************************************************************************)
EXTENDS NinepTcp, FiniteSetTheorems, TLAPS

Piece == Client \X Stream \X Nat
Frame == [s : Stream, payload : Seq(Piece)]
ReplyFrame == [s : Stream, reply : Seq(Piece)]

\* The pieces lo + 1 .. hi of a stream, and the reply to its k-th message.
Run(c, s, lo, hi) == [j \in 1 .. hi - lo |-> <<c, s, lo + j>>]
ReplyTo(c, s, k) == <<<<c, s, 2 * k - 1>>, <<c, s, 2 * k>>>>

Marks(q, lo, hi) ==
    {e \in [0 .. Len(q) -> Nat] :
        /\ e[0] = lo /\ e[Len(q)] = hi
        /\ \A i, j \in 0 .. Len(q) : i <= j => e[i] <= e[j]}

\* The elements of q lead from lo to hi: each stands in R with the marks around it.
Spans(q, R, lo, hi) ==
    \E e \in Marks(q, lo, hi) : \A i \in 1 .. Len(q) : <<q[i], e[i - 1], e[i]>> \in R

\* A frame of stream s carries its pieces from mark to mark, a payload of its
\* channel is these pieces, and a frame of the writer its next reply; frames of
\* other streams leave the mark where it is.
FrameSpan(c, s) ==
    {x \in Frame \X Nat \X Nat :
        IF x[1].s = s THEN x[2] < x[3] /\ x[1].payload = Run(c, s, x[2], x[3])
        ELSE x[3] = x[2]}
QueueSpan(c, s) ==
    {x \in Seq(Piece) \X Nat \X Nat : x[2] < x[3] /\ x[1] = Run(c, s, x[2], x[3])}
ReplySpan(c, s) ==
    {x \in ReplyFrame \X Nat \X Nat :
        IF x[1].s = s THEN x[3] = x[2] + 1 /\ x[1].reply = ReplyTo(c, s, x[3])
        ELSE x[3] = x[2]}

-----------------------------------------------------------------------------
(* Sequences.                                                              *)

LEMMA NonEmpty ==
    ASSUME NEW S, NEW q \in Seq(S), q # <<>>
    PROVE  Len(q) \in Nat \ {0}
  OBVIOUS

LEMMA SameSeq ==
    ASSUME NEW S, NEW q \in Seq(S), NEW r \in Seq(S), Len(q) = Len(r),
           \A i \in 1 .. Len(q) : q[i] = r[i]
    PROVE  q = r
<1>1. q = [i \in 1 .. Len(q) |-> q[i]]
  OBVIOUS
<1>2. r = [i \in 1 .. Len(r) |-> r[i]]
  OBVIOUS
<1> QED  BY <1>1, <1>2

LEMMA TailIs ==
    ASSUME NEW S, NEW q \in Seq(S), q # <<>>
    PROVE  /\ Len(q) \in Nat \ {0} /\ Head(q) = q[1] /\ q[1] \in S
           /\ Len(Tail(q)) = Len(q) - 1 /\ Tail(q) \in Seq(S)
           /\ \A i \in 1 .. Len(Tail(q)) : /\ Tail(q)[i] = q[i + 1] /\ Tail(q)[i] \in S
                                          /\ i + 1 \in 1 .. Len(q)
<1>1. Len(q) \in Nat \ {0} /\ Head(q) = q[1] /\ q[1] \in S
  OBVIOUS
<1>2. Len(Tail(q)) = Len(q) - 1 /\ Tail(q) \in Seq(S)
  OBVIOUS
<1>3. ASSUME NEW i \in 1 .. Len(Tail(q))
      PROVE  Tail(q)[i] = q[i + 1] /\ Tail(q)[i] \in S /\ i + 1 \in 1 .. Len(q)
  BY <1>1, <1>2
<1> QED  BY <1>1, <1>2, <1>3

LEMMA HeadTail ==
    ASSUME NEW S, NEW q \in Seq(S), q # <<>>
    PROVE  Head(q) \in S /\ Tail(q) \in Seq(S)
  OBVIOUS

LEMMA AppendIs ==
    ASSUME NEW S, NEW q \in Seq(S), NEW x \in S
    PROVE  Append(q, x) \in Seq(S)
  OBVIOUS

LEMMA AppendEmpty == ASSUME NEW x PROVE Append(<<>>, x) = <<x>>
  OBVIOUS

-----------------------------------------------------------------------------
(* Intervals.                                                              *)

LEMMA RunIsSeq ==
    ASSUME NEW c \in Client, NEW s \in Stream, NEW lo \in Nat, NEW hi \in Nat, lo <= hi
    PROVE  /\ Run(c, s, lo, hi) \in Seq(Piece)
           /\ Len(Run(c, s, lo, hi)) = hi - lo
  BY DEF Run, Piece

LEMMA RunEmpty ==
    ASSUME NEW c \in Client, NEW s \in Stream, NEW lo \in Nat, NEW hi \in Nat, lo <= hi,
           NEW r, r = Run(c, s, lo, hi)
    PROVE  (r = <<>> => lo = hi) /\ (r # <<>> => lo < hi)
<1>1. r \in Seq(Piece) /\ Len(r) = hi - lo
  BY RunIsSeq, Zenon
<1>2. r # <<>> => Len(r) \in Nat \ {0}
  BY <1>1, NonEmpty
<1> QED  BY <1>1, <1>2

LEMMA RunHeadTail ==
    ASSUME NEW c \in Client, NEW s \in Stream, NEW lo \in Nat, NEW hi \in Nat, lo < hi
    PROVE  /\ Head(Run(c, s, lo, hi)) = <<c, s, lo + 1>>
           /\ Tail(Run(c, s, lo, hi)) = Run(c, s, lo + 1, hi)
<1> DEFINE r == Run(c, s, lo, hi)
           t == Run(c, s, lo + 1, hi)
<1>0. lo + 1 \in Nat /\ lo + 1 <= hi /\ lo <= hi
  OBVIOUS
<1>1. /\ r \in Seq(Piece) /\ Len(r) = hi - lo
      /\ t \in Seq(Piece) /\ Len(t) = hi - (lo + 1)
  <2>1. r \in Seq(Piece) /\ Len(r) = hi - lo
    BY <1>0, RunIsSeq
  <2>2. t \in Seq(Piece) /\ Len(t) = hi - (lo + 1)
    BY <1>0, RunIsSeq
  <2> QED  BY <2>1, <2>2
<1>2. /\ \A j \in 1 .. hi - lo : r[j] = <<c, s, lo + j>>
      /\ \A j \in 1 .. hi - (lo + 1) : t[j] = <<c, s, lo + 1 + j>>
  BY DEF Run
<1> HIDE DEF r, t
<1>3. Head(r) = <<c, s, lo + 1>>
  BY <1>1, <1>2
<1>4. /\ Tail(r) \in Seq(Piece) /\ Len(Tail(r)) = Len(t)
      /\ \A j \in 1 .. Len(t) : Tail(r)[j] = r[j + 1]
  BY <1>1
<1>5. ASSUME NEW j \in 1 .. Len(t) PROVE Tail(r)[j] = t[j]
  <2>1. j + 1 \in 1 .. hi - lo /\ j \in 1 .. hi - (lo + 1) /\ lo + (j + 1) = lo + 1 + j
    BY <1>1
  <2>2. r[j + 1] = <<c, s, lo + (j + 1)>> /\ t[j] = <<c, s, lo + 1 + j>>
    BY <1>2, <2>1
  <2> QED  BY <1>4, <2>1, <2>2
<1>6. Tail(r) = t
  BY <1>1, <1>4, <1>5, SameSeq
<1> QED  BY <1>3, <1>6 DEF r, t

LEMMA RunAppend ==
    ASSUME NEW c \in Client, NEW s \in Stream, NEW lo \in Nat, NEW hi \in Nat, lo <= hi
    PROVE  Append(Run(c, s, lo, hi), <<c, s, hi + 1>>) = Run(c, s, lo, hi + 1)
<1> DEFINE r == Run(c, s, lo, hi)
           t == Run(c, s, lo, hi + 1)
           x == <<c, s, hi + 1>>
<1>0. hi + 1 \in Nat /\ lo <= hi + 1 /\ x \in Piece
  BY DEF Piece
<1>1. r \in Seq(Piece) /\ Len(r) = hi - lo
  BY RunIsSeq
<1>2. t \in Seq(Piece) /\ Len(t) = hi + 1 - lo
  <2>1. \A top \in Nat : lo <= top =>
           Run(c, s, lo, top) \in Seq(Piece) /\ Len(Run(c, s, lo, top)) = top - lo
    BY RunIsSeq
  <2> QED  BY <1>0, <2>1
<1>3. /\ \A j \in 1 .. hi - lo : r[j] = <<c, s, lo + j>>
      /\ \A j \in 1 .. hi + 1 - lo : t[j] = <<c, s, lo + j>>
  BY DEF Run
<1> HIDE DEF r, t
<1>4. t[hi + 1 - lo] = x
  <2>1. hi + 1 - lo \in 1 .. hi + 1 - lo /\ lo + (hi + 1 - lo) = hi + 1
    OBVIOUS
  <2> QED  BY <1>3, <2>1
<1> HIDE DEF x
<1>5. /\ Append(r, x) \in Seq(Piece) /\ Len(Append(r, x)) = Len(t)
      /\ \A j \in 1 .. hi - lo : Append(r, x)[j] = r[j]
      /\ Append(r, x)[hi + 1 - lo] = x
  BY <1>0, <1>1, <1>2
<1>6. ASSUME NEW j \in 1 .. Len(t) PROVE Append(r, x)[j] = t[j]
  <2>1. j = hi + 1 - lo \/ j \in 1 .. hi - lo
    BY <1>2
  <2> QED  BY <1>2, <1>3, <1>4, <1>5, <2>1, Zenon
<1>7. Append(r, x) = t
  BY <1>2, <1>5, <1>6, SameSeq
<1> QED  BY <1>7 DEF r, t, x

LEMMA AppendOne ==
    ASSUME NEW S, NEW x \in S, NEW y \in S
    PROVE  Append(<<x>>, y) = <<x, y>>
<1>1. /\ <<x>> \in Seq(S) /\ Len(<<x>>) = 1 /\ <<x>>[1] = x
      /\ <<x, y>> \in Seq(S) /\ Len(<<x, y>>) = 2 /\ <<x, y>>[1] = x /\ <<x, y>>[2] = y
  OBVIOUS
<1>2. /\ Append(<<x>>, y) \in Seq(S) /\ Len(Append(<<x>>, y)) = 2
      /\ Append(<<x>>, y)[1] = x /\ Append(<<x>>, y)[2] = y
  <2>1. \A q \in Seq(S) : /\ Append(q, y) \in Seq(S) /\ Len(Append(q, y)) = Len(q) + 1
                          /\ \A i \in 1 .. Len(q) : Append(q, y)[i] = q[i]
                          /\ Append(q, y)[Len(q) + 1] = y
    OBVIOUS
  <2> QED  BY <1>1, <2>1
<1>3. \A i \in 1 .. 2 : Append(<<x>>, y)[i] = <<x, y>>[i]
  BY <1>1, <1>2
<1> QED  BY <1>1, <1>2, <1>3, SameSeq, Zenon

LEMMA RunSmall ==
    ASSUME NEW c \in Client, NEW s \in Stream, NEW a \in Nat
    PROVE  /\ Run(c, s, a, a) = <<>>
           /\ Run(c, s, a, a + 1) = <<<<c, s, a + 1>>>>
           /\ Run(c, s, 2 * a, 2 * a + 2) = ReplyTo(c, s, a + 1)
<1>1. \A b \in Nat : Run(c, s, b, b) = <<>>
  BY DEF Run
<1>2. \A b \in Nat : Run(c, s, b, b + 1) = <<<<c, s, b + 1>>>>
  <2> SUFFICES ASSUME NEW b \in Nat PROVE Run(c, s, b, b + 1) = <<<<c, s, b + 1>>>>
    OBVIOUS
  <2>1. Append(Run(c, s, b, b), <<c, s, b + 1>>) = Run(c, s, b, b + 1)
    <3>1. b <= b
      OBVIOUS
    <3> QED  BY <3>1, RunAppend, Zenon
  <2>2. Append(<<>>, <<c, s, b + 1>>) = <<<<c, s, b + 1>>>>
    OBVIOUS
  <2> QED  BY <1>1, <2>1, <2>2, Zenon
<1>3. Run(c, s, 2 * a, 2 * a + 2) = ReplyTo(c, s, a + 1)
  <2>1. 2 * a \in Nat /\ 2 * a + 1 \in Nat /\ (2 * a + 1) + 1 = 2 * a + 2
        /\ 2 * (a + 1) - 1 = 2 * a + 1 /\ 2 * (a + 1) = 2 * a + 2 /\ 2 * a <= 2 * a + 1
    OBVIOUS
  <2>2. Append(Run(c, s, 2 * a, 2 * a + 1), <<c, s, 2 * a + 2>>) = Run(c, s, 2 * a, 2 * a + 2)
    <3>1. \A lo, hi \in Nat : lo <= hi =>
             Append(Run(c, s, lo, hi), <<c, s, hi + 1>>) = Run(c, s, lo, hi + 1)
      BY RunAppend
    <3>2. Append(Run(c, s, 2 * a, 2 * a + 1), <<c, s, (2 * a + 1) + 1>>)
            = Run(c, s, 2 * a, (2 * a + 1) + 1)
      BY <2>1, <3>1, Zenon
    <3> QED  BY <2>1, <3>2
  <2>3. Append(<<<<c, s, 2 * a + 1>>>>, <<c, s, 2 * a + 2>>)
          = <<<<c, s, 2 * a + 1>>, <<c, s, 2 * a + 2>>>>
    <3>1. <<c, s, 2 * a + 1>> \in Piece /\ <<c, s, 2 * a + 2>> \in Piece
      BY <2>1 DEF Piece
    <3> QED  BY <3>1, AppendOne
  <2> QED  BY <1>2, <2>1, <2>2, <2>3, Zenon DEF ReplyTo
<1> QED  BY <1>1, <1>2, <1>3, Zenon

\* The marks of a longer and of a shorter sequence.
LEMMA MarksAppend ==
    ASSUME NEW S, NEW q \in Seq(S), NEW x \in S, NEW lo \in Nat, NEW hi \in Nat,
           NEW top \in Nat, hi <= top, NEW e \in Marks(q, lo, hi),
           NEW f, f = [i \in 0 .. Len(q) + 1 |-> IF i <= Len(q) THEN e[i] ELSE top]
    PROVE  f \in Marks(Append(q, x), lo, top)
<1>1. /\ Len(q) \in Nat /\ Len(Append(q, x)) = Len(q) + 1
      /\ e \in [0 .. Len(q) -> Nat] /\ e[0] = lo /\ e[Len(q)] = hi
  BY DEF Marks
<1>2. \A i, j \in 0 .. Len(q) : i <= j => e[i] <= e[j]
  BY DEF Marks
<1>3. f \in [0 .. Len(q) + 1 -> Nat] /\ f[0] = lo /\ f[Len(q) + 1] = top
  BY <1>1
<1>4. \A i \in 0 .. Len(q) : e[i] <= hi
  BY <1>1, <1>2
<1>5. \A i, j \in 0 .. Len(q) + 1 : i <= j => f[i] <= f[j]
  BY <1>1, <1>2, <1>4
<1> QED  BY <1>1, <1>3, <1>5 DEF Marks

LEMMA MarksTail ==
    ASSUME NEW S, NEW q \in Seq(S), q # <<>>, NEW lo \in Nat, NEW hi \in Nat,
           NEW e \in Marks(q, lo, hi), NEW f, f = [i \in 0 .. Len(q) - 1 |-> e[i + 1]]
    PROVE  /\ f \in Marks(Tail(q), e[1], hi)
           /\ e[1] \in Nat /\ lo <= e[1] /\ e[1] <= hi /\ e[0] = lo
<1>1. /\ Len(q) \in Nat \ {0} /\ Len(Tail(q)) = Len(q) - 1
      /\ e \in [0 .. Len(q) -> Nat] /\ e[0] = lo /\ e[Len(q)] = hi
  BY DEF Marks
<1>2. \A i, j \in 0 .. Len(q) : i <= j => e[i] <= e[j]
  BY DEF Marks
<1>3. f \in [0 .. Len(q) - 1 -> Nat] /\ f[0] = e[1] /\ f[Len(q) - 1] = hi
  BY <1>1
<1>4. \A i, j \in 0 .. Len(q) - 1 : i <= j => f[i] <= f[j]
  BY <1>1, <1>2
<1>5. e[1] \in Nat /\ lo <= e[1] /\ e[1] <= hi
  BY <1>1, <1>2
<1> QED  BY <1>1, <1>3, <1>4, <1>5 DEF Marks

LEMMA MarksOrder ==
    ASSUME NEW S, NEW q \in Seq(S), NEW lo, NEW hi, NEW e \in Marks(q, lo, hi)
    PROVE  /\ lo \in Nat /\ hi \in Nat /\ lo <= hi
           /\ q = <<>> => lo = hi
  BY DEF Marks

LEMMA SpansEmpty ==
    ASSUME NEW lo \in Nat, NEW R
    PROVE  Spans(<<>>, R, lo, lo)
<1>1. [i \in {0} |-> lo] \in Marks(<<>>, lo, lo)
  BY DEF Marks
<1> QED  BY <1>1 DEF Spans

LEMMA SpansOrder ==
    ASSUME NEW S, NEW q \in Seq(S), NEW R, NEW lo, NEW hi, Spans(q, R, lo, hi)
    PROVE  /\ lo \in Nat /\ hi \in Nat /\ lo <= hi
           /\ q = <<>> => lo = hi
  BY MarksOrder DEF Spans

LEMMA SpansAppend ==
    ASSUME NEW S, NEW q \in Seq(S), NEW x \in S, NEW R, NEW lo, NEW hi, NEW top \in Nat,
           Spans(q, R, lo, hi), hi <= top, <<x, hi, top>> \in R
    PROVE  Spans(Append(q, x), R, lo, top)
<1>1. PICK e \in Marks(q, lo, hi) : \A i \in 1 .. Len(q) : <<q[i], e[i - 1], e[i]>> \in R
  BY DEF Spans
<1>2. lo \in Nat /\ hi \in Nat
  BY MarksOrder
<1> DEFINE f == [i \in 0 .. Len(q) + 1 |-> IF i <= Len(q) THEN e[i] ELSE top]
           r == Append(q, x)
<1>3. f \in Marks(r, lo, top)
  BY <1>2, MarksAppend
<1>4. Len(q) \in Nat /\ Len(r) = Len(q) + 1 /\ r[Len(q) + 1] = x
      /\ (\A i \in 1 .. Len(q) : r[i] = q[i]) /\ e[Len(q)] = hi
  BY DEF Marks
<1>5. (\A i \in 0 .. Len(q) : f[i] = e[i]) /\ f[Len(q) + 1] = top
  BY <1>4
<1> HIDE DEF f, r
<1>6. ASSUME NEW i \in 1 .. Len(r) PROVE <<r[i], f[i - 1], f[i]>> \in R
  <2>1. CASE i \in 1 .. Len(q)
    <3>1. f[i] = e[i] /\ f[i - 1] = e[i - 1] /\ r[i] = q[i]
      BY <1>4, <1>5, <2>1
    <3> QED  BY <1>1, <2>1, <3>1
  <2>2. CASE i = Len(q) + 1
    <3>1. f[i] = top /\ f[i - 1] = hi /\ r[i] = x
      BY <1>4, <1>5, <2>2
    <3> QED  BY <3>1
  <2> QED  BY <1>4, <2>1, <2>2
<1> QED  BY <1>3, <1>6 DEF Spans, r

LEMMA SpansTail ==
    ASSUME NEW S, NEW q \in Seq(S), q # <<>>, NEW R, NEW lo, NEW hi, Spans(q, R, lo, hi)
    PROVE  \E m \in Nat : <<Head(q), lo, m>> \in R /\ Spans(Tail(q), R, m, hi)
<1>1. PICK e \in Marks(q, lo, hi) : \A i \in 1 .. Len(q) : <<q[i], e[i - 1], e[i]>> \in R
  BY DEF Spans
<1>2. lo \in Nat /\ hi \in Nat
  BY MarksOrder
<1> DEFINE f == [i \in 0 .. Len(q) - 1 |-> e[i + 1]]
           r == Tail(q)
<1>3. f \in Marks(r, e[1], hi) /\ e[1] \in Nat /\ e[0] = lo
  BY <1>2, MarksTail
<1>4. /\ Len(q) \in Nat \ {0} /\ Len(r) = Len(q) - 1
      /\ \A i \in 1 .. Len(r) : r[i] = q[i + 1]
      /\ Head(q) = q[1]
  OBVIOUS
<1>5. \A i \in 0 .. Len(q) - 1 : f[i] = e[i + 1]
  OBVIOUS
<1> HIDE DEF f, r
<1>6. ASSUME NEW i \in 1 .. Len(r) PROVE <<r[i], f[i - 1], f[i]>> \in R
  <2>1. i + 1 \in 1 .. Len(q) /\ i \in 0 .. Len(q) - 1 /\ i - 1 \in 0 .. Len(q) - 1
        /\ (i + 1) - 1 = i /\ (i - 1) + 1 = i
    BY <1>4
  <2>2. f[i] = e[i + 1] /\ f[i - 1] = e[i] /\ r[i] = q[i + 1]
    BY <1>4, <1>5, <2>1
  <2>3. <<q[i + 1], e[i], e[i + 1]>> \in R
    BY <1>1, <2>1
  <2> QED  BY <2>2, <2>3
<1>7. Spans(r, R, e[1], hi)
  BY <1>3, <1>6 DEF Spans
<1>8. <<q[1], e[0], e[1]>> \in R
  <2>1. 1 \in 1 .. Len(q) /\ 1 - 1 = 0
    BY <1>4
  <2> QED  BY <1>1, <2>1
<1> QED  BY <1>3, <1>4, <1>7, <1>8, Zenon DEF r

-----------------------------------------------------------------------------
(* The way of a stream's pieces.                                           *)

Session == [at : {"none", "header", "body", "handle", "end"},
            buf : Seq(Piece), msg : Seq(Piece)]

\* Pieces of the current message that run_connection has read.
Pending(at) == CASE at = "body" -> 1 [] at = "handle" -> 2 [] OTHER -> 0

\* After a answers, the message in progress, the buffer, the channel of the
\* stream, the channel of the connection and the socket hold the pieces from
\* 2 * a + 1 to n, in this order.
Flow(c, s, n, sock, arr, q, e, a) ==
    \E n1, n2, n3 \in Nat :
        /\ 2 * a + Pending(e.at) <= n1
        /\ e.msg = Run(c, s, 2 * a, 2 * a + Pending(e.at))
        /\ e.buf = Run(c, s, 2 * a + Pending(e.at), n1)
        /\ Spans(q, QueueSpan(c, s), n1, n2)
        /\ Spans(arr, FrameSpan(c, s), n2, n3)
        /\ Spans(sock, FrameSpan(c, s), n3, n)

LEMMA FlowSend ==
    ASSUME NEW c \in Client, NEW s \in Stream, NEW n \in Nat, NEW top \in Nat, NEW a \in Nat,
           NEW sock \in Seq(Frame), NEW x \in Frame, NEW arr, NEW q, NEW e,
           Flow(c, s, n, sock, arr, q, e, a),
           IF x.s = s THEN n < top /\ x.payload = Run(c, s, n, top) ELSE top = n
    PROVE  Flow(c, s, top, Append(sock, x), arr, q, e, a)
<1>1. <<x, n, top>> \in FrameSpan(c, s)
  BY DEF FrameSpan
<1>2. \A m : Spans(sock, FrameSpan(c, s), m, n) => Spans(Append(sock, x), FrameSpan(c, s), m, top)
  BY <1>1, SpansAppend
<1> QED  BY <1>2 DEF Flow

LEMMA FlowRead ==
    ASSUME NEW c \in Client, NEW s \in Stream, NEW n \in Nat, NEW a \in Nat,
           NEW sock \in Seq(Frame), sock # <<>>, NEW arr \in Seq(Frame), NEW q, NEW e,
           Flow(c, s, n, sock, arr, q, e, a)
    PROVE  Flow(c, s, n, Tail(sock), Append(arr, Head(sock)), q, e, a)
<1>1. PICK n1 \in Nat, n2 \in Nat, n3 \in Nat :
        /\ 2 * a + Pending(e.at) <= n1
        /\ e.msg = Run(c, s, 2 * a, 2 * a + Pending(e.at))
        /\ e.buf = Run(c, s, 2 * a + Pending(e.at), n1)
        /\ Spans(q, QueueSpan(c, s), n1, n2)
        /\ Spans(arr, FrameSpan(c, s), n2, n3)
        /\ Spans(sock, FrameSpan(c, s), n3, n)
  BY DEF Flow
<1>2. PICK m \in Nat : /\ <<Head(sock), n3, m>> \in FrameSpan(c, s)
                       /\ Spans(Tail(sock), FrameSpan(c, s), m, n)
  BY <1>1, SpansTail
<1>3. n3 <= m /\ Head(sock) \in Frame
  BY <1>2 DEF FrameSpan
<1>4. Spans(Append(arr, Head(sock)), FrameSpan(c, s), n2, m)
  BY <1>1, <1>2, <1>3, SpansAppend
<1> QED  BY <1>1, <1>2, <1>4 DEF Flow

LEMMA FlowHandOut ==
    ASSUME NEW c \in Client, NEW s \in Stream, NEW n \in Nat, NEW a \in Nat,
           NEW sock, NEW arr \in Seq(Frame), arr # <<>>, NEW q \in Seq(Seq(Piece)), NEW e,
           Flow(c, s, n, sock, arr, q, e, a)
    PROVE  Flow(c, s, n, sock, Tail(arr),
                IF Head(arr).s = s THEN Append(q, Head(arr).payload) ELSE q, e, a)
<1>1. PICK n1 \in Nat, n2 \in Nat, n3 \in Nat :
        /\ 2 * a + Pending(e.at) <= n1
        /\ e.msg = Run(c, s, 2 * a, 2 * a + Pending(e.at))
        /\ e.buf = Run(c, s, 2 * a + Pending(e.at), n1)
        /\ Spans(q, QueueSpan(c, s), n1, n2)
        /\ Spans(arr, FrameSpan(c, s), n2, n3)
        /\ Spans(sock, FrameSpan(c, s), n3, n)
  BY DEF Flow
<1>2. PICK m \in Nat : /\ <<Head(arr), n2, m>> \in FrameSpan(c, s)
                       /\ Spans(Tail(arr), FrameSpan(c, s), m, n3)
  BY <1>1, SpansTail
<1>3. CASE Head(arr).s = s
  <2>1. /\ <<Head(arr).payload, n2, m>> \in QueueSpan(c, s) /\ n2 <= m
        /\ Head(arr).payload \in Seq(Piece)
    BY <1>2, <1>3 DEF FrameSpan, QueueSpan, Frame
  <2>2. Spans(Append(q, Head(arr).payload), QueueSpan(c, s), n1, m)
    BY <1>1, <2>1, SpansAppend
  <2> QED  BY <1>1, <1>2, <1>3, <2>2 DEF Flow
<1>4. CASE Head(arr).s # s
  <2>1. m = n2
    BY <1>2, <1>4 DEF FrameSpan
  <2> QED  BY <1>1, <1>2, <1>4, <2>1 DEF Flow
<1> QED  BY <1>3, <1>4

\* A session starts, with nothing read.
LEMMA FlowStart ==
    ASSUME NEW c, NEW s, NEW n, NEW a, NEW sock, NEW arr, NEW q, NEW e \in Session,
           e.at = "none", Flow(c, s, n, sock, arr, q, e, a)
    PROVE  Flow(c, s, n, sock, arr, q, [e EXCEPT !.at = "header"], a)
<1>1. /\ [e EXCEPT !.at = "header"].msg = e.msg /\ [e EXCEPT !.at = "header"].buf = e.buf
      /\ Pending([e EXCEPT !.at = "header"].at) = 0 /\ Pending(e.at) = 0
  BY DEF Pending, Session
<1> QED  BY <1>1 DEF Flow

\* Piece k + 1 goes from the pieces up to m to the message, which starts after lo.
Takes(c, s, lo, k, m) ==
    /\ Run(c, s, k, m) \in Seq(Piece) /\ Run(c, s, k, m) # <<>>
    /\ Append(Run(c, s, lo, k), Head(Run(c, s, k, m))) = Run(c, s, lo, k + 1)
    /\ Tail(Run(c, s, k, m)) = Run(c, s, k + 1, m)

LEMMA TakePiece ==
    ASSUME NEW c \in Client, NEW s \in Stream, NEW lo \in Nat, NEW k \in Nat, NEW m \in Nat,
           lo <= k, k < m
    PROVE  Takes(c, s, lo, k, m)
<1>1. Run(c, s, k, m) \in Seq(Piece) /\ Run(c, s, k, m) # <<>>
  BY RunIsSeq
<1>2. Head(Run(c, s, k, m)) = <<c, s, k + 1>> /\ Tail(Run(c, s, k, m)) = Run(c, s, k + 1, m)
  BY RunHeadTail
<1>3. Append(Run(c, s, lo, k), <<c, s, k + 1>>) = Run(c, s, lo, k + 1)
  BY RunAppend, Zenon
<1> QED  BY <1>1, <1>2, <1>3, Zenon DEF Takes

\* The pieces after the message in progress: the buffer, or else the next payload.
LEMMA NextPayload ==
    ASSUME NEW c \in Client, NEW s \in Stream, NEW k \in Nat, NEW n1 \in Nat, NEW n2 \in Nat,
           NEW buf, NEW q \in Seq(Seq(Piece)), k <= n1, buf = Run(c, s, k, n1),
           Spans(q, QueueSpan(c, s), n1, n2), buf # <<>> \/ q # <<>>
    PROVE  \E m \in Nat :
             /\ k < m /\ (IF buf # <<>> THEN buf ELSE Head(q)) = Run(c, s, k, m)
             /\ Spans(IF buf # <<>> THEN q ELSE Tail(q), QueueSpan(c, s), m, n2)
<1>0. (buf = <<>> => k = n1) /\ (buf # <<>> => k < n1)
  BY RunEmpty
<1>1. CASE buf # <<>>
  <2>1. k < n1
    BY <1>0, <1>1
  <2> QED  BY <1>1, <2>1
<1>2. CASE buf = <<>>
  <2>1. k = n1
    BY <1>0, <1>2
  <2>2. PICK m \in Nat : /\ <<Head(q), n1, m>> \in QueueSpan(c, s)
                         /\ Spans(Tail(q), QueueSpan(c, s), m, n2)
    BY <1>2, SpansTail, Zenon
  <2>3. n1 < m /\ Head(q) = Run(c, s, n1, m)
    BY <2>2 DEF QueueSpan
  <2> QED  BY <1>2, <2>1, <2>2, <2>3
<1> QED  BY <1>1, <1>2

\* read_exact yields the next piece, and leaves the rest.
LEMMA FlowPiece ==
    ASSUME NEW c \in Client, NEW s \in Stream, NEW n, NEW a \in Nat,
           NEW sock, NEW arr, NEW q \in Seq(Seq(Piece)), NEW e \in Session,
           Flow(c, s, n, sock, arr, q, e, a),
           e.at \in {"header", "body"}, e.buf # <<>> \/ q # <<>>
    PROVE  LET full == IF e.buf # <<>> THEN e.buf ELSE Head(q)
               rest == IF e.buf # <<>> THEN q ELSE Tail(q)
           IN  /\ full \in Seq(Piece) /\ full # <<>> /\ rest \in Seq(Seq(Piece))
               /\ \A f : /\ f.buf = Tail(full) /\ f.msg = Append(e.msg, Head(full))
                         /\ f.at = IF e.at = "header" THEN "body" ELSE "handle"
                         => Flow(c, s, n, sock, arr, rest, f, a)
<1> DEFINE full == IF e.buf # <<>> THEN e.buf ELSE Head(q)
           rest == IF e.buf # <<>> THEN q ELSE Tail(q)
           k == 2 * a + Pending(e.at)
<1>0. rest \in Seq(Seq(Piece))
  OBVIOUS
<1>1. PICK n1 \in Nat, n2 \in Nat, n3 \in Nat :
        /\ k <= n1 /\ e.msg = Run(c, s, 2 * a, k) /\ e.buf = Run(c, s, k, n1)
        /\ Spans(q, QueueSpan(c, s), n1, n2)
        /\ Spans(arr, FrameSpan(c, s), n2, n3)
        /\ Spans(sock, FrameSpan(c, s), n3, n)
  BY DEF Flow
<1>2. k \in Nat /\ 2 * a \in Nat /\ 2 * a <= k
  BY DEF Pending
<1>3. \A at : at = (IF e.at = "header" THEN "body" ELSE "handle") =>
                k + 1 = 2 * a + Pending(at)
  BY DEF Pending
<1>4. PICK m \in Nat : /\ k < m /\ full = Run(c, s, k, m)
                       /\ Spans(rest, QueueSpan(c, s), m, n2)
  <2> HIDE DEF k
  <2> QED  BY <1>1, <1>2, NextPayload
<1> HIDE DEF full, rest, k
<1>5. /\ full \in Seq(Piece) /\ full # <<>>
      /\ Append(e.msg, Head(full)) = Run(c, s, 2 * a, k + 1)
      /\ Tail(full) = Run(c, s, k + 1, m)
  <2>1. e.msg = Run(c, s, 2 * a, k)
    BY <1>1
  <2>2. Takes(c, s, 2 * a, k, m)
    BY <1>2, <1>4, TakePiece
  <2> QED  BY <1>4, <2>1, <2>2, Zenon DEF Takes
<1>6. k + 1 <= m /\ k + 1 \in Nat
  BY <1>2, <1>4
<1>7. ASSUME NEW f, f.buf = Tail(full), f.msg = Append(e.msg, Head(full)),
             f.at = IF e.at = "header" THEN "body" ELSE "handle"
      PROVE  Flow(c, s, n, sock, arr, rest, f, a)
  <2>1. k + 1 = 2 * a + Pending(f.at)
    BY <1>3, <1>7
  <2>2. /\ 2 * a + Pending(f.at) <= m /\ f.msg = Run(c, s, 2 * a, 2 * a + Pending(f.at))
        /\ f.buf = Run(c, s, 2 * a + Pending(f.at), m)
    BY <1>5, <1>6, <1>7, <2>1
  <2> QED  BY <1>1, <1>4, <2>2 DEF Flow
<1> QED  BY <1>0, <1>5, <1>7 DEF full, rest

LEMMA Doubles ==
    ASSUME NEW a \in Nat
    PROVE  /\ 2 * (a + 1) = 2 * a + 2 /\ 2 * (a + 1) + 0 = 2 * a + 2
           /\ a + 1 \in Nat /\ 2 * a + 2 \in Nat
OBVIOUS

\* The reply answers the pieces of the message, which have all been sent.
LEMMA FlowAnswer ==
    ASSUME NEW c \in Client, NEW s \in Stream, NEW n, NEW a \in Nat,
           NEW sock \in Seq(Frame), NEW arr \in Seq(Frame), NEW q \in Seq(Seq(Piece)),
           NEW e \in Session, Flow(c, s, n, sock, arr, q, e, a), e.at = "handle",
           NEW f, f.at = "header", f.msg = <<>>, f.buf = e.buf
    PROVE  /\ e.msg = ReplyTo(c, s, a + 1) /\ 2 * (a + 1) <= n
           /\ Flow(c, s, n, sock, arr, q, f, a + 1)
<1>1. PICK n1 \in Nat, n2 \in Nat, n3 \in Nat :
        /\ 2 * a + Pending(e.at) <= n1
        /\ e.msg = Run(c, s, 2 * a, 2 * a + Pending(e.at))
        /\ e.buf = Run(c, s, 2 * a + Pending(e.at), n1)
        /\ Spans(q, QueueSpan(c, s), n1, n2)
        /\ Spans(arr, FrameSpan(c, s), n2, n3)
        /\ Spans(sock, FrameSpan(c, s), n3, n)
  BY DEF Flow
<1>2. Pending(e.at) = 2 /\ Pending(f.at) = 0
  BY DEF Pending
<1>3. /\ 2 * (a + 1) = 2 * a + 2 /\ 2 * (a + 1) + 0 = 2 * a + 2
      /\ a + 1 \in Nat /\ 2 * a + 2 \in Nat
  BY Doubles, Zenon
<1>4. n1 <= n2 /\ n2 <= n3 /\ n3 <= n /\ n \in Nat
  BY <1>1, SpansOrder
<1>5. e.msg = ReplyTo(c, s, a + 1)
  BY <1>1, <1>2, RunSmall
<1>6. f.msg = Run(c, s, 2 * a + 2, 2 * a + 2)
  BY <1>3, RunSmall
<1>7. Flow(c, s, n, sock, arr, q, f, a + 1)
  BY <1>1, <1>2, <1>3, <1>6, Zenon DEF Flow
<1>8. 2 * (a + 1) <= n
  <2>1. 2 * a + 2 <= n1
    BY <1>1, <1>2
  <2> QED  BY <1>3, <1>4, <2>1
<1> QED  BY <1>5, <1>7, <1>8

-----------------------------------------------------------------------------
(* The invariant.                                                          *)

Task == [reader : {"none", "run", "end"}, loop : {"none", "handshake", "run", "end"},
         writer : {"none", "run", "end"}]

TcpTypes ==
    /\ listener \in Listener
    /\ backlog \in Seq(Client)
    /\ accept \in {<<"listen">>} \cup ({"permit", "serve"} \X Client)
    /\ permits \in SUBSET Client
    /\ peer \in [Client -> {"off", "open", "gone"}]
    /\ sent \in [Client -> [Stream -> Nat]]
    /\ socket \in [Client -> Seq(Frame)]
    /\ task \in [Client -> Task]
    /\ arrived \in [Client -> Seq(Frame)]
    /\ streams \in [Client -> SUBSET Stream]
    /\ queue \in [Client -> [Stream -> Seq(Seq(Piece))]]
    /\ session \in [Client -> [Stream -> Session]]
    /\ frames \in [Client -> Seq(ReplyFrame)]
    /\ got \in [Client -> [Stream -> Seq(Seq(Piece))]]

\* A connection waits for the accept loop once, and no task serves it yet.
AcceptInv ==
    /\ \A i, j \in 1 .. Len(backlog) : backlog[i] = backlog[j] => i = j
    /\ \A i \in 1 .. Len(backlog) : task[backlog[i]] = Idle /\ peer[backlog[i]] # "off"
    /\ accept[1] = "permit" =>
         /\ task[accept[2]] = Idle /\ peer[accept[2]] # "off"
         /\ \A i \in 1 .. Len(backlog) : backlog[i] # accept[2]
    /\ \A c \in Client : peer[c] = "off" => task[c] = Idle

\* The map holds the streams that have had a session, and a writer only ends when
\* the client is gone or no session can reply any more.
MuxInv ==
    \A c \in Client :
        /\ streams[c] = {s \in Stream : session[c][s].at # "none"}
        /\ task[c].writer = "end" =>
             peer[c] = "gone" \/ (task[c].loop = "end" /\ SessionsOver(c))

\* After a answers: g are the first of them, and the frames of the writer the others.
Replies(c, s, g, fr, p, a) ==
    /\ Len(g) <= a
    /\ \A k \in 1 .. Len(g) : g[k] = ReplyTo(c, s, k)
    /\ p # "gone" => Spans(fr, ReplySpan(c, s), Len(g), a)

StreamAt(c, s, a) ==
    /\ 2 * a <= sent[c][s]
    /\ session[c][s].at # "end" =>
         Flow(c, s, sent[c][s], socket[c], arrived[c], queue[c][s], session[c][s], a)
    /\ Replies(c, s, got[c][s], frames[c], peer[c], a)

StreamInv == \A c \in Client, s \in Stream : \E a \in Nat : StreamAt(c, s, a)

TcpInv == TcpTypes /\ AcceptInv /\ MuxInv /\ StreamInv

LEMMA TcpInitInv == TcpInit => TcpInv
<1> SUFFICES ASSUME TcpInit PROVE TcpInv
  OBVIOUS
<1>1. TcpTypes
  BY DEF TcpInit, TcpTypes, PerStream, Idle, Task, NoSession, Session
<1>2. AcceptInv
  BY DEF TcpInit, AcceptInv
<1>4. MuxInv
  BY DEF TcpInit, MuxInv, PerStream, NoSession, Idle
<1>5. ASSUME NEW c \in Client, NEW s \in Stream PROVE StreamAt(c, s, 0)
  <2>1. /\ sent[c][s] = 0 /\ session[c][s] = NoSession /\ queue[c][s] = <<>> /\ got[c][s] = <<>>
        /\ socket[c] = <<>> /\ arrived[c] = <<>> /\ frames[c] = <<>>
    BY DEF TcpInit, PerStream
  <2>2. \A R : Spans(<<>>, R, 0, 0)
    BY SpansEmpty
  <2>3. Run(c, s, 0, 0) = <<>>
    BY RunSmall
  <2>4. NoSession.msg = <<>> /\ NoSession.buf = <<>> /\ Pending(NoSession.at) = 0
    BY DEF NoSession, Pending
  <2>5. Flow(c, s, 0, <<>>, <<>>, <<>>, NoSession, 0)
    <3>1. 2 * 0 + Pending(NoSession.at) = 0 /\ 2 * 0 = 0
      BY <2>4
    <3> QED  BY <2>2, <2>3, <2>4, <3>1 DEF Flow
  <2>6. Replies(c, s, <<>>, <<>>, peer[c], 0)
    BY <2>2 DEF Replies
  <2> QED  BY <2>1, <2>5, <2>6 DEF StreamAt
<1> QED  BY <1>1, <1>2, <1>4, <1>5 DEF TcpInv, StreamInv

-----------------------------------------------------------------------------
(* Types.                                                                  *)

LEMMA PayloadTyped ==
    ASSUME TcpTypes, NEW c \in Client, NEW s \in Stream, NEW n \in Nat
    PROVE  /\ [i \in 1 .. n |-> <<c, s, sent[c][s] + i>>] = Run(c, s, sent[c][s], sent[c][s] + n)
           /\ [s |-> s, payload |-> [i \in 1 .. n |-> <<c, s, sent[c][s] + i>>]] \in Frame
<1>1. sent[c][s] \in Nat /\ sent[c][s] + n - sent[c][s] = n /\ sent[c][s] + n \in Nat
  BY DEF TcpTypes
<1>2. [i \in 1 .. n |-> <<c, s, sent[c][s] + i>>] = Run(c, s, sent[c][s], sent[c][s] + n)
  BY <1>1 DEF Run
<1>3. Run(c, s, sent[c][s], sent[c][s] + n) \in Seq(Piece)
  <2>1. \A lo, hi \in Nat : lo <= hi => Run(c, s, lo, hi) \in Seq(Piece)
    BY RunIsSeq
  <2>2. sent[c][s] <= sent[c][s] + n
    BY <1>1
  <2> QED  BY <1>1, <2>1, <2>2
<1> QED  BY <1>2, <1>3, Zenon DEF Frame

\* What a step leaves alone.
LEMMA SameStream ==
    ASSUME NEW c \in Client, NEW s \in Stream,
           \E a \in Nat : StreamAt(c, s, a),
           sent'[c][s] = sent[c][s], socket'[c] = socket[c], arrived'[c] = arrived[c],
           queue'[c][s] = queue[c][s], session'[c][s] = session[c][s],
           frames'[c] = frames[c], got'[c][s] = got[c][s],
           peer'[c] = "gone" \/ peer[c] # "gone"
    PROVE  \E a \in Nat : StreamAt(c, s, a)'
<1>1. PICK a \in Nat : StreamAt(c, s, a)
  OBVIOUS
<1>2. Replies(c, s, got[c][s], frames[c], peer[c], a)
        => Replies(c, s, got[c][s], frames[c], peer'[c], a)
  BY DEF Replies
<1>3. StreamAt(c, s, a)'
  BY <1>1, <1>2, Zenon DEF StreamAt
<1> QED  BY <1>3

\* A step that changes nothing but the tasks, the accept loop and the client.
LEMMA SameStreams ==
    ASSUME StreamInv, UNCHANGED <<sent, socket, muxVars, session, frames, got>>,
           \A c \in Client : peer'[c] = "gone" \/ peer[c] # "gone"
    PROVE  StreamInv'
<1> SUFFICES ASSUME NEW c \in Client, NEW s \in Stream
             PROVE  \E a \in Nat : StreamAt(c, s, a)'
  BY DEF StreamInv
<1>1. \E a \in Nat : StreamAt(c, s, a)
  BY DEF StreamInv
<1> QED  BY <1>1, SameStream DEF muxVars

-----------------------------------------------------------------------------
(* Clients.                                                                *)

LEMMA ConnectInv ==
    ASSUME TcpInv, NEW c \in Client, Connect(c)
    PROVE  TcpInv'
<1> USE DEF Connect, muxVars
<1>0. /\ peer' = [peer EXCEPT ![c] = "open"] /\ peer[c] = "off"
      /\ backlog' = Append(backlog, c)
      /\ UNCHANGED <<listener, accept, permits, sent, socket, task, arrived, streams, queue,
                     session, frames, got>>
  OBVIOUS
<1>1. TcpTypes'
  BY <1>0 DEF TcpInv, TcpTypes
<1>2. /\ backlog \in Seq(Client) /\ peer \in [Client -> {"off", "open", "gone"}] /\ AcceptInv
      /\ accept \in {<<"listen">>} \cup ({"permit", "serve"} \X Client)
  BY DEF TcpInv, TcpTypes
<1>3. /\ Len(backlog) \in Nat /\ Len(backlog') = Len(backlog) + 1
      /\ \A i \in 1 .. Len(backlog) : backlog'[i] = backlog[i] /\ backlog[i] \in Client
      /\ backlog'[Len(backlog) + 1] = c
  BY <1>0, <1>2
<1>4. /\ \A i \in 1 .. Len(backlog) : backlog[i] # c
      /\ accept[1] = "permit" => accept[2] # c
      /\ task[c] = Idle
  BY <1>0, <1>2 DEF AcceptInv
<1>5. AcceptInv'
  <2>1. \A i, j \in 1 .. Len(backlog') : backlog'[i] = backlog'[j] => i = j
    BY <1>2, <1>3, <1>4 DEF AcceptInv
  <2>2. \A i \in 1 .. Len(backlog') : task'[backlog'[i]] = Idle /\ peer'[backlog'[i]] # "off"
    BY <1>0, <1>2, <1>3, <1>4 DEF AcceptInv
  <2>3. accept'[1] = "permit" =>
          /\ task'[accept'[2]] = Idle /\ peer'[accept'[2]] # "off"
          /\ \A i \in 1 .. Len(backlog') : backlog'[i] # accept'[2]
    <3> SUFFICES ASSUME accept[1] = "permit"
                 PROVE  /\ task[accept[2]] = Idle /\ peer'[accept[2]] # "off"
                        /\ \A i \in 1 .. Len(backlog') : backlog'[i] # accept[2]
      BY <1>0
    <3>1. accept[2] \in Client
      BY <1>2
    <3> QED  BY <1>0, <1>2, <1>3, <1>4, <3>1 DEF AcceptInv
  <2>4. \A d \in Client : peer'[d] = "off" => task'[d] = Idle
    BY <1>0, <1>2 DEF AcceptInv
  <2> QED  BY <2>1, <2>2, <2>3, <2>4 DEF AcceptInv
<1>7. MuxInv'
  <2>1. \A d \in Client : peer[d] = "gone" => peer'[d] = "gone"
    BY <1>0, <1>2
  <2> QED  BY <1>0, <2>1 DEF TcpInv, MuxInv, SessionsOver
<1>8. StreamInv'
  <2>1. \A d \in Client : peer'[d] = "gone" \/ peer[d] # "gone"
    BY <1>0, <1>2
  <2> QED  BY <1>0, <2>1, SameStreams DEF TcpInv
<1> QED  BY <1>1, <1>5, <1>7, <1>8 DEF TcpInv

LEMMA LeaveInv ==
    ASSUME TcpInv, NEW c \in Client, Leave(c)
    PROVE  TcpInv'
<1>0. /\ peer' = [peer EXCEPT ![c] = "gone"] /\ peer[c] = "open"
      /\ UNCHANGED <<listener, backlog, accept, permits, sent, socket, task, arrived, streams,
                     queue, session, frames, got>>
  BY DEF Leave, muxVars, acceptVars
<1>1. TcpTypes'
  BY <1>0 DEF TcpInv, TcpTypes
<1>2. peer \in [Client -> {"off", "open", "gone"}]
  BY DEF TcpInv, TcpTypes
<1>3. \A d : (d \in Client /\ peer'[d] = "off") => peer[d] = "off"
  BY <1>0, <1>2
<1>4. AcceptInv'
  <2>1. /\ \A i \in 1 .. Len(backlog) : backlog[i] \in Client
        /\ accept[1] = "permit" => accept[2] \in Client
    BY DEF TcpInv, TcpTypes
  <2> QED  BY <1>0, <1>3, <2>1 DEF TcpInv, AcceptInv
<1>6. \A d \in Client : peer[d] = "gone" => peer'[d] = "gone"
  BY <1>0, <1>2
<1>7. MuxInv'
  BY <1>0, <1>6 DEF TcpInv, MuxInv, SessionsOver
<1>8. StreamInv'
  BY <1>0, <1>6, SameStreams DEF TcpInv, muxVars
<1> QED  BY <1>1, <1>4, <1>7, <1>8 DEF TcpInv

LEMMA SendFrameInv ==
    ASSUME TcpInv, NEW c \in Client, NEW s \in Stream, NEW n \in Nat, n > 0, SendFrame(c, s, n)
    PROVE  TcpInv'
<1> DEFINE m == sent[c][s]
           x == [s |-> s, payload |-> [i \in 1 .. n |-> <<c, s, m + i>>]]
<1>0. /\ socket' = [socket EXCEPT ![c] = Append(socket[c], x)]
      /\ sent' = [sent EXCEPT ![c][s] = m + n]
      /\ UNCHANGED <<listener, backlog, accept, permits, peer, task, arrived, streams,
                     queue, session, frames, got>>
  BY DEF SendFrame, muxVars, acceptVars
<1>1. /\ x \in Frame /\ x.s = s /\ x.payload = Run(c, s, m, m + n)
      /\ m \in Nat /\ m + n \in Nat /\ m < m + n
  <2>1. m \in Nat
    BY DEF TcpInv, TcpTypes
  <2>2. x \in Frame /\ x.payload = Run(c, s, m, m + n)
    BY PayloadTyped, Zenon DEF TcpInv
  <2>3. m + n \in Nat /\ m < m + n
    <3> HIDE DEF m
    <3> QED  BY <2>1
  <2>4. x.s = s
    BY Zenon
  <2> QED  BY <2>1, <2>2, <2>3, <2>4, Zenon
<1> HIDE DEF x
<1>2. /\ socket \in [Client -> Seq(Frame)] /\ sent \in [Client -> [Stream -> Nat]]
  BY DEF TcpInv, TcpTypes
<1>3. TcpTypes'
  <2>1. socket' \in [Client -> Seq(Frame)] /\ sent' \in [Client -> [Stream -> Nat]]
    BY <1>0, <1>1, <1>2
  <2> QED  BY <1>0, <2>1 DEF TcpInv, TcpTypes
<1>4. AcceptInv' /\ MuxInv'
  BY <1>0 DEF TcpInv, AcceptInv, MuxInv, SessionsOver
<1>5. ASSUME NEW d \in Client, NEW t \in Stream PROVE \E a \in Nat : StreamAt(d, t, a)'
  <2>1. PICK a \in Nat : StreamAt(d, t, a)
    BY DEF TcpInv, StreamInv
  <2>2. CASE d # c
    <3>1. sent'[d][t] = sent[d][t] /\ socket'[d] = socket[d]
      BY <1>0, <1>2, <2>2
    <3> QED  BY <1>0, <2>1, <3>1, SameStream
  <2>3. CASE d = c
    <3>1. /\ socket'[c] = Append(socket[c], x) /\ socket[c] \in Seq(Frame)
          /\ sent'[c][t] = IF t = s THEN m + n ELSE sent[c][t]
          /\ sent[c][t] \in Nat /\ sent'[c][t] \in Nat /\ sent[c][t] <= sent'[c][t]
      BY <1>0, <1>1, <1>2
    <3>2. IF x.s = t THEN sent[c][t] < sent'[c][t] /\ x.payload = Run(c, t, sent[c][t], sent'[c][t])
          ELSE sent'[c][t] = sent[c][t]
      BY <1>1, <3>1
    <3>3. session[c][t].at # "end" =>
            Flow(c, t, sent'[c][t], Append(socket[c], x), arrived[c], queue[c][t], session[c][t], a)
      BY <1>1, <2>1, <2>3, <3>1, <3>2, FlowSend, Zenon DEF StreamAt
    <3>4. 2 * a <= sent'[c][t]
      <4>1. 2 * a <= sent[c][t]
        BY <2>1, <2>3 DEF StreamAt
      <4>2. \A u, v, w \in Nat : u <= v /\ v <= w => u <= w
        OBVIOUS
      <4>3. 2 * a \in Nat
        OBVIOUS
      <4> QED  BY <3>1, <4>1, <4>2, <4>3, Zenon
    <3>5. StreamAt(c, t, a)'
      BY <1>0, <2>1, <2>3, <3>1, <3>3, <3>4 DEF StreamAt
    <3> QED  BY <2>3, <3>5
  <2> QED  BY <2>2, <2>3
<1> QED  BY <1>3, <1>4, <1>5 DEF TcpInv, StreamInv

-----------------------------------------------------------------------------
(* The accept loop.                                                        *)

LEMMA AcceptKeeps ==
    ASSUME TcpInv, Accept
    PROVE  TcpInv'
<1> DEFINE c == Head(backlog)
<1>0. /\ accept = <<"listen">> /\ backlog # <<>> /\ backlog' = Tail(backlog)
      /\ \/ accept' = <<"permit", c>> /\ task' = task
         \/ accept' = accept /\ task' = [task EXCEPT ![c].loop = "handshake"]
      /\ UNCHANGED <<listener, permits, peer, sent, socket, arrived, streams,
                     queue, session, frames, got>>
  BY DEF Accept, clientVars, muxVars
<1>1. /\ backlog \in Seq(Client) /\ Len(backlog) \in Nat \ {0} /\ c = backlog[1] /\ c \in Client
      /\ Len(backlog') = Len(backlog) - 1 /\ backlog' \in Seq(Client)
      /\ \A i \in 1 .. Len(backlog') : /\ backlog'[i] = backlog[i + 1] /\ backlog'[i] \in Client
                                       /\ i + 1 \in 1 .. Len(backlog)
  <2>1. backlog \in Seq(Client)
    BY DEF TcpInv, TcpTypes
  <2> QED  BY <1>0, <2>1, TailIs
<1>2. /\ task \in [Client -> Task]
      /\ accept \in {<<"listen">>} \cup ({"permit", "serve"} \X Client)
      /\ peer \in [Client -> {"off", "open", "gone"}]
  BY DEF TcpInv, TcpTypes
<1>3. ASSUME NEW i \in 1 .. Len(backlog') PROVE backlog'[i] # c
  <2>1. i + 1 # 1 /\ 1 \in 1 .. Len(backlog) /\ i + 1 \in 1 .. Len(backlog)
    BY <1>1
  <2>2. backlog[i + 1] # backlog[1]
    BY <2>1 DEF TcpInv, AcceptInv
  <2> QED  BY <1>1, <2>2
<1>4. task[c] = Idle /\ peer[c] # "off"
  BY <1>1 DEF TcpInv, AcceptInv
<1> HIDE DEF c
<1>5. /\ \A d \in Client : d # c => task'[d] = task[d]
      /\ task'[c].writer = "none"
      /\ task' \in [Client -> Task]
  <2>1. CASE task' = task
    BY <1>1, <1>2, <1>4, <2>1 DEF Idle, Task
  <2>2. CASE task' = [task EXCEPT ![c].loop = "handshake"]
    BY <1>1, <1>2, <1>4, <2>2 DEF Idle, Task
  <2> QED  BY <1>0, <2>1, <2>2
<1>6. TcpTypes'
  <2>1. accept' \in {<<"listen">>} \cup ({"permit", "serve"} \X Client)
    BY <1>0, <1>1, <1>2
  <2> QED  BY <1>0, <1>1, <1>5, <2>1 DEF TcpInv, TcpTypes
<1>7. AcceptInv'
  <2>1. \A i, j \in 1 .. Len(backlog') : backlog'[i] = backlog'[j] => i = j
    <3> SUFFICES ASSUME NEW i \in 1 .. Len(backlog'), NEW j \in 1 .. Len(backlog'),
                        backlog'[i] = backlog'[j]
                 PROVE  i = j
      OBVIOUS
    <3>1. i + 1 = j + 1
      BY <1>1 DEF TcpInv, AcceptInv
    <3> QED  BY <1>1, <3>1
  <2>2. \A i \in 1 .. Len(backlog') : task'[backlog'[i]] = Idle /\ peer'[backlog'[i]] # "off"
    BY <1>0, <1>1, <1>3, <1>5 DEF TcpInv, AcceptInv
  <2>3. accept'[1] = "permit" =>
          /\ task'[accept'[2]] = Idle /\ peer'[accept'[2]] # "off"
          /\ \A i \in 1 .. Len(backlog') : backlog'[i] # accept'[2]
    <3>1. CASE accept' = <<"permit", c>> /\ task' = task
      BY <1>0, <1>3, <1>4, <3>1
    <3>2. CASE accept' = accept
      BY <1>0, <3>2
    <3> QED  BY <1>0, <3>1, <3>2
  <2>4. \A d \in Client : peer'[d] = "off" => task'[d] = Idle
    BY <1>0, <1>4, <1>5 DEF TcpInv, AcceptInv
  <2> QED  BY <2>1, <2>2, <2>3, <2>4 DEF AcceptInv
<1>9. MuxInv'
  <2> SUFFICES ASSUME NEW d \in Client
               PROVE  /\ streams'[d] = {s \in Stream : session'[d][s].at # "none"}
                      /\ task'[d].writer = "end" =>
                           peer'[d] = "gone" \/ (task'[d].loop = "end" /\ SessionsOver(d)')
    BY DEF MuxInv
  <2>1. SessionsOver(d)' = SessionsOver(d)
    BY <1>0 DEF SessionsOver
  <2> QED  BY <1>0, <1>5, <2>1 DEF TcpInv, MuxInv
<1>10. StreamInv'
  BY <1>0, SameStreams DEF TcpInv, muxVars
<1> QED  BY <1>6, <1>7, <1>9, <1>10 DEF TcpInv

LEMMA AcquirePermitInv ==
    ASSUME TcpInv, AcquirePermit
    PROVE  TcpInv'
<1> DEFINE c == accept[2]
<1>0. /\ accept[1] = "permit" /\ Cardinality(permits) < MaxConns
      /\ permits' = permits \cup {c} /\ task' = [task EXCEPT ![c] = Running]
      /\ accept' = <<"serve", c>>
      /\ UNCHANGED <<listener, backlog, peer, sent, socket, arrived, streams,
                     queue, session, frames, got>>
  BY DEF AcquirePermit, clientVars, muxVars
<1>1. /\ task \in [Client -> Task]
      /\ c \in Client /\ backlog \in Seq(Client)
  BY <1>0 DEF TcpInv, TcpTypes
<1>2. peer[c] # "off" /\ \A i \in 1 .. Len(backlog) : backlog[i] # c /\ backlog[i] \in Client
  BY <1>0, <1>1 DEF TcpInv, AcceptInv
<1> HIDE DEF c
<1>3. /\ \A d \in Client : d # c => task'[d] = task[d]
      /\ task'[c].writer = "run"
      /\ task' \in [Client -> Task]
  BY <1>0, <1>1 DEF Running, Task
<1>4. TcpTypes'
  BY <1>0, <1>1, <1>3 DEF TcpInv, TcpTypes
<1>5. AcceptInv'
  <2>1. /\ \A i, j \in 1 .. Len(backlog') : backlog'[i] = backlog'[j] => i = j
        /\ \A i \in 1 .. Len(backlog') : task'[backlog'[i]] = Idle /\ peer'[backlog'[i]] # "off"
    <3>1. backlog' = backlog /\ peer' = peer
      BY <1>0, Zenon
    <3>2. /\ \A i, j \in 1 .. Len(backlog) : backlog[i] = backlog[j] => i = j
          /\ \A i \in 1 .. Len(backlog) : task[backlog[i]] = Idle /\ peer[backlog[i]] # "off"
      BY Zenon DEF TcpInv, AcceptInv
    <3>3. \A i \in 1 .. Len(backlog) : task'[backlog[i]] = Idle
      BY <1>2, <1>3, <3>2, Zenon
    <3> QED  BY <3>1, <3>2, <3>3, Zenon
  <2>2. accept'[1] # "permit"
    BY <1>0
  <2>3. \A d \in Client : peer'[d] = "off" => task'[d] = Idle
    BY <1>0, <1>2, <1>3 DEF TcpInv, AcceptInv
  <2> QED  BY <2>1, <2>2, <2>3 DEF AcceptInv
<1>7. MuxInv'
  <2> SUFFICES ASSUME NEW d \in Client
               PROVE  /\ streams'[d] = {s \in Stream : session'[d][s].at # "none"}
                      /\ task'[d].writer = "end" =>
                           peer'[d] = "gone" \/ (task'[d].loop = "end" /\ SessionsOver(d)')
    BY DEF MuxInv
  <2>1. SessionsOver(d)' = SessionsOver(d)
    BY <1>0 DEF SessionsOver
  <2> QED  BY <1>0, <1>3, <2>1, Zenon DEF TcpInv, MuxInv
<1>8. StreamInv'
  BY <1>0, SameStreams DEF TcpInv, muxVars
<1> QED  BY <1>4, <1>5, <1>7, <1>8 DEF TcpInv

-----------------------------------------------------------------------------
(* The tasks of a connection.                                              *)

\* A step of a task that runs is none of those that wait for the accept loop.
LEMMA TaskAccept ==
    ASSUME TcpTypes, AcceptInv, NEW c \in Client, task[c] # Idle, NEW v,
           task' = [task EXCEPT ![c] = v], backlog' = backlog, peer' = peer,
           accept' \in {accept, <<"listen">>}
    PROVE  AcceptInv'
<1>1. /\ task \in [Client -> Task] /\ backlog \in Seq(Client)
      /\ accept \in {<<"listen">>} \cup ({"permit", "serve"} \X Client)
  BY DEF TcpTypes, Task
<1>2. \A d \in Client : task[d] = Idle => task'[d] = Idle
  BY <1>1
<1>3. /\ \A i, j \in 1 .. Len(backlog') : backlog'[i] = backlog'[j] => i = j
      /\ \A i \in 1 .. Len(backlog') : task'[backlog'[i]] = Idle /\ peer'[backlog'[i]] # "off"
  BY <1>1, <1>2 DEF AcceptInv
<1>4. accept'[1] = "permit" =>
        /\ task'[accept'[2]] = Idle /\ peer'[accept'[2]] # "off"
        /\ \A i \in 1 .. Len(backlog') : backlog'[i] # accept'[2]
  <2>1. CASE accept' = accept
    <3>1. accept[1] = "permit" => accept[2] \in Client
      BY <1>1
    <3> QED  BY <1>2, <2>1, <3>1 DEF AcceptInv
  <2>2. CASE accept' = <<"listen">>
    BY <2>2
  <2> QED  BY <2>1, <2>2
<1>5. \A d \in Client : peer'[d] = "off" => task'[d] = Idle
  BY <1>2 DEF AcceptInv
<1> QED  BY <1>3, <1>4, <1>5 DEF AcceptInv

\* A step that only moves the tasks of one connection.
LEMMA TaskInv ==
    ASSUME TcpInv, NEW c \in Client, task[c] # Idle, NEW v \in Task,
           v.writer = "end" =>
             \/ task[c].writer = "end" /\ (v.loop = task[c].loop \/ v.loop = "end")
             \/ v.loop = "end" /\ SessionsOver(c),
           task' = [task EXCEPT ![c] = v],
           accept' \in {accept, <<"listen">>}, permits' \in SUBSET Client',
           UNCHANGED <<listener, backlog, peer, sent, socket, muxVars, session, frames, got>>
    PROVE  TcpInv'
<1>1. task \in [Client -> Task] /\ task' \in [Client -> Task]
  BY DEF TcpInv, TcpTypes, Task
<1>2. TcpTypes'
  <2>1. accept' \in {<<"listen">>} \cup ({"permit", "serve"} \X Client)
    BY DEF TcpInv, TcpTypes
  <2> QED  BY <1>1, <2>1 DEF TcpInv, TcpTypes, Task, muxVars
<1>3. AcceptInv'
  BY TaskAccept, Zenon DEF TcpInv
<1>4. MuxInv'
  <2> SUFFICES ASSUME NEW d \in Client
               PROVE  /\ streams'[d] = {s \in Stream : session'[d][s].at # "none"}
                      /\ task'[d].writer = "end" =>
                           peer'[d] = "gone" \/ (task'[d].loop = "end" /\ SessionsOver(d)')
    BY Zenon DEF MuxInv
  <2>1. SessionsOver(d)' = SessionsOver(d)
    BY Zenon DEF SessionsOver
  <2>2. streams'[d] = {s \in Stream : session'[d][s].at # "none"}
    BY Zenon DEF TcpInv, MuxInv, muxVars
  <2>3. task[d].writer = "end" => peer[d] = "gone" \/ (task[d].loop = "end" /\ SessionsOver(d))
    BY DEF TcpInv, MuxInv
  <2>4. CASE d = c
    BY <1>1, <2>1, <2>2, <2>3, <2>4
  <2>5. CASE d # c
    <3>1. task'[d] = task[d]
      BY <1>1, <2>5
    <3> QED  BY <2>1, <2>2, <2>3, <3>1
  <2> QED  BY <2>4, <2>5, Zenon
<1>5. StreamInv'
  BY SameStreams DEF TcpInv
<1> QED  BY <1>2, <1>3, <1>4, <1>5 DEF TcpInv

\* The steps that do: how each of them meets the premises above.
LEMMA TaskStepsInv ==
    ASSUME TcpInv, NEW c \in Client,
           Handshake(c) \/ ReaderEnds(c) \/ ReturnPermit(c) \/ WriterEnds(c) \/ LoopEnds(c)
    PROVE  TcpInv'
<1>0. /\ task \in [Client -> Task] /\ task[c] \in Task /\ Idle \in Task
      /\ Running \in Task /\ Refused \in Task /\ permits \in SUBSET Client
  BY DEF TcpInv, TcpTypes, Task, Idle, Running, Refused
<1>1. permits' = permits => permits' \in SUBSET Client
  BY <1>0
<1>2. CASE Handshake(c)
  <2>1. task[c] # Idle
    <3>1. task[c].loop = "handshake"
      BY <1>2 DEF Handshake
    <3>2. Idle.loop # "handshake"
      BY DEF Idle
    <3> QED  BY <3>1, <3>2, Zenon
  <2>2. PICK v \in {Running, Refused} : task' = [task EXCEPT ![c] = v]
    BY <1>2 DEF Handshake
  <2>3. v \in Task /\ v.writer # "end"
    BY <1>0, <2>2 DEF Running, Refused
  <2>4. /\ accept' \in {accept, <<"listen">>} /\ permits' = permits
        /\ UNCHANGED <<listener, backlog, peer, sent, socket, muxVars, session, frames, got>>
    BY <1>2 DEF Handshake, acceptVars, clientVars
  <2> QED  BY <1>1, <2>1, <2>2, <2>3, <2>4, TaskInv, Zenon
<1>3. CASE ReaderEnds(c)
  <2> DEFINE v == [task[c] EXCEPT !.reader = "end"]
  <2>1. task[c] # Idle /\ task' = [task EXCEPT ![c] = v]
    BY <1>3 DEF ReaderEnds, Idle
  <2>2. v \in Task /\ v.writer = task[c].writer /\ v.loop = task[c].loop
    BY <1>0 DEF Task
  <2> HIDE DEF v
  <2>3. /\ accept' \in {accept, <<"listen">>} /\ permits' = permits
        /\ UNCHANGED <<listener, backlog, peer, sent, socket, muxVars, session, frames, got>>
    BY <1>3 DEF ReaderEnds, acceptVars, clientVars
  <2> QED  BY <1>1, <2>1, <2>2, <2>3, TaskInv, Zenon
<1>4. CASE ReturnPermit(c)
  <2>1. task[c] # Idle /\ task' = [task EXCEPT ![c] = task[c]]
    <3>1. task[c].reader = "end" /\ task' = task
      BY <1>4 DEF ReturnPermit
    <3>2. Idle.reader # "end"
      BY DEF Idle
    <3>3. task = [task EXCEPT ![c] = task[c]]
      BY <1>0
    <3> QED  BY <3>1, <3>2, <3>3, Zenon
  <2>2. /\ accept' \in {accept, <<"listen">>} /\ permits' = permits \ {c} /\ c \in permits
        /\ UNCHANGED <<listener, backlog, peer, sent, socket, muxVars, session, frames, got>>
    BY <1>4, Zenon DEF ReturnPermit, clientVars
  <2>3. permits' \in SUBSET Client
    BY <1>0, <2>2
  <2> QED  BY <1>0, <2>1, <2>2, <2>3, TaskInv, Zenon
<1>5. CASE WriterEnds(c)
  <2> DEFINE v == [task[c] EXCEPT !.writer = "end"]
  <2>1. task[c] # Idle /\ task' = [task EXCEPT ![c] = v]
    BY <1>5 DEF WriterEnds, Idle
  <2>2. v \in Task /\ v.loop = "end" /\ SessionsOver(c)
    BY <1>0, <1>5 DEF Task, WriterEnds
  <2> HIDE DEF v
  <2>3. /\ accept' \in {accept, <<"listen">>} /\ permits' = permits
        /\ UNCHANGED <<listener, backlog, peer, sent, socket, muxVars, session, frames, got>>
    BY <1>5 DEF WriterEnds, acceptVars, clientVars
  <2> QED  BY <1>1, <2>1, <2>2, <2>3, TaskInv, Zenon
<1>6. CASE LoopEnds(c)
  <2> DEFINE v == [task[c] EXCEPT !.loop = "end"]
  <2>1. task[c] # Idle /\ task' = [task EXCEPT ![c] = v]
    BY <1>6 DEF LoopEnds, Idle
  <2>2. v \in Task /\ v.writer = task[c].writer /\ v.loop = "end"
    BY <1>0 DEF Task
  <2> HIDE DEF v
  <2>3. /\ accept' \in {accept, <<"listen">>} /\ permits' = permits
        /\ UNCHANGED <<listener, backlog, peer, sent, socket, muxVars, session, frames, got>>
    BY <1>6 DEF LoopEnds, clientVars
  <2> QED  BY <1>1, <2>1, <2>2, <2>3, TaskInv, Zenon
<1> QED  BY <1>2, <1>3, <1>4, <1>5, <1>6

-----------------------------------------------------------------------------
(* Reader and writer.                                                      *)

LEMMA ReaderReadsInv ==
    ASSUME TcpInv, NEW c \in Client, ReaderReads(c)
    PROVE  TcpInv'
<1>0. /\ socket[c] # <<>> /\ socket' = [socket EXCEPT ![c] = Tail(socket[c])]
      /\ arrived' = [arrived EXCEPT ![c] = Append(arrived[c], Head(socket[c]))]
      /\ UNCHANGED <<listener, backlog, accept, permits, peer, sent, task, streams, queue,
                     session, frames, got>>
  BY Zenon DEF ReaderReads, acceptVars, clientVars
<1>1. /\ socket \in [Client -> Seq(Frame)] /\ arrived \in [Client -> Seq(Frame)]
      /\ sent \in [Client -> [Stream -> Nat]]
  BY DEF TcpInv, TcpTypes
<1>2. TcpTypes'
  <2>1. Tail(socket[c]) \in Seq(Frame) /\ Append(arrived[c], Head(socket[c])) \in Seq(Frame)
    BY <1>0, <1>1
  <2>2. socket' \in [Client -> Seq(Frame)] /\ arrived' \in [Client -> Seq(Frame)]
    BY <1>0, <1>1, <2>1
  <2> QED  BY <1>0, <2>2 DEF TcpInv, TcpTypes
<1>3. AcceptInv' /\ MuxInv'
  BY <1>0, Zenon DEF TcpInv, AcceptInv, MuxInv, SessionsOver
<1>4. ASSUME NEW d \in Client, NEW s \in Stream PROVE \E a \in Nat : StreamAt(d, s, a)'
  <2>1. PICK a \in Nat : StreamAt(d, s, a)
    BY DEF TcpInv, StreamInv
  <2>2. CASE d # c
    <3>1. socket'[d] = socket[d] /\ arrived'[d] = arrived[d]
      BY <1>0, <1>1, <2>2
    <3> QED  BY <1>0, <2>1, <3>1, SameStream, Zenon
  <2>3. CASE d = c
    <3>1. /\ socket'[c] = Tail(socket[c]) /\ arrived'[c] = Append(arrived[c], Head(socket[c]))
          /\ socket[c] \in Seq(Frame) /\ arrived[c] \in Seq(Frame) /\ sent[c][s] \in Nat
      BY <1>0, <1>1
    <3>2. session[c][s].at # "end" =>
            Flow(c, s, sent[c][s], Tail(socket[c]), Append(arrived[c], Head(socket[c])),
                 queue[c][s], session[c][s], a)
      BY <1>0, <2>1, <2>3, <3>1, FlowRead, Zenon DEF StreamAt
    <3>3. StreamAt(c, s, a)'
      BY <1>0, <2>1, <2>3, <3>1, <3>2, Zenon DEF StreamAt
    <3> QED  BY <2>3, <3>3
  <2> QED  BY <2>2, <2>3
<1> QED  BY <1>2, <1>3, <1>4 DEF TcpInv, StreamInv

\* The client gets the next reply of the stream it belongs to.
LEMMA RepliesGot ==
    ASSUME NEW c, NEW s \in Stream, NEW g \in Seq(Seq(Piece)), NEW fr \in Seq(ReplyFrame),
           fr # <<>>, NEW p, p # "gone", NEW a \in Nat, Replies(c, s, g, fr, p, a)
    PROVE  Replies(c, s, IF Head(fr).s = s THEN Append(g, Head(fr).reply) ELSE g, Tail(fr), p, a)
<1> DEFINE f == Head(fr)
<1>1. f \in ReplyFrame /\ f.reply \in Seq(Piece)
  <2>1. f \in ReplyFrame
    OBVIOUS
  <2> QED  BY <2>1 DEF ReplyFrame
<1>2. PICK m \in Nat : /\ <<f, Len(g), m>> \in ReplySpan(c, s)
                       /\ Spans(Tail(fr), ReplySpan(c, s), m, a)
  <2>1. Spans(fr, ReplySpan(c, s), Len(g), a)
    BY DEF Replies
  <2> QED  BY <2>1, SpansTail
<1>3. m <= a
  <2>1. Tail(fr) \in Seq(ReplyFrame)
    OBVIOUS
  <2> QED  BY <1>2, <2>1, SpansOrder, Zenon
<1>4. Len(g) <= a /\ \A k \in 1 .. Len(g) : g[k] = ReplyTo(c, s, k)
  BY DEF Replies
<1> HIDE DEF f
<1>5. CASE f.s = s
  <2> DEFINE h == Append(g, f.reply)
  <2>1. m = Len(g) + 1 /\ f.reply = ReplyTo(c, s, m)
    BY <1>2, <1>5 DEF ReplySpan
  <2>2. /\ Len(g) \in Nat /\ Len(h) = Len(g) + 1 /\ h[Len(g) + 1] = f.reply
        /\ \A k \in 1 .. Len(g) : h[k] = g[k]
    BY <1>1
  <2> HIDE DEF h
  <2>3. ASSUME NEW k \in 1 .. Len(h) PROVE h[k] = ReplyTo(c, s, k)
    <3>1. CASE k = Len(g) + 1
      BY <2>1, <2>2, <3>1
    <3>2. CASE k \in 1 .. Len(g)
      BY <1>4, <2>2, <3>2, Zenon
    <3>3. Len(g) \in Nat /\ Len(h) = Len(g) + 1
      BY <2>2
    <3> QED  BY <3>1, <3>2, <3>3
  <2>4. Replies(c, s, h, Tail(fr), p, a)
    BY <1>2, <1>3, <2>1, <2>2, <2>3 DEF Replies
  <2> QED  BY <1>5, <2>4 DEF h, f
<1>6. CASE f.s # s
  <2>1. m = Len(g)
    BY <1>2, <1>6 DEF ReplySpan
  <2>2. Replies(c, s, g, Tail(fr), p, a)
    BY <1>2, <1>4, <2>1 DEF Replies
  <2> QED  BY <1>6, <2>2 DEF f
<1> QED  BY <1>5, <1>6

LEMMA WriterWritesInv ==
    ASSUME TcpInv, NEW c \in Client, WriterWrites(c)
    PROVE  TcpInv'
<1> DEFINE f == Head(frames[c])
<1>0. /\ task[c].writer = "run" /\ frames[c] # <<>>
      /\ UNCHANGED <<listener, backlog, accept, permits, peer, sent, socket, arrived, streams,
                     queue, session>>
  BY Zenon DEF WriterWrites, acceptVars, clientVars, muxVars
<1>1. /\ frames \in [Client -> Seq(ReplyFrame)] /\ task \in [Client -> Task] /\ task[c] \in Task
      /\ got \in [Client -> [Stream -> Seq(Seq(Piece))]]
      /\ f \in ReplyFrame /\ f.s \in Stream /\ f.reply \in Seq(Piece)
      /\ Tail(frames[c]) \in Seq(ReplyFrame)
  <2>1. frames[c] \in Seq(ReplyFrame)
    BY DEF TcpInv, TcpTypes
  <2>2. f \in ReplyFrame /\ Tail(frames[c]) \in Seq(ReplyFrame)
    BY <1>0, <2>1, TailIs
  <2> QED  BY <2>2, Zenon DEF TcpInv, TcpTypes, ReplyFrame
<1> DEFINE v == [task[c] EXCEPT !.writer = "end"]
<1>2. \/ /\ peer[c] = "open" /\ frames' = [frames EXCEPT ![c] = Tail(frames[c])]
         /\ got' = [got EXCEPT ![c][f.s] = Append(got[c][f.s], f.reply)] /\ task' = task
      \/ /\ peer[c] = "gone" /\ frames' = [frames EXCEPT ![c] = Tail(frames[c])]
         /\ got' = got /\ task' = task
      \/ /\ peer[c] = "gone" /\ frames' = [frames EXCEPT ![c] = <<>>]
         /\ got' = got /\ task' = [task EXCEPT ![c] = v]
  BY Zenon DEF WriterWrites
<1>3. v \in Task /\ task[c] # Idle
  <2>1. task[c] \in Task
    BY <1>1
  <2>2. v \in Task
    BY <2>1 DEF Task
  <2> QED  BY <1>0, <2>2 DEF Idle
<1> HIDE DEF f, v
<1>4. /\ frames' \in [Client -> Seq(ReplyFrame)] /\ got' \in [Client -> [Stream -> Seq(Seq(Piece))]]
      /\ task' \in [Client -> Task]
  <2>1. Append(got[c][f.s], f.reply) \in Seq(Seq(Piece)) /\ <<>> \in Seq(ReplyFrame)
    <3>1. got[c][f.s] \in Seq(Seq(Piece))
      BY <1>1
    <3> QED  BY <1>1, <3>1
  <2>2. got' \in [Client -> [Stream -> Seq(Seq(Piece))]]
    <3>1. CASE got' = got
      BY <1>1, <3>1
    <3>2. CASE got' = [got EXCEPT ![c][f.s] = Append(got[c][f.s], f.reply)]
      BY <1>1, <2>1, <3>2
    <3> QED  BY <1>2, <3>1, <3>2
  <2>3. frames' \in [Client -> Seq(ReplyFrame)]
    BY <1>1, <1>2, <2>1, Zenon
  <2>4. task' \in [Client -> Task]
    BY <1>1, <1>2, <1>3, Zenon
  <2> QED  BY <2>2, <2>3, <2>4
<1>5. TcpTypes'
  BY <1>0, <1>4 DEF TcpInv, TcpTypes
<1>6. AcceptInv'
  <2>1. task' = [task EXCEPT ![c] = v] \/ task' = [task EXCEPT ![c] = task[c]]
    BY <1>1, <1>2
  <2> QED  BY <1>0, <1>3, <2>1, TaskAccept DEF TcpInv
<1>8. MuxInv'
  <2>1. \A d \in Client : task'[d].writer = "end" => task'[d] = task[d] \/ peer[d] = "gone"
    BY <1>1, <1>2
  <2>2. \A d \in Client : SessionsOver(d)' = SessionsOver(d)
    BY <1>0 DEF SessionsOver
  <2> QED  BY <1>0, <2>1, <2>2 DEF TcpInv, MuxInv
<1>9. ASSUME NEW d \in Client, NEW s \in Stream PROVE \E a \in Nat : StreamAt(d, s, a)'
  <2>1. PICK a \in Nat : StreamAt(d, s, a)
    BY DEF TcpInv, StreamInv
  <2>2. CASE d # c
    <3>1. frames'[d] = frames[d] /\ got'[d] = got[d]
      BY <1>1, <1>2, <2>2
    <3> QED  BY <1>0, <2>1, <3>1, SameStream, Zenon
  <2>3. CASE d = c /\ peer[c] = "gone"
    <3>1. got' = got
      BY <1>2, <2>3
    <3>2. Replies(c, s, got'[c][s], frames'[c], peer'[c], a)
      BY <1>0, <2>1, <2>3, <3>1, Zenon DEF StreamAt, Replies
    <3>3. StreamAt(c, s, a)'
      BY <1>0, <2>1, <2>3, <3>2, Zenon DEF StreamAt
    <3> QED  BY <2>3, <3>3
  <2>4. CASE d = c /\ peer[c] # "gone"
    <3>0. /\ frames' = [frames EXCEPT ![c] = Tail(frames[c])]
          /\ got' = [got EXCEPT ![c][f.s] = Append(got[c][f.s], f.reply)]
      BY <1>2, <2>4
    <3>1. /\ frames'[c] = Tail(frames[c])
          /\ got'[c][s] = IF f.s = s THEN Append(got[c][s], f.reply) ELSE got[c][s]
      BY <1>1, <3>0
    <3>2. frames[c] \in Seq(ReplyFrame) /\ got[c][s] \in Seq(Seq(Piece))
      BY <1>1
    <3>3. Replies(c, s, got[c][s], frames[c], peer[c], a)
      BY <2>1, <2>4, Zenon DEF StreamAt
    <3>4. Replies(c, s, IF f.s = s THEN Append(got[c][s], f.reply) ELSE got[c][s],
                  Tail(frames[c]), peer[c], a)
      BY <1>0, <2>4, <3>2, <3>3, RepliesGot, Zenon DEF f
    <3>5. Replies(c, s, got'[c][s], frames'[c], peer'[c], a)
      BY <1>0, <3>1, <3>4, Zenon
    <3>6. StreamAt(c, s, a)'
      BY <1>0, <2>1, <2>4, <3>5, Zenon DEF StreamAt
    <3> QED  BY <2>4, <3>6
  <2> QED  BY <2>2, <2>3, <2>4
<1> QED  BY <1>5, <1>6, <1>8, <1>9 DEF TcpInv, StreamInv

-----------------------------------------------------------------------------
(* The loop, and the sessions.                                             *)

\* A frame goes to its own stream, and is dropped only for a session that is over.
LEMMA HandOutInv ==
    ASSUME TcpInv, NEW c \in Client, HandOut(c)
    PROVE  TcpInv'
<1> DEFINE f == Head(arrived[c])
           t == f.s
           e == session[c][t]
           h == [e EXCEPT !.at = "header"]
<1>0. /\ task[c].loop = "run" /\ arrived[c] # <<>>
      /\ streams' = [streams EXCEPT ![c] = streams[c] \cup {t}]
      /\ queue' = IF e.at = "end" THEN queue
                  ELSE [queue EXCEPT ![c][t] = Append(queue[c][t], f.payload)]
      /\ session' = IF t \in streams[c] THEN session ELSE [session EXCEPT ![c][t] = h]
      /\ arrived' = [arrived EXCEPT ![c] = Tail(arrived[c])]
      /\ UNCHANGED <<listener, backlog, accept, permits, peer, sent, socket, task, frames, got>>
  BY Zenon DEF HandOut, acceptVars, clientVars
<1>1. /\ arrived \in [Client -> Seq(Frame)] /\ streams \in [Client -> SUBSET Stream]
      /\ queue \in [Client -> [Stream -> Seq(Seq(Piece))]]
      /\ session \in [Client -> [Stream -> Session]]
      /\ sent \in [Client -> [Stream -> Nat]]
  BY DEF TcpInv, TcpTypes
<1>2. /\ arrived[c] \in Seq(Frame) /\ Tail(arrived[c]) \in Seq(Frame)
      /\ t \in Stream /\ f.payload \in Seq(Piece)
  <2>1. arrived[c] \in Seq(Frame)
    BY <1>1
  <2>2. f \in Frame /\ Tail(arrived[c]) \in Seq(Frame)
    BY <1>0, <2>1, TailIs, Zenon
  <2> QED  BY <2>1, <2>2 DEF Frame
<1>3. e \in Session /\ h \in Session /\ h.at = "header"
  <2>1. e \in Session
    BY <1>1, <1>2
  <2> QED  BY <2>1, Zenon DEF Session
<1>4. t \in streams[c] <=> e.at # "none"
  BY <1>2 DEF TcpInv, MuxInv
<1> HIDE DEF h, e, t, f
<1>5. /\ streams' \in [Client -> SUBSET Stream] /\ arrived' \in [Client -> Seq(Frame)]
      /\ queue' \in [Client -> [Stream -> Seq(Seq(Piece))]]
      /\ session' \in [Client -> [Stream -> Session]]
  <2>1. streams' \in [Client -> SUBSET Stream] /\ arrived' \in [Client -> Seq(Frame)]
    BY <1>0, <1>1, <1>2, Zenon
  <2>2. queue' \in [Client -> [Stream -> Seq(Seq(Piece))]]
    <3>1. queue[c][t] \in Seq(Seq(Piece))
      BY <1>1, <1>2
    <3>2. Append(queue[c][t], f.payload) \in Seq(Seq(Piece))
      BY <1>2, <3>1
    <3>3. CASE e.at = "end"
      BY <1>0, <1>1, <3>3
    <3>4. CASE e.at # "end"
      BY <1>0, <1>1, <1>2, <3>2, <3>4, Zenon
    <3> QED  BY <3>3, <3>4
  <2>3. session' \in [Client -> [Stream -> Session]]
    <3>1. CASE t \in streams[c]
      BY <1>0, <1>1, <3>1, Zenon
    <3>2. CASE t \notin streams[c]
      BY <1>0, <1>1, <1>2, <1>3, <3>2, Zenon
    <3> QED  BY <3>1, <3>2
  <2> QED  BY <2>1, <2>2, <2>3
<1>6. TcpTypes'
  BY <1>0, <1>5, Zenon DEF TcpInv, TcpTypes
<1>7. AcceptInv'
  BY <1>0 DEF TcpInv, AcceptInv
<1>8. \A d \in Client, s \in Stream :
        session'[d][s] = IF d = c /\ s = t /\ t \notin streams[c] THEN h ELSE session[d][s]
  <2>1. CASE t \in streams[c]
    BY <1>0, <2>1
  <2>2. CASE t \notin streams[c]
    BY <1>0, <1>1, <1>2, <2>2, Zenon
  <2> QED  BY <2>1, <2>2
<1>9. MuxInv'
  <2> SUFFICES ASSUME NEW d \in Client
               PROVE  /\ streams'[d] = {s \in Stream : session'[d][s].at # "none"}
                      /\ task'[d].writer = "end" =>
                           peer'[d] = "gone" \/ (task'[d].loop = "end" /\ SessionsOver(d)')
    BY DEF MuxInv
  <2>1. /\ streams[d] = {s \in Stream : session[d][s].at # "none"}
        /\ task[d].writer = "end" => peer[d] = "gone" \/ (task[d].loop = "end" /\ SessionsOver(d))
    BY DEF TcpInv, MuxInv
  <2>2. CASE d = c
    <3>1. streams'[c] = streams[c] \cup {t}
      BY <1>0, <1>1, Zenon
    <3>2. \A s \in Stream : s \in streams'[c] <=> session'[c][s].at # "none"
      <4> SUFFICES ASSUME NEW s \in Stream
                   PROVE  s \in streams'[c] <=> session'[c][s].at # "none"
        OBVIOUS
      <4>1. s \in streams[c] <=> session[c][s].at # "none"
        BY <2>1, <2>2
      <4>2. CASE s = t
        <5>1. session'[c][s] = h \/ (session'[c][s] = e /\ t \in streams[c])
          BY <1>8, <4>2 DEF e
        <5> QED  BY <1>3, <1>4, <3>1, <4>2, <5>1
      <4>3. CASE s # t
        <5>1. session'[c][s] = session[c][s]
          BY <1>8, <4>3
        <5> QED  BY <3>1, <4>1, <4>3, <5>1
      <4> QED  BY <4>2, <4>3
    <3>3. streams'[c] \subseteq Stream
      BY <1>5
    <3> QED  BY <1>0, <2>1, <2>2, <3>2, <3>3
  <2>3. CASE d # c
    <3>1. streams'[d] = streams[d] /\ \A s \in Stream : session'[d][s] = session[d][s]
      BY <1>0, <1>1, <1>8, <2>3, Zenon
    <3>2. SessionsOver(d)' = SessionsOver(d)
      BY <3>1 DEF SessionsOver
    <3> QED  BY <1>0, <2>1, <3>1, <3>2
  <2> QED  BY <2>2, <2>3
<1>10. ASSUME NEW d \in Client, NEW s \in Stream PROVE \E a \in Nat : StreamAt(d, s, a)'
  <2>1. PICK a \in Nat : StreamAt(d, s, a)
    BY DEF TcpInv, StreamInv
  <2>2. CASE d # c
    <3>1. arrived'[d] = arrived[d] /\ queue'[d] = queue[d] /\ session'[d][s] = session[d][s]
      BY <1>0, <1>1, <1>8, <2>2, Zenon
    <3> QED  BY <1>0, <2>1, <3>1, SameStream
  <2>3. CASE d = c
    <3> SUFFICES ASSUME session'[c][s].at # "end"
                 PROVE  Flow(c, s, sent[c][s], socket[c], Tail(arrived[c]), queue'[c][s],
                             session'[c][s], a)
      <4>1. arrived'[c] = Tail(arrived[c])
        BY <1>0, <1>1, Zenon
      <4> QED  BY <1>0, <2>1, <2>3, <4>1 DEF StreamAt
    <3>1. session[c][s].at # "end"
      BY <1>4, <1>8 DEF e
    <3>2. Flow(c, s, sent[c][s], socket[c], arrived[c], queue[c][s], session[c][s], a)
      BY <2>1, <2>3, <3>1, Zenon DEF StreamAt
    <3>3. queue[c][s] \in Seq(Seq(Piece)) /\ session[c][s] \in Session /\ sent[c][s] \in Nat
      BY <1>1
    <3>4. Flow(c, s, sent[c][s], socket[c], Tail(arrived[c]),
               IF t = s THEN Append(queue[c][s], f.payload) ELSE queue[c][s], session[c][s], a)
      BY <1>0, <1>2, <3>2, <3>3, FlowHandOut, Zenon DEF f, t
    <3>5. queue'[c][s] = IF t = s THEN Append(queue[c][s], f.payload) ELSE queue[c][s]
      <4>1. CASE e.at = "end"
        BY <1>0, <3>1, <4>1 DEF e
      <4>2. CASE e.at # "end"
        BY <1>0, <1>1, <1>2, <4>2, Zenon
      <4> QED  BY <4>1, <4>2
    <3>6. Flow(c, s, sent[c][s], socket[c], Tail(arrived[c]), queue'[c][s], session[c][s], a)
      BY <3>4, <3>5, Zenon
    <3>7. CASE s = t /\ t \notin streams[c]
      <4>1. session'[c][s] = [session[c][s] EXCEPT !.at = "header"] /\ session[c][s].at = "none"
        BY <1>4, <1>8, <3>7 DEF h, e
      <4> QED  BY <3>3, <3>6, <4>1, FlowStart
    <3>8. CASE ~(s = t /\ t \notin streams[c])
      BY <1>8, <3>6, <3>8, Zenon
    <3> QED  BY <3>7, <3>8, Zenon
  <2> QED  BY <2>2, <2>3
<1> QED  BY <1>6, <1>7, <1>9, <1>10 DEF TcpInv, StreamInv

\* A session moves on; only one that is not over can.
LEMMA SessionMux ==
    ASSUME TcpInv, NEW c \in Client, NEW s \in Stream, NEW v \in Session, v.at # "none",
           session[c][s].at \notin {"none", "end"}, session' = [session EXCEPT ![c][s] = v],
           UNCHANGED <<backlog, accept, permits, peer, task, streams>>
    PROVE  /\ session' \in [Client -> [Stream -> Session]]
           /\ \A d \in Client, t \in Stream :
                session'[d][t] = IF d = c /\ t = s THEN v ELSE session[d][t]
           /\ AcceptInv' /\ MuxInv'
<1>1. session \in [Client -> [Stream -> Session]]
  BY DEF TcpInv, TcpTypes
<1>2. session' \in [Client -> [Stream -> Session]]
  BY <1>1
<1>3. \A d \in Client, t \in Stream :
        session'[d][t] = IF d = c /\ t = s THEN v ELSE session[d][t]
  BY <1>1
<1>4. AcceptInv'
  BY DEF TcpInv, AcceptInv
<1>5. ASSUME NEW d \in Client
      PROVE  /\ streams'[d] = {t \in Stream : session'[d][t].at # "none"}
             /\ task'[d].writer = "end" =>
                  peer'[d] = "gone" \/ (task'[d].loop = "end" /\ SessionsOver(d)')
  <2>1. /\ streams[d] = {t \in Stream : session[d][t].at # "none"}
        /\ task[d].writer = "end" => peer[d] = "gone" \/ (task[d].loop = "end" /\ SessionsOver(d))
    BY DEF TcpInv, MuxInv
  <2>2. \A t \in Stream : session'[d][t].at = "none" <=> session[d][t].at = "none"
    BY <1>3
  <2>3. SessionsOver(d) => SessionsOver(d)'
    BY <1>3 DEF SessionsOver
  <2> QED  BY <2>1, <2>2, <2>3
<1> QED  BY <1>2, <1>3, <1>4, <1>5, Zenon DEF MuxInv

\* read_exact finds a whole piece, in the buffer or in the next payload.
LEMMA ReadExactIs ==
    ASSUME TcpInv, NEW c \in Client, NEW s \in Stream, NEW a \in Nat, StreamAt(c, s, a),
           session[c][s].at \in {"header", "body"}, Readable(c, s)
    PROVE  /\ ReadExact(c, s).piece \in Piece /\ ReadExact(c, s).buf \in Seq(Piece)
           /\ ReadExact(c, s).queue \in Seq(Seq(Piece))
           /\ \A f : /\ f.buf = ReadExact(c, s).buf
                     /\ f.msg = Append(session[c][s].msg, ReadExact(c, s).piece)
                     /\ f.at = IF session[c][s].at = "header" THEN "body" ELSE "handle"
                     => Flow(c, s, sent[c][s], socket[c], arrived[c], ReadExact(c, s).queue, f, a)
<1> DEFINE e == session[c][s]
           q == queue[c][s]
           full == IF e.buf # <<>> THEN e.buf ELSE Head(q)
           rest == IF e.buf # <<>> THEN q ELSE Tail(q)
<1>1. q \in Seq(Seq(Piece)) /\ e \in Session
  BY DEF TcpInv, TcpTypes
<1>2. /\ Flow(c, s, sent[c][s], socket[c], arrived[c], q, e, a)
      /\ (e.buf # <<>> \/ q # <<>>) /\ e.at \in {"header", "body"}
  BY Zenon DEF StreamAt, Readable
<1>3. /\ full \in Seq(Piece) /\ full # <<>> /\ rest \in Seq(Seq(Piece))
      /\ \A f : /\ f.buf = Tail(full) /\ f.msg = Append(e.msg, Head(full))
                /\ f.at = IF e.at = "header" THEN "body" ELSE "handle"
                => Flow(c, s, sent[c][s], socket[c], arrived[c], rest, f, a)
  <2> HIDE DEF e, q
  <2> QED  BY <1>1, <1>2, FlowPiece, Zenon DEF e
<1>4. /\ ReadExact(c, s).piece = Head(full) /\ ReadExact(c, s).buf = Tail(full)
      /\ ReadExact(c, s).queue = rest
  BY Zenon DEF ReadExact
<1> HIDE DEF full, rest
<1>5. Head(full) \in Piece /\ Tail(full) \in Seq(Piece)
  <2>1. full \in Seq(Piece) /\ full # <<>>
    BY <1>3, Zenon
  <2> QED  BY <2>1, HeadTail, Zenon
<1> QED  BY <1>3, <1>4, <1>5, Zenon

\* The session reads a piece, and goes on or gives up.
LEMMA ReadInv ==
    ASSUME TcpInv, NEW c \in Client, NEW s \in Stream, ReadHeader(c, s) \/ ReadBody(c, s)
    PROVE  TcpInv'
<1> DEFINE e == session[c][s]
           r == ReadExact(c, s)
           at == IF e.at = "header" THEN "body" ELSE "handle"
           more == [at |-> at, buf |-> r.buf, msg |-> Append(e.msg, r.piece)]
           over == [at |-> "end", buf |-> <<>>, msg |-> <<>>]
<1>0. /\ e.at \in {"header", "body"} /\ Readable(c, s)
      /\ queue' = [queue EXCEPT ![c][s] = r.queue]
      /\ UNCHANGED <<listener, backlog, accept, permits, peer, sent, socket, task, arrived,
                     streams, frames, got>>
  BY Zenon DEF ReadHeader, ReadBody, acceptVars, clientVars
<1>1. /\ e \in Session /\ queue \in [Client -> [Stream -> Seq(Seq(Piece))]]
  BY DEF TcpInv, TcpTypes
<1>2. PICK a \in Nat : StreamAt(c, s, a)
  BY DEF TcpInv, StreamInv
<1>3. /\ r.piece \in Piece /\ r.buf \in Seq(Piece) /\ r.queue \in Seq(Seq(Piece))
      /\ \A f : /\ f.buf = r.buf /\ f.msg = Append(e.msg, r.piece) /\ f.at = at
                => Flow(c, s, sent[c][s], socket[c], arrived[c], r.queue, f, a)
  BY <1>0, <1>2, ReadExactIs, Zenon
<1> HIDE DEF r
<1>4. more \in Session /\ over \in Session /\ more.at # "none" /\ over.at = "end"
  <2>0. <<>> \in Seq(Piece)
    OBVIOUS
  <2>1. e.msg \in Seq(Piece) /\ <<>> \in Seq(Piece)
    <3> HIDE DEF e
    <3> QED  BY <1>1, <2>0, Zenon DEF Session
  <2>2. Append(e.msg, r.piece) \in Seq(Piece)
    BY <1>3, <2>1, AppendIs, Zenon
  <2>3. over \in Session /\ over.at = "end"
    BY <2>1, Zenon DEF Session
  <2>4. more \in Session /\ more.at # "none"
    BY <1>3, <2>2, Zenon DEF Session
  <2> QED  BY <2>3, <2>4, Zenon
<1>5. Flow(c, s, sent[c][s], socket[c], arrived[c], r.queue, more, a)
  BY <1>3, Zenon
<1>6. PICK v \in {more, over} : session' = [session EXCEPT ![c][s] = v]
  <2>1. CASE ReadHeader(c, s)
    <3>1. e.msg = <<>>
      <4>1. Flow(c, s, sent[c][s], socket[c], arrived[c], queue[c][s], e, a) /\ e.at = "header"
        BY <1>2, <2>1, Zenon DEF StreamAt, ReadHeader
      <4>2. e.msg = Run(c, s, 2 * a, 2 * a)
        BY <4>1 DEF Flow, Pending
      <4>3. 2 * a \in Nat
        OBVIOUS
      <4> QED  BY <4>2, <4>3, RunSmall, Zenon
    <3>2. Append(<<>>, r.piece) = <<r.piece>>
      BY AppendEmpty
    <3>3. more = [at |-> "body", buf |-> r.buf, msg |-> <<r.piece>>]
      BY <2>1, <3>1, <3>2, Zenon DEF ReadHeader
    <3>4. \/ session' = [session EXCEPT ![c][s] = over]
          \/ session' = [session EXCEPT ![c][s] = [at |-> "body", buf |-> r.buf, msg |-> <<r.piece>>]]
      BY <2>1, Zenon DEF ReadHeader, r
    <3> HIDE DEF more, over
    <3> QED  BY <3>3, <3>4
  <2>2. CASE ReadBody(c, s)
    <3>1. session' = [session EXCEPT ![c][s] =
                        [at |-> "handle", buf |-> r.buf, msg |-> Append(e.msg, r.piece)]]
      BY <2>2 DEF ReadBody, r
    <3>2. more = [at |-> "handle", buf |-> r.buf, msg |-> Append(e.msg, r.piece)]
      BY <2>2, Zenon DEF ReadBody
    <3> HIDE DEF more
    <3> QED  BY <3>1, <3>2
  <2> QED  BY <2>1, <2>2, Zenon
<1>7. e.at \notin {"none", "end"}
  BY <1>0
<1> HIDE DEF more, over, at
<1>8. /\ session' \in [Client -> [Stream -> Session]]
      /\ \A d \in Client, t \in Stream :
           session'[d][t] = IF d = c /\ t = s THEN v ELSE session[d][t]
      /\ AcceptInv' /\ MuxInv'
  <2>1. v \in Session /\ v.at # "none"
    BY <1>4, <1>6
  <2> QED  BY <1>0, <1>6, <1>7, <2>1, SessionMux, Zenon
<1>9. TcpTypes'
  <2>1. queue' \in [Client -> [Stream -> Seq(Seq(Piece))]]
    BY <1>0, <1>1, <1>3, Zenon
  <2> QED  BY <1>0, <1>8, <2>1, Zenon DEF TcpInv, TcpTypes
<1>10. ASSUME NEW d \in Client, NEW t \in Stream PROVE \E b \in Nat : StreamAt(d, t, b)'
  <2>1. CASE d = c /\ t = s
    <3>1. queue'[c][s] = r.queue /\ session'[c][s] = v
      BY <1>0, <1>1, <1>8, Zenon
    <3>2. session'[c][s].at # "end" =>
            Flow(c, s, sent[c][s], socket[c], arrived[c], r.queue, session'[c][s], a)
      BY <1>4, <1>5, <1>6, <3>1
    <3>3. StreamAt(c, s, a)'
      BY <1>0, <1>2, <3>1, <3>2, Zenon DEF StreamAt
    <3> QED  BY <2>1, <3>3
  <2>2. CASE ~(d = c /\ t = s)
    <3>1. queue'[d][t] = queue[d][t] /\ session'[d][t] = session[d][t]
      BY <1>0, <1>1, <1>8, <2>2, Zenon
    <3>2. \E b \in Nat : StreamAt(d, t, b)
      BY DEF TcpInv, StreamInv
    <3> QED  BY <1>0, <3>1, <3>2, SameStream, Zenon
  <2> QED  BY <2>1, <2>2
<1> QED  BY <1>8, <1>9, <1>10 DEF TcpInv, StreamInv

\* The reply of a message joins the frames of the writer, unless the client is gone.
LEMMA RepliesAnswer ==
    ASSUME NEW c, NEW s \in Stream, NEW t \in Stream, NEW g \in Seq(Seq(Piece)),
           NEW fr \in Seq(ReplyFrame), NEW p, NEW a \in Nat, NEW x \in ReplyFrame, x.s = t,
           Replies(c, s, g, fr, p, a), s = t => x.reply = ReplyTo(c, s, a + 1)
    PROVE  Replies(c, s, g, Append(fr, x), p, IF s = t THEN a + 1 ELSE a)
<1> DEFINE b == IF s = t THEN a + 1 ELSE a
<1>1. b \in Nat /\ a <= b
  OBVIOUS
<1>2. <<x, a, b>> \in ReplySpan(c, s)
  <2>1. /\ s = t => b = a + 1 /\ x.reply = ReplyTo(c, s, b)
        /\ s # t => b = a
    BY Zenon
  <2> HIDE DEF b
  <2> DEFINE y == <<x, a, b>>
  <2>2. y \in ReplyFrame \X Nat \X Nat /\ y[1] = x /\ y[2] = a /\ y[3] = b
    BY <1>1
  <2> HIDE DEF y
  <2>3. y \in ReplySpan(c, s)
    BY <2>1, <2>2, Zenon DEF ReplySpan
  <2> QED  BY <2>3, Zenon DEF y
<1>3. p # "gone" => Spans(fr, ReplySpan(c, s), Len(g), a)
  BY Zenon DEF Replies
<1>4. Len(g) \in Nat /\ Len(g) <= a /\ \A k \in 1 .. Len(g) : g[k] = ReplyTo(c, s, k)
  <2>1. Len(g) \in Nat
    OBVIOUS
  <2> QED  BY <2>1, Zenon DEF Replies
<1> HIDE DEF b
<1>40. Len(g) <= b
  <2>1. Len(g) \in Nat /\ Len(g) <= a
    BY <1>4, Zenon
  <2> QED  BY <1>1, <2>1
<1>5. p # "gone" => Spans(Append(fr, x), ReplySpan(c, s), Len(g), b)
  BY <1>1, <1>2, <1>3, SpansAppend
<1>6. Replies(c, s, g, Append(fr, x), p, b)
  BY <1>4, <1>40, <1>5, Zenon DEF Replies
<1> QED  BY <1>6 DEF b

LEMMA RepliesGone ==
    ASSUME NEW c, NEW s, NEW g \in Seq(Seq(Piece)), NEW fr, NEW p, p = "gone",
           NEW a \in Nat, NEW b \in Nat, a <= b, Replies(c, s, g, fr, p, a)
    PROVE  Replies(c, s, g, fr, p, b)
<1>1. Len(g) \in Nat
  OBVIOUS
<1>2. Len(g) <= a
  BY DEF Replies
<1>3. Len(g) <= b
  BY <1>1, <1>2
<1> QED  BY <1>3 DEF Replies

LEMMA AnswerInv ==
    ASSUME TcpInv, NEW c \in Client, NEW s \in Stream, Answer(c, s)
    PROVE  TcpInv'
<1> DEFINE e == session[c][s]
           v == [e EXCEPT !.at = "header", !.msg = <<>>]
           x == [s |-> s, reply |-> e.msg]
<1>0. /\ e.at = "handle" /\ session' = [session EXCEPT ![c][s] = v]
      /\ frames' = IF task[c].writer = "end" THEN frames
                   ELSE [frames EXCEPT ![c] = Append(frames[c], x)]
      /\ UNCHANGED <<listener, backlog, accept, permits, peer, sent, socket, task, arrived,
                     streams, queue, got>>
  <2>1. /\ e.at = "handle" /\ session' = [session EXCEPT ![c][s].at = "header", ![c][s].msg = <<>>]
        /\ session \in [Client -> [Stream -> Session]]
    BY DEF Answer, TcpInv, TcpTypes
  <2>2. session' = [session EXCEPT ![c][s] = v]
    BY <2>1, Zenon
  <2>3. frames' = IF task[c].writer = "end" THEN frames
                  ELSE [frames EXCEPT ![c] = Append(frames[c], x)]
    BY DEF Answer
  <2>4. UNCHANGED <<listener, backlog, accept, permits, peer, sent, socket, task, arrived,
                    streams, queue, got>>
    BY DEF Answer, acceptVars, clientVars, muxVars
  <2> QED  BY <2>1, <2>2, <2>3, <2>4, Zenon
<1>1. /\ e \in Session /\ queue[c][s] \in Seq(Seq(Piece)) /\ socket[c] \in Seq(Frame)
      /\ arrived[c] \in Seq(Frame)
      /\ frames \in [Client -> Seq(ReplyFrame)] /\ frames[c] \in Seq(ReplyFrame)
      /\ got \in [Client -> [Stream -> Seq(Seq(Piece))]]
  <2>1. e \in Session /\ queue[c][s] \in Seq(Seq(Piece))
    BY DEF TcpInv, TcpTypes
  <2>2. socket[c] \in Seq(Frame) /\ arrived[c] \in Seq(Frame)
    BY DEF TcpInv, TcpTypes
  <2>3. frames \in [Client -> Seq(ReplyFrame)] /\ frames[c] \in Seq(ReplyFrame)
    BY DEF TcpInv, TcpTypes
  <2>4. got \in [Client -> [Stream -> Seq(Seq(Piece))]]
    BY DEF TcpInv, TcpTypes
  <2> QED  BY <2>1, <2>2, <2>3, <2>4
<1>2. /\ v \in Session /\ v.at = "header" /\ v.msg = <<>> /\ v.buf = e.buf
      /\ x \in ReplyFrame /\ x.s = s /\ x.reply = e.msg
  <2>1. e \in Session
    BY <1>1
  <2> HIDE DEF e
  <2>2. e.msg \in Seq(Piece) /\ <<>> \in Seq(Piece)
    BY <2>1 DEF Session
  <2>3. v \in Session /\ v.at = "header" /\ v.msg = <<>> /\ v.buf = e.buf
    BY <2>1, <2>2, Zenon DEF Session
  <2>4. x \in ReplyFrame /\ x.s = s /\ x.reply = e.msg
    BY <2>2 DEF ReplyFrame
  <2> QED  BY <2>3, <2>4
<1> HIDE DEF v, x
<1>3. /\ session' \in [Client -> [Stream -> Session]]
      /\ \A d \in Client, t \in Stream :
           session'[d][t] = IF d = c /\ t = s THEN v ELSE session[d][t]
      /\ AcceptInv' /\ MuxInv'
  <2>1. v.at # "none" /\ session[c][s].at \notin {"none", "end"}
    BY <1>0, <1>2
  <2>2. /\ v \in Session /\ session' = [session EXCEPT ![c][s] = v]
        /\ UNCHANGED <<backlog, accept, permits, peer, task, streams>>
    BY <1>0, <1>2, Zenon
  <2> QED  BY <2>1, <2>2, SessionMux, Zenon
<1>4. TcpTypes'
  <2>1. Append(frames[c], x) \in Seq(ReplyFrame)
    BY <1>1, <1>2, AppendIs, Zenon
  <2>2. frames' \in [Client -> Seq(ReplyFrame)]
    BY <1>0, <1>1, <2>1
  <2> QED  BY <1>0, <1>3, <2>2, Zenon DEF TcpInv, TcpTypes
\* Whoever replies to a writer that has ended has lost the client.
<1>5. task[c].writer = "end" => peer[c] = "gone"
  BY <1>0 DEF TcpInv, MuxInv, SessionsOver
<1>6. PICK a \in Nat : StreamAt(c, s, a)
  BY DEF TcpInv, StreamInv
<1>7. /\ e.msg = ReplyTo(c, s, a + 1) /\ 2 * (a + 1) <= sent[c][s]
      /\ Flow(c, s, sent[c][s], socket[c], arrived[c], queue[c][s], v, a + 1)
  <2>1. Flow(c, s, sent[c][s], socket[c], arrived[c], queue[c][s], e, a)
    BY <1>0, <1>6 DEF StreamAt
  <2>2. /\ e.at = "handle" /\ e \in Session /\ queue[c][s] \in Seq(Seq(Piece))
        /\ socket[c] \in Seq(Frame) /\ arrived[c] \in Seq(Frame)
        /\ v.at = "header" /\ v.msg = <<>> /\ v.buf = e.buf
    BY <1>0, <1>1, <1>2
  <2> HIDE DEF e
  <2> QED  BY <2>1, <2>2, FlowAnswer, Zenon
<1> HIDE DEF e
<1>8. ASSUME NEW d \in Client, NEW t \in Stream PROVE \E b \in Nat : StreamAt(d, t, b)'
  <2>0. PICK b \in Nat : StreamAt(d, t, b) /\ (d = c /\ t = s => b = a)
    <3>1. \E b \in Nat : StreamAt(d, t, b)
      BY DEF TcpInv, StreamInv
    <3> QED  BY <1>6, <3>1
  <2> DEFINE n == IF t = s THEN b + 1 ELSE b
  <2>1. CASE d # c
    <3>1. frames'[d] = frames[d] /\ session'[d][t] = session[d][t]
      BY <1>0, <1>1, <1>3, <2>1, Zenon
    <3> QED  BY <1>0, <2>0, <3>1, SameStream, Zenon
  <2>2. CASE d = c
    <3>1. /\ 2 * b <= sent[c][t] /\ b \in Nat /\ Replies(c, t, got[c][t], frames[c], peer[c], b)
          /\ session[c][t].at # "end" =>
               Flow(c, t, sent[c][t], socket[c], arrived[c], queue[c][t], session[c][t], b)
      BY <2>0, <2>2, Zenon DEF StreamAt
    <3>2. Replies(c, t, got[c][t], frames'[c], peer[c], n)
      <4>1. CASE task[c].writer = "end"
        <5>1. peer[c] = "gone" /\ frames' = frames
          BY <1>0, <1>5, <4>1
        <5>2. got[c][t] \in Seq(Seq(Piece))
          BY <1>1, Zenon
        <5>3. n \in Nat /\ b <= n
          OBVIOUS
        <5> QED  BY <3>1, <5>1, <5>2, <5>3, RepliesGone, Zenon
      <4>2. CASE task[c].writer # "end"
        <5>1. frames'[c] = Append(frames[c], x)
          BY <1>0, <1>1, <4>2
        <5>2. got[c][t] \in Seq(Seq(Piece)) /\ (t = s => x.reply = ReplyTo(c, t, b + 1))
          BY <1>1, <1>2, <1>7, <2>0, <2>2, Zenon
        <5>3. Replies(c, t, got[c][t], Append(frames[c], x), peer[c], n)
          BY <1>1, <1>2, <3>1, <5>2, RepliesAnswer, Zenon
        <5> QED  BY <5>1, <5>3
      <4> QED  BY <4>1, <4>2, Zenon
    <3>3. CASE t = s
      <4>1. n = a + 1 /\ session'[c][s] = v
        BY <1>3, <2>0, <2>2, <3>3
      <4>2. StreamAt(c, s, a + 1)'
        BY <1>0, <1>7, <3>2, <3>3, <4>1, Zenon DEF StreamAt
      <4> QED  BY <2>2, <3>3, <4>2
    <3>4. CASE t # s
      <4>1. n = b /\ session'[c][t] = session[c][t]
        BY <1>3, <3>4
      <4>2. StreamAt(c, t, b)'
        BY <1>0, <3>1, <3>2, <4>1, Zenon DEF StreamAt
      <4> QED  BY <2>2, <4>2
    <3> QED  BY <3>3, <3>4
  <2> QED  BY <2>1, <2>2
<1> QED  BY <1>3, <1>4, <1>8 DEF TcpInv, StreamInv

LEMMA SessionEndsInv ==
    ASSUME TcpInv, NEW c \in Client, NEW s \in Stream, SessionEnds(c, s)
    PROVE  TcpInv'
<1> DEFINE v == [at |-> "end", buf |-> <<>>, msg |-> <<>>]
<1>0. /\ session[c][s].at \in {"header", "body"} /\ session' = [session EXCEPT ![c][s] = v]
      /\ UNCHANGED <<listener, backlog, accept, permits, peer, sent, socket, task, arrived,
                     streams, queue, frames, got>>
  BY DEF SessionEnds, acceptVars, clientVars, muxVars
<1>1. v \in Session /\ v.at = "end"
  <2>1. <<>> \in Seq(Piece)
    OBVIOUS
  <2> QED  BY <2>1, Zenon DEF Session
<1> HIDE DEF v
<1>2. /\ session' \in [Client -> [Stream -> Session]]
      /\ \A d \in Client, t \in Stream :
           session'[d][t] = IF d = c /\ t = s THEN v ELSE session[d][t]
      /\ AcceptInv' /\ MuxInv'
  <2>1. v.at # "none" /\ session[c][s].at \notin {"none", "end"}
    BY <1>0, <1>1
  <2> QED  BY <1>0, <1>1, <2>1, SessionMux, Zenon
<1>3. TcpTypes'
  BY <1>0, <1>2, Zenon DEF TcpInv, TcpTypes
<1>4. ASSUME NEW d \in Client, NEW t \in Stream PROVE \E a \in Nat : StreamAt(d, t, a)'
  <2>1. PICK a \in Nat : StreamAt(d, t, a)
    BY DEF TcpInv, StreamInv
  <2>2. session'[d][t].at = "end" \/ session'[d][t] = session[d][t]
    BY <1>1, <1>2, Zenon
  <2>3. StreamAt(d, t, a)'
    BY <1>0, <2>1, <2>2 DEF StreamAt
  <2> QED  BY <2>3
<1> QED  BY <1>2, <1>3, <1>4 DEF TcpInv, StreamInv

-----------------------------------------------------------------------------
(* The theorems.                                                           *)

LEMMA TcpStepInv == TcpInv /\ [TcpNext]_tcpVars => TcpInv'
<1> SUFFICES ASSUME TcpInv, [TcpNext]_tcpVars PROVE TcpInv'
  OBVIOUS
<1>1. CASE UNCHANGED tcpVars
  <2>1. UNCHANGED <<listener, backlog, accept, permits, peer, sent, socket, task, arrived,
                    streams, queue, session, frames, got>>
    BY <1>1 DEF tcpVars, acceptVars, clientVars, muxVars
  <2>2. TcpTypes' /\ AcceptInv' /\ MuxInv'
    BY <2>1, Zenon DEF TcpInv, TcpTypes, AcceptInv, MuxInv, SessionsOver
  <2>3. StreamInv'
    BY <2>1, SameStreams DEF TcpInv, muxVars
  <2> QED  BY <2>2, <2>3 DEF TcpInv
<1>2. CASE Accept \/ AcquirePermit
  BY <1>2, AcceptKeeps, AcquirePermitInv
<1>3. ASSUME NEW c \in Client, ClientNext(c) PROVE TcpInv'
  <2>1. CASE Connect(c) \/ Leave(c)
    BY <2>1, ConnectInv, LeaveInv
  <2>2. ASSUME NEW s \in Stream, NEW n \in 1 .. MaxFrame, SendFrame(c, s, n) PROVE TcpInv'
    <3>1. n \in Nat /\ n > 0
      BY TcpAssumption
    <3> QED  BY <2>2, <3>1, SendFrameInv
  <2> QED  BY <1>3, <2>1, <2>2 DEF ClientNext
<1>4. ASSUME NEW c \in Client, ServerNext(c) PROVE TcpInv'
  BY <1>4, TaskStepsInv, ReaderReadsInv, WriterWritesInv, HandOutInv DEF ServerNext
<1>5. ASSUME NEW c \in Client, NEW s \in Stream, SessionNext(c, s) PROVE TcpInv'
  BY <1>5, ReadInv, AnswerInv, SessionEndsInv DEF SessionNext
<1> QED  BY <1>1, <1>2, <1>3, <1>4, <1>5 DEF TcpNext

\* The invariant holds in every reachable state: between the last reply and the last
\* piece sent, socket, channels, buffer and message in progress hold each stream's pieces
\* once and in order, and the writer's frames hold its replies.
THEOREM TcpInvariant == TcpSpec => []TcpInv
<1> QED  BY TcpInitInv, TcpStepInv, PTL DEF TcpSpec

\* The sessions of a connection do not mix: for any number of connections and streams,
\* and however frames cut them, the replies a client gets on a stream answer the messages
\* it sent there, each once, whole and in order.
THEOREM StreamsAreFaithful == TcpSpec => []StreamsFaithful
<1>1. TcpInv => StreamsFaithful
  <2> SUFFICES ASSUME TcpInv, NEW c \in Client, NEW s \in Stream
               PROVE  /\ 2 * Len(got[c][s]) <= sent[c][s]
                      /\ \A k \in DOMAIN got[c][s] :
                           got[c][s][k] = <<<<c, s, 2 * k - 1>>, <<c, s, 2 * k>>>>
    BY Zenon DEF StreamsFaithful
  <2>1. PICK a \in Nat : StreamAt(c, s, a)
    BY DEF TcpInv, StreamInv
  <2>2. /\ DOMAIN got[c][s] = 1 .. Len(got[c][s]) /\ Len(got[c][s]) \in Nat /\ sent[c][s] \in Nat
    <3>1. got[c][s] \in Seq(Seq(Piece)) /\ sent[c][s] \in Nat
      BY DEF TcpInv, TcpTypes
    <3> QED  BY <3>1
  <2>3. 2 * Len(got[c][s]) <= sent[c][s]
    <3>1. 2 * a <= sent[c][s] /\ Len(got[c][s]) <= a
      BY <2>1, Zenon DEF StreamAt, Replies
    <3> QED  BY <2>2, <3>1
  <2> QED  BY <2>1, <2>2, <2>3, Zenon DEF StreamAt, Replies, ReplyTo
<1> QED  BY <1>1, TcpInvariant, PTL

-----------------------------------------------------------------------------
(* The semaphore of the TCP listener, and the types.                       *)

\* The semaphore counts the connections that serve_tcp reads, and serve_tcp_tls
\* never gets to it.
PermitInv ==
    /\ IsFiniteSet(permits) /\ Cardinality(permits) <= MaxConns
    /\ listener = "tcp" => \A c \in Client :
         task[c].loop # "handshake" /\ (task[c].reader = "run" => c \in permits)
    /\ listener # "tcp" => permits = {} /\ accept = <<"listen">>

LEMMA PermitInit == TcpInit => PermitInv
<1> SUFFICES ASSUME TcpInit PROVE PermitInv
  OBVIOUS
<1>1. IsFiniteSet({}) /\ Cardinality({}) = 0
  BY FS_EmptySet, Zenon
<1>2. 0 <= MaxConns
  BY TcpAssumption DEF TcpAssumption
<1>3. permits = {} /\ accept = <<"listen">>
  BY DEF TcpInit
<1>4. \A c \in Client : task[c].loop = "none" /\ task[c].reader = "none"
  BY DEF TcpInit, Idle
<1> QED  BY <1>1, <1>2, <1>3, <1>4 DEF PermitInv

\* A step that leaves the semaphore and the listener alone, and starts no reader.
LEMMA PermitQuiet ==
    ASSUME PermitInv, permits' = permits, listener' = listener,
           listener # "tcp" => accept' = accept,
           \A c \in Client : /\ task'[c].reader = "run" => task[c].reader = "run"
                             /\ listener = "tcp" /\ task'[c].loop = "handshake" =>
                                  task[c].loop = "handshake"
    PROVE  PermitInv'
  BY Zenon DEF PermitInv

\* A step of the tasks of one connection.
LEMMA PermitTask ==
    ASSUME PermitInv, TcpInv, NEW c \in Client, NEW t \in Task,
           permits' = permits, listener' = listener,
           listener # "tcp" => accept' = accept,
           task' = [task EXCEPT ![c] = t],
           t.reader = "run" => task[c].reader = "run",
           listener = "tcp" /\ t.loop = "handshake" => task[c].loop = "handshake"
    PROVE  PermitInv'
<1>1. task \in [Client -> Task]
  BY Zenon DEF TcpInv, TcpTypes
<1>2. \A d \in Client : task'[d] = IF d = c THEN t ELSE task[d]
  BY <1>1, Zenon
<1> QED  BY <1>2, PermitQuiet, Zenon

LEMMA PermitAcquired ==
    ASSUME PermitInv, TcpInv, AcquirePermit
    PROVE  PermitInv'
<1> DEFINE c == accept[2]
<1>1. /\ permits' = permits \cup {c} /\ Cardinality(permits) < MaxConns
      /\ task' = [task EXCEPT ![c] = Running] /\ listener' = listener
      /\ accept[1] = "permit"
  BY DEF AcquirePermit
<1> HIDE DEF c
<1>2. IsFiniteSet(permits) /\ Cardinality(permits) \in Nat
  BY FS_CardinalityType DEF PermitInv
<1>3. /\ IsFiniteSet(permits \cup {c})
      /\ Cardinality(permits \cup {c}) \in {Cardinality(permits), Cardinality(permits) + 1}
  BY <1>2, FS_AddElement
<1>4. Cardinality(permits \cup {c}) <= MaxConns
  BY <1>1, <1>2, <1>3, TcpAssumption
<1>5. listener = "tcp"
  <2>1. accept # <<"listen">>
    BY <1>1
  <2> QED  BY <2>1, Zenon DEF PermitInv
<1>6. task \in [Client -> Task] /\ Running.loop = "run"
  BY DEF TcpInv, TcpTypes, Running
<1>7. \A d \in Client : task'[d] = IF d = c THEN Running ELSE task[d]
  BY <1>1, <1>6, Zenon
<1>8. ASSUME NEW d \in Client
      PROVE  task'[d].loop # "handshake" /\ (task'[d].reader = "run" => d \in permits')
  <2>1. task[d].loop # "handshake" /\ (task[d].reader = "run" => d \in permits)
    BY <1>5, Zenon DEF PermitInv
  <2>2. CASE d = c
    BY <1>1, <1>6, <1>7, <2>2
  <2>3. CASE d # c
    BY <1>1, <1>7, <2>1, <2>3
  <2> QED  BY <2>2, <2>3
<1> QED  BY <1>1, <1>3, <1>4, <1>5, <1>8, Zenon DEF PermitInv

LEMMA PermitReturned ==
    ASSUME PermitInv, NEW c \in Client, ReturnPermit(c)
    PROVE  PermitInv'
<1>1. /\ permits' = permits \ {c} /\ c \in permits /\ task[c].reader = "end"
      /\ UNCHANGED <<listener, accept, task>>
  BY DEF ReturnPermit
<1>2. IsFiniteSet(permits) /\ Cardinality(permits) \in Nat /\ Cardinality(permits) <= MaxConns
  BY FS_CardinalityType DEF PermitInv
<1>3. IsFiniteSet(permits \ {c}) /\ Cardinality(permits \ {c}) = Cardinality(permits) - 1
  BY <1>1, <1>2, FS_RemoveElement
<1>4. Cardinality(permits \ {c}) <= MaxConns
  BY <1>2, <1>3, TcpAssumption
<1>5. ASSUME listener = "tcp", NEW d \in Client
      PROVE  task[d].loop # "handshake" /\ (task[d].reader = "run" => d \in permits')
  BY <1>1, <1>5 DEF PermitInv
<1>6. listener = "tcp"
  BY <1>1 DEF PermitInv
<1> QED  BY <1>1, <1>3, <1>4, <1>5, <1>6, Zenon DEF PermitInv

\* Every other step leaves the semaphore alone.
LEMMA PermitStep == PermitInv /\ TcpInv /\ [TcpNext]_tcpVars => PermitInv'
<1> SUFFICES ASSUME PermitInv, TcpInv, [TcpNext]_tcpVars PROVE PermitInv'
  OBVIOUS
<1>0. /\ task \in [Client -> Task] /\ backlog \in Seq(Client)
  BY Zenon DEF TcpInv, TcpTypes
<1>1. UNCHANGED <<listener, accept, permits, task>> => PermitInv'
  BY PermitQuiet, Zenon
<1>2. CASE UNCHANGED tcpVars
  BY <1>1, <1>2 DEF tcpVars, acceptVars
<1>3. CASE AcquirePermit
  BY <1>3, PermitAcquired
<1>4. CASE Accept
  <2> DEFINE c == Head(backlog)
             t == [task[c] EXCEPT !.loop = "handshake"]
  <2>1. backlog # <<>> /\ UNCHANGED <<listener, permits>>
    BY <1>4 DEF Accept
  <2>2. c \in Client
    BY <1>0, <2>1
  <2>3. CASE listener = "tcp"
    <3>1. UNCHANGED task
      BY <1>4, <2>3 DEF Accept
    <3> QED  BY <2>1, <2>3, <3>1, PermitQuiet, Zenon
  <2>4. CASE listener # "tcp"
    <3>1. task' = [task EXCEPT ![c] = t] /\ UNCHANGED accept
      BY <1>4, <2>4 DEF Accept
    <3>2. t \in Task /\ t.reader = task[c].reader
      BY <1>0, <2>2 DEF Task
    <3> HIDE DEF t, c
    <3> QED  BY <2>1, <2>2, <2>4, <3>1, <3>2, PermitTask, Zenon
  <2> QED  BY <2>3, <2>4
<1>5. ASSUME NEW c \in Client, ClientNext(c) PROVE PermitInv'
  BY <1>1, <1>5, Zenon DEF ClientNext, Connect, Leave, SendFrame, acceptVars
<1>6. ASSUME NEW c \in Client, ServerNext(c) PROVE PermitInv'
  <2>0. task[c] \in Task
    BY <1>0, Zenon
  <2>1. CASE ReturnPermit(c)
    BY <2>1, PermitReturned
  <2>2. CASE ReaderReads(c) \/ HandOut(c)
    BY <1>1, <2>2, Zenon DEF ReaderReads, HandOut, acceptVars
  <2>3. CASE Handshake(c)
    <3>1. /\ task[c].loop = "handshake" /\ UNCHANGED <<listener, accept, permits>>
          /\ task' = [task EXCEPT ![c] = Running] \/ task' = [task EXCEPT ![c] = Refused]
      BY <2>3 DEF Handshake, acceptVars
    <3>2. listener # "tcp"
      BY <3>1, Zenon DEF PermitInv
    <3> QED  BY <3>1, <3>2, Zenon DEF PermitInv
  <2>4. CASE ReaderEnds(c)
    <3> DEFINE t == [task[c] EXCEPT !.reader = "end"]
    <3>1. task' = [task EXCEPT ![c] = t] /\ UNCHANGED <<listener, accept, permits>>
      BY <2>4 DEF ReaderEnds, acceptVars
    <3>2. t \in Task /\ t.reader = "end" /\ t.loop = task[c].loop
      BY <2>0 DEF Task
    <3> HIDE DEF t
    <3>3. t.reader # "run"
      BY <3>2
    <3> QED  BY <3>1, <3>2, <3>3, PermitTask, Zenon
  <2>5. CASE WriterWrites(c) \/ WriterEnds(c)
    <3> DEFINE t == [task[c] EXCEPT !.writer = "end"]
    <3>1. /\ UNCHANGED task \/ task' = [task EXCEPT ![c] = t]
          /\ UNCHANGED <<listener, accept, permits>>
      BY <2>5 DEF WriterWrites, WriterEnds, acceptVars
    <3>2. t \in Task /\ t.reader = task[c].reader /\ t.loop = task[c].loop
      BY <2>0 DEF Task
    <3> HIDE DEF t
    <3> QED  BY <1>1, <3>1, <3>2, PermitTask, Zenon
  <2>6. CASE LoopEnds(c)
    <3> DEFINE t == [task[c] EXCEPT !.loop = "end"]
    <3>1. /\ task' = [task EXCEPT ![c] = t] /\ UNCHANGED <<listener, permits>>
          /\ listener # "tcp" => accept' = accept
      BY <2>6 DEF LoopEnds
    <3>2. t \in Task /\ t.reader = task[c].reader /\ t.loop = "end"
      BY <2>0 DEF Task
    <3> HIDE DEF t
    <3>3. t.loop # "handshake"
      BY <3>2
    <3> QED  BY <3>1, <3>2, <3>3, PermitTask, Zenon
  <2> QED  BY <1>6, <2>1, <2>2, <2>3, <2>4, <2>5, <2>6 DEF ServerNext
<1>7. ASSUME NEW c \in Client, NEW s \in Stream, SessionNext(c, s) PROVE PermitInv'
  BY <1>1, <1>7, Zenon DEF SessionNext, ReadHeader, ReadBody, Answer, SessionEnds, acceptVars
<1> QED  BY <1>2, <1>3, <1>4, <1>5, <1>6, <1>7 DEF TcpNext

\* Types, and the accept loop: a queued connection has no task yet, serve_tcp reads
\* no more than ninep.conn(n) connections at a time, each with a permit of the
\* semaphore (serve_tcp_tls has none), and the loop's map of streams is exactly the
\* streams that have had a session.
THEOREM TcpTypeCorrect == TcpSpec => []TcpTypeOK
<1>1. TcpInv /\ PermitInv => TcpTypeOK
  <2> SUFFICES ASSUME TcpInv, PermitInv PROVE TcpTypeOK
    OBVIOUS
  <2>1. /\ listener \in Listener /\ permits \subseteq Client
        /\ accept \in {<<"listen">>} \cup ({"permit", "serve"} \X Client)
        /\ peer \in [Client -> {"off", "open", "gone"}]
    BY DEF TcpInv, TcpTypes
  <2>2. listener = "tcp" => Served \subseteq permits /\ Cardinality(permits) <= MaxConns
    BY DEF PermitInv, Served
  <2>3. listener = "tls" => permits = {}
    BY DEF PermitInv
  <2>4. \A i \in DOMAIN backlog : task[backlog[i]] = Idle
    <3>1. DOMAIN backlog = 1 .. Len(backlog)
      BY DEF TcpInv, TcpTypes
    <3> QED  BY <3>1 DEF TcpInv, AcceptInv
  <2>5. ASSUME NEW c \in Client
        PROVE  /\ task[c].reader \in {"none", "run", "end"}
               /\ task[c].writer \in {"none", "run", "end"}
               /\ task[c].loop \in {"none", "handshake", "run", "end"}
               /\ streams[c] = {s \in Stream : session[c][s].at # "none"}
               /\ \A s \in Stream : session[c][s].at \in {"none", "header", "body", "handle", "end"}
    <3>1. task[c] \in Task /\ \A s \in Stream : session[c][s] \in Session
      BY DEF TcpInv, TcpTypes
    <3>2. streams[c] = {s \in Stream : session[c][s].at # "none"}
      BY DEF TcpInv, MuxInv
    <3> QED  BY <3>1, <3>2 DEF Task, Session
  <2> QED  BY <2>1, <2>2, <2>3, <2>4, <2>5 DEF TcpTypeOK
<1>2. TcpSpec => []PermitInv
  BY PermitInit, PermitStep, TcpInvariant, PTL DEF TcpSpec
<1> QED  BY <1>1, <1>2, TcpInvariant, PTL

=============================================================================
