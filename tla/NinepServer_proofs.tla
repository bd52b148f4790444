-------------------------- MODULE NinepServer_proofs --------------------------
(***************************************************************************)
(* The fid and path tables of the 9P server for any number of connections  *)
(* that share them, whatever fid numbers and names they use.               *)
(***************************************************************************)
EXTENDS NinepServer, TLAPS

-----------------------------------------------------------------------------
(* The inductive invariant.                                                *)

Comp == Name \cup NewName

\* The clients use different fid numbers.  Some of the facts need it.
Apart == \A c, d \in Conn : c # d => FidsOf[c] \cap FidsOf[d] = {}

\* In path table t, qid q belongs to p, or a rename gave its file another name.
Denotes(t, q, p) ==
    q \in DOMAIN t /\ (Apart => p = t[q].path \/ RenameTarget(t[q].path))

\* The counter is ahead of the table, in which a path is found only once.
TableGood(t, n) ==
    /\ n \in Nat /\ DOMAIN t = 0 .. n - 1
    /\ \A q \in DOMAIN t : t[q].path \in Seq(Comp)
    /\ \A q, k \in DOMAIN t : t[q].path = t[k].path => q = k \/ RenameTarget(t[q].path)
    /\ Denotes(t, 0, <<>>)

FidGood(t, e) ==
    /\ DOMAIN e = {"qid", "path", "is_dir"}
    /\ e.path \in Seq(Comp) /\ Denotes(t, e.qid, e.path)

\* What a handler has copied is still in the table when it goes on.
JobGood(t, j) ==
    /\ DOMAIN j = {"pc", "op", "fid", "to", "names", "path", "qid", "is_dir", "want"}
    /\ j.path \in Seq(Comp) /\ j.names \in Seq(Comp) /\ j.qid \in DOMAIN t
    /\ j.pc \in {"walk", "lookup"} => Denotes(t, j.qid, j.path)
    /\ j.pc = "lookup" => j.names # <<>>
    /\ j.pc = "route" /\ j.op = "rename" => \E name \in NewName : j.names = <<name>>

\* A handler works on fids of its client, and a rename on the fid's qid in table F.
Owns(c, j, F) ==
    /\ j.pc \in {"route", "clunk"} => j.fid \in FidsOf[c]
    /\ j.pc \in {"walk", "lookup"} => j.to \in FidsOf[c]
    /\ Apart /\ j.pc = "route" /\ j.op = "rename" =>
         j.fid \in DOMAIN F /\ F[j.fid].qid = j.qid

TablesInv ==
    /\ TableGood(paths, nextQid)
    /\ \A f \in DOMAIN fids : FidGood(paths, fids[f])
    /\ DOMAIN job = Conn
    /\ \A c \in Conn : JobGood(paths, job[c]) /\ Owns(c, job[c], fids)

\* The table only gains entries, and an entry changes only by a rename.
Grows(t, u) ==
    \A q \in DOMAIN t : q \in DOMAIN u /\ (u[q] = t[q] \/ RenameTarget(u[q].path))

\* From fid table F to G only entries of fids of the client of c change.
Touches(c, F, G) ==
    \A f \in DOMAIN F \ FidsOf[c] : f \in DOMAIN G /\ G[f] = F[f]

-----------------------------------------------------------------------------
(* Facts about sequences and tables.                                       *)

\* Sequences are equal that have the same elements.
LEMMA SameSeq ==
    ASSUME NEW S, NEW p \in Seq(S), NEW q \in Seq(S), Len(p) = Len(q),
           \A i \in 1 .. Len(p) : p[i] = q[i]
    PROVE  p = q
<1>1. p = [i \in 1 .. Len(p) |-> p[i]] /\ q = [i \in 1 .. Len(q) |-> q[i]]
  OBVIOUS
<1> QED  BY <1>1

\* What a concatenation is, and that of three.
LEMMA ConcatIs ==
    ASSUME NEW S, NEW p \in Seq(S), NEW q \in Seq(S)
    PROVE  /\ p \o q \in Seq(S) /\ Len(p \o q) = Len(p) + Len(q)
           /\ \A i \in 1 .. Len(p) : (p \o q)[i] = p[i]
           /\ \A i \in 1 .. Len(q) : (p \o q)[Len(p) + i] = q[i]
<1>1. Len(p \o q) = Len(p) + Len(q) /\ Len(p) \in Nat /\ Len(q) \in Nat
  OBVIOUS
<1>2. p \o q \in Seq(S)
  OBVIOUS
<1>3. \A i \in 1 .. Len(p) : (p \o q)[i] = p[i]
  OBVIOUS
<1>4. \A i \in 1 .. Len(q) : (p \o q)[Len(p) + i] = q[i]
  OBVIOUS
<1> QED  BY <1>1, <1>2, <1>3, <1>4

\* Append is a concatenation.
LEMMA AppendConcat ==
    ASSUME NEW S, NEW p \in Seq(S), NEW x \in S
    PROVE  Append(p, x) = p \o <<x>>
<1>1. <<x>> \in Seq(S) /\ Len(<<x>>) = 1 /\ <<x>>[1] = x /\ Len(p) \in Nat
  OBVIOUS
<1>2. /\ p \o <<x>> \in Seq(S) /\ Len(p \o <<x>>) = Len(p) + 1
      /\ \A i \in 1 .. Len(p) : (p \o <<x>>)[i] = p[i]
      /\ (p \o <<x>>)[Len(p) + 1] = x
  <2>1. 1 \in 1 .. Len(<<x>>)
    BY <1>1
  <2> QED  BY <1>1, <2>1, ConcatIs
<1>3. /\ Append(p, x) \in Seq(S) /\ Len(Append(p, x)) = Len(p) + 1
      /\ \A i \in 1 .. Len(p) : Append(p, x)[i] = p[i]
      /\ Append(p, x)[Len(p) + 1] = x
  OBVIOUS
<1>4. \A i \in 1 .. Len(p) + 1 : i \in 1 .. Len(p) \/ i = Len(p) + 1
  BY <1>1
<1> QED  BY <1>2, <1>3, <1>4, SameSeq

LEMMA ConcatEmpty ==
    ASSUME NEW S, NEW p \in Seq(S)
    PROVE  p \o <<>> = p /\ <<>> \o p = p
<1>1. <<>> \in Seq(S) /\ Len(<<>>) = 0 /\ Len(p) \in Nat
  OBVIOUS
<1>2. /\ p \o <<>> \in Seq(S) /\ <<>> \o p \in Seq(S)
      /\ Len(p \o <<>>) = Len(p) /\ Len(<<>> \o p) = Len(p)
  BY <1>1, ConcatIs
<1>3. \A i \in 1 .. Len(p) : (p \o <<>>)[i] = p[i] /\ (<<>> \o p)[i] = p[i]
  BY <1>1
<1> QED  BY <1>2, <1>3, SameSeq

LEMMA ConcatTwice ==
    ASSUME NEW S, NEW p \in Seq(S), NEW q \in Seq(S), NEW r \in Seq(S)
    PROVE  (p \o q) \o r = p \o (q \o r)
<1> DEFINE a == (p \o q) \o r
           b == p \o (q \o r)
<1>1. Len(p) \in Nat /\ Len(q) \in Nat /\ Len(r) \in Nat
  OBVIOUS
<1>2. p \o q \in Seq(S) /\ Len(p \o q) = Len(p) + Len(q)
  BY ConcatIs
<1>3. q \o r \in Seq(S) /\ Len(q \o r) = Len(q) + Len(r)
  BY ConcatIs
<1>4. a \in Seq(S) /\ b \in Seq(S) /\ Len(a) = Len(p) + Len(q) + Len(r) /\ Len(b) = Len(a)
  BY <1>1, <1>2, <1>3, ConcatIs
<1>5. ASSUME NEW i \in 1 .. Len(a) PROVE a[i] = b[i]
  <2>1. CASE i <= Len(p)
    <3>1. i \in 1 .. Len(p) /\ i \in 1 .. Len(p \o q)
      BY <1>1, <1>2, <2>1
    <3>2. a[i] = (p \o q)[i] /\ (p \o q)[i] = p[i] /\ b[i] = p[i]
      BY <1>2, <1>3, <3>1, ConcatIs
    <3> QED  BY <3>2
  <2>2. CASE i > Len(p) /\ i <= Len(p) + Len(q)
    <3>1. PICK k \in 1 .. Len(q) : i = Len(p) + k
      <4>1. i - Len(p) \in 1 .. Len(q) /\ i = Len(p) + (i - Len(p))
        BY <1>1, <2>2
      <4> QED  BY <4>1, Zenon
    <3>2. i \in 1 .. Len(p \o q) /\ k \in 1 .. Len(q \o r)
      BY <1>1, <1>2, <1>3, <2>2
    <3>3. a[i] = (p \o q)[i] /\ (p \o q)[i] = q[k]
      BY <1>2, <3>1, <3>2, ConcatIs
    <3>4. b[i] = (q \o r)[k] /\ (q \o r)[k] = q[k]
      BY <1>3, <3>1, <3>2, ConcatIs
    <3> QED  BY <3>3, <3>4
  <2>3. CASE i > Len(p) + Len(q)
    <3>1. PICK k \in 1 .. Len(r) : i = Len(p) + Len(q) + k
      <4>1. i - (Len(p) + Len(q)) \in 1 .. Len(r) /\ i = Len(p) + Len(q) + (i - (Len(p) + Len(q)))
        BY <1>1, <1>4, <2>3
      <4> QED  BY <4>1, Zenon
    <3>2. i = Len(p \o q) + k /\ Len(q) + k \in 1 .. Len(q \o r) /\ i = Len(p) + (Len(q) + k)
      BY <1>1, <1>2, <1>3, <3>1
    <3>3. a[i] = r[k]
      BY <1>2, <3>1, <3>2, ConcatIs
    <3>4. b[i] = (q \o r)[Len(q) + k] /\ (q \o r)[Len(q) + k] = r[k]
      BY <1>3, <3>1, <3>2, ConcatIs
    <3> QED  BY <3>3, <3>4
  <2> QED  BY <1>1, <2>1, <2>2, <2>3
<1> HIDE DEF a, b
<1>6. a = b
  BY <1>4, <1>5, SameSeq
<1> QED  BY <1>6 DEF a, b

LEMMA OneName ==
    ASSUME NEW name \in Comp
    PROVE  <<name>> \in Seq(Comp)
  OBVIOUS

LEMMA GrowsKeeps ==
    ASSUME NEW t, NEW u, Grows(t, u)
    PROVE  /\ \A q, p : Denotes(t, q, p) => Denotes(u, q, p)
           /\ \A e : FidGood(t, e) => FidGood(u, e)
           /\ \A j : JobGood(t, j) => JobGood(u, j)
<1>1. \A q, p : Denotes(t, q, p) => Denotes(u, q, p)
  BY DEF Grows, Denotes
<1>2. \A e : FidGood(t, e) => FidGood(u, e)
  BY <1>1 DEF FidGood
<1>3. \A j : JobGood(t, j) => JobGood(u, j)
  BY <1>1 DEF JobGood, Grows
<1> QED  BY <1>1, <1>2, <1>3

\* A handler without a message, and one that only replies, keep no qid but the
\* one of the root.
LEMMA IdleGood ==
    ASSUME NEW t, NEW n, TableGood(t, n)
    PROVE  /\ JobGood(t, NoJob)
           /\ JobGood(t, [NoJob EXCEPT !.pc = "reply"])
           /\ \A op, f : op # "rename" =>
                JobGood(t, [NoJob EXCEPT !.pc = "route", !.op = op, !.fid = f])
           /\ \A f : JobGood(t, [NoJob EXCEPT !.pc = "clunk", !.op = "clunk", !.fid = f])
<1>1. 0 \in DOMAIN t /\ <<>> \in Seq(Comp)
  BY DEF TableGood, Denotes
<1> QED  BY <1>1 DEF JobGood, NoJob

\* alloc_qid: the qid it returns is that of the path, and no path gets a second.
LEMMA AllocGood ==
    ASSUME TableGood(paths, nextQid), NEW p \in Seq(Comp), NEW dir, NEW q,
           AllocQid(p, dir, q, paths', nextQid')
    PROVE  /\ TableGood(paths', nextQid') /\ Grows(paths, paths')
           /\ q \in DOMAIN paths' /\ paths'[q].path = p
<1> DEFINE known == {k \in DOMAIN paths : paths[k].path = p}
<1>1. CASE known # {}
  <2>1. q \in known /\ paths' = paths /\ nextQid' = nextQid
    BY <1>1 DEF AllocQid
  <2> QED  BY <2>1 DEF Grows
<1>2. CASE known = {}
  <2>1. /\ q = nextQid /\ nextQid' = nextQid + 1
        /\ paths' = Insert(paths, nextQid, [path |-> p, is_dir |-> dir])
    BY <1>2 DEF AllocQid
  <2>2. /\ nextQid \in Nat /\ nextQid \notin DOMAIN paths
        /\ DOMAIN paths' = DOMAIN paths \cup {nextQid}
        /\ paths'[nextQid] = [path |-> p, is_dir |-> dir]
        /\ \A k \in DOMAIN paths : paths'[k] = paths[k]
    BY <2>1 DEF TableGood, Insert
  <2>3. Grows(paths, paths') /\ paths'[q].path = p
    BY <2>1, <2>2 DEF Grows
  <2>4. nextQid' \in Nat /\ DOMAIN paths' = 0 .. nextQid' - 1
    BY <2>1, <2>2 DEF TableGood
  <2>5. \A k \in DOMAIN paths' : paths'[k].path \in Seq(Comp)
    BY <2>2 DEF TableGood
  <2>6. \A k, l \in DOMAIN paths' :
           paths'[k].path = paths'[l].path => k = l \/ RenameTarget(paths'[k].path)
    <3>1. \A k \in DOMAIN paths : paths'[k].path # p
      BY <1>2, <2>2
    <3> QED  BY <2>2, <3>1 DEF TableGood
  <2>7. Denotes(paths', 0, <<>>)
    BY <2>3, GrowsKeeps DEF TableGood
  <2> QED  BY <2>1, <2>2, <2>3, <2>4, <2>5, <2>6, <2>7 DEF TableGood
<1> QED  BY <1>1, <1>2

\* The new name of a renamed file is the last of its path.
LEMMA RenamedGood ==
    ASSUME NEW p \in Seq(Comp), NEW name \in NewName
    PROVE  Renamed(p, <<name>>) \in Seq(Comp) /\ RenameTarget(Renamed(p, <<name>>))
<1>1. name \in Comp /\ <<name>> \in Seq(Comp) /\ Len(<<name>>) = 1
  BY DEF Comp
<1>2. CASE p = <<>>
  BY <1>1, <1>2 DEF Renamed, RenameTarget
<1>3. CASE p # <<>>
  <2> DEFINE s == SubSeq(p, 1, Len(p) - 1)
             r == s \o <<name>>
  <2>1. s \in Seq(Comp) /\ Len(s) \in Nat
    BY <1>3
  <2> HIDE DEF s
  <2>2. r \in Seq(Comp) /\ Len(r) = Len(s) + 1 /\ r = Append(s, name)
    BY <1>1, <2>1, AppendConcat
  <2>3. r[Len(r)] = name /\ r # <<>>
    BY <1>1, <2>1, <2>2
  <2>4. Renamed(p, <<name>>) = r
    BY <1>3 DEF Renamed, s
  <2> QED  BY <2>2, <2>3, <2>4, Zenon DEF RenameTarget
<1> QED  BY <1>2, <1>3

\* A step in which the handler of c moves on to j.
LEMMA HandlerStep ==
    ASSUME TablesInv, NEW c \in Conn, NEW j,
           TableGood(paths', nextQid'), Grows(paths, paths'),
           job' = [job EXCEPT ![c] = j], JobGood(paths', j), Owns(c, j, fids'),
           Touches(c, fids, fids'),
           \A f \in DOMAIN fids' : \/ f \in DOMAIN fids /\ fids'[f] = fids[f]
                                   \/ FidGood(paths', fids'[f])
    PROVE  TablesInv'
<1>1. \A f \in DOMAIN fids' : FidGood(paths', fids'[f])
  BY GrowsKeeps DEF TablesInv
<1>2. DOMAIN job' = Conn /\ \A d \in Conn : job'[d] = IF d = c THEN j ELSE job[d]
  BY DEF TablesInv
<1>3. \A d \in Conn : JobGood(paths', job'[d])
  BY <1>2, GrowsKeeps DEF TablesInv
<1>4. ASSUME NEW d \in Conn PROVE Owns(d, job'[d], fids')
  <2>1. CASE d = c
    BY <1>2, <2>1
  <2>2. CASE d # c
    <3>1. job'[d] = job[d] /\ Owns(d, job[d], fids)
      BY <1>2, <2>2 DEF TablesInv
    <3>2. ASSUME Apart, job[d].pc = "route", job[d].op = "rename"
          PROVE  job[d].fid \in DOMAIN fids' /\ fids'[job[d].fid].qid = job[d].qid
      <4>1. job[d].fid \notin FidsOf[c] /\ job[d].fid \in DOMAIN fids
        BY <2>2, <3>1, <3>2 DEF Owns, Apart
      <4> QED  BY <3>1, <3>2, <4>1 DEF Owns, Touches
    <3> QED  BY <3>1, <3>2 DEF Owns
  <2> QED  BY <2>1, <2>2
<1> QED  BY <1>1, <1>2, <1>3, <1>4 DEF TablesInv

\* The same when no table changes.
LEMMA QuietStep ==
    ASSUME TablesInv, NEW c \in Conn, NEW j, UNCHANGED <<paths, nextQid>>,
           job' = [job EXCEPT ![c] = j], JobGood(paths, j), Owns(c, j, fids'),
           Touches(c, fids, fids'),
           \A f \in DOMAIN fids' : \/ f \in DOMAIN fids /\ fids'[f] = fids[f]
                                   \/ FidGood(paths, fids'[f])
    PROVE  TablesInv'
<1>1. Grows(paths, paths') /\ TableGood(paths', nextQid')
  BY DEF Grows, TablesInv
<1> QED  BY <1>1, HandlerStep, Zenon

-----------------------------------------------------------------------------
(* The actions.                                                            *)

LEMMA TablesInit == NinepInit => TablesInv
<1> SUFFICES ASSUME NinepInit PROVE TablesInv
  OBVIOUS
<1>1. TableGood(paths, nextQid)
  <2>1. /\ nextQid = 1 /\ DOMAIN paths = {0} /\ paths[0].path = <<>> /\ <<>> \in Seq(Comp)
        /\ \A q \in DOMAIN paths : q = 0
    BY DEF NinepInit
  <2>2. {0} = 0 .. nextQid - 1
    BY <2>1
  <2> QED  BY <2>1, <2>2, Zenon DEF TableGood, Denotes
<1>2. DOMAIN fids = {}
  BY DEF NinepInit
<1>3. DOMAIN job = Conn /\ \A c \in Conn : job[c] = NoJob
  BY DEF NinepInit
<1>4. \A c \in Conn : Owns(c, NoJob, fids)
  BY DEF Owns, NoJob
<1> QED  BY <1>1, <1>2, <1>3, <1>4, IdleGood, Zenon DEF TablesInv

\* The handlers that only reply, and those that only forget a fid or attach one.
LEMMA ReplyingInv ==
    ASSUME TablesInv, NEW c \in Conn, Replying(c), UNCHANGED <<paths, nextQid>>,
           \/ UNCHANGED fids
           \/ \E f \in FidsOf[c] : fids' = Remove(fids, f)
           \/ \E f \in FidsOf[c] : \E e : fids' = Insert(fids, f, e) /\ FidGood(paths, e)
    PROVE  TablesInv'
<1>1. JobGood(paths, [NoJob EXCEPT !.pc = "reply"])
  BY IdleGood, Zenon DEF TablesInv
<1>2. job' = [job EXCEPT ![c] = [NoJob EXCEPT !.pc = "reply"]]
  BY DEF Replying
<1>3. \A f \in DOMAIN fids' : \/ f \in DOMAIN fids /\ fids'[f] = fids[f]
                              \/ FidGood(paths, fids'[f])
  BY Zenon DEF Remove, Insert
<1>4. Touches(c, fids, fids')
  BY Zenon DEF Touches, Remove, Insert
<1>5. Owns(c, [NoJob EXCEPT !.pc = "reply"], fids')
  BY DEF Owns, NoJob
<1> QED  BY <1>1, <1>2, <1>3, <1>4, <1>5, QuietStep, Zenon

\* A message arrives.
LEMMA ReceivesInv ==
    ASSUME TablesInv, NEW c \in Conn, Receives(c)
    PROVE  TablesInv'
<1>0. TableGood(paths, nextQid)
  BY DEF TablesInv
<1>1. CASE Tother(c) \/ (\E m \in MSize : Tversion(c, m)) \/ (\E f \in FidsOf[c] : UnknownFid(c, f))
  BY <1>1, ReplyingInv, Zenon DEF Tother, Tversion, UnknownFid, tableVars
<1>2. ASSUME NEW f \in FidsOf[c], Tattach(c, f) PROVE TablesInv'
  <2>1. FidGood(paths, FidAt(0, <<>>, TRUE))
    <3>1. <<>> \in Seq(Comp)
      OBVIOUS
    <3> QED  BY <1>0, <3>1 DEF FidGood, FidAt, TableGood
  <2> QED  BY <1>2, <2>1, ReplyingInv, Zenon DEF Tattach
<1>3. ASSUME NEW f \in FidsOf[c], TclunkUnknown(c, f) PROVE TablesInv'
  <2> DEFINE j == [NoJob EXCEPT !.pc = "clunk", !.op = "clunk", !.fid = f]
  <2>1. job' = [job EXCEPT ![c] = j] /\ UNCHANGED <<fids, paths, nextQid>>
    BY <1>3 DEF TclunkUnknown, tableVars
  <2>2. JobGood(paths, j)
    BY <1>0, IdleGood, Zenon
  <2>3. Owns(c, j, fids') /\ Touches(c, fids, fids')
    BY <2>1 DEF Owns, NoJob, Touches
  <2> HIDE DEF j
  <2> QED  BY <2>1, <2>2, <2>3, QuietStep, Zenon
<1>4. ASSUME NEW f, NEW j, Routing(c, f, j), JobGood(paths, j), Owns(c, j, fids)
      PROVE  TablesInv'
  BY <1>4, QuietStep, Zenon DEF Routing, tableVars, Touches
<1>5. ASSUME NEW f \in FidsOf[c], Tsimple(c, f) PROVE TablesInv'
  <2>1. PICK op \in {"open", "clunk", "remove", "readdir", "plain"} :
           Routing(c, f, [NoJob EXCEPT !.pc = "route", !.op = op, !.fid = f])
    BY <1>5, Zenon DEF Tsimple
  <2>2. JobGood(paths, [NoJob EXCEPT !.pc = "route", !.op = op, !.fid = f])
    BY <1>0, IdleGood, Zenon
  <2>3. Owns(c, [NoJob EXCEPT !.pc = "route", !.op = op, !.fid = f], fids)
    BY DEF Owns, NoJob
  <2> QED  BY <1>4, <2>1, <2>2, <2>3
<1>6. ASSUME NEW f \in FidsOf[c], NEW to \in FidsOf[c], NEW names \in Names,
             Twalk(c, f, to, names)
      PROVE  TablesInv'
  <2> DEFINE j == [pc |-> "walk", op |-> "walk", fid |-> f, to |-> to, names |-> names,
                   path |-> fids[f].path, qid |-> fids[f].qid, is_dir |-> fids[f].is_dir,
                   want |-> Want(c, f, names)]
  <2>1. /\ f \in DOMAIN fids /\ job' = [job EXCEPT ![c] = j]
        /\ UNCHANGED <<fids, paths, nextQid>>
    BY <1>6 DEF Twalk, tableVars
  <2>2. FidGood(paths, fids[f])
    BY <2>1 DEF TablesInv
  <2>3. names \in Seq(Comp)
    <3>1. PICK n \in WalkLen : names \in [1 .. n -> Name]
      BY DEF Names
    <3>2. n \in Nat /\ names \in [1 .. n -> Comp]
      BY <3>1, NinepAssumption DEF NinepAssumption, Comp
    <3> QED  BY <3>2
  <2>4. JobGood(paths, j)
    BY <2>2, <2>3 DEF FidGood, JobGood, Denotes
  <2>5. Owns(c, j, fids') /\ Touches(c, fids, fids')
    BY <2>1 DEF Owns, Touches
  <2> QED  BY <2>1, <2>4, <2>5, QuietStep, Zenon
<1>7. ASSUME NEW f \in FidsOf[c], f \in DOMAIN fids, NEW op, NEW name \in Comp, NEW dir,
             op = "rename" => name \in NewName
      PROVE  /\ JobGood(paths, Captured(c, op, f, name, dir))
             /\ Owns(c, Captured(c, op, f, name, dir), fids)
  <2>1. FidGood(paths, fids[f])
    BY <1>7 DEF TablesInv
  <2>2. <<name>> \in Seq(Comp)
    BY <1>7, OneName
  <2> DEFINE j == Captured(c, op, f, name, dir)
  <2>3. /\ DOMAIN j = {"pc", "op", "fid", "to", "names", "path", "qid", "is_dir", "want"}
        /\ j.pc = "route" /\ j.op = op /\ j.fid = f /\ j.names = <<name>>
        /\ j.path = fids[f].path /\ j.qid = fids[f].qid
    BY DEF Captured
  <2> HIDE DEF j
  <2>4. j.path \in Seq(Comp) /\ j.names \in Seq(Comp) /\ j.qid \in DOMAIN paths
    BY <2>1, <2>2, <2>3 DEF FidGood, Denotes
  <2>5. JobGood(paths, j)
    BY <1>7, <2>3, <2>4 DEF JobGood
  <2>6. Owns(c, j, fids)
    BY <1>7, <2>3 DEF Owns
  <2> QED  BY <2>5, <2>6 DEF j
<1>8. ASSUME NEW f \in FidsOf[c], NEW name \in Name, NEW dir \in BOOLEAN,
             Tcreate(c, f, name, dir)
      PROVE  TablesInv'
  BY <1>4, <1>7, <1>8 DEF Tcreate, Comp
<1>9. ASSUME NEW f \in FidsOf[c], NEW name \in NewName, Trename(c, f, name) PROVE TablesInv'
  BY <1>4, <1>7, <1>9, Zenon DEF Trename, Comp
<1> QED  BY <1>1, <1>2, <1>3, <1>5, <1>6, <1>8, <1>9 DEF Receives

\* handle_walk follows one name.
LEMMA WalkInv ==
    ASSUME TablesInv, NEW c \in Conn, WalkIntermediate(c) \/ WalkFound(c)
    PROVE  TablesInv'
<1> DEFINE p == Append(job[c].path, Head(job[c].names))
           dir == Head(job[c].names) \in DotName
<1>1. JobGood(paths, job[c]) /\ TableGood(paths, nextQid) /\ Owns(c, job[c], fids)
  BY DEF TablesInv
<1>2. job[c].names \in Seq(Comp) /\ job[c].names # <<>> /\ job[c].path \in Seq(Comp)
  BY <1>1 DEF JobGood, WalkIntermediate, WalkFound
<1>3. p \in Seq(Comp) /\ Tail(job[c].names) \in Seq(Comp)
  BY <1>2
<1>4. PICK q : /\ AllocQid(p, dir, q, paths', nextQid')
               /\ job' = [job EXCEPT ![c] = [job[c] EXCEPT
                     !.pc = "walk", !.names = Tail(job[c].names),
                     !.path = p, !.qid = q, !.is_dir = dir]]
               /\ UNCHANGED fids
  BY Zenon DEF WalkIntermediate, WalkFound, WalkTo
<1> DEFINE j == [job[c] EXCEPT !.pc = "walk", !.names = Tail(job[c].names),
                               !.path = p, !.qid = q, !.is_dir = dir]
<1>5. job' = [job EXCEPT ![c] = j]
  BY <1>4
<1>6. /\ TableGood(paths', nextQid') /\ Grows(paths, paths')
      /\ q \in DOMAIN paths' /\ paths'[q].path = p
  BY <1>1, <1>3, <1>4, AllocGood, Zenon
<1> HIDE DEF p, dir
<1>7. /\ DOMAIN j = DOMAIN job[c] /\ j.pc = "walk" /\ j.names = Tail(job[c].names)
      /\ j.path = p /\ j.qid = q /\ j.to = job[c].to
  BY <1>1 DEF JobGood
<1> HIDE DEF j
<1>8. JobGood(paths', j)
  BY <1>1, <1>3, <1>6, <1>7 DEF JobGood, Denotes
<1>9. Owns(c, j, fids') /\ Touches(c, fids, fids')
  BY <1>1, <1>4, <1>7 DEF Owns, Touches, WalkIntermediate, WalkFound
<1> QED  BY <1>4, <1>5, <1>6, <1>8, <1>9, HandlerStep, Zenon

\* The last steps of create, rename and walk store the fid.
LEMMA StoreInv ==
    ASSUME TablesInv, NEW c \in Conn, WalkDone(c) \/ CreateDone(c) \/ RenameDone(c)
    PROVE  TablesInv'
<1>1. JobGood(paths, job[c]) /\ TableGood(paths, nextQid) /\ Owns(c, job[c], fids)
  BY DEF TablesInv
<1>2. CASE WalkDone(c)
  <2>1. FidGood(paths, FidAt(job[c].qid, job[c].path, job[c].is_dir))
    BY <1>1, <1>2 DEF WalkDone, JobGood, FidGood, FidAt
  <2>2. job[c].to \in FidsOf[c]
    BY <1>1, <1>2 DEF WalkDone, Owns
  <2> QED  BY <1>2, <2>1, <2>2, ReplyingInv DEF WalkDone
<1>3. CASE CreateDone(c)
  <2> DEFINE p == job[c].path \o job[c].names
  <2>1. p \in Seq(Comp)
    <3>1. job[c].path \in Seq(Comp) /\ job[c].names \in Seq(Comp)
      BY <1>1 DEF JobGood
    <3> QED  BY <3>1, ConcatIs
  <2>2. PICK q : /\ AllocQid(p, job[c].is_dir, q, paths', nextQid')
                 /\ fids' = Insert(fids, job[c].fid, FidAt(q, p, job[c].is_dir))
    BY <1>3 DEF CreateDone
  <2>3. /\ TableGood(paths', nextQid') /\ Grows(paths, paths')
        /\ q \in DOMAIN paths' /\ paths'[q].path = p
    BY <1>1, <2>1, <2>2, AllocGood, Zenon
  <2> HIDE DEF p
  <2>4. FidGood(paths', FidAt(q, p, job[c].is_dir))
    BY <2>1, <2>3 DEF FidGood, FidAt, Denotes
  <2>5. \A f \in DOMAIN fids' : \/ f \in DOMAIN fids /\ fids'[f] = fids[f]
                                \/ FidGood(paths', fids'[f])
    BY <2>2, <2>4 DEF Insert
  <2>6. JobGood(paths', [NoJob EXCEPT !.pc = "reply"])
    BY <2>3, IdleGood, Zenon
  <2>7. Owns(c, [NoJob EXCEPT !.pc = "reply"], fids')
    BY DEF Owns, NoJob
  <2>8. Touches(c, fids, fids')
    BY <1>1, <1>3, <2>2, Zenon DEF Owns, Touches, Insert, CreateDone
  <2> QED  BY <1>3, <2>3, <2>5, <2>6, <2>7, <2>8, HandlerStep, Zenon DEF CreateDone, Replying
<1>4. CASE RenameDone(c)
  <2> DEFINE p == Renamed(job[c].path, job[c].names)
             q == job[c].qid
  <2>1. /\ fids' = IF job[c].fid \in DOMAIN fids THEN [fids EXCEPT ![job[c].fid].path = p]
                   ELSE fids
        /\ paths' = Insert(paths, q, [path |-> p, is_dir |-> FALSE])
        /\ nextQid' = nextQid /\ Replying(c)
    BY <1>4 DEF RenameDone
  <2>2. p \in Seq(Comp) /\ RenameTarget(p) /\ q \in DOMAIN paths
    BY <1>1, <1>4, RenamedGood, Zenon DEF RenameDone, JobGood
  <2> HIDE DEF p
  <2>3. /\ DOMAIN paths' = DOMAIN paths
        /\ \A k \in DOMAIN paths : \/ k = q /\ paths'[k].path = p
                                   \/ k # q /\ paths'[k] = paths[k]
    BY <2>1, <2>2, Zenon DEF Insert
  <2>4. Grows(paths, paths')
    BY <2>2, <2>3 DEF Grows
  <2>5. TableGood(paths', nextQid')
    <3>1. \A k, l \in DOMAIN paths' :
             paths'[k].path = paths'[l].path => k = l \/ RenameTarget(paths'[k].path)
      BY <1>1, <2>2, <2>3 DEF TableGood
    <3>2. Denotes(paths', 0, <<>>)
      BY <1>1, <2>4, GrowsKeeps DEF TableGood
    <3> QED  BY <1>1, <2>1, <2>2, <2>3, <3>1, <3>2, Zenon DEF TableGood
  <2>6. ASSUME NEW f \in DOMAIN fids'
        PROVE  (f \in DOMAIN fids /\ fids'[f] = fids[f]) \/ FidGood(paths', fids'[f])
    <3>1. CASE fids'[f] = fids[f]
      BY <2>1, <3>1
    <3>2. CASE fids'[f] # fids[f]
      <4>1. f = job[c].fid /\ f \in DOMAIN fids /\ fids'[f] = [fids[f] EXCEPT !.path = p]
        BY <2>1, <3>2
      <4>2. FidGood(paths', fids[f])
        BY <2>4, <4>1, GrowsKeeps DEF TablesInv
      <4>3. Apart => fids[f].qid = q
        BY <1>1, <1>4, <4>1 DEF Owns, RenameDone
      <4>4. /\ DOMAIN fids'[f] = {"qid", "path", "is_dir"}
            /\ fids'[f].qid = fids[f].qid /\ fids'[f].path = p
        BY <4>1, <4>2 DEF FidGood
      <4>5. Denotes(paths', fids[f].qid, p)
        BY <2>2, <2>3, <4>2, <4>3 DEF FidGood, Denotes
      <4> QED  BY <2>2, <4>4, <4>5 DEF FidGood
    <3> QED  BY <3>1, <3>2
  <2>7. JobGood(paths', [NoJob EXCEPT !.pc = "reply"])
    BY <2>5, IdleGood, Zenon
  <2>8. Owns(c, [NoJob EXCEPT !.pc = "reply"], fids')
    BY DEF Owns, NoJob
  <2>9. Touches(c, fids, fids')
    BY <1>1, <1>4, <2>1 DEF Owns, Touches, RenameDone
  <2> QED  BY <2>1, <2>4, <2>5, <2>6, <2>7, <2>8, <2>9, HandlerStep, Zenon DEF Replying
<1> QED  BY <1>2, <1>3, <1>4

\* The handler goes on.
LEMMA HandlesInv ==
    ASSUME TablesInv, NEW c \in Conn, Handles(c)
    PROVE  TablesInv'
<1>0. JobGood(paths, job[c]) /\ TableGood(paths, nextQid) /\ Owns(c, job[c], fids)
  BY DEF TablesInv
<1>1. CASE RouteFails(c) \/ RouteDone(c) \/ ReadDirDone(c) \/ OpenDone(c)
  BY <1>1, ReplyingInv DEF RouteFails, RouteDone, ReadDirDone, OpenDone, tableVars
<1>2. CASE ClunkDone(c)
  <2>1. job[c].fid \in FidsOf[c]
    BY <1>0, <1>2 DEF ClunkDone, Owns
  <2> QED  BY <1>2, <2>1, ReplyingInv DEF ClunkDone
<1>3. ASSUME NEW pc \in {"lookup", "clunk"}, job' = [job EXCEPT ![c] = [job[c] EXCEPT !.pc = pc]],
             pc = "lookup" => job[c].pc = "walk" /\ job[c].names # <<>>,
             pc = "clunk" => job[c].pc = "route", UNCHANGED <<fids, paths, nextQid>>
      PROVE  TablesInv'
  <2> DEFINE j == [job[c] EXCEPT !.pc = pc]
  <2>1. /\ DOMAIN j = DOMAIN job[c] /\ j.pc = pc
        /\ j.path = job[c].path /\ j.names = job[c].names /\ j.qid = job[c].qid
        /\ j.fid = job[c].fid /\ j.to = job[c].to
    BY <1>0 DEF JobGood
  <2>2. job' = [job EXCEPT ![c] = j]
    BY <1>3
  <2> HIDE DEF j
  <2>3. JobGood(paths, j)
    BY <1>0, <1>3, <2>1 DEF JobGood
  <2>4. Owns(c, j, fids') /\ Touches(c, fids, fids')
    BY <1>0, <1>3, <2>1 DEF Owns, Touches
  <2> QED  BY <1>3, <2>2, <2>3, <2>4, QuietStep, Zenon
<1>4. CASE WalkLookup(c)
  <2>1. /\ job[c].pc = "walk" /\ Len(job[c].names) = 1 /\ UNCHANGED <<fids, paths, nextQid>>
        /\ job' = [job EXCEPT ![c] = [job[c] EXCEPT !.pc = "lookup"]]
    BY <1>4 DEF WalkLookup, tableVars
  <2>2. job[c].names # <<>>
    BY <2>1
  <2> QED  BY <1>3, <2>1, <2>2
<1>5. CASE ClunkRouted(c)
  <2>1. /\ job[c].pc = "route" /\ UNCHANGED <<fids, paths, nextQid>>
        /\ job' = [job EXCEPT ![c] = [job[c] EXCEPT !.pc = "clunk"]]
    BY <1>5 DEF ClunkRouted, tableVars
  <2> QED  BY <1>3, <2>1
<1>6. CASE Reply(c)
  <2>1. job' = [job EXCEPT ![c] = NoJob] /\ UNCHANGED <<fids, paths, nextQid>>
    BY <1>6 DEF Reply, tableVars
  <2>2. JobGood(paths, NoJob) /\ Owns(c, NoJob, fids') /\ Touches(c, fids, fids')
    BY <1>0, <2>1, IdleGood, Zenon DEF Owns, NoJob, Touches
  <2> QED  BY <2>1, <2>2, QuietStep, Zenon
<1> QED  BY <1>1, <1>2, <1>4, <1>5, <1>6, WalkInv, StoreInv DEF Handles

\* Every step keeps the invariant.
LEMMA TablesNext == TablesInv /\ [NinepNext]_ninepVars => TablesInv'
<1> SUFFICES ASSUME TablesInv, [NinepNext]_ninepVars PROVE TablesInv'
  OBVIOUS
<1>1. ASSUME UNCHANGED <<fids, paths, nextQid, job>> PROVE TablesInv'
  BY <1>1 DEF TablesInv
<1>2. CASE UNCHANGED ninepVars
  BY <1>1, <1>2 DEF ninepVars
<1>3. ASSUME NEW c \in Conn, ClientReads(c) \/ Reconnect(c) PROVE TablesInv'
  BY <1>1, <1>3 DEF ClientReads, Reconnect, tableVars
<1> QED  BY <1>2, <1>3, ReceivesInv, HandlesInv DEF NinepNext

LEMMA TablesInvariance == NinepSpec => []TablesInv
BY TablesInit, TablesNext, PTL DEF NinepSpec

-----------------------------------------------------------------------------
(* Theorems.                                                               *)

\* No qid is handed out twice, and no fid and no handler between two awaits
\* refers to one outside the path table, also when connections share fids.
THEOREM QidsStayAllocated == NinepSpec => []QidsAllocated
<1>1. TablesInv => QidsAllocated
  <2> SUFFICES ASSUME TablesInv PROVE QidsAllocated
    OBVIOUS
  <2>1. DOMAIN paths = 0 .. nextQid - 1
    BY DEF TablesInv, TableGood
  <2>2. \A f \in DOMAIN fids : fids[f].qid \in DOMAIN paths
    BY DEF TablesInv, FidGood, Denotes
  <2>3. \A c \in Conn : job[c].qid \in DOMAIN paths
    BY DEF TablesInv, JobGood
  <2> QED  BY <2>1, <2>2, <2>3 DEF QidsAllocated
<1> QED  BY <1>1, TablesInvariance, PTL

\* A directory listing never shows a name under two qids, the targets of renames
\* excepted, also when connections share fids.
THEOREM ListingsUnambiguous == NinepSpec => []PathHasOneQid
<1>1. TablesInv => PathHasOneQid
  <2> SUFFICES ASSUME TablesInv, NEW d \in DOMAIN paths,
                      NEW e1 \in DirEntries(paths[d].path), NEW e2 \in DirEntries(paths[d].path),
                      e1[2] = e2[2], e1[2] \notin NewName
               PROVE  e1[1] = e2[1]
    BY DEF PathHasOneQid
  <2> DEFINE p == paths[d].path
  <2>0. p \in Seq(Comp) /\ Len(p) \in Nat
    BY DEF TablesInv, TableGood
  <2> HIDE DEF p
  <2>1. PICK q \in DOMAIN paths :
           /\ Len(paths[q].path) = Len(p) + 1 /\ SubSeq(paths[q].path, 1, Len(p)) = p
           /\ e1 = <<q, paths[q].path[Len(p) + 1]>>
    BY DEF DirEntries, p
  <2>2. PICK k \in DOMAIN paths :
           /\ Len(paths[k].path) = Len(p) + 1 /\ SubSeq(paths[k].path, 1, Len(p)) = p
           /\ e2 = <<k, paths[k].path[Len(p) + 1]>>
    BY DEF DirEntries, p
  <2>3. paths[q].path \in Seq(Comp) /\ paths[k].path \in Seq(Comp)
    BY DEF TablesInv, TableGood
  <2>4. \A i \in 1 .. Len(p) : paths[q].path[i] = p[i] /\ paths[k].path[i] = p[i]
    <3>1. ASSUME NEW s \in Seq(Comp), Len(s) = Len(p) + 1, SubSeq(s, 1, Len(p)) = p,
                 NEW i \in 1 .. Len(p)
          PROVE  s[i] = p[i]
      BY <2>0, <3>1
    <3> QED  BY <2>1, <2>2, <2>3, <3>1
  <2>5. paths[q].path = paths[k].path
    <3>1. \A i \in 1 .. Len(p) + 1 : paths[q].path[i] = paths[k].path[i]
      BY <2>0, <2>1, <2>2, <2>4
    <3> QED  BY <2>1, <2>2, <2>3, <3>1, SameSeq, Zenon
  <2>6. ~RenameTarget(paths[q].path)
    BY <2>1 DEF RenameTarget
  <2>7. q = k
    BY <2>5, <2>6 DEF TablesInv, TableGood
  <2> QED  BY <2>1, <2>2, <2>7
<1> QED  BY <1>1, TablesInvariance, PTL

\* When no two connections use one fid number, a fid and its qid denote the same
\* path, or a rename gave the file another name.  (With a shared fid a Twstat may
\* come back to find its fid at another file, and give that one's fid its path.)
THEOREM FidsNameTheirQids ==
    ASSUME Apart
    PROVE  NinepSpec => []FidNamesItsQid
<1>1. TablesInv => FidNamesItsQid
  BY DEF TablesInv, FidGood, Denotes, FidNamesItsQid
<1> QED  BY <1>1, TablesInvariance, PTL

-----------------------------------------------------------------------------
(* What a client knows.                                                    *)

\* All clients negotiate the same msize, which is one for the whole listener.
OneMsize == \A m, k \in MSize : Clamp(m) = Clamp(k)

Negotiated(n) == \E m \in MSize : n = Clamp(m)

\* The view v of the client of c is right when the fid table is F and the msize n.
ViewGood(c, v, F, n) ==
    /\ DOMAIN v = {"msize", "fids"}
    /\ v.msize = 0 \/ (v.msize = n /\ Negotiated(n))
    /\ \A f \in DOMAIN v.fids : f \in FidsOf[c] /\ f \in DOMAIN F /\ F[f].path = v.fids[f]

\* What the client will conclude from the reply is what the handler will store.
WantGood(j) ==
    /\ j.pc \in {"walk", "lookup"} => j.want \in {Unknown, j.path \o j.names}
    /\ j.pc = "route" /\ j.op \in {"create", "rename"} => j.want \in {Unknown, j.path}

ViewsInv ==
    /\ DOMAIN view = Conn
    /\ \A c \in Conn : ViewGood(c, view[c], fids, msize) /\ WantGood(job[c])

\* The client of c forgets a fid, or learns where it is.
LEMMA LearnedGood ==
    ASSUME NEW c \in Conn, NEW v, NEW F, NEW G, NEW n, NEW f, ViewGood(c, v, F, n),
           \A x \in DOMAIN F \ {f} : x \in DOMAIN G /\ G[x] = F[x]
    PROVE  /\ ViewGood(c, [v EXCEPT !.fids = Remove(v.fids, f)], G, n)
           /\ \A p : f \in FidsOf[c] /\ f \in DOMAIN G /\ G[f].path = p
                => ViewGood(c, [v EXCEPT !.fids = Insert(v.fids, f, p)], G, n)
<1>1. ViewGood(c, [v EXCEPT !.fids = Remove(v.fids, f)], G, n)
  <2> DEFINE w == [v EXCEPT !.fids = Remove(v.fids, f)]
  <2>1. DOMAIN w = {"msize", "fids"} /\ w.msize = v.msize /\ w.fids = Remove(v.fids, f)
    BY DEF ViewGood
  <2>2. /\ DOMAIN w.fids = DOMAIN v.fids \ {f}
        /\ \A x \in DOMAIN w.fids : w.fids[x] = v.fids[x]
    BY <2>1 DEF Remove
  <2> HIDE DEF w
  <2>3. \A x \in DOMAIN w.fids : x \in FidsOf[c] /\ x \in DOMAIN G /\ G[x].path = w.fids[x]
    BY <2>2 DEF ViewGood
  <2>4. ViewGood(c, w, G, n)
    BY <2>1, <2>3 DEF ViewGood
  <2> QED  BY <2>4 DEF w
<1>2. ASSUME NEW p, f \in FidsOf[c], f \in DOMAIN G, G[f].path = p
      PROVE  ViewGood(c, [v EXCEPT !.fids = Insert(v.fids, f, p)], G, n)
  <2> DEFINE w == [v EXCEPT !.fids = Insert(v.fids, f, p)]
  <2>1. DOMAIN w = {"msize", "fids"} /\ w.msize = v.msize /\ w.fids = Insert(v.fids, f, p)
    BY DEF ViewGood
  <2>2. /\ DOMAIN w.fids = DOMAIN v.fids \cup {f} /\ w.fids[f] = p
        /\ \A x \in DOMAIN v.fids \ {f} : w.fids[x] = v.fids[x]
    BY <2>1 DEF Insert
  <2> HIDE DEF w
  <2>3. \A x \in DOMAIN w.fids : x \in FidsOf[c] /\ x \in DOMAIN G /\ G[x].path = w.fids[x]
    BY <1>2, <2>2 DEF ViewGood
  <2>4. ViewGood(c, w, G, n)
    BY <2>1, <2>3 DEF ViewGood
  <2> QED  BY <2>4 DEF w
<1> QED  BY <1>1, <1>2

\* A step of the handler or the client of c: the others' fids are not touched.
LEMMA ViewStep ==
    ASSUME Apart, OneMsize, ViewsInv, NEW c \in Conn, DOMAIN view' = Conn,
           \A d \in Conn \ {c} : view'[d] = view[d] /\ job'[d] = job[d],
           msize' = msize \/ Negotiated(msize'),
           \A f \in DOMAIN fids \ FidsOf[c] : f \in DOMAIN fids' /\ fids'[f] = fids[f],
           ViewGood(c, view'[c], fids', msize'), WantGood(job'[c])
    PROVE  ViewsInv'
<1>1. ASSUME NEW d \in Conn \ {c} PROVE ViewGood(d, view'[d], fids', msize')
  <2>1. ViewGood(d, view[d], fids, msize) /\ view'[d] = view[d]
    BY DEF ViewsInv
  <2>2. ASSUME NEW f \in DOMAIN view[d].fids
        PROVE  f \in FidsOf[d] /\ f \in DOMAIN fids' /\ fids'[f].path = view[d].fids[f]
    <3>1. f \in FidsOf[d] /\ f \in DOMAIN fids /\ fids[f].path = view[d].fids[f]
      BY <2>1 DEF ViewGood
    <3>2. f \notin FidsOf[c]
      BY <3>1 DEF Apart
    <3> QED  BY <3>1, <3>2
  <2>3. view[d].msize = 0 \/ (view[d].msize = msize' /\ Negotiated(msize'))
    <3>1. Negotiated(msize) /\ Negotiated(msize') => msize' = msize
      BY DEF Negotiated, OneMsize
    <3> QED  BY <2>1, <3>1 DEF ViewGood
  <2> QED  BY <2>1, <2>2, <2>3 DEF ViewGood
<1>2. \A d \in Conn : WantGood(job'[d])
  BY DEF ViewsInv
<1>3. \A d \in Conn : ViewGood(d, view'[d], fids', msize')
  BY <1>1
<1> QED  BY <1>2, <1>3 DEF ViewsInv

\* The same when the client learns nothing and no table changes.
LEMMA ViewQuiet ==
    ASSUME Apart, OneMsize, TablesInv, ViewsInv, NEW c \in Conn, NEW j,
           job' = [job EXCEPT ![c] = j], WantGood(j), UNCHANGED <<fids, msize, view>>
    PROVE  ViewsInv'
<1>1. job'[c] = j /\ \A d \in Conn \ {c} : job'[d] = job[d]
  BY DEF TablesInv
<1>2. ViewGood(c, view'[c], fids', msize') /\ DOMAIN view' = Conn
  BY DEF ViewsInv
<1> QED  BY <1>1, <1>2, ViewStep

\* The same when it learns where f is, or forgets it, and only f may have moved.
LEMMA ViewLearns ==
    ASSUME Apart, OneMsize, TablesInv, ViewsInv, NEW c \in Conn, Replying(c),
           msize' = msize, NEW f \in FidsOf[c],
           \A x \in DOMAIN fids \ {f} : x \in DOMAIN fids' /\ fids'[x] = fids[x],
           \/ Forget(c, f)
           \/ \E p : LearnFid(c, f, p) /\ (p = Unknown \/ (f \in DOMAIN fids' /\ fids'[f].path = p))
    PROVE  ViewsInv'
<1> DEFINE v == view[c]
           u == [v EXCEPT !.fids = Remove(v.fids, f)]
           w(p) == [v EXCEPT !.fids = Insert(v.fids, f, p)]
<1>1. ViewGood(c, v, fids, msize) /\ DOMAIN view = Conn /\ DOMAIN job = Conn
  BY Zenon DEF ViewsInv, TablesInv
<1>2. \/ view' = [view EXCEPT ![c] = u]
      \/ \E p : view' = [view EXCEPT ![c] = w(p)] /\ f \in DOMAIN fids' /\ fids'[f].path = p
  BY DEF Forget, LearnFid, Learn
<1>3. ViewGood(c, u, fids', msize)
  BY <1>1, LearnedGood, Zenon
<1>4. \A p : f \in DOMAIN fids' /\ fids'[f].path = p => ViewGood(c, w(p), fids', msize)
  BY <1>1, LearnedGood, Zenon
<1> HIDE DEF u, w
<1>5. /\ DOMAIN view' = Conn /\ \A d \in Conn \ {c} : view'[d] = view[d]
      /\ ViewGood(c, view'[c], fids', msize')
  BY <1>1, <1>2, <1>3, <1>4
<1>6. \A d \in Conn \ {c} : job'[d] = job[d]
  BY <1>1 DEF Replying
<1>7. WantGood(job'[c])
  BY <1>1 DEF Replying, NoJob, WantGood
<1>8. \A x \in DOMAIN fids \ FidsOf[c] : x \in DOMAIN fids' /\ fids'[x] = fids[x]
  OBVIOUS
<1> QED  BY <1>5, <1>6, <1>7, <1>8, ViewStep

\* Following one name.
LEMMA OneNameOn ==
    ASSUME NEW S, NEW p \in Seq(S), NEW q \in Seq(S), q # <<>>
    PROVE  Append(p, Head(q)) \o Tail(q) = p \o q
<1>1. Head(q) \in S /\ Tail(q) \in Seq(S) /\ <<Head(q)>> \in Seq(S)
  OBVIOUS
<1>2. Append(p, Head(q)) = p \o <<Head(q)>>
  BY <1>1, AppendConcat
<1>3. (p \o <<Head(q)>>) \o Tail(q) = p \o (<<Head(q)>> \o Tail(q))
  BY <1>1, ConcatTwice
<1>4. <<Head(q)>> \o Tail(q) = q
  <2>1. /\ Len(<<Head(q)>>) = 1 /\ Len(q) \in Nat /\ Len(q) > 0 /\ Len(Tail(q)) = Len(q) - 1
        /\ \A i \in 1 .. Len(q) - 1 : Tail(q)[i] = q[i + 1]
        /\ <<Head(q)>>[1] = q[1]
    OBVIOUS
  <2> DEFINE r == <<Head(q)>> \o Tail(q)
  <2>2. /\ r \in Seq(S) /\ Len(r) = Len(q)
        /\ r[1] = q[1] /\ \A i \in 1 .. Len(q) - 1 : r[1 + i] = q[i + 1]
    <3>1. 1 \in 1 .. Len(<<Head(q)>>)
      BY <2>1
    <3> QED  BY <1>1, <2>1, <3>1, ConcatIs
  <2> HIDE DEF r
  <2>3. ASSUME NEW i \in 1 .. Len(q) PROVE r[i] = q[i]
    <3>1. CASE i = 1
      BY <2>2, <3>1
    <3>2. CASE i # 1
      <4>1. i - 1 \in 1 .. Len(q) - 1 /\ 1 + (i - 1) = i /\ (i - 1) + 1 = i
        BY <2>1, <3>2
      <4> QED  BY <2>2, <4>1, Zenon
    <3> QED  BY <3>1, <3>2
  <2>4. r = q
    BY <2>2, <2>3, SameSeq
  <2> QED  BY <2>4 DEF r
<1> QED  BY <1>2, <1>3, <1>4

\* The client expects what the table says, with the names it sends.
LEMMA WantIs ==
    ASSUME ViewsInv, NEW c \in Conn, NEW f, NEW names
    PROVE  Want(c, f, names) \in {Unknown, fids[f].path \o names}
<1>1. ViewGood(c, view[c], fids, msize)
  BY DEF ViewsInv
<1> QED  BY <1>1, Zenon DEF Want, ViewGood

LEMMA ReceivesView ==
    ASSUME Apart, OneMsize, TablesInv, ViewsInv, NEW c \in Conn, Receives(c)
    PROVE  ViewsInv'
<1>0. DOMAIN job = Conn /\ DOMAIN view = Conn /\ ViewGood(c, view[c], fids, msize)
  BY DEF TablesInv, ViewsInv
<1>1. WantGood([NoJob EXCEPT !.pc = "reply"])
  BY DEF WantGood, NoJob
<1>2. CASE Tother(c) \/ (\E f \in FidsOf[c] : UnknownFid(c, f))
  BY <1>1, <1>2, ViewQuiet DEF Tother, UnknownFid, Replying, tableVars
<1>3. ASSUME NEW m \in MSize, Tversion(c, m) PROVE ViewsInv'
  <2>1. /\ msize' = Clamp(m) /\ view' = [view EXCEPT ![c] = [view[c] EXCEPT !.msize = Clamp(m)]]
        /\ job' = [job EXCEPT ![c] = [NoJob EXCEPT !.pc = "reply"]] /\ fids' = fids
    BY <1>3 DEF Tversion, Learn, Replying
  <2>2. /\ DOMAIN view' = Conn
        /\ \A d \in Conn \ {c} : view'[d] = view[d] /\ job'[d] = job[d]
        /\ view'[c] = [view[c] EXCEPT !.msize = Clamp(m)]
        /\ job'[c] = [NoJob EXCEPT !.pc = "reply"]
    BY <1>0, <2>1
  <2>3. Negotiated(msize')
    BY <2>1 DEF Negotiated
  <2>4. /\ DOMAIN view'[c] = {"msize", "fids"} /\ view'[c].msize = msize'
        /\ view'[c].fids = view[c].fids
    BY <1>0, <2>1, <2>2 DEF ViewGood
  <2>5. ViewGood(c, view'[c], fids', msize')
    BY <1>0, <2>1, <2>3, <2>4 DEF ViewGood
  <2> QED  BY <1>1, <2>1, <2>2, <2>3, <2>5, ViewStep
<1>4. ASSUME NEW f \in FidsOf[c], Tattach(c, f) PROVE ViewsInv'
  <2>1. /\ f \in DOMAIN fids' /\ fids'[f].path = <<>>
        /\ \A x \in DOMAIN fids \ {f} : x \in DOMAIN fids' /\ fids'[x] = fids[x]
    BY <1>4 DEF Tattach, Insert, FidAt
  <2> QED  BY <1>4, <2>1, ViewLearns, Zenon DEF Tattach
<1>5. ASSUME NEW f \in FidsOf[c], TclunkUnknown(c, f) PROVE ViewsInv'
  <2> DEFINE j == [NoJob EXCEPT !.pc = "clunk", !.op = "clunk", !.fid = f]
  <2>1. WantGood(j)
    BY DEF WantGood, NoJob
  <2>2. job' = [job EXCEPT ![c] = j] /\ UNCHANGED <<fids, msize, view>>
    BY <1>5 DEF TclunkUnknown, tableVars
  <2> HIDE DEF j
  <2> QED  BY <2>1, <2>2, ViewQuiet, Zenon
<1>6. ASSUME NEW f, NEW j, Routing(c, f, j), WantGood(j) PROVE ViewsInv'
  BY <1>6, ViewQuiet, Zenon DEF Routing, tableVars
<1>7. ASSUME NEW f \in FidsOf[c], Tsimple(c, f) PROVE ViewsInv'
  <2>1. PICK op \in {"open", "clunk", "remove", "readdir", "plain"} :
           Routing(c, f, [NoJob EXCEPT !.pc = "route", !.op = op, !.fid = f])
    BY <1>7, Zenon DEF Tsimple
  <2>2. WantGood([NoJob EXCEPT !.pc = "route", !.op = op, !.fid = f])
    BY DEF WantGood, NoJob
  <2> QED  BY <1>6, <2>1, <2>2
<1>8. ASSUME NEW f \in FidsOf[c], NEW to \in FidsOf[c], NEW names \in Names,
             Twalk(c, f, to, names)
      PROVE  ViewsInv'
  <2> DEFINE j == [pc |-> "walk", op |-> "walk", fid |-> f, to |-> to, names |-> names,
                   path |-> fids[f].path, qid |-> fids[f].qid, is_dir |-> fids[f].is_dir,
                   want |-> Want(c, f, names)]
  <2>1. job' = [job EXCEPT ![c] = j] /\ UNCHANGED <<fids, msize, view>>
    BY <1>8 DEF Twalk, tableVars
  <2>2. WantGood(j)
    BY WantIs, Zenon DEF WantGood
  <2> HIDE DEF j
  <2> QED  BY <2>1, <2>2, ViewQuiet, Zenon
<1>9. ASSUME NEW f, f \in DOMAIN fids, NEW op, NEW name, NEW dir
      PROVE  WantGood(Captured(c, op, f, name, dir))
  <2>1. fids[f].path \in Seq(Comp)
    BY <1>9, Zenon DEF TablesInv, FidGood
  <2>2. Want(c, f, <<>>) \in {Unknown, fids[f].path}
    BY <2>1, WantIs, ConcatEmpty
  <2>3. /\ Captured(c, op, f, name, dir).pc = "route"
        /\ Captured(c, op, f, name, dir).path = fids[f].path
        /\ Captured(c, op, f, name, dir).want = Want(c, f, <<>>)
    BY DEF Captured
  <2> QED  BY <2>2, <2>3 DEF WantGood
<1>10. ASSUME NEW f, NEW name, NEW dir, Tcreate(c, f, name, dir) \/ Trename(c, f, name)
       PROVE  ViewsInv'
  BY <1>6, <1>9, <1>10, Zenon DEF Tcreate, Trename
<1> QED  BY <1>2, <1>3, <1>4, <1>5, <1>7, <1>8, <1>10, Zenon DEF Receives

LEMMA HandlesView ==
    ASSUME Apart, OneMsize, TablesInv, ViewsInv, NEW c \in Conn, Handles(c)
    PROVE  ViewsInv'
<1>0. JobGood(paths, job[c]) /\ Owns(c, job[c], fids) /\ WantGood(job[c])
  BY DEF TablesInv, ViewsInv
<1>1. WantGood([NoJob EXCEPT !.pc = "reply"]) /\ WantGood(NoJob)
  BY DEF WantGood, NoJob
<1>2. CASE RouteFails(c) \/ ReadDirDone(c) \/ OpenDone(c) \/ (RouteDone(c) /\ job[c].op # "remove")
  BY <1>1, <1>2, ViewQuiet DEF RouteFails, ReadDirDone, OpenDone, RouteDone, Replying, tableVars
<1>3. CASE Reply(c)
  BY <1>1, <1>3, ViewQuiet, Zenon DEF Reply, tableVars
<1>4. CASE RouteDone(c) /\ job[c].op = "remove"
  <2>1. job[c].fid \in FidsOf[c] /\ Forget(c, job[c].fid) /\ UNCHANGED <<fids, msize>> /\ Replying(c)
    BY <1>0, <1>4 DEF RouteDone, Owns, tableVars
  <2> QED  BY <2>1, ViewLearns
<1>5. CASE ClunkDone(c)
  <2>1. job[c].fid \in FidsOf[c] /\ Forget(c, job[c].fid) /\ UNCHANGED msize /\ Replying(c)
    BY <1>0, <1>5 DEF ClunkDone, Owns
  <2>2. \A x \in DOMAIN fids \ {job[c].fid} : x \in DOMAIN fids' /\ fids'[x] = fids[x]
    BY <1>5 DEF ClunkDone, Remove
  <2> QED  BY <2>1, <2>2, ViewLearns
<1>6. CASE WalkLookup(c) \/ ClunkRouted(c)
  <2>1. PICK pc \in {"lookup", "clunk"} :
          /\ job' = [job EXCEPT ![c] = [job[c] EXCEPT !.pc = pc]]
          /\ pc = "lookup" => job[c].pc = "walk"
          /\ UNCHANGED <<fids, msize, view>>
    BY <1>6 DEF WalkLookup, ClunkRouted, tableVars
  <2> DEFINE j == [job[c] EXCEPT !.pc = pc]
  <2>2. /\ j.pc = pc /\ j.path = job[c].path /\ j.names = job[c].names
        /\ j.want = job[c].want /\ j.op = job[c].op
    BY <1>0 DEF JobGood
  <2>3. job' = [job EXCEPT ![c] = j]
    BY <2>1
  <2> HIDE DEF j
  <2>4. WantGood(j)
    BY <1>0, <2>1, <2>2, Zenon DEF WantGood
  <2> QED  BY <2>1, <2>3, <2>4, ViewQuiet, Zenon
<1>7. CASE WalkIntermediate(c) \/ WalkFound(c)
  <2> DEFINE p == Append(job[c].path, Head(job[c].names))
             dir == Head(job[c].names) \in DotName
  <2>1. job[c].names \in Seq(Comp) /\ job[c].names # <<>> /\ job[c].path \in Seq(Comp)
    <3>1. job[c].names \in Seq(Comp) /\ job[c].path \in Seq(Comp)
      BY <1>0, Zenon DEF JobGood
    <3>2. CASE WalkIntermediate(c)
      <4>1. Len(job[c].names) > 1
        BY <3>2, Zenon DEF WalkIntermediate
      <4> QED  BY <3>1, <4>1
    <3>3. CASE WalkFound(c)
      BY <1>0, <3>1, <3>3, Zenon DEF JobGood, WalkFound
    <3> QED  BY <1>7, <3>2, <3>3, Zenon
  <2>2. p \o Tail(job[c].names) = job[c].path \o job[c].names
    BY <2>1, OneNameOn, Zenon
  <2>3. PICK q : /\ job' = [job EXCEPT ![c] = [job[c] EXCEPT
                       !.pc = "walk", !.names = Tail(job[c].names),
                       !.path = p, !.qid = q, !.is_dir = dir]]
                 /\ UNCHANGED <<fids, msize, view>> /\ job[c].pc \in {"walk", "lookup"}
    BY <1>7, Zenon DEF WalkIntermediate, WalkFound, WalkTo
  <2> HIDE DEF p, dir
  <2> DEFINE j == [job[c] EXCEPT !.pc = "walk", !.names = Tail(job[c].names),
                                 !.path = p, !.qid = q, !.is_dir = dir]
  <2>4. /\ j.pc = "walk" /\ j.names = Tail(job[c].names) /\ j.path = p
        /\ j.want = job[c].want
    BY <1>0 DEF JobGood
  <2>5. job' = [job EXCEPT ![c] = j]
    BY <2>3
  <2> HIDE DEF j
  <2>6. WantGood(j)
    BY <1>0, <2>2, <2>3, <2>4, Zenon DEF WantGood
  <2> QED  BY <2>3, <2>5, <2>6, ViewQuiet, Zenon
<1>8. CASE WalkDone(c)
  <2> DEFINE p == job[c].path
             f == job[c].to
  <2>1. /\ f \in FidsOf[c] /\ p \in Seq(Comp) /\ job[c].pc = "walk" /\ job[c].names = <<>>
        /\ fids' = Insert(fids, f, FidAt(job[c].qid, p, job[c].is_dir))
        /\ LearnFid(c, f, job[c].want) /\ msize' = msize /\ Replying(c)
    BY <1>0, <1>8, Zenon DEF WalkDone, JobGood, Owns
  <2>2. job[c].want \in {Unknown, p}
    BY <1>0, <2>1, ConcatEmpty, Zenon DEF WantGood
  <2>3. /\ f \in DOMAIN fids' /\ fids'[f].path = p
        /\ \A x \in DOMAIN fids \ {f} : x \in DOMAIN fids' /\ fids'[x] = fids[x]
    BY <2>1 DEF Insert, FidAt
  <2> HIDE DEF p, f
  <2> QED  BY <2>1, <2>2, <2>3, ViewLearns
<1>9. CASE CreateDone(c)
  <2> DEFINE p == job[c].path \o job[c].names
             f == job[c].fid
             e == IF job[c].want = Unknown THEN Unknown ELSE job[c].want \o job[c].names
  <2>1. /\ f \in FidsOf[c] /\ job[c].pc = "route" /\ job[c].op = "create"
        /\ \E q : fids' = Insert(fids, f, FidAt(q, p, job[c].is_dir))
        /\ LearnFid(c, f, e) /\ msize' = msize /\ Replying(c)
    BY <1>0, <1>9, Zenon DEF CreateDone, Owns
  <2>2. e \in {Unknown, p}
    BY <1>0, <2>1, Zenon DEF WantGood
  <2> HIDE DEF p, f, e
  <2>3. PICK q : fids' = Insert(fids, f, FidAt(q, p, job[c].is_dir))
    BY <2>1, Zenon
  <2>4. /\ f \in DOMAIN fids' /\ fids'[f] = FidAt(q, p, job[c].is_dir)
        /\ \A x \in DOMAIN fids \ {f} : x \in DOMAIN fids' /\ fids'[x] = fids[x]
    BY <2>3 DEF Insert
  <2>5. fids'[f].path = p
    <3>1. FidAt(q, p, job[c].is_dir).path = p
      BY DEF FidAt
    <3> QED  BY <2>4, <3>1, Zenon
  <2> QED  BY <2>1, <2>2, <2>4, <2>5, ViewLearns, Zenon
<1>10. CASE RenameDone(c)
  <2> DEFINE p == Renamed(job[c].path, job[c].names)
             f == job[c].fid
             e == IF job[c].want = Unknown THEN Unknown ELSE Renamed(job[c].want, job[c].names)
  <2>1. /\ f \in FidsOf[c] /\ f \in DOMAIN fids /\ job[c].pc = "route" /\ job[c].op = "rename"
        /\ fids' = [fids EXCEPT ![f].path = p]
        /\ LearnFid(c, f, e) /\ msize' = msize /\ Replying(c)
    BY <1>0, <1>10 DEF RenameDone, Owns
  <2>2. e \in {Unknown, p}
    BY <1>0, <2>1 DEF WantGood
  <2>3. FidGood(paths, fids[f])
    BY <2>1 DEF TablesInv
  <2> HIDE DEF p, f, e
  <2>4. fids'[f] = [fids[f] EXCEPT !.path = p] /\ f \in DOMAIN fids'
    BY <2>1
  <2>5. fids'[f].path = p
    BY <2>3, <2>4 DEF FidGood
  <2>6. \A x \in DOMAIN fids \ {f} : x \in DOMAIN fids' /\ fids'[x] = fids[x]
    BY <2>1
  <2> QED  BY <2>1, <2>2, <2>4, <2>5, <2>6, ViewLearns
<1> QED  BY <1>2, <1>3, <1>4, <1>5, <1>6, <1>7, <1>8, <1>9, <1>10, Zenon DEF Handles

\* A client that knows nothing is not mistaken.
LEMMA FreshView ==
    ASSUME NEW c, NEW F, NEW n
    PROVE  ViewGood(c, [msize |-> 0, fids |-> <<>>], F, n)
<1> DEFINE none == <<>>
           v == [msize |-> 0, fids |-> none]
<1>1. DOMAIN none = {}
  OBVIOUS
<1> HIDE DEF none
<1>2. DOMAIN v = {"msize", "fids"} /\ v.msize = 0 /\ v.fids = none
  OBVIOUS
<1> HIDE DEF v
<1>3. ViewGood(c, v, F, n)
  BY <1>1, <1>2, Zenon DEF ViewGood
<1> QED  BY <1>3 DEF v, none

LEMMA ViewsNext ==
    ASSUME Apart, OneMsize, TablesInv, ViewsInv, [NinepNext]_ninepVars
    PROVE  ViewsInv'
<1>1. ASSUME UNCHANGED <<fids, msize, job, view>> PROVE ViewsInv'
  BY <1>1 DEF ViewsInv
<1>2. CASE UNCHANGED ninepVars
  BY <1>1, <1>2 DEF ninepVars
<1>3. ASSUME NEW c \in Conn, ClientReads(c) PROVE ViewsInv'
  BY <1>1, <1>3 DEF ClientReads, tableVars
<1>4. ASSUME NEW c \in Conn, Reconnect(c) PROVE ViewsInv'
  <2>1. /\ view' = [view EXCEPT ![c] = [msize |-> 0, fids |-> <<>>]]
        /\ UNCHANGED <<fids, msize, job>> /\ DOMAIN view = Conn /\ WantGood(job[c])
    BY <1>4 DEF Reconnect, Learn, tableVars, ViewsInv
  <2>2. /\ view'[c] = [msize |-> 0, fids |-> <<>>] /\ DOMAIN view' = Conn
        /\ \A d \in Conn \ {c} : view'[d] = view[d]
    BY <2>1
  <2>3. ViewGood(c, view'[c], fids', msize')
    BY <2>2, FreshView, Zenon
  <2> QED  BY <2>1, <2>2, <2>3, ViewStep
<1> QED  BY <1>2, <1>3, <1>4, ReceivesView, HandlesView DEF NinepNext

\* When no two connections use one fid number and all negotiate one msize, a
\* client and the server agree between two messages about every fid the client
\* established and about the msize, although handlers of other connections store
\* fids and rename files at every await point and never learn which connection a
\* fid belongs to.
THEOREM SessionsStayApart ==
    ASSUME Apart, OneMsize
    PROVE  NinepSpec => []SessionView
<1>1. NinepInit => ViewsInv
  <2> SUFFICES ASSUME NinepInit PROVE ViewsInv
    OBVIOUS
  <2>1. /\ DOMAIN view = Conn
        /\ \A c \in Conn : view[c] = [msize |-> 0, fids |-> <<>>] /\ job[c] = NoJob
    BY DEF NinepInit
  <2>2. WantGood(NoJob) /\ \A c : ViewGood(c, [msize |-> 0, fids |-> <<>>], fids, msize)
    <3>1. WantGood(NoJob)
      BY DEF WantGood, NoJob
    <3> QED  BY <3>1, FreshView, Zenon
  <2> QED  BY <2>1, <2>2 DEF ViewsInv
<1>2. TablesInv /\ ViewsInv /\ [NinepNext]_ninepVars => ViewsInv'
  BY ViewsNext
<1>3. ViewsInv => SessionView
  BY DEF ViewsInv, ViewGood, SessionView
<1> QED  BY <1>1, <1>2, <1>3, TablesInvariance, PTL DEF NinepSpec

-----------------------------------------------------------------------------
(* Types.                                                                  *)

\* A handler that will store a path has room for it below MaxDepth.
JobTyped(j) ==
    /\ j.pc \in {"idle", "walk", "lookup", "route", "clunk", "reply"}
    /\ j.path \in Path /\ j.is_dir \in BOOLEAN
    /\ j.pc \in {"walk", "lookup"} \/ (j.pc = "route" /\ j.op = "create") =>
         Len(j.path) + Len(j.names) <= MaxDepth
    /\ j.pc = "route" /\ j.op = "rename" => MaxDepth > 0

FidsTyped(F) == \A f \in DOMAIN F : f \in Fid /\ F[f] \in FidEntry
PathsTyped(t) == \A q \in DOMAIN t : t[q] \in PathEntry

TypesInv ==
    /\ msize \in MinMsize .. MaxMsize /\ lock \subseteq Conn /\ unread \in [Conn -> 0 .. SendCap]
    /\ FidsTyped(fids) /\ PathsTyped(paths)
    /\ \A c \in Conn : JobTyped(job[c])

LEMMA PathIs == \A p : p \in Path <=> p \in Seq(Comp) /\ Len(p) <= MaxDepth
<1> SUFFICES ASSUME NEW p PROVE p \in Path <=> p \in Seq(Comp) /\ Len(p) <= MaxDepth
  OBVIOUS
<1>0. MaxDepth \in Nat
  BY NinepAssumption DEF NinepAssumption
<1>1. ASSUME p \in Path PROVE p \in Seq(Comp) /\ Len(p) <= MaxDepth
  <2>1. PICK n \in 0 .. MaxDepth : p \in [1 .. n -> Comp]
    BY <1>1 DEF Path, Comp
  <2> QED  BY <1>0, <2>1
<1>2. ASSUME p \in Seq(Comp), Len(p) <= MaxDepth PROVE p \in Path
  <2>1. Len(p) \in 0 .. MaxDepth /\ p \in [1 .. Len(p) -> Comp]
    BY <1>0, <1>2
  <2> QED  BY <2>1 DEF Path, Comp
<1> QED  BY <1>1, <1>2

\* handle_version keeps the msize within its limits.
LEMMA ClampWithin == \A m \in MSize : Clamp(m) \in MinMsize .. MaxMsize
<1>1. MSize \subseteq Nat
  BY NinepAssumption DEF NinepAssumption
<1>2. MinMsize \in Nat /\ MaxMsize \in Nat /\ MinMsize <= MaxMsize
  BY DEF MinMsize, MaxMsize
<1>3. ASSUME NEW m \in Nat PROVE Clamp(m) \in MinMsize .. MaxMsize
  BY <1>2 DEF Clamp
<1> QED  BY <1>1, <1>3

LEMMA EmptyPath == <<>> \in Path
<1>1. <<>> \in Seq(Comp) /\ Len(<<>>) = 0 /\ MaxDepth \in Nat
  BY NinepAssumption DEF NinepAssumption
<1>2. Len(<<>>) <= MaxDepth
  BY <1>1
<1> QED  BY <1>1, <1>2, PathIs, Zenon

\* The jobs that carry nothing.
LEMMA NoJobTyped ==
    /\ JobTyped(NoJob) /\ JobTyped([NoJob EXCEPT !.pc = "reply"])
    /\ \A pc \in {"clunk", "route"} : \A op, f : op \notin {"create", "rename"} =>
         JobTyped([NoJob EXCEPT !.pc = pc, !.op = op, !.fid = f])
  BY EmptyPath DEF JobTyped, NoJob

\* alloc_qid adds an entry of the right type, if any.
LEMMA AllocTyped ==
    ASSUME TableGood(paths, nextQid), PathsTyped(paths), NEW p \in Path, NEW dir \in BOOLEAN,
           NEW q, AllocQid(p, dir, q, paths', nextQid')
    PROVE  q \in Nat /\ PathsTyped(paths')
<1> DEFINE known == {k \in DOMAIN paths : paths[k].path = p}
           e == [path |-> p, is_dir |-> dir]
<1>0. nextQid \in Nat /\ DOMAIN paths \subseteq Nat
  BY DEF TableGood
<1>1. CASE known # {}
  <2>1. q \in known /\ paths' = paths
    BY <1>1 DEF AllocQid
  <2> QED  BY <1>0, <2>1
<1>2. CASE known = {}
  <2>1. q = nextQid /\ paths' = Insert(paths, nextQid, e)
    BY <1>2 DEF AllocQid
  <2>2. e \in PathEntry
    BY DEF PathEntry
  <2> HIDE DEF e
  <2>3. \A k \in DOMAIN paths' : paths'[k] = e \/ (k \in DOMAIN paths /\ paths'[k] = paths[k])
    BY <2>1 DEF Insert
  <2>4. PathsTyped(paths')
    BY <2>2, <2>3 DEF PathsTyped
  <2> QED  BY <1>0, <2>1, <2>4
<1> QED  BY <1>1, <1>2

LEMMA InsertTyped ==
    ASSUME NEW F, FidsTyped(F), NEW f \in Fid, NEW e \in FidEntry
    PROVE  FidsTyped(Insert(F, f, e)) /\ FidsTyped(Remove(F, f))
<1>1. \A x \in DOMAIN Insert(F, f, e) :
         (x = f /\ Insert(F, f, e)[x] = e) \/ (x \in DOMAIN F /\ Insert(F, f, e)[x] = F[x])
  BY DEF Insert
<1>2. \A x \in DOMAIN Remove(F, f) : x \in DOMAIN F /\ Remove(F, f)[x] = F[x]
  BY DEF Remove
<1> QED  BY <1>1, <1>2 DEF FidsTyped

\* A step of the handler of c.
LEMMA TypeStep ==
    ASSUME TablesInv, TypesInv, NEW c \in Conn, NEW j, JobTyped(j),
           job' = [job EXCEPT ![c] = j], msize' \in MinMsize .. MaxMsize, lock' \in {lock, {c}},
           unread' = unread, FidsTyped(fids'), PathsTyped(paths')
    PROVE  TypesInv'
<1>1. \A d \in Conn : job'[d] = IF d = c THEN j ELSE job[d]
  BY DEF TablesInv
<1>2. \A d \in Conn : JobTyped(job'[d])
  BY <1>1 DEF TypesInv
<1>3. lock' \subseteq Conn /\ unread' \in [Conn -> 0 .. SendCap]
  BY DEF TypesInv
<1> QED  BY <1>2, <1>3 DEF TypesInv

LEMMA ReplyTyped ==
    ASSUME TablesInv, TypesInv, NEW c \in Conn, Replying(c), msize' \in MinMsize .. MaxMsize,
           lock' \in {lock, {c}}, unread' = unread, FidsTyped(fids'), PathsTyped(paths')
    PROVE  TypesInv'
<1>1. job' = [job EXCEPT ![c] = [NoJob EXCEPT !.pc = "reply"]]
  BY DEF Replying
<1>2. JobTyped([NoJob EXCEPT !.pc = "reply"])
  BY NoJobTyped, Zenon
<1> QED  BY <1>1, <1>2, TypeStep, Zenon

LEMMA ReceivesTyped ==
    ASSUME TablesInv, TypesInv, NEW c \in Conn, Receives(c)
    PROVE  TypesInv'
<1>0. FidsOf[c] \subseteq Fid /\ FidsTyped(fids) /\ PathsTyped(paths) /\ msize \in MinMsize .. MaxMsize
  BY NinepAssumption DEF NinepAssumption, TypesInv
<1>1. CASE Tother(c) \/ (\E f \in FidsOf[c] : UnknownFid(c, f))
  BY <1>0, <1>1, ReplyTyped DEF Tother, UnknownFid, tableVars
<1>2. ASSUME NEW m \in MSize, Tversion(c, m) PROVE TypesInv'
  <2>1. msize' \in MinMsize .. MaxMsize
    BY <1>2, ClampWithin DEF Tversion
  <2>2. UNCHANGED <<fids, paths, lock, unread>> /\ Replying(c)
    BY <1>2 DEF Tversion
  <2> QED  BY <1>0, <2>1, <2>2, ReplyTyped
<1>3. ASSUME NEW f \in FidsOf[c], Tattach(c, f) PROVE TypesInv'
  <2>1. FidAt(0, <<>>, TRUE) \in FidEntry
    BY EmptyPath DEF FidAt, FidEntry
  <2>2. FidsTyped(fids')
    BY <1>0, <1>3, <2>1, InsertTyped, Zenon DEF Tattach
  <2>3. UNCHANGED <<paths, msize, unread>> /\ Replying(c) /\ lock' = {c}
    BY <1>3 DEF Tattach
  <2> QED  BY <1>0, <2>2, <2>3, ReplyTyped
<1>4. ASSUME NEW j, JobTyped(j), job' = [job EXCEPT ![c] = j],
             UNCHANGED <<tableVars, lock, unread>>
      PROVE  TypesInv'
  BY <1>0, <1>4, TypeStep, Zenon DEF tableVars
<1>5. ASSUME NEW f \in FidsOf[c], TclunkUnknown(c, f) \/ Tsimple(c, f) PROVE TypesInv'
  <2>1. PICK pc \in {"clunk", "route"},
             op \in {"open", "clunk", "remove", "readdir", "plain"} :
           /\ job' = [job EXCEPT ![c] = [NoJob EXCEPT !.pc = pc, !.op = op, !.fid = f]]
           /\ UNCHANGED <<tableVars, lock, unread>>
    BY <1>5 DEF TclunkUnknown, Tsimple, Routing
  <2>2. JobTyped([NoJob EXCEPT !.pc = pc, !.op = op, !.fid = f])
    BY NoJobTyped, Zenon
  <2> QED  BY <1>4, <2>1, <2>2, Zenon
<1>6. ASSUME NEW f \in DOMAIN fids
      PROVE  fids[f].path \in Path /\ fids[f].is_dir \in BOOLEAN
  BY <1>0 DEF FidsTyped, FidEntry
<1>7. ASSUME NEW f, NEW to, NEW names, Twalk(c, f, to, names) PROVE TypesInv'
  <2> DEFINE j == [pc |-> "walk", op |-> "walk", fid |-> f, to |-> to, names |-> names,
                   path |-> fids[f].path, qid |-> fids[f].qid, is_dir |-> fids[f].is_dir,
                   want |-> Want(c, f, names)]
  <2>1. /\ f \in DOMAIN fids /\ job' = [job EXCEPT ![c] = j]
        /\ Len(fids[f].path) + Len(names) <= MaxDepth
        /\ UNCHANGED <<tableVars, lock, unread>>
    BY <1>7 DEF Twalk
  <2>2. JobTyped(j)
    BY <1>6, <2>1, Zenon DEF JobTyped
  <2> HIDE DEF j
  <2> QED  BY <1>4, <2>1, <2>2, Zenon
<1>8. ASSUME NEW f, NEW name, NEW dir \in BOOLEAN, NEW op, op \in {"create", "rename"},
             Routing(c, f, Captured(c, op, f, name, dir)), f \in DOMAIN fids,
             op = "create" => Len(fids[f].path) < MaxDepth, op = "rename" => MaxDepth > 0
      PROVE  TypesInv'
  <2> DEFINE j == Captured(c, op, f, name, dir)
  <2>1. /\ j.pc = "route" /\ j.op = op /\ j.path = fids[f].path /\ j.names = <<name>>
        /\ j.is_dir = dir
    BY DEF Captured
  <2>2. job' = [job EXCEPT ![c] = j] /\ UNCHANGED <<tableVars, lock, unread>>
    BY <1>8 DEF Routing
  <2> HIDE DEF j
  <2>3. op = "create" => Len(j.path) + Len(j.names) <= MaxDepth
    <3>1. Len(<<name>>) = 1
      OBVIOUS
    <3>2. Len(fids[f].path) \in Nat /\ MaxDepth \in Nat
      <4>1. fids[f].path \in Seq(Comp) /\ MaxDepth \in Nat
        BY <1>6, <1>8, PathIs, NinepAssumption, Zenon DEF NinepAssumption
      <4> QED  BY <4>1
    <3> QED  BY <1>8, <2>1, <3>1, <3>2
  <2>4. JobTyped(j)
    BY <1>6, <1>8, <2>1, <2>3 DEF JobTyped
  <2> QED  BY <1>4, <2>2, <2>4, Zenon
<1>9. ASSUME NEW f \in FidsOf[c], NEW name, NEW dir \in BOOLEAN,
             Tcreate(c, f, name, dir) \/ Trename(c, f, name)
      PROVE  TypesInv'
  BY <1>8, <1>9, Zenon DEF Tcreate, Trename
<1> QED  BY <1>1, <1>2, <1>3, <1>5, <1>7, <1>9, Zenon DEF Receives

LEMMA HandlesTyped ==
    ASSUME TablesInv, TypesInv, NEW c \in Conn, Handles(c)
    PROVE  TypesInv'
<1>0. /\ JobGood(paths, job[c]) /\ Owns(c, job[c], fids) /\ TableGood(paths, nextQid)
      /\ JobTyped(job[c]) /\ DOMAIN job = Conn
      /\ FidsOf[c] \subseteq Fid /\ FidsTyped(fids) /\ PathsTyped(paths)
      /\ msize \in MinMsize .. MaxMsize /\ MaxDepth \in Nat
  BY NinepAssumption DEF NinepAssumption, TypesInv, TablesInv
<1>1. CASE RouteFails(c) \/ RouteDone(c) \/ ReadDirDone(c) \/ OpenDone(c)
  BY <1>0, <1>1, ReplyTyped, Zenon DEF RouteFails, RouteDone, ReadDirDone, OpenDone, tableVars
<1>2. CASE Reply(c)
  <2>1. /\ job' = [job EXCEPT ![c] = NoJob] /\ unread' = [unread EXCEPT ![c] = @ + 1]
        /\ unread[c] < SendCap /\ lock' = lock \ {c} /\ UNCHANGED <<fids, paths, msize>>
    BY <1>2 DEF Reply, tableVars
  <2>2. unread' \in [Conn -> 0 .. SendCap]
    <3>1. unread \in [Conn -> 0 .. SendCap] /\ SendCap \in Nat
      BY NinepAssumption DEF NinepAssumption, TypesInv
    <3>2. unread[c] + 1 \in 0 .. SendCap
      BY <2>1, <3>1
    <3> QED  BY <2>1, <3>1, <3>2
  <2>3. \A d \in Conn : job'[d] = IF d = c THEN NoJob ELSE job[d]
    BY <1>0, <2>1
  <2>4. \A d \in Conn : JobTyped(job'[d])
    BY <2>3, NoJobTyped, Zenon DEF TypesInv
  <2>5. lock' \subseteq Conn
    BY <2>1 DEF TypesInv
  <2> QED  BY <1>0, <2>1, <2>2, <2>4, <2>5, Zenon DEF TypesInv
<1>3. CASE ClunkDone(c)
  <2>1. FidsTyped(fids')
    BY <1>0, <1>3 DEF ClunkDone, FidsTyped, Remove
  <2>2. UNCHANGED <<paths, msize, unread>> /\ Replying(c) /\ lock' = {c}
    BY <1>3 DEF ClunkDone
  <2> QED  BY <1>0, <2>1, <2>2, ReplyTyped
<1>4. CASE WalkLookup(c) \/ ClunkRouted(c)
  <2>1. PICK pc \in {"lookup", "clunk"} :
          /\ job' = [job EXCEPT ![c] = [job[c] EXCEPT !.pc = pc]]
          /\ pc = "lookup" => job[c].pc = "walk"
          /\ UNCHANGED <<fids, paths, msize, lock, unread>>
    BY <1>4 DEF WalkLookup, ClunkRouted, tableVars
  <2> DEFINE j == [job[c] EXCEPT !.pc = pc]
  <2>2. /\ j.pc = pc /\ j.path = job[c].path /\ j.names = job[c].names
        /\ j.is_dir = job[c].is_dir /\ j.op = job[c].op /\ job' = [job EXCEPT ![c] = j]
    BY <1>0, <2>1 DEF JobGood
  <2> HIDE DEF j
  <2>3. JobTyped(j)
    BY <1>0, <2>1, <2>2, Zenon DEF JobTyped
  <2> QED  BY <1>0, <2>1, <2>2, <2>3, TypeStep, Zenon
<1>5. CASE WalkIntermediate(c) \/ WalkFound(c)
  <2> DEFINE p == Append(job[c].path, Head(job[c].names))
             dir == Head(job[c].names) \in DotName
             rest == Tail(job[c].names)
  <2>1. job[c].names \in Seq(Comp) /\ job[c].names # <<>> /\ job[c].path \in Seq(Comp)
    <3>1. job[c].names \in Seq(Comp) /\ job[c].path \in Seq(Comp)
      BY <1>0, Zenon DEF JobGood
    <3>2. Len(job[c].names) > 1 \/ job[c].pc = "lookup"
      BY <1>5, Zenon DEF WalkIntermediate, WalkFound
    <3>3. job[c].pc = "lookup" => job[c].names # <<>>
      BY <1>0, Zenon DEF JobGood
    <3> QED  BY <3>1, <3>2, <3>3
  <2>2. Len(job[c].path) + Len(job[c].names) <= MaxDepth
    BY <1>0, <1>5, Zenon DEF JobTyped, WalkIntermediate, WalkFound
  <2>3. /\ p \in Seq(Comp) /\ Len(p) = Len(job[c].path) + 1 /\ Len(job[c].path) \in Nat
        /\ rest \in Seq(Comp) /\ Len(rest) = Len(job[c].names) - 1 /\ Len(job[c].names) \in Nat
        /\ Len(job[c].names) > 0
    BY <2>1
  <2>4. PICK q : /\ AllocQid(p, dir, q, paths', nextQid')
                 /\ job' = [job EXCEPT ![c] = [job[c] EXCEPT
                       !.pc = "walk", !.names = rest, !.path = p, !.qid = q, !.is_dir = dir]]
                 /\ UNCHANGED <<fids, msize, lock, unread>>
    BY <1>5, Zenon DEF WalkIntermediate, WalkFound, WalkTo
  <2>5. dir \in BOOLEAN
    OBVIOUS
  <2> HIDE DEF p, dir, rest
  <2>6. p \in Path /\ Len(p) + Len(rest) <= MaxDepth
    <3>0. MaxDepth \in Nat
      BY <1>0, Zenon
    <3>1. \A a, b, n \in Nat : b > 0 /\ a + b <= n => (a + 1) + (b - 1) <= n /\ a + 1 <= n
      OBVIOUS
    <3>2. /\ (Len(job[c].path) + 1) + (Len(job[c].names) - 1) <= MaxDepth
          /\ Len(job[c].path) + 1 <= MaxDepth
      BY <2>2, <2>3, <3>0, <3>1, Zenon
    <3>3. Len(p) + Len(rest) <= MaxDepth /\ Len(p) <= MaxDepth
      BY <2>3, <3>2, Zenon
    <3> QED  BY <2>3, <3>3, PathIs, Zenon
  <2>7. PathsTyped(paths')
    BY <1>0, <2>4, <2>5, <2>6, AllocTyped
  <2> DEFINE j == [job[c] EXCEPT !.pc = "walk", !.names = rest,
                                 !.path = p, !.qid = q, !.is_dir = dir]
  <2>8. /\ j.pc = "walk" /\ j.names = rest /\ j.path = p /\ j.is_dir = dir
        /\ job' = [job EXCEPT ![c] = j]
    BY <1>0, <2>4 DEF JobGood
  <2> HIDE DEF j
  <2>9. JobTyped(j)
    BY <2>5, <2>6, <2>8 DEF JobTyped
  <2> QED  BY <1>0, <2>4, <2>7, <2>8, <2>9, TypeStep, Zenon
<1>6. CASE WalkDone(c)
  <2>1. /\ job[c].to \in Fid /\ Replying(c) /\ UNCHANGED <<paths, msize, lock, unread>>
        /\ fids' = Insert(fids, job[c].to, FidAt(job[c].qid, job[c].path, job[c].is_dir))
    BY <1>0, <1>6, Zenon DEF WalkDone, Owns
  <2>2. FidAt(job[c].qid, job[c].path, job[c].is_dir) \in FidEntry
    <3>1. job[c].qid \in Nat /\ job[c].path \in Path /\ job[c].is_dir \in BOOLEAN
      <4>1. job[c].path \in Path /\ job[c].is_dir \in BOOLEAN
        BY <1>0, Zenon DEF JobTyped
      <4>2. job[c].qid \in 0 .. nextQid - 1 /\ nextQid \in Nat
        BY <1>0, Zenon DEF JobGood, TableGood
      <4>3. job[c].qid \in Nat
        BY <4>2
      <4> QED  BY <4>1, <4>3
    <3> QED  BY <3>1 DEF FidAt, FidEntry
  <2>3. FidsTyped(fids')
    BY <1>0, <2>1, <2>2, InsertTyped, Zenon
  <2> QED  BY <1>0, <2>1, <2>3, ReplyTyped, Zenon
<1>7. CASE CreateDone(c)
  <2> DEFINE p == job[c].path \o job[c].names
  <2>1. p \in Path
    <3>1. job[c].path \in Seq(Comp) /\ job[c].names \in Seq(Comp)
      BY <1>0, Zenon DEF JobGood
    <3>2. Len(job[c].path) + Len(job[c].names) <= MaxDepth
      BY <1>0, <1>7, Zenon DEF CreateDone, JobTyped
    <3>3. p \in Seq(Comp) /\ Len(p) = Len(job[c].path) + Len(job[c].names)
      BY <3>1, ConcatIs
    <3> HIDE DEF p
    <3> QED  BY <3>2, <3>3, PathIs, Zenon
  <2>2. PICK q : /\ AllocQid(p, job[c].is_dir, q, paths', nextQid')
                 /\ fids' = Insert(fids, job[c].fid, FidAt(q, p, job[c].is_dir))
    BY <1>7, Zenon DEF CreateDone
  <2> HIDE DEF p
  <2>3. job[c].fid \in Fid /\ job[c].is_dir \in BOOLEAN
    BY <1>0, <1>7, Zenon DEF CreateDone, Owns, JobTyped
  <2>4. q \in Nat /\ PathsTyped(paths')
    BY <1>0, <2>1, <2>2, <2>3, AllocTyped, Zenon
  <2>5. FidAt(q, p, job[c].is_dir) \in FidEntry
    BY <2>1, <2>3, <2>4, Zenon DEF FidAt, FidEntry
  <2>6. FidsTyped(fids')
    BY <1>0, <2>2, <2>3, <2>5, InsertTyped, Zenon
  <2>7. Replying(c) /\ UNCHANGED <<msize, lock, unread>>
    BY <1>7, Zenon DEF CreateDone
  <2> QED  BY <1>0, <2>4, <2>6, <2>7, ReplyTyped, Zenon
<1>8. CASE RenameDone(c)
  <2> DEFINE p == Renamed(job[c].path, job[c].names)
             e == [path |-> p, is_dir |-> FALSE]
  <2>1. /\ fids' = IF job[c].fid \in DOMAIN fids THEN [fids EXCEPT ![job[c].fid].path = p]
                   ELSE fids
        /\ paths' = Insert(paths, job[c].qid, e) /\ Replying(c)
        /\ UNCHANGED <<msize, lock, unread>> /\ job[c].pc = "route" /\ job[c].op = "rename"
    BY <1>8 DEF RenameDone
  <2>2. PICK name \in NewName : job[c].names = <<name>>
    BY <1>0, <2>1 DEF JobGood
  <2>3. p \in Path
    <3>1. job[c].path \in Seq(Comp) /\ Len(job[c].path) <= MaxDepth /\ MaxDepth > 0
      BY <1>0, <2>1, PathIs DEF JobTyped
    <3>2. p \in Seq(Comp)
      BY <2>2, <3>1, RenamedGood
    <3>3. name \in Comp /\ <<name>> \in Seq(Comp) /\ Len(<<name>>) = 1
      BY DEF Comp
    <3>4. CASE job[c].path = <<>>
      <4>1. Len(p) = 1
        BY <2>2, <3>3, <3>4, Zenon DEF Renamed
      <4>2. MaxDepth \in Nat
        BY NinepAssumption, Zenon DEF NinepAssumption
      <4>3. 1 <= MaxDepth
        BY <3>1, <4>2
      <4> QED  BY <3>2, <4>1, <4>3, PathIs, Zenon
    <3>5. CASE job[c].path # <<>>
      <4> DEFINE s == SubSeq(job[c].path, 1, Len(job[c].path) - 1)
      <4>1. s \in Seq(Comp) /\ Len(s) = Len(job[c].path) - 1 /\ Len(job[c].path) \in Nat
        BY <3>1, <3>5
      <4>2. p = s \o <<name>>
        BY <2>2, <3>5 DEF Renamed
      <4> HIDE DEF s
      <4>3. Len(p) = Len(s) + 1
        BY <3>3, <4>1, <4>2, ConcatIs
      <4>4. Len(p) <= MaxDepth
        <5>1. Len(job[c].path) - 1 + 1 = Len(job[c].path)
          BY <4>1
        <5>2. Len(p) = Len(job[c].path)
          BY <4>1, <4>3, <5>1, Zenon
        <5> QED  BY <3>1, <5>2, Zenon
      <4> QED  BY <3>2, <4>4, PathIs
    <3> QED  BY <3>4, <3>5
  <2> HIDE DEF p
  <2>4. PathsTyped(paths')
    <3>1. e \in PathEntry
      BY <2>3 DEF PathEntry
    <3> HIDE DEF e
    <3>2. \A k \in DOMAIN paths' : paths'[k] = e \/ (k \in DOMAIN paths /\ paths'[k] = paths[k])
      BY <2>1 DEF Insert
    <3> QED  BY <1>0, <3>1, <3>2 DEF PathsTyped
  <2>5. FidsTyped(fids')
    <3>1. ASSUME NEW f \in DOMAIN fids' PROVE f \in Fid /\ fids'[f] \in FidEntry
      <4>1. f \in DOMAIN fids /\ f \in Fid /\ fids[f] \in FidEntry
        BY <1>0, <2>1 DEF FidsTyped
      <4>2. fids'[f] \in {fids[f], [fids[f] EXCEPT !.path = p]}
        BY <2>1, <4>1
      <4>3. [fids[f] EXCEPT !.path = p] \in FidEntry
        BY <2>3, <4>1 DEF FidEntry
      <4> QED  BY <4>1, <4>2, <4>3
    <3> QED  BY <3>1 DEF FidsTyped
  <2> QED  BY <1>0, <2>1, <2>4, <2>5, ReplyTyped, Zenon
<1> QED  BY <1>1, <1>2, <1>3, <1>4, <1>5, <1>6, <1>7, <1>8 DEF Handles

LEMMA TypesNext == TablesInv /\ TypesInv /\ [NinepNext]_ninepVars => TypesInv'
<1> SUFFICES ASSUME TablesInv, TypesInv, [NinepNext]_ninepVars PROVE TypesInv'
  OBVIOUS
<1>1. ASSUME UNCHANGED <<fids, paths, msize, lock, job>>, unread' \in [Conn -> 0 .. SendCap]
      PROVE  TypesInv'
  BY <1>1 DEF TypesInv
<1>2. unread \in [Conn -> 0 .. SendCap] /\ SendCap \in Nat
  BY NinepAssumption DEF NinepAssumption, TypesInv
<1>3. CASE UNCHANGED ninepVars
  BY <1>1, <1>2, <1>3 DEF ninepVars
<1>4. ASSUME NEW c \in Conn, ClientReads(c) PROVE TypesInv'
  <2>1. unread' = [unread EXCEPT ![c] = @ - 1] /\ unread[c] > 0
    BY <1>4 DEF ClientReads
  <2>2. unread[c] - 1 \in 0 .. SendCap
    BY <1>2, <2>1
  <2>3. unread' \in [Conn -> 0 .. SendCap]
    BY <1>2, <2>1, <2>2
  <2> QED  BY <1>1, <1>4, <2>3 DEF ClientReads, tableVars
<1>5. ASSUME NEW c \in Conn, Reconnect(c) PROVE TypesInv'
  <2>1. unread' \in [Conn -> 0 .. SendCap]
    BY <1>2, <1>5 DEF Reconnect
  <2> QED  BY <1>1, <1>5, <2>1 DEF Reconnect, tableVars
<1> QED  BY <1>3, <1>4, <1>5, ReceivesTyped, HandlesTyped DEF NinepNext

\* Types, for any bound on the depth of paths: no fid but those the clients sent
\* is in the table, the msize stays within the limits of handle_version whatever
\* a client asks for, and the path a handler copied before an await is one that
\* it may still store after it.
THEOREM NinepTypeCorrect == NinepSpec => []NinepTypeOK
<1>1. NinepInit => TypesInv
  <2> SUFFICES ASSUME NinepInit PROVE TypesInv
    OBVIOUS
  <2>1. <<>> \in Path /\ SendCap \in Nat
    BY EmptyPath, NinepAssumption DEF NinepAssumption
  <2>2. FidsTyped(fids)
    BY DEF NinepInit, FidsTyped
  <2>3. PathsTyped(paths)
    BY <2>1 DEF NinepInit, PathsTyped, PathEntry
  <2>4. \A c \in Conn : JobTyped(job[c])
    <3>1. \A c \in Conn : job[c] = NoJob
      BY DEF NinepInit
    <3> QED  BY <3>1, NoJobTyped, Zenon
  <2>5. msize \in MinMsize .. MaxMsize
    <3>1. msize = 8192
      BY DEF NinepInit
    <3>2. MinMsize \in Nat /\ MaxMsize \in Nat /\ MinMsize <= 8192 /\ 8192 <= MaxMsize
      BY DEF MinMsize, MaxMsize
    <3> QED  BY <3>1, <3>2, SMT
  <2>6. lock \subseteq Conn /\ unread \in [Conn -> 0 .. SendCap]
    <3>1. 0 \in 0 .. SendCap
      BY <2>1
    <3>2. lock = {} /\ unread = [c \in Conn |-> 0]
      BY DEF NinepInit
    <3> QED  BY <3>1, <3>2, Zenon
  <2> QED  BY <2>2, <2>3, <2>4, <2>5, <2>6, Zenon DEF TypesInv
<1>2. TablesInv /\ TypesInv => NinepTypeOK
  <2> SUFFICES ASSUME TablesInv, TypesInv PROVE NinepTypeOK
    OBVIOUS
  <2>1. DOMAIN paths \subseteq Nat /\ nextQid \in Nat
    BY DEF TablesInv, TableGood
  <2>2. \A c \in Conn :
           /\ job[c].pc \in {"idle", "walk", "lookup", "route", "clunk", "reply"}
           /\ job[c].path \in Path
    BY Zenon DEF TypesInv, JobTyped
  <2> QED  BY <2>1, <2>2 DEF TypesInv, FidsTyped, PathsTyped, NinepTypeOK
<1> QED  BY <1>1, <1>2, TypesNext, TablesInvariance, PTL DEF NinepSpec
=============================================================================
