----------------------------- MODULE Sftp_proofs -----------------------------
(***************************************************************************)
(* Handles and the order of requests of the SFTP frontend, for every       *)
(* number of connections, handles and packets and every channel capacity.  *)
(***************************************************************************)
EXTENDS Sftp, FiniteSetTheorems, TLAPS

-----------------------------------------------------------------------------
(* The inductive invariant.                                                *)

\* A loop that works on a request.
Pending(c) == loop[c] \in {"sending", "waiting"}

\* The table is part of what was given out, and ids from next_id on are unused.
TableInv ==
    \A c \in Conn :
        /\ DOMAIN handles[c] \subseteq DOMAIN given[c]
        /\ DOMAIN given[c] \subseteq 1 .. nextId[c] - 1
        /\ \A h \in DOMAIN handles[c] : handles[c][h] = given[c][h]

\* What the packet a loop works on says about the tables.
PendingInv ==
    \A c \in Conn : Pending(c) =>
        /\ pkt[c].op = "open" => nextId[c] <= MaxHandle
        /\ pkt[c].h # 0 =>
             \/ pkt[c].h \in DOMAIN given[c] /\ pkt[c].path = given[c][pkt[c].h]
             \/ pkt[c].op = "setstat" /\ pkt[c].path = RootPath

\* Requests of one connection are in the line in the order of its packets, after
\* the last one that succeeded and up to the one the loop works on.
OrderInv ==
    /\ \A i, j \in DOMAIN line :
         i < j /\ line[i].c = line[j].c => line[i].seq < line[j].seq
    /\ \A i \in DOMAIN line :
         /\ okSeq[line[i].c] < line[i].seq
         /\ line[i].seq <= pkt[line[i].c].seq
         /\ loop[line[i].c] = "sending" => line[i].seq < pkt[line[i].c].seq
    /\ \A c \in Conn :
         /\ okSeq[c] <= pkt[c].seq
         /\ Pending(c) => okSeq[c] < pkt[c].seq

SftpInv ==
    /\ SftpTypeOK
    /\ IsFiniteSet(permit)
    /\ TableInv
    /\ PendingInv
    /\ OrderInv

-----------------------------------------------------------------------------

LEMMA ElementType ==
    ASSUME NEW S, NEW s \in Seq(S), NEW i \in DOMAIN s
    PROVE  s[i] \in S
  OBVIOUS

\* The requests in the line, as records.
LEMMA AppendedAt ==
    ASSUME NEW S, NEW q \in Seq(S), NEW e \in S
    PROVE  \A i \in DOMAIN Append(q, e) :
             \/ i \in DOMAIN q /\ Append(q, e)[i] = q[i]
             \/ i = Len(q) + 1 /\ Append(q, e)[i] = e
OBVIOUS

LEMMA LineType ==
    ASSUME SftpTypeOK, NEW i \in DOMAIN line
    PROVE  line[i] \in [c : Conn, seq : Nat] /\ line[i].c \in Conn /\ line[i].seq \in Nat
<1>1. line[i] \in [c : Conn, seq : Nat]
  BY ElementType, Zenon DEF SftpTypeOK
<1> QED  BY <1>1

\* Permits are handed out one by one.
LEMMA PermitCount ==
    ASSUME NEW P, IsFiniteSet(P), NEW x
    PROVE  /\ Cardinality(P) \in Nat
           /\ IsFiniteSet(P \cup {x}) /\ Cardinality(P \cup {x}) <= Cardinality(P) + 1
           /\ IsFiniteSet(P \ {x}) /\ Cardinality(P \ {x}) <= Cardinality(P)
<1>1. Cardinality(P) \in Nat
  BY FS_CardinalityType
<1>2. IsFiniteSet(P \cup {x})
      /\ Cardinality(P \cup {x}) = IF x \in P THEN Cardinality(P) ELSE Cardinality(P) + 1
  BY FS_AddElement
<1>3. IsFiniteSet(P \ {x})
      /\ Cardinality(P \ {x}) = IF x \in P THEN Cardinality(P) - 1 ELSE Cardinality(P)
  BY FS_RemoveElement
<1> QED  BY <1>1, <1>2, <1>3

\* No connection, no handle, no packet.
LEMMA SftpInitInv == SftpInit => SftpInv
<1> SUFFICES ASSUME SftpInit PROVE SftpInv
  OBVIOUS
<1>1. IsFiniteSet(permit) /\ Cardinality(permit) = 0
  BY FS_EmptySet DEF SftpInit
<1>2. Answered(0) \in Packets
  BY SftpAssumption DEF SftpAssumption, Answered, Packets, Op
<1>3. SftpTypeOK
  BY <1>1, <1>2, SftpAssumption DEF SftpAssumption, SftpInit, SftpTypeOK, NoHandles
<1>4. TableInv /\ PendingInv
  BY DEF SftpInit, TableInv, PendingInv, Pending, NoHandles
<1>5. OrderInv
  BY DEF SftpInit, OrderInv, Pending, Answered
<1> QED  BY <1>1, <1>3, <1>4, <1>5 DEF SftpInv

\* A new connection takes a permit only if there is one.
LEMMA NewClientInv ==
    ASSUME SftpInv, NEW c \in Conn, NewClient(c)
    PROVE  SftpInv'
<1> USE DEF SftpInv
<1>1. /\ Cardinality(permit) \in Nat /\ Cardinality(permit \cup {c}) \in Nat
      /\ IsFiniteSet(permit \cup {c})
      /\ Cardinality(permit \cup {c}) <= Cardinality(permit) + 1
  BY PermitCount, FS_CardinalityType, Zenon
<1>2. IsFiniteSet(permit') /\ Cardinality(permit') <= MaxConns
  BY <1>1, SftpAssumption DEF SftpAssumption, NewClient, SftpTypeOK
<1>3. SftpTypeOK'
  BY <1>2 DEF NewClient, SftpTypeOK
<1>4. (TableInv /\ PendingInv /\ OrderInv)'
  BY DEF NewClient, TableInv, PendingInv, OrderInv, Pending
<1> QED  BY <1>2, <1>3, <1>4

LEMMA StartSftpInv ==
    ASSUME SftpInv, NEW c \in Conn, StartSftp(c)
    PROVE  SftpInv'
<1> USE DEF SftpInv, StartSftp
<1>1. SftpTypeOK'
  BY DEF SftpTypeOK
<1>2. TableInv'
  BY DEF TableInv
<1>3. \A d \in Conn : (Pending(d))' => Pending(d)
  BY DEF Pending, SftpTypeOK
<1>4. \A d \in Conn : loop'[d] = "sending" => loop[d] = "sending"
  BY DEF SftpTypeOK
<1>5. PendingInv'
  BY <1>3 DEF PendingInv
<1>6. \A i \in DOMAIN line : line[i].c \in Conn
  BY LineType
<1>7. OrderInv'
  BY <1>3, <1>4, <1>6 DEF OrderInv
<1> QED  BY <1>1, <1>2, <1>5, <1>7

\* A session that ends leaves empty tables.
LEMMA DisconnectInv ==
    ASSUME SftpInv, NEW c \in Conn, Disconnect(c)
    PROVE  SftpInv'
<1> USE DEF SftpInv
<1>1. IsFiniteSet(permit') /\ Cardinality(permit') <= MaxConns
  <2>1. Cardinality(permit) \in Nat /\ IsFiniteSet(permit \ {c})
        /\ Cardinality(permit \ {c}) <= Cardinality(permit)
    BY PermitCount, Zenon
  <2>2. Cardinality(permit \ {c}) \in Nat
    BY <2>1, FS_CardinalityType
  <2> QED  BY <2>1, <2>2, SftpAssumption DEF SftpAssumption, Disconnect, SftpTypeOK
<1>2. CASE loop[c] = "ready"
  <2>1. /\ loop' = [loop EXCEPT ![c] = "none"]
        /\ handles' = [handles EXCEPT ![c] = NoHandles]
        /\ nextId' = [nextId EXCEPT ![c] = 1]
        /\ given' = [given EXCEPT ![c] = NoHandles]
        /\ UNCHANGED <<pkt, line, okSeq>>
    BY <1>2 DEF Disconnect, EndSftp
  <2>2. SftpTypeOK'
    BY <1>1, <2>1, SftpAssumption DEF SftpAssumption, SftpTypeOK, NoHandles, Disconnect
  <2>3. TableInv'
    BY <2>1 DEF TableInv, NoHandles, SftpTypeOK
  <2>4. \A d \in Conn : (Pending(d))' => Pending(d) /\ d # c
    BY <2>1 DEF Pending, SftpTypeOK
  <2>5. PendingInv'
    BY <2>1, <2>4 DEF PendingInv, SftpTypeOK
  <2>6. \A i \in DOMAIN line : line[i].c \in Conn
    BY LineType
  <2>7. \A d \in Conn : loop'[d] = "sending" => loop[d] = "sending"
    BY <2>1 DEF SftpTypeOK
  <2>8. OrderInv'
    BY <2>1, <2>4, <2>6, <2>7 DEF OrderInv
  <2> QED  BY <1>1, <2>2, <2>3, <2>5, <2>8
<1>3. CASE loop[c] # "ready"
  <2>1. UNCHANGED <<loop, handles, nextId, given, pkt, line, okSeq>>
    BY <1>3 DEF Disconnect
  <2>2. SftpTypeOK'
    BY <1>1, <2>1 DEF SftpTypeOK, Disconnect
  <2>3. (TableInv /\ PendingInv /\ OrderInv)'
    BY <2>1 DEF TableInv, PendingInv, OrderInv, Pending
  <2> QED  BY <1>1, <2>2, <2>3
<1> QED  BY <1>2, <1>3

\* A packet's request says what the table said when it was read.
LEMMA PacketInv ==
    ASSUME SftpInv, NEW c \in Conn, NEW op \in Op, NEW path \in File \cup {RootPath},
           NEW h \in 0 .. MaxHandle, Packet(c, op, path, h),
           op = "open" => nextId[c] <= MaxHandle,
           h # 0 => \/ h \in DOMAIN handles[c] /\ path = handles[c][h]
                    \/ op = "setstat" /\ path = RootPath
    PROVE  SftpInv'
<1> USE DEF SftpInv
<1> DEFINE p == [seq |-> pkt[c].seq + 1, op |-> op, path |-> path, h |-> h]
<1>1. /\ pkt' = [pkt EXCEPT ![c] = p] /\ loop[c] = "ready"
      /\ loop' = [loop EXCEPT ![c] = "sending"]
      /\ UNCHANGED <<conn, permit, handles, nextId, line, given, okSeq>>
  BY DEF Packet
<1>2. \A d \in Conn : pkt[d] \in Packets /\ pkt[d].seq \in Nat /\ okSeq[d] \in Nat
  BY DEF SftpTypeOK, Packets
<1>3. p \in Packets
  BY <1>2 DEF Packets
<1>4. SftpTypeOK'
  BY <1>1, <1>3 DEF SftpTypeOK
<1>5. TableInv'
  BY <1>1 DEF TableInv
<1>6. PendingInv'
  <2> SUFFICES ASSUME NEW d \in Conn, (Pending(d))'
               PROVE  /\ pkt'[d].op = "open" => nextId[d] <= MaxHandle
                      /\ pkt'[d].h # 0 =>
                           \/ pkt'[d].h \in DOMAIN given[d] /\ pkt'[d].path = given[d][pkt'[d].h]
                           \/ pkt'[d].op = "setstat" /\ pkt'[d].path = RootPath
    BY <1>1 DEF PendingInv
  <2>1. CASE d = c
    <3>1. pkt'[d] = p
      BY <1>1, <2>1 DEF SftpTypeOK
    <3>2. h \in DOMAIN handles[c] => h \in DOMAIN given[c] /\ handles[c][h] = given[c][h]
      BY DEF TableInv
    <3> QED  BY <2>1, <3>1, <3>2
  <2>2. CASE d # c
    <3>1. pkt'[d] = pkt[d] /\ Pending(d)
      BY <1>1, <2>2 DEF SftpTypeOK, Pending
    <3> QED  BY <3>1 DEF PendingInv
  <2> QED  BY <2>1, <2>2
<1>7. OrderInv'
  <2>1. pkt'[c].seq = pkt[c].seq + 1 /\ \A d \in Conn \ {c} : pkt'[d] = pkt[d] /\ loop'[d] = loop[d]
    BY <1>1 DEF SftpTypeOK
  <2>2. \A i \in DOMAIN line : line[i].c \in Conn /\ line[i].seq \in Nat
    BY LineType
  <2>3. \A i \in DOMAIN line :
           /\ okSeq[line[i].c] < line[i].seq
           /\ line[i].seq <= pkt'[line[i].c].seq
           /\ loop'[line[i].c] = "sending" => line[i].seq < pkt'[line[i].c].seq
    <3> SUFFICES ASSUME NEW i \in DOMAIN line
                 PROVE  /\ okSeq[line[i].c] < line[i].seq
                        /\ line[i].seq <= pkt'[line[i].c].seq
                        /\ loop'[line[i].c] = "sending" => line[i].seq < pkt'[line[i].c].seq
      BY Zenon
    <3>1. /\ okSeq[line[i].c] < line[i].seq /\ line[i].seq <= pkt[line[i].c].seq
          /\ loop[line[i].c] = "sending" => line[i].seq < pkt[line[i].c].seq
      BY Zenon DEF OrderInv
    <3>2. line[i].c \in Conn /\ line[i].seq \in Nat /\ pkt[line[i].c].seq \in Nat
      BY <1>2, <2>2, Zenon
    <3>3. CASE line[i].c = c
      <4>1. pkt'[line[i].c].seq = pkt[line[i].c].seq + 1
        BY <2>1, <3>3, Zenon
      <4>2. line[i].seq < pkt'[line[i].c].seq /\ line[i].seq <= pkt'[line[i].c].seq
        BY <3>1, <3>2, <4>1
      <4> QED  BY <3>1, <4>2, Zenon
    <3>4. CASE line[i].c # c
      <4>1. pkt'[line[i].c] = pkt[line[i].c] /\ loop'[line[i].c] = loop[line[i].c]
        BY <2>1, <3>2, <3>4, Zenon
      <4> QED  BY <3>1, <4>1, Zenon
    <3> QED  BY <3>3, <3>4, Zenon
  <2>4. \A d \in Conn :
           /\ okSeq[d] <= pkt'[d].seq
           /\ (Pending(d))' => okSeq[d] < pkt'[d].seq
    <3> SUFFICES ASSUME NEW d \in Conn
                 PROVE  okSeq[d] <= pkt'[d].seq /\ ((Pending(d))' => okSeq[d] < pkt'[d].seq)
      BY Zenon
    <3>1. okSeq[d] <= pkt[d].seq /\ (Pending(d) => okSeq[d] < pkt[d].seq)
      BY Zenon DEF OrderInv
    <3>2. CASE d = c
      <4>1. pkt'[d].seq = pkt[d].seq + 1 /\ pkt[d].seq \in Nat /\ okSeq[d] \in Nat
        BY <1>2, <2>1, <3>2, Zenon
      <4>2. okSeq[d] < pkt'[d].seq /\ okSeq[d] <= pkt'[d].seq
        BY <3>1, <4>1
      <4> QED  BY <4>2, Zenon
    <3>3. CASE d # c
      <4>1. pkt'[d] = pkt[d] /\ loop'[d] = loop[d]
        BY <2>1, <3>3, Zenon
      <4>2. (Pending(d))' => Pending(d)
        BY <4>1, Zenon DEF Pending
      <4> QED  BY <3>1, <4>1, <4>2, Zenon
    <3> QED  BY <3>2, <3>3, Zenon
  <2> QED  BY <1>1, <2>3, <2>4 DEF OrderInv
<1> QED  BY <1>1, <1>4, <1>5, <1>6, <1>7

\* The request goes to the end of the line, after all earlier ones.
LEMMA SendInv ==
    ASSUME SftpInv, NEW c \in Conn, Send(c)
    PROVE  SftpInv'
<1> USE DEF SftpInv
<1> DEFINE r == [c |-> c, seq |-> pkt[c].seq]
<1>1. /\ loop[c] = "sending" /\ Len(line) < LineCap
      /\ line' = Append(line, r)
      /\ loop' = [loop EXCEPT ![c] = "waiting"]
      /\ UNCHANGED <<conn, permit, pkt, handles, nextId, given, okSeq>>
  BY DEF Send
<1>2. \A d \in Conn : pkt[d].seq \in Nat /\ okSeq[d] \in Nat
  BY DEF SftpTypeOK, Packets
<1>3. r \in [c : Conn, seq : Nat] /\ r.c = c /\ r.seq = pkt[c].seq
  BY <1>2
<1>4. line' \in Seq([c : Conn, seq : Nat]) /\ Len(line') = Len(line) + 1
  BY <1>1, <1>3 DEF SftpTypeOK
<1>5. SftpTypeOK'
  BY <1>1, <1>4, SftpAssumption DEF SftpAssumption, SftpTypeOK
<1>6. \A d \in Conn : /\ (Pending(d))' <=> Pending(d)
                      /\ loop'[d] = "sending" => loop[d] = "sending" /\ d # c
  BY <1>1 DEF Pending, SftpTypeOK
<1>7. (TableInv /\ PendingInv)'
  BY <1>1, <1>6 DEF TableInv, PendingInv
<1>8. \A i \in DOMAIN line' : \/ i \in DOMAIN line /\ line'[i] = line[i]
                              \/ i = Len(line) + 1 /\ line'[i] = r
  <2>1. line \in Seq([c : Conn, seq : Nat]) /\ line' = Append(line, r)
    BY <1>1, Zenon DEF SftpTypeOK
  <2>2. \A i \in DOMAIN Append(line, r) :
          \/ i \in DOMAIN line /\ Append(line, r)[i] = line[i]
          \/ i = Len(line) + 1 /\ Append(line, r)[i] = r
    <3> HIDE DEF r
    <3> QED  BY <1>3, <2>1, AppendedAt
  <2> QED  BY <2>1, <2>2, Zenon
<1>9. DOMAIN line = 1 .. Len(line) /\ Len(line) \in Nat
  BY DEF SftpTypeOK
<1>10. \A i \in DOMAIN line : line[i].c \in Conn /\ line[i].seq \in Nat
  BY LineType
<1>11. OrderInv'
  <2>1. ASSUME NEW i \in DOMAIN line', NEW j \in DOMAIN line', i < j, line'[i].c = line'[j].c
        PROVE  line'[i].seq < line'[j].seq
    <3>1. i \in DOMAIN line /\ line'[i] = line[i]
      <4>1. DOMAIN line' = 1 .. Len(line) + 1
        BY <1>4
      <4>2. i # Len(line) + 1
        BY <1>9, <2>1, <4>1
      <4> QED  BY <1>8, <4>2, Zenon
    <3>2. line[i].c \in Conn /\ okSeq[line[i].c] < line[i].seq
          /\ (loop[line[i].c] = "sending" => line[i].seq < pkt[line[i].c].seq)
      BY <1>10, <3>1, Zenon DEF OrderInv
    <3>3. CASE j \in DOMAIN line /\ line'[j] = line[j]
      BY <2>1, <3>1, <3>3, Zenon DEF OrderInv
    <3>4. CASE line'[j] = r
      <4>1. line[i].c = c
        BY <1>3, <2>1, <3>1, <3>4, Zenon
      <4>2. line[i].seq < pkt[c].seq
        BY <1>1, <3>2, <4>1, Zenon
      <4> QED  BY <1>3, <3>1, <3>4, <4>2, Zenon
    <3> QED  BY <1>8, <3>3, <3>4, Zenon
  <2>2. ASSUME NEW i \in DOMAIN line'
        PROVE  /\ okSeq[line'[i].c] < line'[i].seq
               /\ line'[i].seq <= pkt[line'[i].c].seq
               /\ loop'[line'[i].c] = "sending" => line'[i].seq < pkt[line'[i].c].seq
    <3>1. CASE i \in DOMAIN line /\ line'[i] = line[i]
      <4>1. /\ okSeq[line[i].c] < line[i].seq /\ line[i].seq <= pkt[line[i].c].seq
            /\ loop[line[i].c] = "sending" => line[i].seq < pkt[line[i].c].seq
        BY <3>1, Zenon DEF OrderInv
      <4>2. loop'[line[i].c] = "sending" => loop[line[i].c] = "sending"
        BY <1>6, <1>10, <3>1, Zenon
      <4> QED  BY <3>1, <4>1, <4>2, Zenon
    <3>2. CASE line'[i] = r
      <4>1. okSeq[c] < pkt[c].seq
        BY <1>1, Zenon DEF OrderInv, Pending
      <4>2. loop'[c] # "sending"
        BY <1>6, Zenon
      <4>3. pkt[c].seq <= pkt[c].seq
        BY <1>2
      <4>4. line'[i].c = c /\ line'[i].seq = pkt[c].seq
        BY <1>3, <3>2, Zenon
      <4> QED  BY <4>1, <4>2, <4>3, <4>4, Zenon
    <3> QED  BY <1>8, <3>1, <3>2, Zenon
  <2>3. \A d \in Conn : okSeq[d] <= pkt[d].seq /\ ((Pending(d))' => okSeq[d] < pkt[d].seq)
    BY <1>6 DEF OrderInv
  <2> QED  BY <1>1, <2>1, <2>2, <2>3 DEF OrderInv
<1> QED  BY <1>1, <1>5, <1>7, <1>11

\* The table and the history after an answer: an opened file gets an id that
\* was never given out, a closed one leaves the table.
LEMMA AnswerTables ==
    ASSUME SftpInv, NEW c \in Conn, loop[c] = "waiting",
           NEW result \in {"ok", "err", "timeout"}, Answer(c, result)
    PROVE  /\ DOMAIN handles' = Conn /\ DOMAIN given' = Conn
           /\ nextId' \in [Conn -> 1 .. MaxHandle + 1]
           /\ handles'[c] \in [DOMAIN handles'[c] -> File \cup {RootPath}]
           /\ DOMAIN handles'[c] \subseteq DOMAIN given'[c]
           /\ DOMAIN given'[c] \subseteq 1 .. nextId'[c] - 1
           /\ \A h \in DOMAIN handles'[c] : handles'[c][h] = given'[c][h]
           /\ \A d \in Conn \ {c} :
                handles'[d] = handles[d] /\ given'[d] = given[d] /\ nextId'[d] = nextId[d]
<1> USE DEF SftpInv
<1> DEFINE id == nextId[c]
           path == pkt[c].path
           With(f) == [h \in DOMAIN f \cup {id} |-> IF h = id THEN path ELSE f[h]]
<1>1. /\ id \in 1 .. MaxHandle + 1 /\ id \in Nat /\ MaxHandle \in Nat
      /\ path \in File \cup {RootPath}
  BY SftpAssumption DEF SftpAssumption, SftpTypeOK, Packets
<1>2. /\ DOMAIN handles[c] \subseteq DOMAIN given[c]
      /\ DOMAIN given[c] \subseteq 1 .. id - 1
      /\ \A h \in DOMAIN handles[c] : handles[c][h] = given[c][h]
      /\ handles[c] \in [DOMAIN handles[c] -> File \cup {RootPath}]
  BY DEF TableInv, SftpTypeOK
<1>3. CASE c \notin conn
  <2>1. /\ handles' = [handles EXCEPT ![c] = NoHandles]
        /\ nextId' = [nextId EXCEPT ![c] = 1]
        /\ given' = [given EXCEPT ![c] = NoHandles]
    BY <1>3 DEF Answer, EndSftp
  <2> QED  BY <1>1, <2>1 DEF SftpTypeOK, NoHandles
<1>4. CASE c \in conn /\ pkt[c].op = "open" /\ result = "ok"
  <2>1. id <= MaxHandle
    BY <1>4 DEF PendingInv, Pending
  <2>2. id \notin DOMAIN given[c]
    BY <1>1, <1>2
  <2>3. /\ handles' = [handles EXCEPT ![c] = With(handles[c])]
        /\ nextId' = [nextId EXCEPT ![c] = id + 1]
        /\ given' = [given EXCEPT ![c] = With(given[c])]
    BY <1>4, <2>2 DEF Answer, Update, Alloc
  <2>4. handles'[c] = With(handles[c]) /\ given'[c] = With(given[c]) /\ nextId'[c] = id + 1
    BY <2>3 DEF SftpTypeOK
  <2>5. DOMAIN handles' = Conn /\ DOMAIN given' = Conn
        /\ nextId' \in [Conn -> 1 .. MaxHandle + 1]
    BY <1>1, <2>1, <2>3 DEF SftpTypeOK
  <2>6. \A d \in Conn \ {c} :
           handles'[d] = handles[d] /\ given'[d] = given[d] /\ nextId'[d] = nextId[d]
    BY <2>3 DEF SftpTypeOK
  <2>7. /\ DOMAIN handles'[c] = DOMAIN handles[c] \cup {id}
        /\ DOMAIN given'[c] = DOMAIN given[c] \cup {id}
        /\ handles'[c] \in [DOMAIN handles'[c] -> File \cup {RootPath}]
        /\ \A h \in DOMAIN handles'[c] : handles'[c][h] = given'[c][h]
    <3>1. /\ DOMAIN With(handles[c]) = DOMAIN handles[c] \cup {id}
          /\ DOMAIN With(given[c]) = DOMAIN given[c] \cup {id}
          /\ \A h \in DOMAIN handles[c] \cup {id} :
               With(handles[c])[h] = IF h = id THEN path ELSE handles[c][h]
          /\ \A h \in DOMAIN given[c] \cup {id} :
               With(given[c])[h] = IF h = id THEN path ELSE given[c][h]
      BY Zenon
    <3>2. With(handles[c]) \in [DOMAIN handles[c] \cup {id} -> File \cup {RootPath}]
      <4>1. \A h \in DOMAIN handles[c] : handles[c][h] \in File \cup {RootPath}
        BY <1>2, Zenon
      <4>2. \A h \in DOMAIN handles[c] \cup {id} :
              (IF h = id THEN path ELSE handles[c][h]) \in File \cup {RootPath}
        BY <1>1, <4>1, Zenon
      <4> QED  BY <4>2, Zenon
    <3> HIDE DEF With, id, path
    <3>3. \A h \in DOMAIN handles[c] \cup {id} : With(handles[c])[h] = With(given[c])[h]
      BY <1>2, <3>1, Zenon
    <3> QED  BY <2>4, <3>1, <3>2, <3>3, Zenon
  <2>8. DOMAIN given'[c] \subseteq 1 .. nextId'[c] - 1
    <3> HIDE DEF id
    <3>1. id + 1 - 1 = id /\ id \in 1 .. id /\ \A h \in 1 .. id - 1 : h \in 1 .. id
      BY <1>1
    <3>2. nextId'[c] - 1 = id
      <4>1. nextId'[c] = id + 1 /\ id \in Nat
        BY <1>1, <2>4, Zenon
      <4> QED  BY <4>1
    <3>3. \A h \in DOMAIN given[c] \cup {id} : h \in 1 .. id
      BY <1>2, <3>1, Zenon
    <3> QED  BY <2>7, <3>2, <3>3, Zenon
  <2> QED  BY <1>2, <2>5, <2>6, <2>7, <2>8
<1>5. CASE c \in conn /\ ~ (pkt[c].op = "open" /\ result = "ok") /\ pkt[c].op = "close"
  <2>1. /\ handles' = [handles EXCEPT ![c] =
                        [h \in DOMAIN handles[c] \ {pkt[c].h} |-> handles[c][h]]]
        /\ UNCHANGED <<nextId, given>>
    BY <1>5 DEF Answer, Update
  <2>2. handles'[c] = [h \in DOMAIN handles[c] \ {pkt[c].h} |-> handles[c][h]]
    BY <2>1 DEF SftpTypeOK
  <2> QED  BY <1>2, <2>1, <2>2 DEF SftpTypeOK
<1>6. CASE c \in conn /\ ~ (pkt[c].op = "open" /\ result = "ok") /\ pkt[c].op # "close"
  <2>1. UNCHANGED <<handles, nextId, given>>
    BY <1>6 DEF Answer, Update
  <2> QED  BY <1>2, <2>1 DEF SftpTypeOK
<1> QED  BY <1>3, <1>4, <1>5, <1>6

\* An answer, together with what becomes of the line.
LEMMA AnswerInv ==
    ASSUME SftpInv, NEW c \in Conn, loop[c] = "waiting",
           NEW result \in {"ok", "err", "timeout"}, Answer(c, result),
           UNCHANGED <<conn, permit>>,
           line' \in Seq([c : Conn, seq : Nat]), Len(line') <= LineCap,
           NEW shift \in {0, 1},
           \A i \in DOMAIN line' : i + shift \in DOMAIN line /\ line'[i] = line[i + shift],
           result = "ok" => \A i \in DOMAIN line' : line'[i].c # c
    PROVE  SftpInv'
<1>1. /\ pkt' = [pkt EXCEPT ![c] = Answered(pkt[c].seq)]
      /\ okSeq' = [okSeq EXCEPT ![c] = IF result = "ok" THEN pkt[c].seq ELSE okSeq[c]]
      /\ loop' = [loop EXCEPT ![c] = IF c \in conn THEN "ready" ELSE "none"]
  BY DEF Answer, EndSftp
<1>2. SftpTypeOK /\ TableInv /\ PendingInv /\ OrderInv /\ IsFiniteSet(permit)
  BY DEF SftpInv
<1>3. \A d \in Conn : pkt[d].seq \in Nat /\ okSeq[d] \in Nat
  BY <1>2 DEF SftpTypeOK, Packets
<1>4. Answered(pkt[c].seq) \in Packets /\ Answered(pkt[c].seq).seq = pkt[c].seq
  <2>1. 0 \in 0 .. MaxHandle
    BY SftpAssumption DEF SftpAssumption
  <2>2. pkt[c].seq \in Nat /\ "path" \in Op
    BY <1>3, Zenon DEF Op
  <2> QED  BY <2>1, <2>2, Zenon DEF Answered, Packets
<1>5. SftpTypeOK'
  BY <1>1, <1>2, <1>3, <1>4, AnswerTables, Zenon DEF SftpTypeOK
<1>6. TableInv'
  BY <1>2, AnswerTables DEF TableInv
<1>7. \A d \in Conn : d # c => pkt'[d] = pkt[d] /\ okSeq'[d] = okSeq[d] /\ loop'[d] = loop[d]
  BY <1>1, <1>2 DEF SftpTypeOK
<1>8. /\ pkt'[c].seq = pkt[c].seq /\ loop'[c] \notin {"sending", "waiting"}
      /\ okSeq'[c] = IF result = "ok" THEN pkt[c].seq ELSE okSeq[c]
  BY <1>1, <1>2, <1>4 DEF SftpTypeOK
<1>9. PendingInv'
  <2> SUFFICES ASSUME NEW d \in Conn, (Pending(d))'
               PROVE  /\ pkt'[d].op = "open" => nextId'[d] <= MaxHandle
                      /\ pkt'[d].h # 0 =>
                           \/ pkt'[d].h \in DOMAIN given'[d] /\ pkt'[d].path = given'[d][pkt'[d].h]
                           \/ pkt'[d].op = "setstat" /\ pkt'[d].path = RootPath
    BY DEF PendingInv
  <2>1. d # c /\ Pending(d)
    BY <1>7, <1>8 DEF Pending
  <2>2. pkt'[d] = pkt[d] /\ given'[d] = given[d] /\ nextId'[d] = nextId[d]
    <3>1. \A x \in Conn \ {c} : given'[x] = given[x] /\ nextId'[x] = nextId[x]
      BY AnswerTables, Zenon
    <3> QED  BY <1>7, <2>1, <3>1, Zenon
  <2> QED  BY <1>2, <2>1, <2>2 DEF PendingInv
<1>10. \A i \in DOMAIN line : line[i].c \in Conn /\ line[i].seq \in Nat
  BY <1>2, LineType
<1>11. OrderInv'
  <2>1. ASSUME NEW i \in DOMAIN line', NEW j \in DOMAIN line', i < j, line'[i].c = line'[j].c
        PROVE  line'[i].seq < line'[j].seq
    <3>1. i \in Nat /\ j \in Nat /\ i + shift < j + shift
      BY <2>1
    <3> QED  BY <1>2, <2>1, <3>1 DEF OrderInv
  <2>2. ASSUME NEW i \in DOMAIN line'
        PROVE  /\ okSeq'[line'[i].c] < line'[i].seq
               /\ line'[i].seq <= pkt'[line'[i].c].seq
               /\ loop'[line'[i].c] = "sending" => line'[i].seq < pkt'[line'[i].c].seq
    <3> DEFINE k == i + shift
               d == line[k].c
    <3>1. k \in DOMAIN line /\ line'[i] = line[k] /\ d \in Conn /\ line[k].seq \in Nat
      BY <1>10
    <3>2. /\ okSeq[d] < line[k].seq /\ line[k].seq <= pkt[d].seq
          /\ loop[d] = "sending" => line[k].seq < pkt[d].seq
      BY <1>2, <3>1 DEF OrderInv
    <3>3. CASE d = c
      BY <1>8, <3>1, <3>2, <3>3
    <3>4. CASE d # c
      BY <1>7, <3>1, <3>2, <3>4
    <3> QED  BY <3>3, <3>4
  <2>3. \A d \in Conn : okSeq'[d] <= pkt'[d].seq /\ ((Pending(d))' => okSeq'[d] < pkt'[d].seq)
    BY <1>2, <1>3, <1>7, <1>8 DEF OrderInv, Pending
  <2> QED  BY <2>1, <2>2, <2>3 DEF OrderInv
<1> QED  BY <1>2, <1>5, <1>6, <1>9, <1>11 DEF SftpInv

\* A timeout leaves the line as it is.
LEMMA TimesOutInv ==
    ASSUME SftpInv, NEW c \in Conn, PacketTimesOut(c)
    PROVE  SftpInv'
<1>1. line' = line /\ line \in Seq([c : Conn, seq : Nat]) /\ Len(line) <= LineCap
  BY DEF PacketTimesOut, SftpInv, SftpTypeOK
<1>2. \A i \in DOMAIN line' : i + 0 \in DOMAIN line /\ line'[i] = line[i + 0]
  BY <1>1
<1> QED  BY <1>1, <1>2, AnswerInv, Zenon DEF PacketTimesOut

\* The router answers the request at the head of the line.
LEMMA ServeInv ==
    ASSUME SftpInv, Serve
    PROVE  SftpInv'
<1> DEFINE r == Head(line)
<1>1. /\ SftpTypeOK /\ TableInv /\ PendingInv /\ OrderInv /\ IsFiniteSet(permit)
      /\ line # <<>> /\ line' = Tail(line) /\ UNCHANGED <<conn, permit>> /\ Deliver(r)
  BY DEF SftpInv, Serve
<1>2. line \in Seq([c : Conn, seq : Nat]) /\ Len(line) \in Nat /\ Len(line) > 0
      /\ 1 \in DOMAIN line /\ r = line[1] /\ DOMAIN line = 1 .. Len(line)
  BY <1>1 DEF SftpTypeOK
<1>3. r.c \in Conn /\ r.seq \in Nat
  BY <1>1, <1>2, LineType
<1>4. /\ line' \in Seq([c : Conn, seq : Nat]) /\ Len(line') = Len(line) - 1
      /\ DOMAIN line' = 1 .. Len(line) - 1
      /\ \A i \in DOMAIN line' : i + 1 \in DOMAIN line /\ line'[i] = line[i + 1]
  BY <1>1, <1>2
<1>5. Len(line') <= LineCap
  BY <1>1, <1>2, <1>4, SftpAssumption DEF SftpAssumption, SftpTypeOK
<1>6. CASE loop[r.c] = "waiting" /\ pkt[r.c].seq = r.seq
  <2>1. PICK result \in {"ok", "err"} : Answer(r.c, result)
    BY <1>1, <1>6 DEF Deliver
  <2>2. \A i \in DOMAIN line' : line'[i].c # r.c
    <3> SUFFICES ASSUME NEW i \in DOMAIN line', line'[i].c = r.c PROVE FALSE
      OBVIOUS
    <3>1. /\ i + 1 \in DOMAIN line /\ line[i + 1].c = r.c /\ 1 < i + 1
          /\ line[i + 1].seq \in Nat
      BY <1>1, <1>2, <1>4, LineType
    <3>2. r.seq < line[i + 1].seq /\ line[i + 1].seq <= pkt[r.c].seq
      BY <1>1, <1>2, <3>1, Zenon DEF OrderInv
    <3> QED  BY <1>3, <1>6, <3>1, <3>2
  <2> QED  BY <1>1, <1>3, <1>4, <1>5, <1>6, <2>1, <2>2, AnswerInv, Zenon
<1>7. CASE ~ (loop[r.c] = "waiting" /\ pkt[r.c].seq = r.seq)
  <2>1. UNCHANGED <<conn, permit, loop, pkt, handles, nextId, given, okSeq>>
    BY <1>1, <1>7 DEF Deliver
  <2>2. SftpTypeOK'
    BY <1>1, <1>4, <1>5, <2>1 DEF SftpTypeOK
  <2>3. (TableInv /\ PendingInv)'
    BY <1>1, <2>1 DEF TableInv, PendingInv, Pending
  <2>4. ASSUME NEW i \in DOMAIN line', NEW j \in DOMAIN line', i < j, line'[i].c = line'[j].c
        PROVE  line'[i].seq < line'[j].seq
    <3>1. /\ i + 1 \in DOMAIN line /\ j + 1 \in DOMAIN line /\ i + 1 < j + 1
          /\ line'[i] = line[i + 1] /\ line'[j] = line[j + 1]
      BY <1>2, <1>4, <2>4
    <3> QED  BY <1>1, <2>4, <3>1 DEF OrderInv
  <2>5. OrderInv'
    <3>1. ASSUME NEW i \in DOMAIN line'
          PROVE  /\ okSeq[line'[i].c] < line'[i].seq /\ line'[i].seq <= pkt[line'[i].c].seq
                 /\ loop[line'[i].c] = "sending" => line'[i].seq < pkt[line'[i].c].seq
      BY <1>1, <1>4, Zenon DEF OrderInv
    <3>2. okSeq' = okSeq /\ pkt' = pkt /\ loop' = loop
      BY <2>1, Zenon
    <3>3. \A d \in Conn : okSeq[d] <= pkt[d].seq /\ (Pending(d) => okSeq[d] < pkt[d].seq)
      BY <1>1, Zenon DEF OrderInv
    <3>4. \A d \in Conn : (Pending(d))' <=> Pending(d)
      BY <3>2, Zenon DEF Pending
    <3> QED  BY <2>4, <3>1, <3>2, <3>3, <3>4, Zenon DEF OrderInv
  <2> QED  BY <1>1, <2>1, <2>2, <2>3, <2>5 DEF SftpInv
<1> QED  BY <1>6, <1>7

\* The steps of a loop.
LEMMA LoopInv ==
    ASSUME SftpInv, NEW c \in Conn, LoopNext(c)
    PROVE  SftpInv'
<1>0. MaxHandle \in Nat
  BY SftpAssumption DEF SftpAssumption
<1>1. ASSUME NEW path \in File, Open(c, path) \/ ByPath(c, path)
      PROVE  SftpInv'
  BY <1>0, <1>1, PacketInv DEF Open, ByPath, Op
<1>2. ASSUME NEW h \in 1 .. MaxHandle, FSetStat(c, h)
      PROVE  SftpInv'
  <2>1. h \in DOMAIN handles[c] => handles[c][h] \in File \cup {RootPath}
    BY DEF SftpInv, SftpTypeOK
  <2> QED  BY <1>0, <1>2, <2>1, PacketInv DEF FSetStat, Op
<1>3. ASSUME NEW h \in 1 .. MaxHandle, NEW op \in Op, ByHandle(c, op, h)
      PROVE  SftpInv'
  <2>1. h \in DOMAIN handles[c] => handles[c][h] \in File \cup {RootPath}
    BY DEF SftpInv, SftpTypeOK
  <2> QED  BY <1>0, <1>3, <2>1, PacketInv DEF ByHandle, Op
<1> QED  BY <1>1, <1>2, <1>3, SendInv, TimesOutInv DEF LoopNext

-----------------------------------------------------------------------------

\* The invariant holds in every reachable state.
LEMMA SftpInvariance == SftpSpec => []SftpInv
<1>1. SftpInv /\ [SftpNext]_sftpVars => SftpInv'
  <2> SUFFICES ASSUME SftpInv, [SftpNext]_sftpVars PROVE SftpInv'
    OBVIOUS
  <2>1. ASSUME NEW c \in Conn, NewClient(c) \/ StartSftp(c) \/ Disconnect(c) \/ LoopNext(c)
        PROVE  SftpInv'
    BY <2>1, NewClientInv, StartSftpInv, DisconnectInv, LoopInv
  <2>2. CASE UNCHANGED sftpVars
    BY <2>2 DEF sftpVars, SftpInv, SftpTypeOK, TableInv, PendingInv, OrderInv, Pending
  <2> QED  BY <2>1, <2>2, ServeInv DEF SftpNext
<1> QED  BY <1>1, SftpInitInv, PTL DEF SftpSpec

\* The tables keep their types, and no more permits are out than sshfs.conn allows.
THEOREM SftpTypeCorrect == SftpSpec => []SftpTypeOK
<1>1. SftpInv => SftpTypeOK
  BY DEF SftpInv
<1> QED  BY <1>1, SftpInvariance, PTL

\* A handle means the path it was given out for, in the table and in every request.
THEOREM HandlesMeanPaths == SftpSpec => []HandleMeansPath
<1>1. SftpInv => HandleMeansPath
  BY DEF SftpInv, HandleMeansPath, TableInv, PendingInv, Pending
<1> QED  BY <1>1, SftpInvariance, PTL

\* A request that timed out is not carried out after a later one of its
\* connection was answered Ok.
THEOREM AckedStaysSettled == SftpSpec => []AckedIsSettled
<1>1. SftpInv => AckedIsSettled
  <2> SUFFICES ASSUME SftpInv, NEW i \in DOMAIN line
               PROVE  line[i].seq > okSeq[line[i].c]
    BY DEF AckedIsSettled
  <2>1. line[i].seq \in Nat /\ okSeq[line[i].c] \in Nat
    BY LineType DEF SftpInv, SftpTypeOK
  <2> QED  BY <2>1 DEF SftpInv, OrderInv
<1> QED  BY <1>1, SftpInvariance, PTL
=============================================================================
