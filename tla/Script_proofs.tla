--------------------------- MODULE Script_proofs ----------------------------
(***************************************************************************)
(* What scripts call: the document store, for every set of workers,        *)
(* databases and documents; the 9P client, for any files and any data; and *)
(* the configuration of sockets, over any number of processes and          *)
(* listeners.                                                              *)
(***************************************************************************)
EXTENDS Store, NinepClient, Startup, Iteration_proofs

-----------------------------------------------------------------------------
(* The document store.                                                     *)

\* An open handle has a connection on its database, a transaction has a
\* connection, and one that has written holds the lock of its database.
TxInv ==
    \A w \in Writer :
        /\ handle[w] # NoDb => conn[w] = handle[w]
        /\ tx[w] # "none" => conn[w] # NoDb
        /\ tx[w] = "writing" => busy[conn[w]] = w

\* Ids from next_id on are unused.
FreshInv ==
    \A m \in VM : \A h \in Handle(m) : conn[<<m, h>>] # NoDb => h < nextId[m]

\* The script's idea of a database is its content, or what the transaction that
\* holds the lock will commit, as long as there is a handle to commit it with.
ToldInv ==
    \A d \in Db \ lost :
        told[d] = IF busy[d] # <<>> /\ handle[busy[d]] # NoDb THEN buf[busy[d]] ELSE docs[d]

StoreInv ==
    /\ StoreTypeOK
    /\ LockHasOwner
    /\ TxInv
    /\ FreshInv
    /\ ToldInv

-----------------------------------------------------------------------------

\* No connection is the empty tuple that stands for a free lock, and every
\* connection is named by its VM and its id.
LEMMA WriterIs ==
    /\ <<>> \notin Writer
    /\ \A m \in VM : \A h \in Handle(m) : <<m, h>> \in Writer
  BY DEF Writer

\* The lock of a database and its holder, an owner or nobody.
LEMMA Holder ==
    ASSUME StoreInv, NEW d \in Db, busy[d] # <<>>
    PROVE  /\ busy[d] \in Writer /\ conn[busy[d]] = d /\ tx[busy[d]] = "writing"
           /\ handle[busy[d]] \in {d, NoDb}
  BY DEF StoreInv, StoreTypeOK, LockHasOwner

\* A store no call was made of satisfies the invariant.
LEMMA StoreInitInv == StoreInit => StoreInv
<1> SUFFICES ASSUME StoreInit PROVE StoreInv
  OBVIOUS
<1>1. NoDocs \in Docs
  BY DEF NoDocs, Docs
<1>2. StoreTypeOK
  <2>1. \A m \in VM : 1 \in 1 .. MaxHandle[m] + 1
    BY StoreAssumption DEF StoreAssumption
  <2> QED  BY <1>1, <2>1 DEF StoreInit, StoreTypeOK
<1>3. LockHasOwner /\ TxInv
  BY DEF StoreInit, LockHasOwner, TxInv
<1>4. FreshInv
  BY WriterIs DEF StoreInit, FreshInv
<1>5. ToldInv
  BY DEF StoreInit, ToldInv
<1> QED  BY <1>2, <1>3, <1>4, <1>5 DEF StoreInv

\* An id is taken: the counter stays in its range and moves past it.
LEMMA IdTaken ==
    ASSUME StoreInv, NEW m \in VM, nextId[m] <= MaxHandle[m],
           nextId' = [nextId EXCEPT ![m] = @ + 1]
    PROVE  /\ nextId[m] \in Handle(m)
           /\ nextId' \in [VM -> Nat]
           /\ \A n \in VM : nextId'[n] \in 1 .. MaxHandle[n] + 1
           /\ \A n \in VM : \A h \in Handle(n) : h < nextId[n] => h < nextId'[n]
           /\ nextId[m] < nextId'[m]
<1>1. /\ nextId \in [VM -> Nat]
      /\ \A n \in VM : nextId[n] \in 1 .. MaxHandle[n] + 1 /\ MaxHandle[n] \in Nat
  BY StoreAssumption DEF StoreAssumption, StoreInv, StoreTypeOK
<1>2. \A n \in VM : nextId'[n] = IF n = m THEN nextId[m] + 1 ELSE nextId[n]
  BY <1>1
<1>3. nextId[m] \in Handle(m)
  BY <1>1 DEF Handle
<1>4. nextId' \in [VM -> Nat] /\ \A n \in VM : nextId'[n] \in 1 .. MaxHandle[n] + 1
  BY <1>1, <1>2
<1>5. \A n \in VM : \A h \in Handle(n) : h < nextId[n] => h < nextId'[n]
  BY <1>1, <1>2 DEF Handle
<1> QED  BY <1>1, <1>2, <1>3, <1>4, <1>5

\* Opening a handle takes an id nobody has.
LEMMA OpenInv ==
    ASSUME StoreInv, NEW m \in VM, NEW d \in Db, NEW api \in {"doc", "sql"}, Open(m, d, api)
    PROVE  StoreInv'
<1> DEFINE new == <<m, nextId[m]>>
<1>0. /\ nextId[m] <= MaxHandle[m] /\ nextId' = [nextId EXCEPT ![m] = @ + 1]
      /\ handle' = [handle EXCEPT ![new] = d] /\ conn' = [conn EXCEPT ![new] = d]
      /\ created' \in {created, created \cup {d}}
      /\ UNCHANGED <<docs, ended, tx, buf, busy, told, lost>>
  BY DEF Open, Binds
<1>1. /\ nextId[m] \in Handle(m)
      /\ nextId' \in [VM -> Nat]
      /\ \A n \in VM : nextId'[n] \in 1 .. MaxHandle[n] + 1
      /\ \A n \in VM : \A h \in Handle(n) : h < nextId[n] => h < nextId'[n]
      /\ nextId[m] < nextId'[m]
  BY <1>0, IdTaken
<1>2. new \in Writer
  BY <1>1, WriterIs
<1>3. conn[new] = NoDb /\ handle[new] = NoDb
  <2>1. nextId[m] \in Nat
    BY DEF StoreInv, StoreTypeOK
  <2>2. ~ (nextId[m] < nextId[m])
    BY <2>1
  <2> QED  BY <1>1, <1>2, <2>2 DEF StoreInv, FreshInv, TxInv
<1>4. StoreTypeOK'
  BY <1>0, <1>1, <1>2 DEF StoreInv, StoreTypeOK
<1>5. \A w \in Writer : /\ handle'[w] = IF w = new THEN d ELSE handle[w]
                        /\ conn'[w] = IF w = new THEN d ELSE conn[w]
  BY <1>0, <1>2 DEF StoreInv, StoreTypeOK
<1>6. d # NoDb /\ NoDb \notin Db
  BY StoreAssumption DEF StoreAssumption
<1>7. \A e \in Db : busy[e] # new
  BY <1>2, <1>3, <1>6, WriterIs, Holder
<1>8. LockHasOwner'
  <2> SUFFICES ASSUME NEW e \in Db, busy[e] # <<>>
               PROVE  /\ conn'[busy[e]] = e /\ tx[busy[e]] = "writing"
                      /\ handle'[busy[e]] \in {e, NoDb}
    BY <1>0 DEF LockHasOwner
  <2> QED  BY <1>5, <1>7, Holder
<1>9. TxInv'
  <2> SUFFICES ASSUME NEW w \in Writer
               PROVE  /\ handle'[w] # NoDb => conn'[w] = handle'[w]
                      /\ tx[w] # "none" => conn'[w] # NoDb
                      /\ tx[w] = "writing" => busy[conn'[w]] = w
    BY <1>0 DEF TxInv
  <2>1. /\ handle[w] # NoDb => conn[w] = handle[w]
        /\ tx[w] # "none" => conn[w] # NoDb
        /\ tx[w] = "writing" => busy[conn[w]] = w
    BY DEF StoreInv, TxInv
  <2>2. tx[w] \in {"none", "begun", "writing"}
    BY DEF StoreInv, StoreTypeOK
  <2> QED  BY <1>3, <1>5, <2>1, <2>2
<1>10. FreshInv'
  <2> SUFFICES ASSUME NEW n \in VM, NEW h \in Handle(n), conn'[<<n, h>>] # NoDb
               PROVE  h < nextId'[n]
    BY DEF FreshInv
  <2>1. <<n, h>> \in Writer
    BY WriterIs
  <2>2. CASE <<n, h>> = new
    BY <1>1, <2>2
  <2>3. CASE <<n, h>> # new
    <3>1. conn[<<n, h>>] # NoDb
      BY <1>5, <2>1, <2>3
    <3> QED  BY <1>1, <3>1 DEF StoreInv, FreshInv
  <2> QED  BY <2>2, <2>3
<1>11. ToldInv'
  <2> SUFFICES ASSUME NEW e \in Db \ lost
               PROVE  told[e] = IF busy[e] # <<>> /\ handle'[busy[e]] # NoDb
                                THEN buf[busy[e]] ELSE docs[e]
    BY <1>0 DEF ToldInv
  <2>1. busy[e] # <<>> => handle'[busy[e]] = handle[busy[e]]
    BY <1>5, <1>7, Holder
  <2> QED  BY <2>1 DEF StoreInv, ToldInv
<1> QED  BY <1>4, <1>8, <1>9, <1>10, <1>11 DEF StoreInv

\* A failed open only uses up an id.
LEMMA OpenFailsInv ==
    ASSUME StoreInv, NEW m \in VM, OpenFails(m)
    PROVE  StoreInv'
<1>0. /\ nextId[m] <= MaxHandle[m] /\ nextId' = [nextId EXCEPT ![m] = @ + 1]
      /\ UNCHANGED <<docs, created, handle, ended, conn, tx, buf, busy, told, lost>>
  BY DEF OpenFails
<1>1. /\ nextId' \in [VM -> Nat]
      /\ \A n \in VM : nextId'[n] \in 1 .. MaxHandle[n] + 1
      /\ \A n \in VM : \A h \in Handle(n) : h < nextId[n] => h < nextId'[n]
  BY <1>0, IdTaken
<1>2. StoreTypeOK'
  BY <1>0, <1>1 DEF StoreInv, StoreTypeOK
<1>3. (LockHasOwner /\ TxInv /\ ToldInv)'
  BY <1>0 DEF StoreInv, LockHasOwner, TxInv, ToldInv
<1>4. FreshInv'
  BY <1>0, <1>1 DEF StoreInv, FreshInv
<1> QED  BY <1>2, <1>3, <1>4 DEF StoreInv

\* Giving handles up leaves their connections, transactions and locks alone.
LEMMA GiveUpInv ==
    ASSUME StoreInv, NEW ws \in SUBSET Writer, GiveUp(ws), ended' \subseteq VM,
           UNCHANGED <<docs, created, nextId, conn, tx, buf, busy, lost>>
    PROVE  StoreInv'
<1>1. \A w \in Writer : handle'[w] = IF w \in ws THEN NoDb ELSE handle[w]
  BY DEF GiveUp
<1>2. \A d \in Db : told'[d] = IF busy[d] \in ws THEN docs[d] ELSE told[d]
  BY DEF GiveUp
<1>3. StoreTypeOK'
  BY DEF GiveUp, StoreInv, StoreTypeOK
<1>4. LockHasOwner'
  <2> SUFFICES ASSUME NEW d \in Db, busy[d] # <<>>
               PROVE  /\ conn[busy[d]] = d /\ tx[busy[d]] = "writing"
                      /\ handle'[busy[d]] \in {d, NoDb}
    BY DEF LockHasOwner
  <2> QED  BY <1>1, Holder
<1>5. TxInv'
  BY <1>1 DEF StoreInv, TxInv
<1>6. FreshInv'
  BY DEF StoreInv, FreshInv
<1>7. ToldInv'
  <2> SUFFICES ASSUME NEW d \in Db \ lost
               PROVE  told'[d] = IF busy[d] # <<>> /\ handle'[busy[d]] # NoDb
                                 THEN buf[busy[d]] ELSE docs[d]
    BY DEF ToldInv
  <2>1. told[d] = IF busy[d] # <<>> /\ handle[busy[d]] # NoDb THEN buf[busy[d]] ELSE docs[d]
    BY DEF StoreInv, ToldInv
  <2>2. CASE busy[d] = <<>>
    BY <1>2, <2>1, <2>2, WriterIs
  <2>3. CASE busy[d] # <<>>
    <3>1. busy[d] \in Writer
      BY <2>3, Holder
    <3> QED  BY <1>1, <1>2, <2>1, <2>3, <3>1
  <2> QED  BY <2>2, <2>3
<1> QED  BY <1>3, <1>4, <1>5, <1>6, <1>7 DEF StoreInv

\* Closing one handle and the end of a whole VM both give handles up.
LEMMA CloseInv ==
    ASSUME StoreInv, NEW w \in Writer, Close(w)
    PROVE  StoreInv'
<1>1. ended' \subseteq VM
  BY DEF Close, StoreInv, StoreTypeOK
<1> QED  BY <1>1, GiveUpInv DEF Close

LEMMA VmEndsInv ==
    ASSUME StoreInv, NEW m \in VM, VmEnds(m)
    PROVE  StoreInv'
<1>1. {m} \X Handle(m) \in SUBSET Writer
  BY DEF Writer
<1>2. ended' \subseteq VM
  BY DEF VmEnds, StoreInv, StoreTypeOK
<1> QED  BY <1>1, <1>2, GiveUpInv DEF VmEnds

\* A writer task that ends takes its connection, transaction and lock with it.
LEMMA WriterEndsInv ==
    ASSUME StoreInv, NEW w \in Writer, WriterEnds(w)
    PROVE  StoreInv'
<1>0. /\ handle[w] = NoDb
      /\ conn' = [conn EXCEPT ![w] = NoDb] /\ tx' = [tx EXCEPT ![w] = "none"]
      /\ buf' = [buf EXCEPT ![w] = NoDocs]
      /\ UNCHANGED <<docs, created, nextId, handle, ended, told, lost>>
  BY DEF WriterEnds, DropsConnection, IsOpen
<1>1. \A d \in Db : busy'[d] = IF busy[d] = w THEN <<>> ELSE busy[d]
  BY DEF WriterEnds, DropsConnection
<1>2. \A x \in Writer : x # w => conn'[x] = conn[x] /\ tx'[x] = tx[x] /\ buf'[x] = buf[x]
  BY <1>0 DEF StoreInv, StoreTypeOK
<1>3. conn'[w] = NoDb /\ tx'[w] = "none"
  BY <1>0 DEF StoreInv, StoreTypeOK
<1>4. StoreTypeOK'
  <2>1. NoDocs \in Docs
    BY DEF NoDocs, Docs
  <2> QED  BY <1>0, <2>1 DEF StoreInv, StoreTypeOK, WriterEnds, DropsConnection
<1>5. LockHasOwner'
  <2> SUFFICES ASSUME NEW d \in Db, busy'[d] # <<>>
               PROVE  /\ conn'[busy'[d]] = d /\ tx'[busy'[d]] = "writing"
                      /\ handle[busy'[d]] \in {d, NoDb}
    BY <1>0 DEF LockHasOwner
  <2>1. busy[d] # w /\ busy'[d] = busy[d] /\ busy[d] # <<>>
    BY <1>1
  <2>2. /\ busy[d] \in Writer /\ conn[busy[d]] = d /\ tx[busy[d]] = "writing"
        /\ handle[busy[d]] \in {d, NoDb}
    BY <2>1, Holder
  <2> QED  BY <1>2, <2>1, <2>2, Zenon
<1>6. TxInv'
  <2> SUFFICES ASSUME NEW x \in Writer
               PROVE  /\ handle[x] # NoDb => conn'[x] = handle[x]
                      /\ tx'[x] # "none" => conn'[x] # NoDb
                      /\ tx'[x] = "writing" => busy'[conn'[x]] = x
    BY <1>0 DEF TxInv
  <2>1. CASE x = w
    BY <1>0, <1>3, <2>1
  <2>2. CASE x # w
    <3>1. /\ handle[x] # NoDb => conn[x] = handle[x]
          /\ tx[x] # "none" => conn[x] # NoDb
          /\ tx[x] = "writing" => busy[conn[x]] = x
      BY DEF StoreInv, TxInv
    <3>2. tx[x] = "writing" => conn[x] \in Db
      BY <3>1 DEF StoreInv, StoreTypeOK
    <3> QED  BY <1>1, <1>2, <2>2, <3>1, <3>2
  <2> QED  BY <2>1, <2>2
<1>7. FreshInv'
  <2> SUFFICES ASSUME NEW n \in VM, NEW h \in Handle(n), conn'[<<n, h>>] # NoDb
               PROVE  h < nextId[n]
    BY <1>0 DEF FreshInv
  <2>1. <<n, h>> \in Writer
    BY WriterIs
  <2>2. conn[<<n, h>>] # NoDb
    BY <1>2, <1>3, <2>1
  <2> QED  BY <2>2 DEF StoreInv, FreshInv
<1>8. ToldInv'
  <2> SUFFICES ASSUME NEW d \in Db \ lost
               PROVE  told[d] = IF busy'[d] # <<>> /\ handle[busy'[d]] # NoDb
                                THEN buf'[busy'[d]] ELSE docs[d]
    BY <1>0 DEF ToldInv
  <2>1. told[d] = IF busy[d] # <<>> /\ handle[busy[d]] # NoDb THEN buf[busy[d]] ELSE docs[d]
    BY DEF StoreInv, ToldInv
  <2>2. CASE busy[d] = w
    BY <1>0, <1>1, <2>1, <2>2
  <2>3. CASE busy[d] # w
    <3>1. busy'[d] = busy[d]
      BY <1>1, <2>3
    <3>2. busy[d] # <<>> => busy[d] \in Writer /\ buf'[busy[d]] = buf[busy[d]]
      BY <1>2, <2>3, Holder
    <3> QED  BY <2>1, <3>1, <3>2
  <2> QED  BY <2>2, <2>3
<1> QED  BY <1>4, <1>5, <1>6, <1>7, <1>8 DEF StoreInv

\* An open handle has a connection on its database; nobody else's lock is on it.
LEMMA OpenHandle ==
    ASSUME StoreInv, NEW w \in Writer, IsOpen(w)
    PROVE  /\ handle[w] \in Db /\ conn[w] = handle[w]
           /\ tx[w] = "writing" <=> busy[handle[w]] = w
           /\ \A e \in Db : busy[e] = w => e = handle[w]
<1>1. handle[w] \in Db /\ conn[w] = handle[w]
  BY DEF StoreInv, StoreTypeOK, TxInv, IsOpen
<1>2. \A e \in Db : busy[e] = w => e = handle[w] /\ tx[w] = "writing"
  BY <1>1, Holder, WriterIs
<1> QED  BY <1>1, <1>2 DEF StoreInv, TxInv

\* A write that succeeds goes to the database or to the transaction, and what
\* the script knows goes with it.
LEMMA WriteInv ==
    ASSUME StoreInv, NEW w \in Writer, NEW k \in Key, NEW v \in Val \cup {NoVal},
           IsOpen(w), SqlWrite(w, k, v),
           told' = [told EXCEPT ![handle[w]][k] = v],
           UNCHANGED <<created, nextId, handle, ended, conn, lost>>
    PROVE  StoreInv'
<1> DEFINE d == handle[w]
           content == IF tx[w] = "writing" THEN buf[w] ELSE docs[d]
           new == [content EXCEPT ![k] = v]
<1>1. /\ d \in Db /\ conn[w] = d /\ (tx[w] = "writing" <=> busy[d] = w)
      /\ \A e \in Db : busy[e] = w => e = d
  BY OpenHandle
<1>2. content \in Docs /\ new \in Docs /\ docs[d] \in Docs /\ told[d] \in Docs
  BY <1>1 DEF StoreInv, StoreTypeOK, Docs
<1>3. told' = [told EXCEPT ![d] = [told[d] EXCEPT ![k] = v]]
  OBVIOUS
<1>4. [told[d] EXCEPT ![k] = v] \in Docs
  BY <1>2 DEF Docs
<1>5. busy[d] = w \/ busy[d] = <<>>
  BY DEF SqlWrite, CanWrite
<1>6. told' \in [Db -> Docs]
  BY <1>3, <1>4 DEF StoreInv, StoreTypeOK
<1>7. \A b \in Db : told'[b] = IF b = d THEN [told[d] EXCEPT ![k] = v] ELSE told[b]
  BY <1>1, <1>3 DEF StoreInv, StoreTypeOK
<1>8. d \notin lost => told[d] = content
  <2>1. d \notin lost => told[d] = IF busy[d] # <<>> /\ handle[busy[d]] # NoDb
                                   THEN buf[busy[d]] ELSE docs[d]
    BY <1>1 DEF StoreInv, ToldInv
  <2> QED  BY <1>1, <1>5, <2>1, WriterIs DEF IsOpen
<1>9. CASE tx[w] = "none"
  <2>1. busy[d] = <<>>
    BY <1>1, <1>5, <1>9
  <2>2. /\ docs' = [docs EXCEPT ![d] = new] /\ UNCHANGED <<tx, buf, busy>>
        /\ content = docs[d]
    BY <1>9 DEF SqlWrite
  <2>3. StoreTypeOK'
    BY <1>1, <1>2, <1>6, <2>2 DEF StoreInv, StoreTypeOK
  <2>4. (LockHasOwner /\ TxInv /\ FreshInv)'
    BY <2>2 DEF StoreInv, LockHasOwner, TxInv, FreshInv
  <2>5. ASSUME NEW b \in Db \ lost
        PROVE  told'[b] = IF busy[b] # <<>> /\ handle[busy[b]] # NoDb
                          THEN buf[busy[b]] ELSE docs'[b]
    <3>1. CASE b = d
      <4>1. docs'[b] = new
        BY <1>1, <2>2, <3>1 DEF StoreInv, StoreTypeOK
      <4> QED  BY <1>7, <1>8, <2>1, <3>1, <4>1
    <3>2. CASE b # d
      <4>1. told'[b] = told[b] /\ docs'[b] = docs[b]
        BY <1>7, <2>2, <3>2 DEF StoreInv, StoreTypeOK
      <4> QED  BY <4>1 DEF StoreInv, ToldInv
    <3> QED  BY <3>1, <3>2
  <2>6. ToldInv'
    BY <2>2, <2>5 DEF ToldInv
  <2> QED  BY <2>3, <2>4, <2>6 DEF StoreInv
<1>10. CASE tx[w] # "none"
  <2>1. /\ tx' = [tx EXCEPT ![w] = "writing"]
        /\ buf' = [buf EXCEPT ![w] = new]
        /\ busy' = [busy EXCEPT ![d] = w]
        /\ UNCHANGED docs
    BY <1>10 DEF SqlWrite
  <2>2. StoreTypeOK'
    BY <1>1, <1>2, <1>6, <2>1 DEF StoreInv, StoreTypeOK
  <2>3. /\ \A x \in Writer : /\ tx'[x] = IF x = w THEN "writing" ELSE tx[x]
                             /\ buf'[x] = IF x = w THEN new ELSE buf[x]
        /\ \A e \in Db : busy'[e] = IF e = d THEN w ELSE busy[e]
    BY <1>1, <2>1 DEF StoreInv, StoreTypeOK
  <2>4. LockHasOwner'
    <3> SUFFICES ASSUME NEW e \in Db, busy'[e] # <<>>
                 PROVE  /\ conn[busy'[e]] = e /\ tx'[busy'[e]] = "writing"
                        /\ handle[busy'[e]] \in {e, NoDb}
      BY DEF LockHasOwner
    <3>1. CASE e = d
      BY <1>1, <2>3, <3>1
    <3>2. CASE e # d
      BY <2>3, <3>2, Holder
    <3> QED  BY <3>1, <3>2
  <2>5. TxInv'
    <3> SUFFICES ASSUME NEW x \in Writer
                 PROVE  /\ handle[x] # NoDb => conn[x] = handle[x]
                        /\ tx'[x] # "none" => conn[x] # NoDb
                        /\ tx'[x] = "writing" => busy'[conn[x]] = x
      BY DEF TxInv
    <3>0. /\ handle[x] # NoDb => conn[x] = handle[x]
          /\ tx[x] # "none" => conn[x] # NoDb
          /\ tx[x] = "writing" => busy[conn[x]] = x
      BY DEF StoreInv, TxInv
    <3>1. CASE x = w
      BY <1>1, <2>3, <3>0, <3>1 DEF IsOpen
    <3>2. CASE x # w
      <4>1. tx[x] = "writing" => conn[x] \in Db /\ conn[x] # d
        BY <1>5, <3>0, <3>2, WriterIs DEF StoreInv, StoreTypeOK
      <4> QED  BY <2>3, <3>0, <3>2, <4>1
    <3> QED  BY <3>1, <3>2
  <2>6. FreshInv'
    BY DEF StoreInv, FreshInv
  <2>7. ToldInv'
    <3> SUFFICES ASSUME NEW e \in Db \ lost
                 PROVE  told'[e] = IF busy'[e] # <<>> /\ handle[busy'[e]] # NoDb
                                   THEN buf'[busy'[e]] ELSE docs[e]
      BY <2>1 DEF ToldInv
    <3>1. CASE e = d
      <4>1. busy'[e] = w /\ w # <<>> /\ handle[w] # NoDb /\ buf'[w] = new
        BY <2>3, <3>1, WriterIs DEF IsOpen
      <4> QED  BY <1>7, <1>8, <3>1, <4>1
    <3>2. CASE e # d
      <4>1. told'[e] = told[e] /\ busy'[e] = busy[e] /\ busy[e] # w
        BY <1>1, <1>7, <2>3, <3>2
      <4>2. busy[e] # <<>> => buf'[busy[e]] = buf[busy[e]]
        BY <2>3, <4>1, Holder
      <4> QED  BY <4>1, <4>2 DEF StoreInv, ToldInv
    <3> QED  BY <3>1, <3>2
  <2> QED  BY <2>2, <2>4, <2>5, <2>6, <2>7 DEF StoreInv
<1> QED  BY <1>9, <1>10

\* A document call that raises no error: it works, or the error is recorded as lost.
LEMMA DocSetInv ==
    ASSUME StoreInv, NEW w \in Writer, NEW k \in Key, NEW v \in Val \cup {NoVal},
           DocSet(w, k, v)
    PROVE  StoreInv'
<1> DEFINE works == handle[w] \in created /\ CanWrite(w)
<1>1. CASE works
  BY <1>1, WriteInv, Zenon DEF DocSet
<1>2. CASE ~works
  <2>1. handle[w] \in Db
    BY DEF DocSet, IsOpen, StoreInv, StoreTypeOK
  <2>2. /\ UNCHANGED <<docs, created, nextId, handle, ended, conn, tx, buf, busy>>
        /\ told' = [told EXCEPT ![handle[w]] = [told[handle[w]] EXCEPT ![k] = v]]
        /\ lost' = lost \cup {handle[w]}
    BY <1>2 DEF DocSet
  <2>3. [told[handle[w]] EXCEPT ![k] = v] \in Docs
    BY <2>1 DEF StoreInv, StoreTypeOK, Docs
  <2>4. StoreTypeOK'
    BY <2>1, <2>2, <2>3 DEF StoreInv, StoreTypeOK
  <2>5. (LockHasOwner /\ TxInv /\ FreshInv)'
    BY <2>2 DEF StoreInv, LockHasOwner, TxInv, FreshInv
  <2>6. ToldInv'
    BY <2>1, <2>2 DEF StoreInv, StoreTypeOK, ToldInv
  <2> QED  BY <2>4, <2>5, <2>6 DEF StoreInv
<1> QED  BY <1>1, <1>2

\* BEGIN, COMMIT and ROLLBACK.
LEMMA SqlExecTxInv ==
    ASSUME StoreInv, NEW w \in Writer, NEW stmt \in TxSql, SqlExecTx(w, stmt)
    PROVE  StoreInv'
<1> DEFINE d == handle[w]
<1>0. UNCHANGED <<created, nextId, handle, ended, conn, lost>> /\ IsOpen(w)
  BY DEF SqlExecTx
<1>1. /\ d \in Db /\ conn[w] = d /\ (tx[w] = "writing" <=> busy[d] = w)
      /\ \A e \in Db : busy[e] = w => e = d
  BY <1>0, OpenHandle
<1>2. CASE stmt = "BEGIN"
  <2>1. /\ tx[w] = "none" /\ tx' = [tx EXCEPT ![w] = "begun"]
        /\ UNCHANGED <<docs, buf, busy, told>>
    BY <1>2 DEF SqlExecTx
  <2>2. StoreTypeOK'
    BY <1>0, <2>1 DEF StoreInv, StoreTypeOK
  <2>3. \A x \in Writer : tx'[x] = IF x = w THEN "begun" ELSE tx[x]
    BY <2>1 DEF StoreInv, StoreTypeOK
  <2>4. LockHasOwner'
    <3> SUFFICES ASSUME NEW e \in Db, busy[e] # <<>>
                 PROVE  /\ conn[busy[e]] = e /\ tx'[busy[e]] = "writing"
                        /\ handle[busy[e]] \in {e, NoDb}
      BY <1>0, <2>1 DEF LockHasOwner
    <3> QED  BY <2>1, <2>3, Holder
  <2>5. TxInv'
    <3> SUFFICES ASSUME NEW x \in Writer
                 PROVE  /\ handle[x] # NoDb => conn[x] = handle[x]
                        /\ tx'[x] # "none" => conn[x] # NoDb
                        /\ tx'[x] = "writing" => busy[conn[x]] = x
      BY <1>0, <2>1 DEF TxInv
    <3>1. CASE x = w
      BY <1>0, <1>1, <2>3, <3>1 DEF IsOpen
    <3>2. CASE x # w
      <4>1. tx'[x] = tx[x]
        BY <2>3, <3>2
      <4> QED  BY <4>1 DEF StoreInv, TxInv
    <3> QED  BY <3>1, <3>2
  <2>6. (FreshInv /\ ToldInv)'
    BY <1>0, <2>1 DEF StoreInv, FreshInv, ToldInv
  <2> QED  BY <2>2, <2>4, <2>5, <2>6 DEF StoreInv
<1>3. CASE stmt # "BEGIN"
  <2> DEFINE commits == stmt = "COMMIT" /\ tx[w] = "writing"
  <2>1. /\ tx[w] # "none"
        /\ docs' = IF commits THEN [docs EXCEPT ![d] = buf[w]] ELSE docs
        /\ told' = IF ~commits /\ tx[w] = "writing"
                   THEN [told EXCEPT ![d] = docs[d]] ELSE told
        /\ tx' = [tx EXCEPT ![w] = "none"]
        /\ buf' = [buf EXCEPT ![w] = NoDocs]
        /\ busy' = [busy EXCEPT ![d] = IF busy[d] = w THEN <<>> ELSE busy[d]]
    BY <1>3 DEF SqlExecTx
  <2>2. NoDocs \in Docs
    BY DEF NoDocs, Docs
  <2>3. StoreTypeOK'
    <3>1. docs' \in [Db -> Docs] /\ told' \in [Db -> Docs]
      BY <1>1, <2>1 DEF StoreInv, StoreTypeOK
    <3> QED  BY <3>1, <1>0, <1>1, <2>1, <2>2 DEF StoreInv, StoreTypeOK
  <2>4. \A e \in Db : busy'[e] = IF busy[e] = w THEN <<>> ELSE busy[e]
    BY <1>1, <2>1 DEF StoreInv, StoreTypeOK
  <2>5. /\ tx'[w] = "none"
        /\ \A x \in Writer : x # w => tx'[x] = tx[x] /\ buf'[x] = buf[x]
    BY <2>1 DEF StoreInv, StoreTypeOK
  <2>6. LockHasOwner'
    <3> SUFFICES ASSUME NEW e \in Db, busy'[e] # <<>>
                 PROVE  /\ conn[busy'[e]] = e /\ tx'[busy'[e]] = "writing"
                        /\ handle[busy'[e]] \in {e, NoDb}
      BY <1>0 DEF LockHasOwner
    <3>1. busy[e] # w /\ busy'[e] = busy[e] /\ busy[e] # <<>>
      BY <2>4
    <3>2. /\ busy[e] \in Writer /\ conn[busy[e]] = e /\ tx[busy[e]] = "writing"
          /\ handle[busy[e]] \in {e, NoDb}
      BY <3>1, Holder
    <3> QED  BY <2>5, <3>1, <3>2, Zenon
  <2>7. TxInv'
    <3> SUFFICES ASSUME NEW x \in Writer
                 PROVE  /\ handle[x] # NoDb => conn[x] = handle[x]
                        /\ tx'[x] # "none" => conn[x] # NoDb
                        /\ tx'[x] = "writing" => busy'[conn[x]] = x
      BY <1>0 DEF TxInv
    <3>0. /\ handle[x] # NoDb => conn[x] = handle[x]
          /\ tx[x] # "none" => conn[x] # NoDb
          /\ tx[x] = "writing" => busy[conn[x]] = x
      BY DEF StoreInv, TxInv
    <3>1. CASE x = w
      BY <2>5, <3>0, <3>1
    <3>2. CASE x # w
      <4>1. tx[x] = "writing" => conn[x] \in Db
        BY <3>0 DEF StoreInv, StoreTypeOK
      <4> QED  BY <2>4, <2>5, <3>0, <3>2, <4>1
    <3> QED  BY <3>1, <3>2
  <2>8. FreshInv'
    BY <1>0 DEF StoreInv, FreshInv
  <2>9. ToldInv'
    <3> SUFFICES ASSUME NEW e \in Db \ lost
                 PROVE  told'[e] = IF busy'[e] # <<>> /\ handle[busy'[e]] # NoDb
                                   THEN buf'[busy'[e]] ELSE docs'[e]
      BY <1>0 DEF ToldInv
    <3>0. told[e] = IF busy[e] # <<>> /\ handle[busy[e]] # NoDb THEN buf[busy[e]] ELSE docs[e]
      BY DEF StoreInv, ToldInv
    <3>1. CASE busy[e] = w
      <4>1. e = d /\ tx[w] = "writing" /\ busy'[e] = <<>>
        BY <1>1, <2>4, <3>1
      <4>2. told[e] = buf[w]
        BY <1>0, <3>0, <3>1, WriterIs DEF IsOpen
      <4>3. told'[e] = docs'[e]
        BY <1>1, <2>1, <4>1, <4>2 DEF StoreInv, StoreTypeOK
      <4> QED  BY <4>1, <4>3
    <3>2. CASE busy[e] # w
      <4>1. busy'[e] = busy[e] /\ (e = d => tx[w] # "writing")
        BY <1>1, <2>4, <3>2
      <4>2. told'[e] = told[e] /\ docs'[e] = docs[e]
        BY <1>1, <2>1, <4>1 DEF StoreInv, StoreTypeOK
      <4>3. busy[e] # <<>> => buf'[busy[e]] = buf[busy[e]]
        BY <2>5, <3>2, Holder
      <4> QED  BY <3>0, <4>1, <4>2, <4>3
    <3> QED  BY <3>1, <3>2
  <2> QED  BY <2>3, <2>6, <2>7, <2>8, <2>9 DEF StoreInv
<1> QED  BY <1>2, <1>3

-----------------------------------------------------------------------------

\* The invariant holds in every reachable state.
LEMMA StoreInvariance == StoreSpec => []StoreInv
<1>1. StoreInv /\ [StoreNext]_storeVars => StoreInv'
  <2> SUFFICES ASSUME StoreInv, [StoreNext]_storeVars PROVE StoreInv'
    OBVIOUS
  <2>1. ASSUME NEW m \in VM,
               \/ OpenFails(m) \/ VmEnds(m)
               \/ \E d \in Db, api \in {"doc", "sql"} : Open(m, d, api)
        PROVE  StoreInv'
    BY <2>1, OpenFailsInv, VmEndsInv, OpenInv
  <2>2. ASSUME NEW w \in Writer, Close(w) \/ WriterEnds(w)
        PROVE  StoreInv'
    BY <2>2, CloseInv, WriterEndsInv
  <2>3. ASSUME NEW w \in Writer, NEW k \in Key, NEW v \in Val \cup {NoVal},
               DocSet(w, k, v) \/ SqlExecWrite(w, k, v)
        PROVE  StoreInv'
    BY <2>3, DocSetInv, WriteInv DEF SqlExecWrite
  <2>4. ASSUME NEW w \in Writer, NEW stmt \in TxSql, SqlExecTx(w, stmt)
        PROVE  StoreInv'
    BY <2>4, SqlExecTxInv
  <2>5. CASE UNCHANGED storeVars
    BY <2>5 DEF storeVars, StoreInv, StoreTypeOK, LockHasOwner, TxInv, FreshInv, ToldInv
  <2> QED  BY <2>1, <2>2, <2>3, <2>4, <2>5 DEF StoreNext
<1> QED  BY <1>1, StoreInitInv, PTL DEF StoreSpec

\* The lock of a database belongs, at every moment between a close or the end of
\* a worker and the end of the writer task, to a connection that task will drop,
\* for any number of workers, handles and databases.
THEOREM LocksOwned == StoreSpec => []LockHasOwner
<1>1. StoreInv => LockHasOwner
  BY DEF StoreInv
<1> QED  BY <1>1, StoreInvariance, PTL

\* Between transactions, a database no error was discarded for holds what the
\* scripts of all workers were told it holds.
THEOREM AckedIsStored == StoreSpec => []AckedSetStored
<1>1. StoreInv => AckedSetStored
  <2> SUFFICES ASSUME StoreInv, \A w \in Writer : tx[w] = "none", NEW d \in Db \ lost
               PROVE  told[d] = docs[d]
    BY DEF AckedSetStored
  <2>1. busy[d] = <<>>
    BY Holder
  <2> QED  BY <2>1 DEF StoreInv, ToldInv
<1> QED  BY <1>1, StoreInvariance, PTL

\* A handle a script holds is never rebound: ids are not reused while the VM lives.
THEOREM HandlesStable == StoreSpec => HandleStable
<1>1. ASSUME StoreInv, StoreNext, NEW w \in Writer, handle'[w] # handle[w]
      PROVE  handle'[w] = NoDb \/ (handle[w] = NoDb /\ nextId[w[1]] = w[2])
  <2>1. ASSUME NEW m \in VM, NEW d \in Db, NEW api \in {"doc", "sql"}, Open(m, d, api)
        PROVE  handle[w] = NoDb /\ nextId[w[1]] = w[2]
    <3>1. w = <<m, nextId[m]>>
      BY <1>1, <2>1 DEF Open, Binds, StoreInv, StoreTypeOK
    <3>2. nextId[m] \in Handle(m) /\ nextId[m] \in Nat
      BY <1>1, <2>1, IdTaken DEF Open, StoreInv, StoreTypeOK
    <3>3. ~ (nextId[m] < nextId[m])
      BY <3>2
    <3>4. conn[w] = NoDb
      BY <1>1, <3>1, <3>2, <3>3 DEF StoreInv, FreshInv
    <3> QED  BY <1>1, <3>1, <3>4 DEF StoreInv, TxInv
  <2>2. ASSUME NEW ws, GiveUp(ws)
        PROVE  handle'[w] = NoDb
    BY <1>1, <2>2 DEF GiveUp
  <2> QED  BY <1>1, <2>1, <2>2, Zenon DEF StoreNext, OpenFails, VmEnds, Close, WriterEnds,
                                  DocSet, SqlExecWrite, SqlExecTx
<1>2. StoreInv /\ [StoreNext]_storeVars =>
        [\A w \in Writer :
            handle'[w] # handle[w] =>
               \/ handle'[w] = NoDb
               \/ handle[w] = NoDb /\ nextId[w[1]] = w[2]]_storeVars
  BY <1>1 DEF storeVars
<1> QED  BY <1>2, StoreInvariance, PTL DEF StoreSpec, HandleStable

-----------------------------------------------------------------------------
(* Sequences, and the chunks of a write put together.                      *)

LEMMA SubSeqIs ==
    ASSUME NEW S, NEW s \in Seq(S), NEW m \in Nat, NEW n \in Nat, m <= n, n <= Len(s)
    PROVE  /\ SubSeq(s, m + 1, n) \in Seq(S) /\ Len(SubSeq(s, m + 1, n)) = n - m
           /\ \A i \in 1 .. n - m : SubSeq(s, m + 1, n)[i] = s[m + i]
<1>1. /\ Len(s) \in Nat
      /\ SubSeq(s, m + 1, n) = [i \in 1 .. n - m |-> s[m + i]]
  OBVIOUS
<1>2. \A i \in 1 .. n - m : m + i \in 1 .. Len(s) /\ s[m + i] \in S
  BY <1>1
<1>3. n - m \in Nat
  OBVIOUS
<1> DEFINE t == [i \in 1 .. n - m |-> s[m + i]]
<1>4. t \in Seq(S) /\ Len(t) = n - m
  BY <1>2, <1>3
<1> QED  BY <1>1, <1>4

\* A prefix and the slice after it.
LEMMA SlicesJoin ==
    ASSUME NEW S, NEW s \in Seq(S), NEW m \in Nat, NEW n \in Nat, m <= n, n <= Len(s)
    PROVE  SubSeq(s, 1, m) \o SubSeq(s, m + 1, n) = SubSeq(s, 1, n)
<1> DEFINE a == SubSeq(s, 1, m)
           b == SubSeq(s, m + 1, n)
           c == SubSeq(s, 1, n)
<1>1. Len(s) \in Nat /\ 0 \in Nat /\ 0 + 1 = 1 /\ 0 <= m /\ m <= Len(s) /\ 0 <= n
  OBVIOUS
<1>2. a \in Seq(S) /\ Len(a) = m /\ \A i \in 1 .. m : a[i] = s[i]
  <2>1. /\ SubSeq(s, 0 + 1, m) \in Seq(S) /\ Len(SubSeq(s, 0 + 1, m)) = m - 0
        /\ \A i \in 1 .. m - 0 : SubSeq(s, 0 + 1, m)[i] = s[0 + i]
    BY <1>1, SubSeqIs
  <2> QED  BY <2>1
<1>3. c \in Seq(S) /\ Len(c) = n /\ \A i \in 1 .. n : c[i] = s[i]
  <2>1. /\ SubSeq(s, 0 + 1, n) \in Seq(S) /\ Len(SubSeq(s, 0 + 1, n)) = n - 0
        /\ \A i \in 1 .. n - 0 : SubSeq(s, 0 + 1, n)[i] = s[0 + i]
    BY <1>1, SubSeqIs
  <2> QED  BY <2>1
<1>4. b \in Seq(S) /\ Len(b) = n - m /\ \A i \in 1 .. n - m : b[i] = s[m + i]
  BY SubSeqIs
<1> HIDE DEF a, b, c
<1>5. /\ a \o b \in Seq(S) /\ Len(a \o b) = n
      /\ \A i \in 1 .. m : (a \o b)[i] = a[i]
      /\ \A i \in 1 .. n - m : (a \o b)[m + i] = b[i]
  <2>1. /\ a \o b \in Seq(S) /\ Len(a \o b) = Len(a) + Len(b)
        /\ \A i \in 1 .. Len(a) : (a \o b)[i] = a[i]
        /\ \A i \in 1 .. Len(b) : (a \o b)[Len(a) + i] = b[i]
    <3>1. a \in Seq(S) /\ b \in Seq(S)
      BY <1>2, <1>4
    <3> QED  BY <3>1, ConcatIs
  <2>2. m + (n - m) = n
    OBVIOUS
  <2> QED  BY <1>2, <1>4, <2>1, <2>2, Zenon
<1>6. ASSUME NEW i \in 1 .. n PROVE (a \o b)[i] = c[i]
  <2>1. CASE i <= m
    <3>1. i \in 1 .. m
      BY <2>1
    <3> QED  BY <1>2, <1>3, <1>5, <3>1
  <2>2. CASE i > m
    <3>1. i - m \in 1 .. n - m /\ m + (i - m) = i
      BY <2>2
    <3>2. (a \o b)[m + (i - m)] = b[i - m]
      BY <1>5, <3>1
    <3> QED  BY <1>3, <1>4, <3>1, <3>2, Zenon
  <2>3. i <= m \/ i > m
    OBVIOUS
  <2> QED  BY <2>1, <2>2, <2>3, Zenon
<1>7. a \o b = c
  BY <1>3, <1>5, <1>6, SameSeq
<1> QED  BY <1>7 DEF a, b, c

Glue(x, y) == x \o y
Glues(R) == <<>> \in R /\ \A x, y \in R : Glue(x, y) \in R

\* f joins the elements of s one after the other.
Joins(f, s) ==
    f = [n \in 0 .. Len(s) |-> IF n = 0 THEN <<>> ELSE Glue(f[n - 1], s[n])]

LEMMA JoinedIs ==
    ASSUME NEW R, Glues(R), NEW s, Len(s) \in Nat, \A n \in 1 .. Len(s) : s[n] \in R
    PROVE  \E f : /\ f[0] = <<>> /\ \A n \in 1 .. Len(s) : f[n] = Glue(f[n - 1], s[n])
                  /\ Joined(s) = f[Len(s)]
<1> DEFINE N == Len(s)
           step == [n \in 1 .. N |-> [x \in R |-> Glue(x, s[n])]]
           empty == <<>>
<1>1. N \in Nat /\ (\A n \in 1 .. N : s[n] \in R) /\ empty \in R
  BY DEF Glues
<1>2. \A n \in 1 .. N : \A x \in R : Glue(x, s[n]) \in R
  BY <1>1 DEF Glues
<1> HIDE DEF N, empty
<1>3. /\ step \in [1 .. N -> [R -> R]]
      /\ \A n \in 1 .. N : \A x \in R : step[n][x] = Glue(x, s[n])
  BY <1>2
<1> HIDE DEF step
<1>4. PICK g \in [0 .. N -> R] : g[0] = empty /\ \A n \in 1 .. N : g[n] = step[n][g[n - 1]]
  <2>1. Steps(R, empty, N, step)
    BY <1>1, <1>3, Zenon DEF Steps
  <2>2. PICK f : IsRun(f, R, empty, N, step)
    BY <2>1, Iterates, Zenon
  <2> QED  BY <2>2, Zenon DEF IsRun
<1>5. ASSUME NEW n \in 1 .. N PROVE g[n] = Glue(g[n - 1], s[n])
  <2>1. n - 1 \in 0 .. N
    BY <1>1
  <2>2. g[n - 1] \in R
    BY <2>1
  <2> QED  BY <1>3, <1>4, <2>2
<1>6. Joins(g, s)
  <2>1. g = [n \in 0 .. N |-> g[n]]
    OBVIOUS
  <2>2. \A n \in 0 .. N : n # 0 => n \in 1 .. N
    BY <1>1
  <2>3. \A n \in 0 .. N : g[n] = IF n = 0 THEN empty ELSE Glue(g[n - 1], s[n])
    BY <1>4, <1>5, <2>2, Zenon
  <2>4. g = [n \in 0 .. N |-> IF n = 0 THEN empty ELSE Glue(g[n - 1], s[n])]
    BY <2>1, <2>3
  <2> QED  BY <2>4, Zenon DEF Joins, N, empty
<1> DEFINE f == CHOOSE x : Joins(x, s)
<1>7. Joins(f, s)
  BY <1>6, Zenon
<1>8. Joined(s) = f[N]
  BY DEF Joined, Joins, Glue, N
<1> HIDE DEF f
<1>9. f[0] = empty /\ \A n \in 1 .. N : f[n] = Glue(f[n - 1], s[n])
  <2>1. \A n \in 0 .. N : f[n] = IF n = 0 THEN empty ELSE Glue(f[n - 1], s[n])
    BY <1>7, Zenon DEF Joins, N, empty
  <2>2. 0 \in 0 .. N /\ \A n \in 1 .. N : n \in 0 .. N /\ n # 0
    BY <1>1
  <2> QED  BY <2>1, <2>2, Zenon
<1> QED  BY <1>8, <1>9 DEF N, empty

LEMMA SeqGlues == \A S : Glues(Seq(S))
<1> TAKE S
<1>1. \A x, y \in Seq(S) : x \o y \in Seq(S)
  BY ConcatIs
<1>2. <<>> \in Seq(S)
  OBVIOUS
<1> QED  BY <1>1, <1>2, Zenon DEF Glues, Glue

LEMMA NoChunks == Joined(<<>>) = <<>>
<1> DEFINE none == <<>>
<1>1. Len(none) = 0 /\ 0 \in Nat /\ \A n \in 1 .. 0 : none[n] \in Seq(Nat)
  OBVIOUS
<1>2. Glues(Seq(Nat))
  BY SeqGlues
<1> HIDE DEF none
<1>3. PICK f : f[0] = <<>> /\ Joined(none) = f[0]
  BY <1>1, <1>2, JoinedIs
<1> QED  BY <1>3 DEF none

\* One element more.
Extends(R, s, t) ==
    /\ Len(s) \in Nat /\ Len(t) = Len(s) + 1
    /\ (\A n \in 1 .. Len(t) : t[n] \in R) /\ \A n \in 1 .. Len(s) : t[n] = s[n]

LEMMA JoinedMore ==
    ASSUME NEW R, Glues(R), NEW s, NEW t, Extends(R, s, t)
    PROVE  Joined(t) = Glue(Joined(s), t[Len(t)])
<1> DEFINE N == Len(s)
<1>0. N \in Nat
  BY Zenon DEF Extends
<1>1. /\ N \in Nat /\ Len(t) = N + 1 /\ (\A n \in 1 .. N + 1 : t[n] \in R)
      /\ \A n \in 1 .. N : t[n] = s[n]
  BY Zenon DEF Extends
<1>2. \A n \in 1 .. N : s[n] \in R
  <2>1. \A n \in 1 .. N : n \in 1 .. N + 1
    BY <1>0
  <2> QED  BY <1>1, <2>1, Zenon
<1>3. PICK f : /\ f[0] = <<>> /\ \A n \in 1 .. N : f[n] = Glue(f[n - 1], s[n])
               /\ Joined(s) = f[N]
  BY <1>1, <1>2, JoinedIs
<1>4. PICK g : /\ g[0] = <<>> /\ \A n \in 1 .. N + 1 : g[n] = Glue(g[n - 1], t[n])
               /\ Joined(t) = g[N + 1]
  <2>0. N + 1 \in Nat
    BY <1>0
  <2>1. Len(t) \in Nat /\ \A n \in 1 .. Len(t) : t[n] \in R
    BY <1>1, <2>0, Zenon
  <2> QED  BY <1>1, <2>1, JoinedIs
<1> HIDE DEF N
<1> DEFINE T == {n \in 0 .. N : f[n] = g[n]}
<1>5. 0 \in T
  <2>1. 0 \in 0 .. N
    BY <1>0
  <2> QED  BY <1>3, <1>4, <2>1, Zenon
<1>6. ASSUME NEW n \in 1 .. N, n - 1 \in T PROVE n \in T
  <2>1. n \in 1 .. N + 1 /\ n \in 0 .. N
    BY <1>1
  <2>2. f[n] = Glue(f[n - 1], s[n]) /\ g[n] = Glue(g[n - 1], t[n]) /\ t[n] = s[n]
    BY <1>1, <1>3, <1>4, <2>1
  <2> QED  BY <1>6, <2>1, <2>2, Zenon
<1> HIDE DEF T
<1>7. \A n \in 1 .. N : n - 1 \in T => n \in T
  BY <1>6
<1>8. \A n \in 0 .. N : n \in T
  BY <1>1, <1>5, <1>7, UpTo
<1>9. f[N] = g[N]
  BY <1>1, <1>8 DEF T
<1>10. N + 1 \in 1 .. N + 1 /\ (N + 1) - 1 = N
  BY <1>1
<1>11. g[N + 1] = Glue(g[N], t[N + 1])
  BY <1>4, <1>10
<1> QED  BY <1>1, <1>3, <1>4, <1>9, <1>11

\* The chunks v are the chunks w and the next one, from m to n, of the data.
Delivers(data, m, n, w, v) ==
    /\ data \in Seq(Nat) /\ m \in Nat /\ n \in Nat /\ m <= n /\ n <= Len(data)
    /\ Len(w) \in Nat /\ (\A k \in 1 .. Len(w) : w[k] \in Seq(Nat)) /\ (Len(w) = 0 => w = <<>>)
    /\ Len(v) = Len(w) + 1 /\ \A k \in 1 .. Len(w) : v[k] = w[k]
    /\ v[Len(v)] = SubSeq(data, m + 1, n) /\ Joined(w) = SubSeq(data, 1, m)

\* A chunk more delivers as much more of the data.
LEMMA ChunkDelivered ==
    ASSUME NEW data, NEW m, NEW n, NEW w, NEW v, Delivers(data, m, n, w, v)
    PROVE  Joined(v) = SubSeq(data, 1, n)
<1>0. /\ data \in Seq(Nat) /\ m \in Nat /\ n \in Nat /\ m <= n /\ n <= Len(data)
      /\ Len(w) \in Nat /\ Len(v) = Len(w) + 1 /\ v[Len(v)] = SubSeq(data, m + 1, n)
      /\ Joined(w) = SubSeq(data, 1, m)
  BY DEF Delivers
<1>1. SubSeq(data, m + 1, n) \in Seq(Nat)
  BY <1>0, SubSeqIs
<1>2. ASSUME NEW k \in 1 .. Len(v) PROVE v[k] \in Seq(Nat)
  <2>1. CASE k \in 1 .. Len(w)
    BY <2>1, Zenon DEF Delivers
  <2>2. CASE k \notin 1 .. Len(w)
    <3>1. k = Len(v)
      BY <1>0, <2>2
    <3> QED  BY <1>0, <1>1, <3>1, Zenon
  <2> QED  BY <2>1, <2>2, Zenon
<1>3. Joined(v) = Glue(Joined(w), v[Len(v)])
  <2> DEFINE R == Seq(Nat)
  <2>1. Glues(R) /\ \A k \in 1 .. Len(v) : v[k] \in R
    BY <1>2, SeqGlues
  <2>2. \A k \in 1 .. Len(w) : w[k] \in R
    BY DEF Delivers
  <2> HIDE DEF R
  <2>3. Extends(R, w, v)
    BY <2>1, <2>2, Zenon DEF Extends, Delivers
  <2> QED  BY <2>1, <2>3, JoinedMore, Zenon
<1>4. Joined(v) = SubSeq(data, 1, m) \o SubSeq(data, m + 1, n)
  BY <1>0, <1>3 DEF Glue
<1> QED  BY <1>0, <1>4, SlicesJoin, Zenon

-----------------------------------------------------------------------------
(* The calls of the 9P client.                                             *)

CallRecord ==
    [op : ClientOp \cup {"none"}, path : File \cup {RootPath}, data : Seq(Nat),
     at : {"idle", "attach", "walk", "open", "transfer", "clunk"}, off : Nat,
     got : Seq(Nat), ok : BOOLEAN]

\* g consists of pieces of the versions s of a file; it reaches the end of one.
Pieces(g, s) == \A i \in 1 .. Len(g) : \E v \in s : i <= Len(v) /\ v[i] = g[i]
Whole(g, s) == \E v \in s : Len(v) <= Len(g)

\* g is what such pieces are as text.
AsText(g, s) == \E raw \in Seq(Nat) : Pieces(raw, s) /\ Whole(raw, s) /\ g = Lossy(raw)

\* What call c has read of the versions s of its file, and what it has returned.
ReadGood(c, s) ==
    /\ c.op # "write" => c.off = Len(c.got)
    /\ c.op = "read" =>
         /\ c.at # "idle" => Pieces(c.got, s)
         /\ c.at = "clunk" => Whole(c.got, s)
         /\ c.at = "idle" /\ c.ok => AsText(c.got, s)

\* What call c has delivered in the chunks w.
WriteGood(c, w) ==
    /\ \A k \in 1 .. Len(w) : w[k] \in Seq(Nat) /\ Len(w[k]) \in 1 .. Payload
    /\ c.op = "write" =>
         /\ c.off <= Len(c.data) /\ Joined(w) = SubSeq(c.data, 1, c.off)
         /\ c.at \in {"attach", "walk", "open"} => c.off = 0
         /\ c.at = "transfer" => c.off < Len(c.data)
         /\ c.at = "clunk" \/ (c.at = "idle" /\ c.ok) => c.off = Len(c.data)

FidsGood(F) ==
    /\ DOMAIN F \subseteq {RootFid, WalkFid}
    /\ \A f \in DOMAIN F : F[f] \in File \cup {RootPath}

\* The fid that call c works on.
OwnFid(c, F) ==
    c.at \in {"open", "transfer"} =>
        /\ WalkFid \in DOMAIN F
        /\ F[WalkFid] = IF c.op \in Creates THEN Parent[c.path] ELSE c.path

Chunk == Seq(Nat)

ClientInv ==
    /\ call \in CallRecord /\ file \in [File -> Seq(Nat)]
    /\ seen \subseteq Seq(Nat)
    /\ call.path = RootPath => call.op \in {"ls", "none"}
    /\ call.at # "idle" /\ call.path \in File => file[call.path] \in seen
    /\ FidsGood(fids) /\ OwnFid(call, fids)
    /\ ReadGood(call, seen)
    /\ wrote \in Seq(Chunk)
    /\ WriteGood(call, wrote)
    /\ made \in 0 .. MaxClientCalls

LEMMA ClientConstants ==
    /\ RootPath \notin File /\ Payload \in Nat \ {0} /\ MaxClientCalls \in Nat
    /\ \A p \in File : Parent[p] \in File \cup {RootPath}
    /\ \A t \in Text : t \in Seq(Nat)
BY ClientAssumption DEF ClientAssumption

\* The fields of a call after a step of its program counter.
LEMMA MovesOn ==
    ASSUME NEW c \in CallRecord, NEW b \in BOOLEAN,
           NEW a \in {"idle", "attach", "walk", "open", "transfer", "clunk"}
    PROVE  LET d == [c EXCEPT !.at = a]
               e == [c EXCEPT !.at = a, !.ok = b]
           IN  /\ d \in CallRecord /\ e \in CallRecord
               /\ d.op = c.op /\ d.path = c.path /\ d.data = c.data /\ d.at = a
               /\ d.off = c.off /\ d.got = c.got /\ d.ok = c.ok
               /\ e.op = c.op /\ e.path = c.path /\ e.data = c.data /\ e.at = a
               /\ e.off = c.off /\ e.got = c.got /\ e.ok = b
BY Zenon DEF CallRecord

LEMMA Ends ==
    ASSUME NEW c \in CallRecord, NEW b \in BOOLEAN
    PROVE  LET e == [c EXCEPT !.at = "idle", !.ok = b] IN e.at = "idle" /\ e.ok = b
BY Zenon DEF CallRecord

LEMMA ClientInitInv == ClientInit => ClientInv
<1> SUFFICES ASSUME ClientInit PROVE ClientInv
  OBVIOUS
<1>1. /\ call = NoCall /\ seen = {} /\ wrote = <<>> /\ made = 0 /\ fids = <<>>
      /\ file \in [File -> Text]
  BY DEF ClientInit
<1>2. NoCall \in CallRecord /\ NoCall.op = "none" /\ NoCall.at = "idle"
      /\ NoCall.off = 0 /\ Len(NoCall.got) = 0
  <2> DEFINE none == <<>>
  <2>1. none \in Seq(Nat) /\ Len(none) = 0 /\ 0 \in Nat
    OBVIOUS
  <2>2. NoCall = [op |-> "none", path |-> RootPath, data |-> none, at |-> "idle", off |-> 0,
                  got |-> none, ok |-> FALSE]
    BY Zenon DEF NoCall
  <2> HIDE DEF none
  <2>3. NoCall \in CallRecord
    BY <2>1, <2>2, Zenon DEF CallRecord
  <2>4. NoCall.op = "none" /\ NoCall.at = "idle" /\ NoCall.off = 0 /\ NoCall.got = none
    BY <2>2, Zenon
  <2> QED  BY <2>1, <2>3, <2>4, Zenon
<1>3. file \in [File -> Seq(Nat)] /\ made \in 0 .. MaxClientCalls
  BY <1>1, ClientConstants
<1>4. FidsGood(fids) /\ OwnFid(call, fids)
  <2>1. DOMAIN fids = {}
    BY <1>1
  <2>2. call.at \notin {"open", "transfer"}
    BY <1>1, <1>2
  <2> QED  BY <2>1, <2>2, Zenon DEF FidsGood, OwnFid
<1>5. ReadGood(call, seen)
  BY <1>1, <1>2 DEF ReadGood
<1>6. Len(wrote) = 0 /\ wrote \in Seq(Chunk)
  BY <1>1
<1>7. WriteGood(call, wrote)
  BY <1>1, <1>2, <1>6 DEF WriteGood
<1> QED  BY <1>1, <1>2, <1>3, <1>4, <1>5, <1>6, <1>7 DEF ClientInv

\* A call begins.
LEMMA CallInv ==
    ASSUME ClientInv, NEW op \in ClientOp, NEW p \in File \cup {RootPath}, NEW d \in Text,
           Call(op, p, d)
    PROVE  ClientInv'
<1> DEFINE none == <<>>
           c == [op |-> op, path |-> p, data |-> d, at |-> "attach", off |-> 0,
                 got |-> none, ok |-> FALSE]
<1>1. /\ call' = c /\ wrote' = <<>> /\ made' = made + 1 /\ made < MaxClientCalls
      /\ seen' = (IF p = RootPath THEN {} ELSE {file[p]}) /\ UNCHANGED <<file, fids>>
      /\ p = RootPath => op = "ls"
  BY Zenon DEF Call, NoCall
<1>2. d \in Seq(Nat) /\ none \in Seq(Nat)
  BY ClientConstants
<1> HIDE DEF none
<1>3. c \in CallRecord
  BY <1>2 DEF CallRecord
<1>4. /\ c.op = op /\ c.path = p /\ c.data = d /\ c.at = "attach" /\ c.off = 0
      /\ c.got = <<>> /\ c.ok = FALSE
  BY DEF none
<1> HIDE DEF c
<1>5. file \in [File -> Seq(Nat)] /\ made \in Nat /\ MaxClientCalls \in Nat /\ FidsGood(fids)
  <2>1. file \in [File -> Seq(Nat)] /\ FidsGood(fids) /\ made \in 0 .. MaxClientCalls
    BY Zenon DEF ClientInv
  <2>2. MaxClientCalls \in Nat
    BY ClientConstants, Zenon
  <2>3. made \in Nat
    BY <2>1, <2>2
  <2> QED  BY <2>1, <2>2, <2>3, Zenon
<1>6. seen' \subseteq Seq(Nat) /\ (p \in File => file[p] \in seen') /\ made' \in 0 .. MaxClientCalls
  <2>1. made' \in 0 .. MaxClientCalls
    BY <1>1, <1>5
  <2>2. p \in File \/ p = RootPath
    OBVIOUS
  <2>3. RootPath \notin File /\ (p \in File => file[p] \in Seq(Nat))
    BY <1>5, ClientConstants, Zenon
  <2> QED  BY <1>1, <2>1, <2>2, <2>3, Zenon
<1>7. OwnFid(c, fids)
  BY <1>4, Zenon DEF OwnFid
<1>8. ReadGood(c, seen')
  <2>1. Len(c.got) = 0
    BY <1>4
  <2>2. \A i \in 1 .. Len(c.got) : FALSE
    BY <2>1
  <2> QED  BY <1>4, <2>1, <2>2, Zenon DEF ReadGood, Pieces
<1>9. Len(wrote') = 0 /\ wrote' \in Seq(Chunk)
  BY <1>1
<1>10. WriteGood(c, wrote')
  <2>1. SubSeq(d, 1, 0) = <<>> /\ Len(d) \in Nat
    BY <1>2
  <2>2. Joined(wrote') = SubSeq(c.data, 1, c.off)
    BY <1>1, <1>4, <2>1, NoChunks, Zenon
  <2>3. \A k \in 1 .. Len(wrote') : FALSE
    BY <1>9
  <2>4. c.off <= Len(c.data)
    BY <1>4, <2>1
  <2> QED  BY <1>4, <2>2, <2>3, <2>4, Zenon DEF WriteGood
<1> QED  BY <1>1, <1>3, <1>4, <1>5, <1>6, <1>7, <1>8, <1>9, <1>10, Zenon DEF ClientInv

\* A step that moves the call on and touches neither files nor chunks.
LEMMA QuietInv ==
    ASSUME ClientInv, UNCHANGED <<file, seen, wrote, made>>, FidsGood(fids'),
           NEW a \in {"idle", "attach", "walk", "open", "transfer", "clunk"}, NEW b \in BOOLEAN,
           call' = [call EXCEPT !.at = a] \/ call' = [call EXCEPT !.at = a, !.ok = b],
           call.at # "idle", OwnFid(call', fids'),
           call.op = "read" => a # "clunk" /\ ~ (a = "idle" /\ call'.ok),
           call.op = "write" =>
             /\ a \in {"attach", "walk", "open"} => call.off = 0
             /\ a = "transfer" => call.off < Len(call.data)
             /\ a = "clunk" \/ (a = "idle" /\ call'.ok) => call.off = Len(call.data)
    PROVE  ClientInv'
<1>1. call \in CallRecord
  BY DEF ClientInv
<1>2. /\ call' \in CallRecord /\ call'.op = call.op /\ call'.path = call.path
      /\ call'.data = call.data /\ call'.at = a /\ call'.off = call.off /\ call'.got = call.got
  <2>1. CASE call' = [call EXCEPT !.at = a]
    BY <1>1, <2>1, Zenon DEF CallRecord
  <2>2. CASE call' = [call EXCEPT !.at = a, !.ok = b]
    BY <1>1, <2>2, Zenon DEF CallRecord
  <2> QED  BY <2>1, <2>2, Zenon
<1>3. ReadGood(call, seen) /\ WriteGood(call, wrote)
  BY DEF ClientInv
<1>4. ReadGood(call', seen')
  <2>1. /\ call'.op # "write" => call'.off = Len(call'.got)
        /\ call'.op = "read" => Pieces(call'.got, seen')
    BY <1>2, <1>3, Zenon DEF ReadGood
  <2>2. call'.op = "read" => call'.at # "clunk" /\ ~ (call'.at = "idle" /\ call'.ok)
    BY <1>2, Zenon
  <2> QED  BY <2>1, <2>2, Zenon DEF ReadGood
<1>5. WriteGood(call', wrote')
  BY <1>2, <1>3, Zenon DEF WriteGood
<1> QED  BY <1>2, <1>4, <1>5, Zenon DEF ClientInv

\* Walking, opening and failing.
LEMMA MovesInv ==
    ASSUME ClientInv,
           Fails \/ Attach \/ Walk \/ Opened \/ Stat \/ Create \/ RemoveFid
    PROVE  ClientInv'
<1>0. /\ call \in CallRecord /\ FidsGood(fids) /\ OwnFid(call, fids) /\ WriteGood(call, wrote)
      /\ call.op \in ClientOp \cup {"none"} /\ call.path \in File \cup {RootPath}
      /\ call.path = RootPath => call.op \in {"ls", "none"}
  BY Zenon DEF ClientInv, CallRecord
<1>1. CASE Fails
  <2>1. /\ call.at # "idle" /\ UNCHANGED <<file, fids, seen, wrote, made>>
        /\ call' = [call EXCEPT !.at = "idle", !.ok = FALSE]
    BY <1>1 DEF Fails
  <2>2. call'.at = "idle" /\ call'.ok = FALSE
    BY <1>0, <2>1, Ends, Zenon
  <2>3. OwnFid(call', fids') /\ FidsGood(fids')
    BY <1>0, <2>1, <2>2 DEF OwnFid
  <2> QED  BY <2>1, <2>2, <2>3, QuietInv, Zenon
<1>2. CASE Attach
  <2>1. /\ call.at = "attach" /\ UNCHANGED <<file, seen, wrote, made>>
        /\ call' = [call EXCEPT !.at = "walk"] /\ SetFid(RootFid, RootPath)
    BY <1>2 DEF Attach, Goto
  <2>2. call'.at = "walk"
    BY <1>0, <2>1, MovesOn, Zenon
  <2>3. FidsGood(fids')
    BY <1>0, <2>1 DEF FidsGood, SetFid
  <2>4. OwnFid(call', fids')
    BY <2>2 DEF OwnFid
  <2>5. call.op = "write" => call.off = 0
    BY <1>0, <2>1 DEF WriteGood
  <2> QED  BY <2>1, <2>2, <2>3, <2>4, <2>5, QuietInv, Zenon
<1>3. CASE Walk
  <2> DEFINE a == IF call.op \in {"read", "write", "ls"} THEN "open" ELSE "transfer"
  <2>1. /\ call.at = "walk" /\ UNCHANGED <<file, seen, wrote, made>>
        /\ call' = [call EXCEPT !.at = a] /\ SetFid(WalkFid, WalkTarget)
    BY <1>3 DEF Walk, Goto
  <2>2. /\ a \in {"open", "transfer"} /\ (call.op = "write" => a = "open")
        /\ (call.op = "read" => a = "open")
    OBVIOUS
  <2> HIDE DEF a
  <2>3. call'.at = a /\ call'.op = call.op /\ call'.path = call.path
    BY <1>0, <2>1 DEF CallRecord
  <2>4. WalkTarget \in File \cup {RootPath}
    BY <1>0, ClientConstants DEF WalkTarget, Creates
  <2>5. FidsGood(fids') /\ WalkFid \in DOMAIN fids' /\ fids'[WalkFid] = WalkTarget
    BY <1>0, <2>1, <2>4 DEF FidsGood, SetFid
  <2>6. OwnFid(call', fids')
    BY <2>3, <2>5 DEF OwnFid, WalkTarget
  <2>7. call.op = "write" => call.off = 0
    BY <1>0, <2>1 DEF WriteGood
  <2> QED  BY <2>1, <2>2, <2>3, <2>5, <2>6, <2>7, QuietInv, Zenon
<1>4. CASE Opened
  <2> DEFINE a == IF call.op = "write" /\ call.data = <<>> THEN "clunk" ELSE "transfer"
  <2>1. /\ call.at = "open" /\ UNCHANGED <<file, fids, seen, wrote, made>>
        /\ call' = [call EXCEPT !.at = a]
    BY <1>4 DEF Opened, Goto
  <2>2. a \in {"clunk", "transfer"} /\ (call.op = "read" => a = "transfer")
    OBVIOUS
  <2>3. call.op = "write" => call.off = 0 /\ Len(call.data) \in Nat
                               /\ (Len(call.data) = 0 <=> call.data = <<>>)
    BY <1>0, <2>1 DEF WriteGood, CallRecord
  <2>4. call.op = "write" => /\ a = "transfer" => call.off < Len(call.data)
                             /\ a = "clunk" => call.off = Len(call.data)
    BY <2>3
  <2> HIDE DEF a
  <2>5. call'.at = a /\ call'.op = call.op /\ call'.path = call.path
    BY <1>0, <2>1 DEF CallRecord
  <2>6. OwnFid(call', fids') /\ FidsGood(fids')
    BY <1>0, <2>1, <2>5 DEF OwnFid
  <2> QED  BY <2>1, <2>2, <2>4, <2>5, <2>6, QuietInv, Zenon
<1>5. CASE Stat \/ Create
  <2>1. /\ call.at = "transfer" /\ UNCHANGED <<file, seen, wrote, made>>
        /\ call' = [call EXCEPT !.at = "clunk"] /\ call.op \in Creates \cup {"stat"}
        /\ UNCHANGED fids \/ SetFid(WalkFid, call.path)
    BY <1>5 DEF Stat, Create, Goto
  <2>2. call'.at = "clunk"
    BY <1>0, <2>1, MovesOn, Zenon
  <2>3. FidsGood(fids')
    BY <1>0, <2>1 DEF FidsGood, SetFid
  <2>4. OwnFid(call', fids')
    BY <2>2 DEF OwnFid
  <2>5. call.op \notin {"read", "write"}
    BY <2>1 DEF Creates
  <2> QED  BY <2>1, <2>2, <2>3, <2>4, <2>5, QuietInv, Zenon
<1>6. CASE RemoveFid
  <2>1. /\ call.at = "transfer" /\ call.op = "remove" /\ UNCHANGED <<file, fids, seen, wrote, made>>
        /\ call' = [call EXCEPT !.at = "idle", !.ok = TRUE]
    BY <1>6 DEF RemoveFid
  <2>2. call'.at = "idle"
    BY <1>0, <2>1, Ends, Zenon
  <2>3. OwnFid(call', fids') /\ FidsGood(fids')
    BY <1>0, <2>1, <2>2 DEF OwnFid
  <2> QED  BY <2>1, <2>2, <2>3, QuietInv, Zenon
<1> QED  BY <1>1, <1>2, <1>3, <1>4, <1>5, <1>6

\* The two parts of what has been read.
LEMMA JoinIs ==
    ASSUME NEW p \in Seq(Nat), NEW q \in Seq(Nat)
    PROVE  /\ p \o q \in Seq(Nat) /\ Len(p \o q) = Len(p) + Len(q)
           /\ \A i \in 1 .. Len(p) : (p \o q)[i] = p[i]
           /\ \A i \in 1 .. Len(q) : (p \o q)[Len(p) + i] = q[i]
BY ConcatIs

\* The text of a sequence of bytes has a byte or U+FFFD for each of them.
LEMMA LossyIs ==
    ASSUME NEW s \in Seq(Nat)
    PROVE  /\ Lossy(s) \in Seq(Nat) /\ Len(Lossy(s)) = Len(s) /\ DOMAIN Lossy(s) = 1 .. Len(s)
           /\ \A i \in 1 .. Len(s) : Lossy(s)[i] = s[i] \/ Lossy(s)[i] = Replacement
<1> DEFINE n == Len(s)
           t == [i \in 1 .. n |-> IF IsText(s, i) THEN s[i] ELSE Replacement]
<1>1. n \in Nat /\ (\A i \in 1 .. n : s[i] \in Nat) /\ Replacement \in Nat
  BY ClientAssumption DEF ClientAssumption
<1>2. Lossy(s) = t
  BY DEF Lossy
<1> HIDE DEF n
<1>3. \A i \in 1 .. n : t[i] \in Nat /\ (t[i] = s[i] \/ t[i] = Replacement)
  BY <1>1
<1>4. t \in [1 .. n -> Nat]
  BY <1>1
<1> HIDE DEF t
<1>5. t \in Seq(Nat) /\ Len(t) = n
  BY <1>1, <1>4
<1>6. DOMAIN t = 1 .. n
  BY <1>4, Zenon
<1> QED  BY <1>2, <1>3, <1>5, <1>6, Zenon DEF n

\* Tclunk ends the call; what was read is returned as text.
LEMMA ClunkInv == ASSUME ClientInv, Clunk PROVE ClientInv'
<1> DEFINE g == IF call.op = "read" THEN Lossy(call.got) ELSE call.got
<1>1. /\ call.at = "clunk" /\ UNCHANGED <<file, seen, wrote, made>>
      /\ call' = [call EXCEPT !.at = "idle", !.ok = TRUE, !.got = g]
      /\ UNCHANGED fids \/ fids' = [f \in DOMAIN fids \ {WalkFid} |-> fids[f]]
  BY DEF Clunk
<1>2. /\ call \in CallRecord /\ FidsGood(fids) /\ WriteGood(call, wrote) /\ ReadGood(call, seen)
      /\ call.got \in Seq(Nat)
  BY Zenon DEF ClientInv, CallRecord
<1>3. /\ g \in Seq(Nat) /\ Len(g) = Len(call.got)
      /\ call.op = "read" => g = Lossy(call.got)
  BY <1>2, LossyIs, Zenon
<1> HIDE DEF g
<1>4. /\ call' \in CallRecord /\ call'.op = call.op /\ call'.path = call.path
      /\ call'.data = call.data /\ call'.at = "idle" /\ call'.off = call.off /\ call'.got = g
  BY <1>1, <1>2, <1>3, Zenon DEF CallRecord
<1>5. FidsGood(fids')
  BY <1>1, <1>2 DEF FidsGood
<1>6. OwnFid(call', fids')
  BY <1>4, Zenon DEF OwnFid
<1>7. ReadGood(call', seen')
  <2>1. call.op = "read" => AsText(g, seen)
    BY <1>1, <1>2, <1>3, Zenon DEF ReadGood, AsText
  <2>2. call.op # "write" => call.off = Len(g)
    BY <1>2, <1>3, Zenon DEF ReadGood
  <2> QED  BY <1>1, <1>4, <2>1, <2>2, Zenon DEF ReadGood
<1>8. WriteGood(call', wrote')
  BY <1>1, <1>2, <1>4, Zenon DEF WriteGood
<1> QED  BY <1>1, <1>4, <1>5, <1>6, <1>7, <1>8, Zenon DEF ClientInv

LEMMA PastTheEnd ==
    ASSUME NEW S, NEW s \in Seq(S), NEW m \in Nat, m >= Len(s)
    PROVE  SubSeq(s, m + 1, Len(s)) = <<>>
<1>1. Len(s) \in Nat
  OBVIOUS
<1>2. SubSeq(s, m + 1, Len(s)) \in Seq(S) /\ Len(SubSeq(s, m + 1, Len(s))) = 0
  BY <1>1
<1> QED  BY <1>2

LEMMA SuffixIs ==
    ASSUME NEW S, NEW s \in Seq(S), NEW m \in Nat, m < Len(s)
    PROVE  /\ SubSeq(s, m + 1, Len(s)) \in Seq(S) /\ Len(SubSeq(s, m + 1, Len(s))) = Len(s) - m
           /\ \A i \in 1 .. Len(s) - m : SubSeq(s, m + 1, Len(s))[i] = s[m + i]
<1> DEFINE n == Len(s)
<1>1. n \in Nat /\ m <= n /\ n <= Len(s)
  OBVIOUS
<1> HIDE DEF n
<1>2. /\ SubSeq(s, m + 1, n) \in Seq(S) /\ Len(SubSeq(s, m + 1, n)) = n - m
      /\ \A i \in 1 .. n - m : SubSeq(s, m + 1, n)[i] = s[m + i]
  BY <1>1, SubSeqIs
<1> QED  BY <1>2, Zenon DEF n

\* Read appends what the file holds from the offset on.
LEMMA ReadInv == ASSUME ClientInv, ReadFile PROVE ClientInv'
<1> DEFINE content == file[fids[WalkFid]]
           chunk == SubSeq(content, call.off + 1, Len(content))
<1>1. /\ call.at = "transfer" /\ call.op \in {"read", "ls"}
      /\ WalkFid \in DOMAIN fids /\ fids[WalkFid] # RootPath
      /\ UNCHANGED <<file, fids, seen, wrote, made>>
      /\ call' = IF chunk = <<>> THEN [call EXCEPT !.at = "clunk"]
                 ELSE [call EXCEPT !.got = @ \o chunk, !.off = @ + Len(chunk)]
  BY DEF ReadFile, ReadChunk
<1>2. /\ call \in CallRecord /\ FidsGood(fids) /\ OwnFid(call, fids) /\ ReadGood(call, seen)
      /\ file \in [File -> Seq(Nat)] /\ WriteGood(call, wrote)
      /\ call.path \in File => file[call.path] \in seen
  BY <1>1 DEF ClientInv
<1>3. call.off \in Nat /\ call.got \in Seq(Nat) /\ call.off = Len(call.got)
  BY <1>1, <1>2 DEF CallRecord, ReadGood
<1>4. fids[WalkFid] = call.path /\ call.path \in File /\ content \in Seq(Nat) /\ content \in seen
  <2>1. fids[WalkFid] = call.path
    BY <1>1, <1>2 DEF OwnFid, Creates
  <2>2. fids[WalkFid] \in File
    BY <1>1, <1>2 DEF FidsGood
  <2> QED  BY <1>2, <2>1, <2>2
<1> HIDE DEF content
<1>5. Len(content) \in Nat
  BY <1>4
<1>6. CASE call.off >= Len(content)
  <2>1. chunk = <<>>
    BY <1>3, <1>4, <1>6, PastTheEnd, Zenon
  <2> HIDE DEF chunk
  <2>2. call' = [call EXCEPT !.at = "clunk"]
    BY <1>1, <2>1, Zenon
  <2>3. /\ call' \in CallRecord /\ call'.op = call.op /\ call'.path = call.path
        /\ call'.data = call.data /\ call'.at = "clunk" /\ call'.off = call.off
        /\ call'.got = call.got
    BY <1>2, <2>2, Zenon DEF CallRecord
  <2>4. Len(content) <= Len(call.got)
    BY <1>3, <1>5, <1>6
  <2>5. ReadGood(call', seen')
    <3>1. Whole(call'.got, seen')
      BY <1>1, <1>4, <2>3, <2>4 DEF Whole
    <3>2. call'.op = "read" => Pieces(call'.got, seen')
      BY <1>1, <1>2, <2>3 DEF ReadGood
    <3> QED  BY <1>3, <2>3, <3>1, <3>2 DEF ReadGood
  <2>6. OwnFid(call', fids')
    BY <2>3 DEF OwnFid
  <2>7. call'.op # "write"
    BY <1>1, <2>3
  <2>8. WriteGood(call', wrote')
    BY <1>1, <1>2, <2>7, Zenon DEF WriteGood
  <2>9. call'.path \in File /\ call'.path # RootPath /\ file'[call'.path] \in seen'
    BY <1>1, <1>2, <1>4, <2>3
  <2> QED  BY <1>1, <1>2, <2>3, <2>5, <2>6, <2>8, <2>9, Zenon DEF ClientInv
<1>7. CASE call.off < Len(content)
  <2>1. /\ chunk \in Seq(Nat) /\ Len(chunk) = Len(content) - call.off
        /\ \A i \in 1 .. Len(content) - call.off : chunk[i] = content[call.off + i]
    <3>1. call.off \in Nat /\ call.off < Len(content)
      BY <1>3, <1>7
    <3> QED  BY <1>4, <3>1, SuffixIs, Zenon
  <2> HIDE DEF chunk
  <2>2. chunk # <<>>
    BY <1>3, <1>5, <1>7, <2>1
  <2> DEFINE g == call.got \o chunk
  <2>3. /\ g \in Seq(Nat) /\ Len(g) = Len(call.got) + Len(chunk)
        /\ \A i \in 1 .. Len(call.got) : g[i] = call.got[i]
        /\ \A i \in 1 .. Len(chunk) : g[Len(call.got) + i] = chunk[i]
    <3>1. call.got \in Seq(Nat) /\ chunk \in Seq(Nat)
      BY <1>3, <2>1, Zenon
    <3> QED  BY <3>1, JoinIs, Zenon
  <2>4. call' = [call EXCEPT !.got = g, !.off = call.off + Len(chunk)]
    BY <1>1, <2>2
  <2> HIDE DEF g
  <2>5. call.off + Len(chunk) \in Nat /\ Len(g) = call.off + Len(chunk)
    <3>1. /\ call.off \in Nat /\ call.off = Len(call.got) /\ Len(content) \in Nat
          /\ Len(chunk) = Len(content) - call.off /\ Len(g) = Len(call.got) + Len(chunk)
      BY <1>3, <1>5, <2>1, <2>3, Zenon
    <3> QED  BY <1>7, <3>1
  <2>6. /\ call' \in CallRecord /\ call'.op = call.op /\ call'.path = call.path
        /\ call'.data = call.data /\ call'.at = "transfer" /\ call'.off = Len(g)
        /\ call'.got = g
    BY <1>1, <1>2, <2>3, <2>4, <2>5, Zenon DEF CallRecord
  <2>7. ASSUME call.op = "read", NEW i \in 1 .. Len(g)
        PROVE  \E v \in seen : i <= Len(v) /\ v[i] = g[i]
    <3>1. CASE i \in 1 .. Len(call.got)
      <4>1. \E v \in seen : i <= Len(v) /\ v[i] = call.got[i]
        <5>1. Pieces(call.got, seen)
          BY <1>1, <1>2, <2>7 DEF ReadGood
        <5> QED  BY <3>1, <5>1, Zenon DEF Pieces
      <4>2. g[i] = call.got[i]
        BY <2>3, <3>1
      <4> QED  BY <4>1, <4>2, Zenon
    <3>2. CASE i \notin 1 .. Len(call.got)
      <4>1. i - Len(call.got) \in 1 .. Len(chunk) /\ Len(call.got) + (i - Len(call.got)) = i
        <5>1. Len(call.got) \in Nat /\ Len(chunk) \in Nat
          BY <1>3, <2>1
        <5>2. i \in 1 .. Len(call.got) + Len(chunk)
          BY <2>3
        <5> HIDE DEF chunk
        <5> QED  BY <3>2, <5>1, <5>2
      <4> DEFINE k == i - Len(call.got)
      <4> HIDE DEF k
      <4>a. k \in 1 .. Len(chunk) /\ Len(call.got) + k = i
        BY <4>1, Zenon DEF k
      <4>b. g[i] = chunk[k]
        BY <2>3, <4>a, Zenon
      <4>c. chunk[k] = content[i]
        BY <1>3, <2>1, <4>a, Zenon
      <4>2. g[i] = content[i]
        BY <4>b, <4>c, Zenon
      <4>3. i <= Len(content)
        <5>1. k <= Len(content) - Len(call.got) /\ k \in Int
          <6>1. Len(chunk) = Len(content) - Len(call.got)
            BY <1>3, <2>1, Zenon
          <6> HIDE DEF chunk
          <6> QED  BY <4>a, <6>1
        <5>2. Len(call.got) \in Nat
          BY <1>3, Zenon
        <5> QED  BY <1>5, <4>a, <5>1, <5>2
      <4> QED  BY <1>4, <4>2, <4>3, Zenon
    <3> QED  BY <3>1, <3>2, Zenon
  <2>8. ReadGood(call', seen')
    <3>1. call.op = "read" => Pieces(g, seen)
      BY <2>7 DEF Pieces
    <3> QED  BY <1>1, <2>6, <3>1, Zenon DEF ReadGood
  <2>9. OwnFid(call', fids')
    BY <1>1, <1>2, <2>6, Zenon DEF OwnFid
  <2>10. call'.op # "write"
    BY <1>1, <2>6
  <2>11. WriteGood(call', wrote')
    BY <1>1, <1>2, <2>10, Zenon DEF WriteGood
  <2>12. call'.path \in File /\ call'.path # RootPath /\ file'[call'.path] \in seen'
    BY <1>1, <1>2, <1>4, <2>6
  <2> QED  BY <1>1, <1>2, <2>6, <2>8, <2>9, <2>11, <2>12, Zenon DEF ClientInv
<1> QED  BY <1>3, <1>5, <1>6, <1>7

LEMMA ListInv == ASSUME ClientInv, ReadDirectory PROVE ClientInv'
<1>1. /\ call.at = "transfer" /\ UNCHANGED <<file, fids, seen, wrote, made>>
      /\ call' = [call EXCEPT !.at = "clunk"] /\ fids[WalkFid] = RootPath
      /\ call.op \in {"read", "ls"}
  BY DEF ReadDirectory, Goto
<1>2. /\ call \in CallRecord /\ FidsGood(fids) /\ OwnFid(call, fids)
      /\ call.path = RootPath => call.op \in {"ls", "none"}
  BY DEF ClientInv
<1>3. call.op = "ls"
  BY <1>1, <1>2 DEF OwnFid, Creates
<1>4. call'.at = "clunk"
  BY <1>1, <1>2 DEF CallRecord
<1>5. OwnFid(call', fids') /\ FidsGood(fids')
  BY <1>1, <1>2, <1>4 DEF OwnFid
<1> QED  BY <1>1, <1>3, <1>4, <1>5, QuietInv, Zenon

\* A change of a file adds a version to those the call has seen.
LEMMA ChangeInv ==
    ASSUME ClientInv, NEW p \in File, NEW t \in Seq(Nat), call.at # "idle",
           file' = [file EXCEPT ![p] = t],
           seen' = IF p = call.path THEN seen \cup {t} ELSE seen
    PROVE  /\ file' \in [File -> Seq(Nat)] /\ seen' \subseteq Seq(Nat) /\ seen \subseteq seen'
           /\ call.path \in File => file'[call.path] \in seen'
           /\ ReadGood(call, seen')
<1>1. /\ file \in [File -> Seq(Nat)] /\ seen \subseteq Seq(Nat) /\ ReadGood(call, seen)
      /\ call.path \in File => file[call.path] \in seen
  BY DEF ClientInv
<1>2. file' \in [File -> Seq(Nat)] /\ seen' \subseteq Seq(Nat) /\ seen \subseteq seen'
  BY <1>1
<1>3. call.path \in File => file'[call.path] \in seen'
  BY <1>1
<1>4. ReadGood(call, seen')
  BY <1>1, <1>2, Zenon DEF ReadGood, Pieces, Whole
<1> QED  BY <1>2, <1>3, <1>4

\* The next chunk is not empty, fits a message and ends within the data.
LEMMA ChunkEndIs ==
    ASSUME NEW len \in Nat, NEW off \in Nat, off < len
    PROVE  /\ ChunkEnd(off, len) \in Nat /\ off < ChunkEnd(off, len) /\ ChunkEnd(off, len) <= len
           /\ ChunkEnd(off, len) - off \in 1 .. Payload
BY ClientConstants DEF ChunkEnd

LEMMA ChunkIs ==
    ASSUME NEW s \in Seq(Nat), NEW m \in Nat, NEW n \in Nat, m < n, n <= Len(s)
    PROVE  SubSeq(s, m + 1, n) \in Seq(Nat) /\ Len(SubSeq(s, m + 1, n)) = n - m
<1>1. m <= n
  OBVIOUS
<1> QED  BY <1>1, SubSeqIs

LEMMA WriteChunkInv == ASSUME ClientInv, WriteChunk PROVE ClientInv'
<1> DEFINE end == ChunkEnd(call.off, Len(call.data))
           chunk == SubSeq(call.data, call.off + 1, end)
           at == IF end < Len(call.data) THEN "transfer" ELSE "clunk"
<1>1. /\ call.at = "transfer" /\ call.op = "write" /\ WalkFid \in DOMAIN fids
      /\ fids[WalkFid] # RootPath /\ wrote' = Append(wrote, chunk)
      /\ file' = [file EXCEPT ![fids[WalkFid]] = chunk]
      /\ seen' = (IF fids[WalkFid] = call.path THEN seen \cup {chunk} ELSE seen)
      /\ call' = [call EXCEPT !.off = end, !.at = IF end < Len(call.data) THEN @ ELSE "clunk"]
      /\ UNCHANGED <<fids, made>>
  BY DEF WriteChunk
<1>2. /\ call \in CallRecord /\ FidsGood(fids) /\ OwnFid(call, fids) /\ WriteGood(call, wrote)
      /\ wrote \in Seq(Chunk) /\ ReadGood(call, seen)
  BY DEF ClientInv
<1>3. /\ call.off \in Nat /\ call.data \in Seq(Nat) /\ Len(call.data) \in Nat
      /\ call.off < Len(call.data)
  BY <1>1, <1>2 DEF CallRecord, WriteGood
<1>4. /\ end \in Nat /\ call.off < end /\ end <= Len(call.data) /\ end - call.off \in 1 .. Payload
  BY <1>3, ChunkEndIs
<1>5. at \in {"transfer", "clunk"} /\ (at = "transfer" => end < Len(call.data))
      /\ (at = "clunk" => end = Len(call.data))
  BY <1>3, <1>4
<1>6. call' = [call EXCEPT !.off = end, !.at = at]
  BY <1>1, <1>2 DEF CallRecord
<1> HIDE DEF end, at
<1>7. chunk \in Seq(Nat) /\ Len(chunk) = end - call.off
  BY <1>3, <1>4, ChunkIs, Zenon
<1>8. fids[WalkFid] \in File /\ fids[WalkFid] = call.path
  BY <1>1, <1>2 DEF FidsGood, OwnFid, Creates
<1>9. /\ wrote' \in Seq(Chunk) /\ Len(wrote') = Len(wrote) + 1 /\ Len(wrote) \in Nat
      /\ wrote'[Len(wrote')] = chunk /\ \A k \in 1 .. Len(wrote) : wrote'[k] = wrote[k]
      /\ Len(wrote) = 0 => wrote = <<>>
  <2>1. chunk \in Chunk
    BY <1>7, Zenon DEF Chunk
  <2> HIDE DEF chunk
  <2> QED  BY <1>1, <1>2, <2>1
<1>10. Joined(wrote') = SubSeq(call.data, 1, end)
  <2>1. /\ \A k \in 1 .. Len(wrote) : wrote[k] \in Seq(Nat)
        /\ Joined(wrote) = SubSeq(call.data, 1, call.off)
    BY <1>1, <1>2, Zenon DEF WriteGood
  <2>2. call.off <= end
    BY <1>3, <1>4
  <2>3. wrote'[Len(wrote')] = SubSeq(call.data, call.off + 1, end)
    BY <1>9, Zenon
  <2> HIDE DEF chunk
  <2>4. Delivers(call.data, call.off, end, wrote, wrote')
    BY <1>3, <1>4, <1>9, <2>1, <2>2, <2>3, Zenon DEF Delivers
  <2> QED  BY <2>4, ChunkDelivered, Zenon
<1>11. ASSUME NEW k \in 1 .. Len(wrote')
       PROVE  wrote'[k] \in Seq(Nat) /\ Len(wrote'[k]) \in 1 .. Payload
  <2>1. CASE k \in 1 .. Len(wrote)
    BY <1>2, <1>9, <2>1, Zenon DEF WriteGood
  <2>2. CASE k \notin 1 .. Len(wrote)
    <3>1. k = Len(wrote')
      BY <1>9, <2>2
    <3> QED  BY <1>4, <1>7, <1>9, <3>1, Zenon
  <2> QED  BY <2>1, <2>2, Zenon
<1>12. /\ file' \in [File -> Seq(Nat)] /\ seen' \subseteq Seq(Nat)
       /\ call.path \in File => file'[call.path] \in seen'
  <2>1. chunk \in Seq(Nat) /\ file' = [file EXCEPT ![fids[WalkFid]] = chunk]
        /\ seen' = IF fids[WalkFid] = call.path THEN seen \cup {chunk} ELSE seen
    BY <1>1, <1>7, Zenon
  <2> HIDE DEF chunk
  <2>2. call.at # "idle"
    BY <1>1
  <2> QED  BY <1>8, <2>1, <2>2, ChangeInv, Zenon
<1> HIDE DEF chunk
<1>13. /\ call' \in CallRecord /\ call'.op = "write" /\ call'.path = call.path
       /\ call'.data = call.data /\ call'.at = at /\ call'.off = end /\ call'.got = call.got
  BY <1>1, <1>2, <1>4, <1>5, <1>6, Zenon DEF CallRecord
<1>14. WriteGood(call', wrote')
  <2>1. /\ call'.off <= Len(call'.data) /\ Joined(wrote') = SubSeq(call'.data, 1, call'.off)
        /\ call'.at \notin {"attach", "walk", "open", "idle"}
        /\ call'.at = "transfer" => call'.off < Len(call'.data)
        /\ call'.at = "clunk" => call'.off = Len(call'.data)
    BY <1>4, <1>5, <1>10, <1>13
  <2> QED  BY <1>11, <2>1, Zenon DEF WriteGood
<1>15. ReadGood(call', seen')
  BY <1>13 DEF ReadGood
<1>16. OwnFid(call', fids') /\ FidsGood(fids')
  BY <1>1, <1>2, <1>8, <1>13 DEF OwnFid, Creates
<1>17. call'.path \in File /\ call'.path # RootPath /\ file'[call'.path] \in seen'
  BY <1>1, <1>8, <1>12, <1>13
<1>18. made' \in 0 .. MaxClientCalls
  BY <1>1, Zenon DEF ClientInv
<1> QED  BY <1>9, <1>12, <1>13, <1>14, <1>15, <1>16, <1>17, <1>18, Zenon DEF ClientInv

LEMMA FileChangesInv ==
    ASSUME ClientInv, NEW p \in File, NEW t \in Text, FileChanges(p, t)
    PROVE  ClientInv'
<1>1. /\ call.at # "idle" /\ file' = [file EXCEPT ![p] = t] /\ UNCHANGED <<fids, call, wrote, made>>
      /\ seen' = IF p = call.path THEN seen \cup {t} ELSE seen
  BY DEF FileChanges
<1>2. t \in Seq(Nat)
  BY ClientConstants
<1>3. /\ file' \in [File -> Seq(Nat)] /\ seen' \subseteq Seq(Nat)
      /\ call.path \in File => file'[call.path] \in seen'
      /\ ReadGood(call, seen')
  BY <1>1, <1>2, ChangeInv, Zenon
<1> QED  BY <1>1, <1>3, Zenon DEF ClientInv

LEMMA ClientNextInv == ClientInv /\ [ClientNext]_clientVars => ClientInv'
<1> SUFFICES ASSUME ClientInv, [ClientNext]_clientVars PROVE ClientInv'
  OBVIOUS
<1>1. CASE UNCHANGED clientVars
  BY <1>1, Zenon DEF clientVars, ClientInv
<1>2. ASSUME NEW op \in ClientOp, NEW p \in File \cup {RootPath}, NEW d \in Text, Call(op, p, d)
      PROVE  ClientInv'
  BY <1>2, CallInv
<1>3. ASSUME NEW p \in File, NEW t \in Text, FileChanges(p, t) PROVE ClientInv'
  BY <1>3, FileChangesInv
<1> QED  BY <1>1, <1>2, <1>3, MovesInv, ReadInv, ListInv, WriteChunkInv, ClunkInv, Zenon DEF ClientNext, CallStep

\* What is read consists of bytes of the file, what is written was delivered in
\* order, and fid 4 names the path of the call: the invariant behind the three
\* properties of the 9P client, kept by each message of a call and each change
\* of a file between two of them.
THEOREM ClientInvariant == ClientSpec => []ClientInv
BY ClientInitInv, ClientNextInv, PTL DEF ClientSpec

\* A call of the 9P client acts on the path it was given: fid 4, which every
\* call allocates anew and which an earlier call may have left in the listener's
\* table, is bound by this call's own walk before anything opens, reads, writes
\* or removes it.
THEOREM CallsActOnOwnPath == ClientSpec => []ActsOnOwnPath
<1>1. ClientInv => ActsOnOwnPath
  BY Zenon DEF ClientInv, OwnFid, ActsOnOwnPath, WalkTarget
<1> QED  BY <1>1, ClientInvariant, PTL

\* Pieces of one version that reach its end are that version.
LEMMA OneVersion ==
    ASSUME NEW raw \in Seq(Nat), NEW v \in Seq(Nat), Pieces(raw, {v}), Whole(raw, {v})
    PROVE  raw = v
<1>1. Len(raw) \in Nat /\ Len(v) \in Nat
  OBVIOUS
<1>2. Len(v) <= Len(raw)
  BY DEF Whole
<1>3. \A i \in 1 .. Len(raw) : i <= Len(v) /\ v[i] = raw[i]
  BY DEF Pieces
<1>4. Len(raw) <= Len(v)
  <2>1. CASE Len(raw) = 0
    BY <1>1, <2>1
  <2>2. CASE Len(raw) # 0
    <3>1. Len(raw) \in 1 .. Len(raw)
      BY <1>1, <2>2
    <3> QED  BY <1>3, <3>1, Zenon
  <2> QED  BY <2>1, <2>2
<1>5. Len(raw) = Len(v)
  BY <1>1, <1>2, <1>4
<1> QED  BY <1>3, <1>5, SameSeq

\* What read_file returns is the text of bytes that the file held at their places
\* during the call and is no shorter than some version of it, for any number of
\* changes between its Treads; a file that does not change is read exactly.
THEOREM ReadsReturnFile == ClientSpec => []ReadReturnsFile
<1>1. ClientInv => ReadReturnsFile
  <2> SUFFICES ASSUME ClientInv, call.op = "read", call.at = "idle", call.ok
               PROVE  /\ \A i \in DOMAIN call.got :
                           \/ \E v \in seen : i <= Len(v) /\ v[i] = call.got[i]
                           \/ call.got[i] = Replacement
                      /\ \E v \in seen : Len(v) <= Len(call.got)
                      /\ \A v \in seen : seen = {v} => call.got = Lossy(v)
    BY DEF ReadReturnsFile
  <2>1. ReadGood(call, seen) /\ seen \subseteq Seq(Nat)
    BY Zenon DEF ClientInv
  <2>2. PICK raw \in Seq(Nat) : Pieces(raw, seen) /\ Whole(raw, seen) /\ call.got = Lossy(raw)
    BY <2>1, Zenon DEF ReadGood, AsText
  <2>3. /\ call.got \in Seq(Nat) /\ Len(call.got) = Len(raw)
        /\ \A i \in 1 .. Len(raw) : call.got[i] = raw[i] \/ call.got[i] = Replacement
    BY <2>2, LossyIs, Zenon
  <2>4. DOMAIN call.got = 1 .. Len(raw)
    BY <2>2, LossyIs, Zenon
  <2>5. \A i \in DOMAIN call.got :
          \/ \E v \in seen : i <= Len(v) /\ v[i] = call.got[i]
          \/ call.got[i] = Replacement
    <3> SUFFICES ASSUME NEW i \in 1 .. Len(raw), call.got[i] = raw[i]
                 PROVE  \E v \in seen : i <= Len(v) /\ v[i] = call.got[i]
      BY <2>3, <2>4, Zenon
    <3> QED  BY <2>2, Zenon DEF Pieces
  <2>6. \E v \in seen : Len(v) <= Len(call.got)
    BY <2>2, <2>3, Zenon DEF Whole
  <2>7. ASSUME NEW v \in seen, seen = {v} PROVE call.got = Lossy(v)
    <3>1. v \in Seq(Nat) /\ Pieces(raw, {v}) /\ Whole(raw, {v})
      BY <2>1, <2>2, <2>7, Zenon
    <3>2. raw = v
      BY <3>1, OneVersion
    <3> QED  BY <2>2, <3>2, Zenon
  <2> QED  BY <2>5, <2>6, <2>7, Zenon
<1> QED  BY <1>1, ClientInvariant, PTL

\* When write_file returns, the handlers were given all of the data, in order
\* and in chunks of 1 to Payload bytes, whatever the length of the data.
THEOREM WritesAreDelivered == ClientSpec => []WriteDelivered
<1>1. ClientInv => WriteDelivered
  <2> SUFFICES ASSUME ClientInv PROVE WriteDelivered
    OBVIOUS
  <2>1. /\ WriteGood(call, wrote) /\ wrote \in Seq(Chunk) /\ call.data \in Seq(Nat)
        /\ call.op = "write" => call.off \in Nat
    BY DEF ClientInv, CallRecord
  <2>2. DOMAIN wrote = 1 .. Len(wrote)
    BY <2>1
  <2>3. SubSeq(call.data, 1, Len(call.data)) = call.data
    BY <2>1
  <2> QED  BY <2>1, <2>2, <2>3, Zenon DEF WriteGood, WriteDelivered
<1> QED  BY <1>1, ClientInvariant, PTL

-----------------------------------------------------------------------------
(* What a pass over a list keeps.                                          *)

Has(s, x) == \E i \in 1 .. Len(s) : s[i] = x

LEMMA Appended ==
    ASSUME NEW A, NEW s \in Seq(A), NEW e \in A
    PROVE  Append(s, e) \in Seq(A)
OBVIOUS

LEMMA Elements ==
    ASSUME NEW A, NEW s \in Seq(A)
    PROVE  \A i \in 1 .. Len(s) : s[i] \in A
OBVIOUS

LEMMA HasAppend ==
    ASSUME NEW A, NEW s \in Seq(A), NEW e \in A, NEW x
    PROVE  Has(Append(s, e), x) <=> Has(s, x) \/ x = e
<1> DEFINE t == Append(s, e)
<1>1. /\ Len(s) \in Nat /\ Len(t) = Len(s) + 1 /\ t[Len(t)] = e
      /\ \A i \in 1 .. Len(s) : t[i] = s[i]
  OBVIOUS
<1> HIDE DEF t
<1>2. \A i \in 1 .. Len(t) : i \in 1 .. Len(s) \/ i = Len(t)
  BY <1>1
<1>3. Len(t) \in 1 .. Len(t) /\ \A i \in 1 .. Len(s) : i \in 1 .. Len(t)
  BY <1>1
<1>4. Has(t, x) <=> Has(s, x) \/ x = e
  BY <1>1, <1>2, <1>3, Zenon DEF Has
<1> QED  BY <1>4 DEF t

LEMMA HasConcat ==
    ASSUME NEW A, NEW p \in Seq(A), NEW q \in Seq(A), NEW x
    PROVE  Has(p \o q, x) <=> Has(p, x) \/ Has(q, x)
<1> DEFINE t == p \o q
<1>1. /\ Len(p) \in Nat /\ Len(q) \in Nat /\ Len(t) = Len(p) + Len(q)
      /\ \A i \in 1 .. Len(p) : t[i] = p[i]
      /\ \A i \in 1 .. Len(q) : t[Len(p) + i] = q[i]
  <2>1. Len(p) \in Nat /\ Len(q) \in Nat
    OBVIOUS
  <2>2. /\ p \o q \in Seq(A) /\ Len(p \o q) = Len(p) + Len(q)
        /\ \A i \in 1 .. Len(p) : (p \o q)[i] = p[i]
        /\ \A i \in 1 .. Len(q) : (p \o q)[Len(p) + i] = q[i]
    BY ConcatIs
  <2> QED  BY <2>1, <2>2, Zenon
<1> HIDE DEF t
<1>2. ASSUME NEW i \in 1 .. Len(t), i \notin 1 .. Len(p)
      PROVE  i - Len(p) \in 1 .. Len(q) /\ t[i] = q[i - Len(p)]
  <2>1. i - Len(p) \in 1 .. Len(q) /\ Len(p) + (i - Len(p)) = i
    BY <1>1, <1>2
  <2> QED  BY <1>1, <2>1
<1>3. \A i \in 1 .. Len(p) : i \in 1 .. Len(t)
  BY <1>1
<1>4. \A i \in 1 .. Len(q) : Len(p) + i \in 1 .. Len(t)
  BY <1>1
<1>5. Has(t, x) <=> Has(p, x) \/ Has(q, x)
  BY <1>1, <1>2, <1>3, <1>4, Zenon DEF Has
<1> QED  BY <1>5 DEF t

KeepStep(s, e, S) == IF e \in S THEN Append(s, e) ELSE s

LEMMA KeptIs ==
    ASSUME NEW A, NEW seq \in Seq(A), NEW S
    PROVE  /\ Kept(seq, S)[0] = <<>>
           /\ \A n \in 1 .. Len(seq) : Kept(seq, S)[n] = KeepStep(Kept(seq, S)[n - 1], seq[n], S)
<1> DEFINE N == Len(seq)
           R == Seq(A)
           step == [n \in 1 .. N |-> [s \in R |-> KeepStep(s, seq[n], S)]]
           none == <<>>
           Body(f) == [n \in 0 .. N |->
                         IF n = 0 THEN none
                         ELSE IF seq[n] \in S THEN Append(f[n - 1], seq[n]) ELSE f[n - 1]]
<1>0. N \in Nat
  OBVIOUS
<1>1. none \in R
  OBVIOUS
<1>2. ASSUME NEW n \in 1 .. N, NEW s \in R PROVE KeepStep(s, seq[n], S) \in R
  BY DEF KeepStep
<1> HIDE DEF R, N, none
<1>3. step \in [1 .. N -> [R -> R]]
  BY <1>2
<1>4. \A n \in 1 .. N : \A s \in R : step[n][s] = KeepStep(s, seq[n], S)
  OBVIOUS
<1> HIDE DEF step
<1>a. Steps(R, none, N, step)
  BY <1>0, <1>1, <1>3, Zenon DEF Steps
<1>b. PICK f : IsRun(f, R, none, N, step)
  BY <1>a, Iterates, Zenon
<1>5. f \in [0 .. N -> R] /\ f[0] = none /\ \A n \in 1 .. N : f[n] = step[n][f[n - 1]]
  BY <1>b, Zenon DEF IsRun
<1>6. \A n \in 1 .. N : f[n] = KeepStep(f[n - 1], seq[n], S)
  <2>1. \A n \in 1 .. N : n - 1 \in 0 .. N
    BY <1>0
  <2>2. \A n \in 1 .. N : f[n - 1] \in R
    BY <1>5, <2>1, Zenon
  <2> QED  BY <1>4, <1>5, <2>2, Zenon
<1>7. f = Body(f)
  <2>1. \A n \in 0 .. N : f[n] = Body(f)[n]
    <3>1. \A n \in 0 .. N : f[n] = IF n = 0 THEN none ELSE KeepStep(f[n - 1], seq[n], S)
      <4>1. \A n \in 0 .. N : n = 0 \/ n \in 1 .. N
        BY <1>0
      <4> QED  BY <1>5, <1>6, <4>1, Zenon
    <3> QED  BY <3>1 DEF KeepStep
  <2>2. f = [n \in 0 .. N |-> f[n]] /\ Body(f) = [n \in 0 .. N |-> Body(f)[n]]
    BY <1>5
  <2> HIDE DEF Body
  <2> QED  BY <2>1, <2>2, Zenon
<1>8. Kept(seq, S) = Body(Kept(seq, S))
  <2>1. Kept(seq, S) = CHOOSE g : g = Body(g)
    BY DEF Kept, N, none
  <2> HIDE DEF Body
  <2> QED  BY <1>7, <2>1, Zenon
<1>9. \A n \in 0 .. N :
        Kept(seq, S)[n] = IF n = 0 THEN none ELSE KeepStep(Kept(seq, S)[n - 1], seq[n], S)
  <2> DEFINE m == Kept(seq, S)
  <2>1. m = Body(m)
    BY <1>8, Zenon
  <2> HIDE DEF m
  <2>2. \A n \in 0 .. N : m[n] = IF n = 0 THEN none ELSE KeepStep(m[n - 1], seq[n], S)
    BY <1>0, <2>1, Zenon DEF KeepStep
  <2> QED  BY <2>2 DEF m
<1>10. 0 \in 0 .. N /\ \A n \in 1 .. N : n \in 0 .. N /\ n # 0
  BY <1>0
<1> QED  BY <1>9, <1>10, Zenon DEF N, none

\* Retain keeps the elements of S and no others.
LEMMA RetainIs ==
    ASSUME NEW A, NEW seq \in Seq(A), NEW S
    PROVE  /\ Retain(seq, S) \in Seq(A)
           /\ \A x : Has(Retain(seq, S), x) <=> Has(seq, x) /\ x \in S
<1> DEFINE N == Len(seq)
           k == Kept(seq, S)
           In(x, n) == \E i \in 1 .. n : seq[i] = x
           T == {n \in 0 .. N : /\ k[n] \in Seq(A)
                                /\ \A x : Has(k[n], x) <=> In(x, n) /\ x \in S}
<1>0. N \in Nat /\ \A n \in 1 .. N : seq[n] \in A
  OBVIOUS
<1>1. k[0] = <<>> /\ \A n \in 1 .. N : k[n] = KeepStep(k[n - 1], seq[n], S)
  BY KeptIs
<1> HIDE DEF k, N
<1>2. 0 \in T
  <2>1. k[0] \in Seq(A) /\ Len(k[0]) = 0
    BY <1>1
  <2>2. \A x : ~Has(k[0], x) /\ ~In(x, 0)
    BY <2>1 DEF Has
  <2> QED  BY <1>0, <2>1, <2>2
<1>3. ASSUME NEW n \in 1 .. N, n - 1 \in T PROVE n \in T
  <2>1. k[n - 1] \in Seq(A) /\ \A x : Has(k[n - 1], x) <=> In(x, n - 1) /\ x \in S
    BY <1>3
  <2>2. \A x : In(x, n) <=> In(x, n - 1) \/ x = seq[n]
    <3>1. n \in 1 .. n /\ \A i \in 1 .. n : i \in 1 .. (n - 1) \/ i = n
      BY <1>0
    <3>2. \A i \in 1 .. (n - 1) : i \in 1 .. n
      BY <1>0
    <3> QED  BY <3>1, <3>2, Zenon
  <2> HIDE DEF In
  <2>3. CASE seq[n] \in S
    <3>1. k[n] = Append(k[n - 1], seq[n])
      BY <1>1, <2>3, Zenon DEF KeepStep
    <3>2. k[n] \in Seq(A)
      BY <1>0, <2>1, <3>1
    <3>3. \A x : Has(k[n], x) <=> Has(k[n - 1], x) \/ x = seq[n]
      <4>1. seq[n] \in A
        BY <1>0
      <4>2. \A x : Has(Append(k[n - 1], seq[n]), x) <=> Has(k[n - 1], x) \/ x = seq[n]
        BY <2>1, <4>1, HasAppend
      <4> QED  BY <3>1, <4>2, Zenon
    <3>4. \A x : Has(k[n], x) <=> In(x, n) /\ x \in S
      BY <2>1, <2>2, <2>3, <3>3, Zenon
    <3> QED  BY <1>0, <3>2, <3>4
  <2>4. CASE seq[n] \notin S
    <3>1. k[n] = k[n - 1]
      BY <1>1, <2>4 DEF KeepStep
    <3>2. \A x : Has(k[n], x) <=> In(x, n) /\ x \in S
      BY <2>1, <2>2, <2>4, <3>1, Zenon
    <3> QED  BY <1>0, <2>1, <3>1, <3>2
  <2> QED  BY <2>3, <2>4
<1>4. N \in T
  <2> HIDE DEF T
  <2>1. \A n \in 0 .. N : n \in T
    BY <1>0, <1>2, <1>3, UpTo, Zenon
  <2> QED  BY <1>0, <2>1
<1>5. k[N] \in Seq(A) /\ \A x : Has(k[N], x) <=> In(x, N) /\ x \in S
  BY <1>4
<1>6. Retain(seq, S) = k[N] /\ \A x : In(x, N) <=> Has(seq, x)
  BY Zenon DEF Retain, k, N, Has
<1> QED  BY <1>5, <1>6, Zenon

-----------------------------------------------------------------------------
(* Socket files over any number of processes, configurations and           *)
(* listeners, several of one path included.                                *)
\* A file that is neither absent nor left over belongs to a listener of its path
\* that accepts, and there are such files only while the listeners run.
OwnerInv ==
    /\ DOMAIN files = SockPath
    /\ \A p \in SockPath : files[p] \notin {NoFile, Stale} =>
         /\ Live
         /\ files[p] \in DOMAIN task /\ task[files[p]] = "listening"
         /\ Listener(files[p]).at = p

LEMMA StartupInitInv == StartupInit => OwnerInv
BY DEF StartupInit, OwnerInv, NoFile, Stale

\* What happens before the listeners are spawned touches no file, and there is
\* none to touch.
LEMMA ScriptInv ==
    ASSUME OwnerInv, ~Live, UNCHANGED files
    PROVE  OwnerInv'
BY DEF OwnerInv

\* A step of a listener.  The guard of one may remove the file of another, but
\* nobody is left the owner of a file when it stops to accept.
LEMMA ListenerInv ==
    ASSUME OwnerInv, NEW i \in DOMAIN task, ListenerStep(i)
    PROVE  OwnerInv'
<1>0. MainUnchanged /\ Live /\ UNCHANGED <<stage, config>>
  BY Zenon DEF ListenerStep, RemoveStale, BindSocket, BindPort, BindFails, AcceptFails, Aborted,
         MainUnchanged, Live
<1>1. Live' /\ \A j : Listener(j)' = Listener(j)
  BY <1>0 DEF Live, Listener
<1>2. PICK s : task' = [task EXCEPT ![i] = s]
  BY Zenon DEF ListenerStep, RemoveStale, BindSocket, BindPort, BindFails, AcceptFails, Aborted,
         Becomes
<1>3. DOMAIN task' = DOMAIN task /\ \A j \in DOMAIN task : j # i => task'[j] = task[j]
  BY <1>2
<1> DEFINE Good(p) == /\ Live
                      /\ files[p] \in DOMAIN task /\ task[files[p]] = "listening"
                      /\ Listener(files[p]).at = p
<1>k. ASSUME NEW p \in SockPath, files'[p] = files[p],
             files[p] \notin {NoFile, Stale}, files[p] # i
      PROVE  Good(p)'
  <2>1. Good(p) /\ task'[files[p]] = task[files[p]]
    BY <1>3, <1>k, Zenon DEF OwnerInv
  <2> QED  BY <1>1, <1>3, <1>k, <2>1, Zenon
<1>4. CASE RemoveStale(i) \/ BindPort(i) \/ BindFails(i)
  <2>1. /\ task[i] \in {"spawned", "cleared"}
        /\ DOMAIN files' = SockPath
        /\ \A p \in SockPath : files'[p] \in {NoFile, files[p]}
    BY <1>4, Zenon DEF RemoveStale, BindPort, BindFails, OwnerInv
  <2>2. ASSUME NEW p \in SockPath, files'[p] \notin {NoFile, Stale}
        PROVE  files'[p] = files[p] /\ files[p] \notin {NoFile, Stale} /\ files[p] # i
    BY <2>1, <2>2, Zenon DEF OwnerInv
  <2>3. \A p \in SockPath : files'[p] \notin {NoFile, Stale} => Good(p)'
    BY <1>k, <2>2, Zenon
  <2> QED  BY <2>1, <2>3, Zenon DEF OwnerInv
<1>5. CASE BindSocket(i)
  <2>1. /\ task[i] = "cleared"
        /\ \/ files' = [files EXCEPT ![Listener(i).at] = i] /\ task'[i] = "listening"
           \/ files' = files
    BY <1>5, Zenon DEF BindSocket, Becomes
  <2>2. /\ DOMAIN files' = SockPath
        /\ \A p \in SockPath : \/ files'[p] = files[p]
                               \/ files'[p] = i /\ p = Listener(i).at /\ task'[i] = "listening"
    BY <2>1, Zenon DEF OwnerInv
  <2>3. \A p \in SockPath : files[p] \notin {NoFile, Stale} => files[p] # i
    BY <2>1 DEF OwnerInv
  <2>4. ASSUME NEW p \in SockPath, files'[p] \notin {NoFile, Stale}
        PROVE  Good(p)'
    <3>1. CASE files'[p] = files[p]
      BY <1>k, <2>3, <2>4, <3>1, Zenon
    <3>2. CASE files'[p] = i /\ p = Listener(i).at /\ task'[i] = "listening"
      BY <1>1, <1>3, <3>2, Zenon
    <3> QED  BY <2>2, <3>1, <3>2, Zenon
  <2> QED  BY <2>2, <2>4, Zenon DEF OwnerInv
<1>6. CASE AcceptFails(i) \/ Aborted(i)
  <2>1. /\ DOMAIN files' = SockPath
        /\ \A p \in SockPath :
             files'[p] = IF task[i] = "listening" /\ Listener(i).at = p THEN NoFile ELSE files[p]
    BY <1>6, Zenon DEF AcceptFails, Aborted, Cleanup
  <2>2. ASSUME NEW p \in SockPath, files'[p] \notin {NoFile, Stale}
        PROVE  files'[p] = files[p] /\ files[p] \notin {NoFile, Stale} /\ files[p] # i
    <3>1. ~(task[i] = "listening" /\ Listener(i).at = p)
      BY <2>1, <2>2, Zenon
    <3>2. files'[p] = files[p]
      BY <2>1, <3>1, Zenon
    <3>3. files[p] # i
      BY <2>2, <3>1, <3>2, Zenon DEF OwnerInv
    <3> QED  BY <2>2, <3>2, <3>3, Zenon
  <2>3. \A p \in SockPath : files'[p] \notin {NoFile, Stale} => Good(p)'
    BY <1>k, <2>2, Zenon
  <2> QED  BY <2>1, <2>3, Zenon DEF OwnerInv
<1> QED  BY <1>4, <1>5, <1>6 DEF ListenerStep

\* Every step keeps the invariant.
LEMMA StartupNextInv == OwnerInv /\ [StartupNext]_startupVars => OwnerInv'
<1> SUFFICES ASSUME OwnerInv, [StartupNext]_startupVars PROVE OwnerInv'
  OBVIOUS
<1>1. CASE UNCHANGED startupVars
  BY <1>1, Zenon DEF startupVars, OwnerInv, Live, Listener
<1>2. ASSUME Configures PROVE OwnerInv'
  BY <1>2, ScriptInv DEF Configures, Live
<1>3. CASE \/ \E m \in Mount : FuseMount(m) \/ FuseUnmount(m)
           \/ FuseUnmountAll
           \/ \E l \in NinepAddress : NinepListen(l) \/ NinepKill(l)
           \/ NinepKillAll
           \/ \E part \in {"cert", "key"} : NinepTls(part)
           \/ \E l \in SshAddress : SshListen(l) \/ SshKill(l)
           \/ SshKillAll
  BY <1>2, <1>3 DEF FuseMount, FuseUnmount, FuseUnmountAll, NinepListen, NinepKill,
        NinepKillAll, NinepTls, SshListen, SshKill, SshKillAll
<1>4. CASE ScriptEnds \/ (\E ok \in BOOLEAN : MountNext(ok)) \/ SpawnListeners \/ Restart
  BY <1>4, ScriptInv DEF ScriptEnds, MountNext, SpawnListeners, Restart, Live
<1>5. CASE Stop
  BY <1>5 DEF Stop, OwnerInv, Live, Listener
<1>6. CASE Exit
  <2>1. UNCHANGED files /\ \A j \in DOMAIN task : task[j] # "listening"
    BY <1>6, Zenon DEF Exit, Gone
  <2> QED  BY <2>1 DEF OwnerInv
<1>7. CASE Die
  BY <1>7 DEF Die, OwnerInv
<1>8. CASE \E i \in DOMAIN task : ListenerStep(i)
  BY <1>8, ListenerInv
<1> QED  BY <1>1, <1>3, <1>4, <1>5, <1>6, <1>7, <1>8 DEF StartupNext

\* An orderly shutdown leaves no socket file of its process, in whatever order
\* the tasks bind, fail and are aborted, and whichever of them share a path.
THEOREM SocketsRemoved == StartupSpec => []ShutdownRemovesSockets
<1>1. OwnerInv => ShutdownRemovesSockets
  BY DEF OwnerInv, ShutdownRemovesSockets, Live
<1> QED  BY <1>1, StartupInitInv, StartupNextInv, PTL DEF StartupSpec

\* The configuration, and the addresses it stands for.
Address == NinepAddress \cup SshAddress
Configs == [mounts : Seq(Mount), ninep : Seq(NinepAddress), ssh : Seq(SshAddress),
            tls : SUBSET {"cert", "key"}]

AskedInv ==
    /\ config \in Configs
    /\ \A l : l \in asked <=> Has(config.ninep, l)

\* What is said of path p while main runs: a file left by an earlier process is
\* still there only if no listener of the path came past its removal, and there
\* is no file of a listener only while one has yet to bind or one met an error.
OfPath(p) == {i \in DOMAIN task : Listener(i).at = p}
PathGood(p) ==
    /\ files[p] = Stale => \A i \in OfPath(p) : task[i] \in {"spawned", "failed"}
    /\ files[p] \in {NoFile, Stale} /\ OfPath(p) # {} =>
         \E i \in OfPath(p) : task[i] \in {"spawned", "cleared", "failed", "lost"}

PathInv ==
    /\ AskedInv
    /\ Live => DOMAIN task = DOMAIN Spawned(config)
    /\ stage = "running" => \A p \in SockPath : PathGood(p)

\* An address at a path is the Unix socket of that path.
LEMMA AddressAt ==
    ASSUME NEW l \in Address, NEW p \in SockPath
    PROVE  /\ l.at = p => l = [kind |-> "sock", at |-> p] /\ l \in NinepAddress
           /\ l.kind # "sock" => l.at # p
<1>1. SockPath \cap Port = {}
  BY StartupAssumption DEF StartupAssumption
<1>2. CASE l \in [kind : {"sock"}, at : SockPath]
  BY <1>2, Zenon DEF NinepAddress
<1>3. CASE l \in [kind : {"tcp", "tls", "udp", "none"}, at : Port] \cup [kind : {"ssh"}, at : Port]
  BY <1>1, <1>3
<1> QED  BY <1>2, <1>3, Zenon DEF Address, NinepAddress, SshAddress

\* The spawned listeners: those of 9P with a known prefix and those of SSH.
LEMMA SpawnedIs ==
    ASSUME NEW c \in Configs
    PROVE  /\ Spawned(c) \in Seq(Address)
           /\ \A l \in NinepAddress :
                l.kind = "sock" => (Has(Spawned(c), l) <=> Has(c.ninep, l))
<1> DEFINE K == {l \in NinepAddress : l.kind # "none"}
           r == Retain(c.ninep, K)
<1>1. c.ninep \in Seq(NinepAddress) /\ c.ssh \in Seq(SshAddress)
  BY DEF Configs
<1>2. r \in Seq(NinepAddress) /\ \A x : Has(r, x) <=> Has(c.ninep, x) /\ x \in K
  BY <1>1, RetainIs, Zenon
<1>3. Spawned(c) = r \o c.ssh
  BY DEF Spawned
<1> HIDE DEF r
<1>4. r \in Seq(Address) /\ c.ssh \in Seq(Address)
  BY <1>1, <1>2 DEF Address
<1>5. \A x : Has(r \o c.ssh, x) <=> Has(r, x) \/ Has(c.ssh, x)
  BY <1>4, HasConcat
<1>6. ASSUME NEW l \in NinepAddress, l.kind = "sock" PROVE l \in K /\ ~Has(c.ssh, l)
  <2>1. l \in K
    BY <1>6
  <2>2. \A i \in 1 .. Len(c.ssh) : c.ssh[i].kind = "ssh"
    <3>1. \A i \in 1 .. Len(c.ssh) : c.ssh[i] \in SshAddress
      BY <1>1, Elements, Zenon
    <3>2. \A a \in SshAddress : a.kind = "ssh"
      BY DEF SshAddress
    <3> QED  BY <3>1, <3>2, Zenon
  <2> QED  BY <1>6, <2>1, <2>2 DEF Has
<1> HIDE DEF K
<1>7. \A l \in NinepAddress : l.kind = "sock" => (Has(Spawned(c), l) <=> Has(c.ninep, l))
  BY <1>2, <1>3, <1>5, <1>6, Zenon
<1>8. Spawned(c) \in Seq(Address)
  BY <1>3, <1>4
<1> QED  BY <1>7, <1>8

\* The listeners of the tasks.
LEMMA ListenersAre ==
    ASSUME PathInv, Live
    PROVE  /\ \A i \in DOMAIN task : Listener(i) \in Address /\ i \in Nat \ {0}
           /\ \A l : Has(Spawned(config), l) <=> \E i \in DOMAIN task : Listener(i) = l
<1>1. config \in Configs /\ DOMAIN task = DOMAIN Spawned(config)
  BY DEF PathInv, AskedInv
<1>2. Spawned(config) \in Seq(Address)
  BY <1>1, SpawnedIs
<1>3. DOMAIN task = 1 .. Len(Spawned(config)) /\ Len(Spawned(config)) \in Nat
  BY <1>1, <1>2
<1>4. \A i \in DOMAIN task : Listener(i) \in Address /\ i \in Nat \ {0}
  BY <1>2, <1>3 DEF Listener
<1>5. \A l : Has(Spawned(config), l) <=> \E i \in DOMAIN task : Listener(i) = l
  BY <1>3, Zenon DEF Has, Listener
<1> QED  BY <1>4, <1>5

LEMMA WithoutIs ==
    ASSUME NEW A, NEW s \in Seq(A), NEW l
    PROVE  /\ Without(s, l) \in Seq(A)
           /\ \A x : Has(Without(s, l), x) <=> Has(s, x) /\ x # l
<1>1. /\ Without(s, l) \in Seq(A)
      /\ \A x : Has(Without(s, l), x) <=> Has(s, x) /\ x \in Range(s) \ {l}
  BY RetainIs, Zenon DEF Without
<1>2. DOMAIN s = 1 .. Len(s)
  OBVIOUS
<1>3. \A x : Has(s, x) => x \in Range(s)
  BY <1>2 DEF Has, Range
<1> QED  BY <1>1, <1>3, Zenon

\* The script's calls keep the list of listeners and what was asked in step.
LEMMA ScriptAsks ==
    ASSUME AskedInv,
           \/ \E m \in Mount : FuseMount(m) \/ FuseUnmount(m)
           \/ FuseUnmountAll
           \/ \E l \in NinepAddress : NinepListen(l) \/ NinepKill(l)
           \/ NinepKillAll
           \/ \E part \in {"cert", "key"} : NinepTls(part)
           \/ \E l \in SshAddress : SshListen(l) \/ SshKill(l)
           \/ SshKillAll
    PROVE  AskedInv'
<1>0. /\ config \in Configs /\ \A l : l \in asked <=> Has(config.ninep, l)
      /\ config.mounts \in Seq(Mount) /\ config.ninep \in Seq(NinepAddress)
      /\ config.ssh \in Seq(SshAddress) /\ config.tls \in SUBSET {"cert", "key"}
  BY DEF AskedInv, Configs
<1>1. ASSUME UNCHANGED asked,
             \/ \E s \in Seq(Mount) : config' = [config EXCEPT !.mounts = s]
             \/ \E s \in Seq(SshAddress) : config' = [config EXCEPT !.ssh = s]
             \/ \E t \in SUBSET {"cert", "key"} : config' = [config EXCEPT !.tls = t]
      PROVE  AskedInv'
  <2>1. config' \in Configs /\ config'.ninep = config.ninep
    BY <1>0, <1>1, Zenon DEF Configs
  <2> QED  BY <1>0, <1>1, <2>1, Zenon DEF AskedInv
<1>2. ASSUME NEW s \in Seq(NinepAddress), config' = [config EXCEPT !.ninep = s],
             \A l : l \in asked' <=> Has(s, l)
      PROVE  AskedInv'
  <2>1. config' \in Configs /\ config'.ninep = s
    BY <1>0, <1>2, Zenon DEF Configs
  <2> QED  BY <1>2, <2>1, Zenon DEF AskedInv
<1>3. ASSUME NEW m \in Mount, FuseMount(m) \/ FuseUnmount(m) PROVE AskedInv'
  <2>1. Append(config.mounts, m) \in Seq(Mount) /\ Without(config.mounts, m) \in Seq(Mount)
    BY <1>0, WithoutIs, Appended, Zenon
  <2>2. /\ UNCHANGED asked
        /\ \/ config' = [config EXCEPT !.mounts = Append(config.mounts, m)]
           \/ config' = [config EXCEPT !.mounts = Without(config.mounts, m)]
    BY <1>3 DEF FuseMount, FuseUnmount
  <2> QED  BY <1>1, <2>1, <2>2, Zenon
<1>4. ASSUME NEW l \in SshAddress, SshListen(l) \/ SshKill(l) PROVE AskedInv'
  <2>1. Append(config.ssh, l) \in Seq(SshAddress) /\ Without(config.ssh, l) \in Seq(SshAddress)
    BY <1>0, WithoutIs, Appended, Zenon
  <2>2. /\ UNCHANGED asked
        /\ \/ config' = [config EXCEPT !.ssh = Append(config.ssh, l)]
           \/ config' = [config EXCEPT !.ssh = Without(config.ssh, l)]
    BY <1>4 DEF SshListen, SshKill
  <2> QED  BY <1>1, <2>1, <2>2, Zenon
<1>5. CASE FuseUnmountAll \/ SshKillAll
  <2>1. <<>> \in Seq(Mount) /\ <<>> \in Seq(SshAddress)
    OBVIOUS
  <2>2. /\ UNCHANGED asked
        /\ config' = [config EXCEPT !.mounts = <<>>] \/ config' = [config EXCEPT !.ssh = <<>>]
    BY <1>5 DEF FuseUnmountAll, SshKillAll
  <2> QED  BY <1>1, <2>1, <2>2, Zenon
<1>6. ASSUME NEW part \in {"cert", "key"}, NinepTls(part) PROVE AskedInv'
  <2>1. UNCHANGED asked /\ config' = [config EXCEPT !.tls = config.tls \cup {part}]
    BY <1>6 DEF NinepTls
  <2>2. config.tls \cup {part} \in SUBSET {"cert", "key"}
    BY <1>0
  <2> QED  BY <1>1, <2>1, <2>2, Zenon
<1>7. ASSUME NEW l \in NinepAddress, NinepListen(l) PROVE AskedInv'
  <2>1. /\ asked' = asked \cup {l}
        /\ config' = [config EXCEPT !.ninep = Append(config.ninep, l)]
    BY <1>7 DEF NinepListen
  <2>2. Append(config.ninep, l) \in Seq(NinepAddress)
    BY <1>0, Appended, Zenon
  <2>3. \A x : Has(Append(config.ninep, l), x) <=> Has(config.ninep, x) \/ x = l
    BY <1>0, HasAppend, Zenon
  <2>4. \A x : x \in asked' <=> Has(Append(config.ninep, l), x)
    BY <1>0, <2>1, <2>3
  <2> QED  BY <1>2, <2>1, <2>2, <2>4, Zenon
<1>8. ASSUME NEW l \in NinepAddress, NinepKill(l) PROVE AskedInv'
  <2>1. /\ asked' = asked \ {l}
        /\ config' = [config EXCEPT !.ninep = Without(config.ninep, l)]
    BY <1>8 DEF NinepKill
  <2>2. /\ Without(config.ninep, l) \in Seq(NinepAddress)
        /\ \A x : Has(Without(config.ninep, l), x) <=> Has(config.ninep, x) /\ x # l
    BY <1>0, WithoutIs, Zenon
  <2>3. \A x : x \in asked' <=> Has(Without(config.ninep, l), x)
    BY <1>0, <2>1, <2>2
  <2> QED  BY <1>2, <2>1, <2>2, <2>3, Zenon
<1>9. CASE NinepKillAll
  <2>1. asked' = {} /\ config' = [config EXCEPT !.ninep = <<>>]
    BY <1>9 DEF NinepKillAll
  <2>2. <<>> \in Seq(NinepAddress) /\ \A x : ~Has(<<>>, x)
    BY DEF Has
  <2>3. \A x : x \in asked' <=> Has(<<>>, x)
    BY <2>1, <2>2
  <2> QED  BY <1>2, <2>1, <2>2, <2>3, Zenon
<1> QED  BY <1>3, <1>4, <1>5, <1>6, <1>7, <1>8, <1>9, Zenon

\* A step of a listener, of its own path and of the others.
LEMMA ListenerPaths ==
    ASSUME PathInv, OwnerInv, NEW i \in DOMAIN task, ListenerStep(i) PROVE PathInv'
<1>0. MainUnchanged /\ Live /\ UNCHANGED <<stage, config, asked>>
  BY Zenon DEF ListenerStep, RemoveStale, BindSocket, BindPort, BindFails, AcceptFails, Aborted,
         MainUnchanged, Live
<1>1. Live' /\ \A j : Listener(j)' = Listener(j)
  BY <1>0 DEF Live, Listener
<1>2. PICK s : task' = [task EXCEPT ![i] = s]
  BY Zenon DEF ListenerStep, RemoveStale, BindSocket, BindPort, BindFails, AcceptFails, Aborted,
         Becomes
<1>3. DOMAIN task' = DOMAIN task /\ \A j \in DOMAIN task : j # i => task'[j] = task[j]
  BY <1>2
<1>4. AskedInv' /\ (Live' => DOMAIN task' = DOMAIN Spawned(config)')
  BY <1>0, <1>3, Zenon DEF PathInv, AskedInv
<1>5. ASSUME stage = "running", NEW p \in SockPath PROVE PathGood(p)'
  <2>0. PathGood(p)
    BY <1>5 DEF PathInv
  <2>1. OfPath(p)' = OfPath(p) /\ OfPath(p) \subseteq DOMAIN task
    BY <1>1, <1>3 DEF OfPath
  <2>2. ~Aborted(i)
    BY <1>5 DEF Aborted
  <2>3. CASE i \notin OfPath(p)
    <3>1. \A j \in OfPath(p) : task'[j] = task[j]
      BY <1>3, <2>1, <2>3, Zenon
    <3>2. Listener(i).at # p
      BY <2>3 DEF OfPath
    <3>3. files'[p] = files[p]
      <4>1. CASE RemoveStale(i) \/ BindSocket(i) \/ BindPort(i) \/ BindFails(i)
        <5>1. UNCHANGED files \/ \E x : files' = [files EXCEPT ![Listener(i).at] = x]
          BY <4>1, Zenon DEF RemoveStale, BindSocket, BindPort, BindFails
        <5>2. DOMAIN files = SockPath
          BY DEF OwnerInv
        <5> QED  BY <3>2, <5>1, <5>2
      <4>2. CASE AcceptFails(i) \/ Aborted(i)
        BY <3>2, <4>2, Zenon DEF AcceptFails, Aborted, Cleanup
      <4> QED  BY <4>1, <4>2, Zenon DEF ListenerStep
    <3> QED  BY <2>0, <2>1, <3>1, <3>3, Zenon DEF PathGood
  <2>4. CASE i \in OfPath(p)
    <3>0. Listener(i).at = p /\ OfPath(p) # {}
      BY <2>4 DEF OfPath
    <3>a. NoFile # Stale
      BY DEF NoFile, Stale
    <3>1. DOMAIN files = SockPath /\ NoFile # Stale
      BY <3>a, Zenon DEF OwnerInv
    <3>2. CASE RemoveStale(i)
      <4>1. task'[i] = "cleared" /\ files'[p] = NoFile
        BY <3>0, <3>1, <3>2 DEF RemoveStale, Becomes
      <4> QED  BY <2>1, <2>4, <3>1, <4>1, Zenon DEF PathGood
    <3>3. CASE BindSocket(i)
      <4>1. task[i] = "cleared"
        BY <3>3, Zenon DEF BindSocket
      <4>2. files[p] # Stale
        BY <2>0, <2>4, <4>1 DEF PathGood
      <4>3. CASE files[p] = NoFile
        <5>1. files' = [files EXCEPT ![p] = i]
          BY <3>0, <3>3, <4>3 DEF BindSocket
        <5>2. i \in Nat \ {0}
          BY <1>0, ListenersAre
        <5>3. files'[p] \notin {NoFile, Stale}
          BY <3>1, <5>1, <5>2 DEF NoFile, Stale
        <5> QED  BY <5>3 DEF PathGood
      <4>4. CASE files[p] # NoFile
        <5>1. UNCHANGED files
          BY <3>0, <3>3, <4>4, Zenon DEF BindSocket
        <5> QED  BY <4>2, <4>4, <5>1 DEF PathGood
      <4> QED  BY <4>3, <4>4
    <3>4. ~BindPort(i)
      <4>1. Listener(i) \in Address
        BY <1>0, ListenersAre
      <4> QED  BY <3>0, <4>1, AddressAt, Zenon DEF BindPort
    <3>5. CASE BindFails(i)
      <4>1. UNCHANGED files /\ task'[i] = "failed"
        BY <3>5 DEF BindFails, Becomes
      <4>2. files[p] = Stale => \A j \in OfPath(p) : task'[j] \in {"spawned", "failed"}
        BY <1>3, <2>0, <2>1, <4>1, Zenon DEF PathGood
      <4> QED  BY <2>1, <2>4, <4>1, <4>2, Zenon DEF PathGood
    <3>6. CASE AcceptFails(i)
      <4>1. task'[i] = "lost" /\ files'[p] = NoFile
        BY <3>0, <3>6 DEF AcceptFails, Becomes, Cleanup
      <4> QED  BY <2>1, <2>4, <3>1, <4>1, Zenon DEF PathGood
    <3> QED  BY <2>2, <3>2, <3>3, <3>4, <3>5, <3>6 DEF ListenerStep
  <2> QED  BY <2>3, <2>4
<1> QED  BY <1>0, <1>4, <1>5, Zenon DEF PathInv

LEMMA EmptyIs == EmptyConfig \in Configs /\ \A x : ~Has(EmptyConfig.ninep, x)
<1> DEFINE none == <<>>
<1>1. /\ none \in Seq(Mount) /\ none \in Seq(NinepAddress) /\ none \in Seq(SshAddress)
      /\ Len(none) = 0
  OBVIOUS
<1>2. EmptyConfig = [mounts |-> none, ninep |-> none, ssh |-> none, tls |-> {}]
  BY Zenon DEF EmptyConfig
<1> HIDE DEF none
<1>3. \A x : ~Has(none, x)
  BY <1>1 DEF Has
<1>4. EmptyConfig \in Configs
  BY <1>1, <1>2, Zenon DEF Configs
<1>5. EmptyConfig.ninep = none
  BY <1>2, Zenon
<1> QED  BY <1>3, <1>4, <1>5, Zenon

LEMMA PathInitInv == StartupInit => PathInv
<1> SUFFICES ASSUME StartupInit PROVE PathInv
  OBVIOUS
<1>1. /\ stage = "script" /\ config = EmptyConfig /\ asked = {}
  BY DEF StartupInit
<1>2. EmptyConfig \in Configs /\ \A x : ~Has(EmptyConfig.ninep, x)
  BY EmptyIs, Zenon
<1> QED  BY <1>1, <1>2 DEF PathInv, AskedInv, Live

LEMMA PathNextInv == PathInv /\ OwnerInv /\ [StartupNext]_startupVars => PathInv'
<1> SUFFICES ASSUME PathInv, OwnerInv, [StartupNext]_startupVars PROVE PathInv'
  OBVIOUS
<1>0. AskedInv /\ config \in Configs
  BY DEF PathInv, AskedInv
<1>1. CASE UNCHANGED startupVars
  <2>1. UNCHANGED <<stage, config, asked, task, files>>
    BY <1>1 DEF startupVars
  <2>2. /\ \A p : PathGood(p)' = PathGood(p)
        /\ Spawned(config)' = Spawned(config) /\ (Live' <=> Live)
    BY <2>1, Zenon DEF PathGood, OfPath, Live, Listener
  <2> QED  BY <1>0, <2>1, <2>2, Zenon DEF PathInv, AskedInv
<1>2. CASE \/ \E m \in Mount : FuseMount(m) \/ FuseUnmount(m)
           \/ FuseUnmountAll
           \/ \E l \in NinepAddress : NinepListen(l) \/ NinepKill(l)
           \/ NinepKillAll
           \/ \E part \in {"cert", "key"} : NinepTls(part)
           \/ \E l \in SshAddress : SshListen(l) \/ SshKill(l)
           \/ SshKillAll
  <2>1. stage' = "script"
    BY <1>2 DEF Configures, FuseMount, FuseUnmount, FuseUnmountAll, NinepListen, NinepKill,
                NinepKillAll, NinepTls, SshListen, SshKill, SshKillAll
  <2>2. AskedInv'
    BY <1>0, <1>2, ScriptAsks, Zenon
  <2> QED  BY <2>1, <2>2 DEF PathInv, Live
<1>3. CASE ScriptEnds \/ (\E ok \in BOOLEAN : MountNext(ok)) \/ Exit \/ Die
  <2>1. stage' \notin {"running", "stopping"} /\ UNCHANGED <<config, asked>>
    BY <1>3 DEF ScriptEnds, MountNext, Exit, Die
  <2> QED  BY <1>0, <2>1, Zenon DEF PathInv, AskedInv, Live
<1>4. CASE SpawnListeners
  <2>1. /\ UNCHANGED <<config, asked>> /\ task' = [i \in DOMAIN Spawned(config) |-> "spawned"]
    BY <1>4 DEF SpawnListeners
  <2>2. DOMAIN task' = DOMAIN Spawned(config)' /\ \A i \in DOMAIN task' : task'[i] = "spawned"
    BY <2>1
  <2>3. \A p \in SockPath : PathGood(p)'
    BY <2>2, Zenon DEF PathGood, OfPath
  <2> QED  BY <1>0, <2>1, <2>2, <2>3, Zenon DEF PathInv, AskedInv
<1>5. CASE Stop
  <2>1. stage = "running" /\ stage' = "stopping" /\ UNCHANGED <<config, asked, task>>
    BY <1>5 DEF Stop
  <2>2. DOMAIN task' = DOMAIN Spawned(config)'
    BY <2>1 DEF PathInv, Live
  <2> QED  BY <1>0, <2>1, <2>2, Zenon DEF PathInv, AskedInv
<1>6. CASE Restart
  <2>1. stage' = "script" /\ config' = EmptyConfig /\ asked' = {}
    BY <1>6 DEF Restart
  <2>2. EmptyConfig \in Configs /\ \A x : ~Has(EmptyConfig.ninep, x)
    BY EmptyIs, Zenon
  <2> QED  BY <2>1, <2>2, Zenon DEF PathInv, AskedInv, Live
<1>7. CASE \E i \in DOMAIN task : ListenerStep(i)
  BY <1>7, ListenerPaths
<1> QED  BY <1>1, <1>2, <1>3, <1>4, <1>5, <1>6, <1>7, Zenon DEF StartupNext

\* Once every spawned listener has bound or given up, the file of each socket
\* that the script asked for belongs to a listener that accepts unless one of
\* that path met an error, and no other path leads to a listener: for any list
\* of addresses, any files left by earlier processes and any order in which
\* listeners of one path clear, bind and clear again.
THEOREM SocketsLead == StartupSpec => []SocketsLeadToListeners
<1>1. PathInv /\ OwnerInv => SocketsLeadToListeners
  <2> SUFFICES ASSUME PathInv, OwnerInv, Settled, NEW l \in NinepAddress, l.kind = "sock"
               PROVE  /\ l \in asked /\ (\A i \in At9p(l) : task[i] \notin {"failed", "lost"})
                           => files[l.at] \in DOMAIN task /\ task[files[l.at]] = "listening"
                      /\ l \notin asked => files[l.at] \in {NoFile, Stale}
    BY Zenon DEF SocketsLeadToListeners
  <2>1. /\ stage = "running" /\ Live /\ config \in Configs
        /\ \A i \in DOMAIN task : task[i] \notin {"spawned", "cleared"}
        /\ l \in asked <=> Has(config.ninep, l)
    BY DEF Settled, Live, PathInv, AskedInv
  <2>2. l.at \in SockPath
    BY DEF NinepAddress
  <2>3. l \in asked <=> \E i \in DOMAIN task : Listener(i) = l
    BY <2>1, SpawnedIs, ListenersAre, Zenon
  <2>4. \A i \in DOMAIN task : Listener(i).at = l.at => Listener(i) = l
    <3>1. \A i \in DOMAIN task : Listener(i) \in Address
      BY <2>1, ListenersAre
    <3>2. l \in Address
      BY DEF Address
    <3> QED  BY <2>2, <3>1, <3>2, AddressAt, Zenon
  <2>5. files[l.at] \notin {NoFile, Stale} =>
          /\ files[l.at] \in DOMAIN task /\ task[files[l.at]] = "listening"
          /\ Listener(files[l.at]) = l
    BY <2>2, <2>4, Zenon DEF OwnerInv
  <2>6. ASSUME l \in asked, files[l.at] \in {NoFile, Stale}
        PROVE  \E i \in At9p(l) : task[i] \in {"failed", "lost"}
    <3>1. PathGood(l.at)
      BY <2>1, <2>2, Zenon DEF PathInv
    <3>2. OfPath(l.at) # {}
      BY <2>3, <2>6, Zenon DEF OfPath
    <3>3. PICK i \in OfPath(l.at) : task[i] \in {"spawned", "cleared", "failed", "lost"}
      BY <2>6, <3>1, <3>2, Zenon DEF PathGood
    <3>4. i \in At9p(l) /\ task[i] \in {"failed", "lost"}
      BY <2>1, <2>4, <3>3 DEF OfPath, At9p
    <3> QED  BY <3>4
  <2> QED  BY <2>3, <2>5, <2>6, Zenon
<1> QED  BY <1>1, StartupInitInv, StartupNextInv, PathInitInv, PathNextInv, PTL DEF StartupSpec

=============================================================================
