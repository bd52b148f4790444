-------------------------------- MODULE Store --------------------------------
(***************************************************************************)
(* The SQLite-backed doc.* and sql.* APIs of src/store.rs.                 *)
(*                                                                         *)
(* Every Lua VM has a registry of its own; each open handle has a writer   *)
(* and a reader connection, each served by a task of its own.  A call      *)
(* blocks its VM until the task has answered, and no other VM can use the  *)
(* handle, so a call is one step; steps of several VMs interleave.  Only   *)
(* the end of a writer task is not waited for: its connection, with the    *)
(* transaction and the lock it may hold, outlives the handle for a while.  *)
(*                                                                         *)
(* SQLite itself is external: a database is the content of its docs table, *)
(* a transaction takes the write lock with its first write, a statement    *)
(* that needs a lock somebody else holds fails with SQLITE_BUSY after the  *)
(* busy timeout, and the reader connection sees committed data only (WAL). *)
(***************************************************************************)
EXTENDS Integers, FiniteSets

CONSTANTS
    VM,        \* Lua virtual machines, a worker's and its replacement's
    Db,        \* database files
    Key,       \* document keys
    Val,       \* documents
    NoVal,     \* no document
    OpenApi,   \* which of "doc", "sql" the script calls open of
    TxSql,     \* transaction statements it passes to sql.exec
    MaxHandle  \* bound on the handles each VM opens

NoDb == "none"

ASSUME StoreAssumption ==
    /\ NoVal \notin Val
    /\ NoDb \notin Db
    /\ OpenApi \subseteq {"doc", "sql"}
    /\ TxSql \subseteq {"BEGIN", "COMMIT", "ROLLBACK"}
    /\ MaxHandle \in [VM -> Nat]

Docs == [Key -> Val \cup {NoVal}]

VARIABLES
    docs,     \* committed content of each database
    created,  \* databases whose docs table exists
    nextId,   \* DbRegistry::next_id of each VM
    handle,   \* DbRegistry::handles of each VM: the database, or NoDb
    ended,    \* VMs that are gone
    conn,     \* connection of each writer task: the database, or NoDb
    tx,       \* transaction of each writer connection: "none", "begun", "writing"
    buf,      \* what a writing transaction will commit
    busy,     \* connection that holds the write lock of each database, or <<>>
    told,     \* history: content according to the calls that raised no error
    lost      \* history: databases for which the error of a doc.set was discarded

storeVars == <<docs, created, nextId, handle, ended, conn, tx, buf, busy, told, lost>>

Handle(m) == 1 .. MaxHandle[m]
Writer == UNION {{m} \X Handle(m) : m \in VM}
NoDocs == [k \in Key |-> NoVal]

StoreTypeOK ==
    /\ docs \in [Db -> Docs] /\ told \in [Db -> Docs]
    /\ created \subseteq Db /\ lost \subseteq Db
    /\ nextId \in [VM -> Nat] /\ \A m \in VM : nextId[m] \in 1 .. MaxHandle[m] + 1
    /\ handle \in [Writer -> Db \cup {NoDb}] /\ conn \in [Writer -> Db \cup {NoDb}]
    /\ ended \subseteq VM
    /\ tx \in [Writer -> {"none", "begun", "writing"}]
    /\ buf \in [Writer -> Docs]
    /\ busy \in [Db -> Writer \cup {<<>>}]

StoreInit ==
    /\ docs = [d \in Db |-> NoDocs]
    /\ created = {}
    /\ nextId = [m \in VM |-> 1]
    /\ handle = [w \in Writer |-> NoDb]
    /\ ended = {}
    /\ conn = handle
    /\ tx = [w \in Writer |-> "none"]
    /\ buf = [w \in Writer |-> NoDocs]
    /\ busy = [d \in Db |-> <<>>]
    /\ told = docs
    /\ lost = {}

-----------------------------------------------------------------------------
(* SQLite.                                                                 *)

\* The writer connection can write now.
CanWrite(w) == busy[handle[w]] \in {w, <<>>}

\* A write that succeeds: at once, or as part of the open transaction.
SqlWrite(w, k, v) ==
    LET d == handle[w]
        content == IF tx[w] = "writing" THEN buf[w] ELSE docs[d]
        new == [content EXCEPT ![k] = v]
    IN  /\ CanWrite(w)
        /\ IF tx[w] = "none"
           THEN docs' = [docs EXCEPT ![d] = new] /\ UNCHANGED <<tx, buf, busy>>
           ELSE /\ tx' = [tx EXCEPT ![w] = "writing"]
                /\ buf' = [buf EXCEPT ![w] = new]
                /\ busy' = [busy EXCEPT ![d] = w]
                /\ UNCHANGED docs

-----------------------------------------------------------------------------
(* The API.                                                                *)

IsOpen(w) == handle[w] # NoDb

\* The handles in ws are given up; what their open transactions have written
\* will not be stored.
GiveUp(ws) ==
    /\ handle' = [w \in Writer |-> IF w \in ws THEN NoDb ELSE handle[w]]
    /\ told' = [d \in Db |-> IF busy[d] \in ws THEN docs[d] ELSE told[d]]

\* Handle id of m and its writer connection.
Binds(m, id, d) ==
    /\ handle' = [handle EXCEPT ![<<m, id>>] = d]
    /\ conn' = [conn EXCEPT ![<<m, id>>] = d]

\* Mutant of Open: the id is the number of open handles plus one, after a close
\* that of a live handle.
OpenReusesId(m, d, api) ==
    /\ m \notin ended /\ nextId[m] <= MaxHandle[m]
    /\ api \in OpenApi
    /\ nextId' = [nextId EXCEPT ![m] = @ + 1]
    /\ Binds(m, 1 + Cardinality({h \in Handle(m) : handle[<<m, h>>] # NoDb}), d)
    /\ created' = IF api = "doc" THEN created \cup {d} ELSE created
    /\ UNCHANGED <<docs, ended, tx, buf, busy, told, lost>>

\* doc.open and sql.open: a new id and two new connections; doc.open also
\* creates the docs table.
Open(m, d, api) ==
    /\ m \notin ended /\ nextId[m] <= MaxHandle[m]
    /\ api \in OpenApi
    /\ nextId' = [nextId EXCEPT ![m] = @ + 1]
    /\ Binds(m, nextId[m], d)
    /\ created' = IF api = "doc" THEN created \cup {d} ELSE created
    /\ UNCHANGED <<docs, ended, tx, buf, busy, told, lost>>

\* The file cannot be opened, or the docs table not be created: the error is
\* raised to Lua, the connection dropped at once, and the id used up.
OpenFails(m) ==
    /\ m \notin ended /\ nextId[m] <= MaxHandle[m]
    /\ nextId' = [nextId EXCEPT ![m] = @ + 1]
    /\ UNCHANGED <<docs, created, handle, ended, conn, tx, buf, busy, told, lost>>

\* doc.close and sql.close: the writer task answers before it ends, and the
\* handle is removed.  An invalid handle is ignored.
Close(w) ==
    /\ IsOpen(w)
    /\ GiveUp({w})
    /\ UNCHANGED <<docs, created, nextId, ended, conn, tx, buf, busy, lost>>

\* The worker ends (TTL, panic): the VM drops its registry, and with it the
\* channels of all its writer tasks.
VmEnds(m) ==
    /\ m \notin ended
    /\ ended' = ended \cup {m}
    /\ GiveUp({m} \X Handle(m))
    /\ UNCHANGED <<docs, created, nextId, conn, tx, buf, busy, lost>>

\* A writer task leaves its loop and drops its connection: SQLite rolls the
\* open transaction back.
DropsConnection(w) ==
    /\ conn' = [conn EXCEPT ![w] = NoDb]
    /\ tx' = [tx EXCEPT ![w] = "none"]
    /\ buf' = [buf EXCEPT ![w] = NoDocs]
    /\ busy' = [d \in Db |-> IF busy[d] = w THEN <<>> ELSE busy[d]]

\* Mutant of WriterEnds: the registry outlives the VM, so that a writer whose
\* handle was not closed is never told to end.
WriterEndsIfClosed(w) ==
    /\ ~IsOpen(w) /\ conn[w] # NoDb /\ w[1] \notin ended
    /\ DropsConnection(w)
    /\ UNCHANGED <<docs, created, nextId, handle, ended, told, lost>>

\* Mutant of WriterEnds: the connection is kept for a later open, and nothing is
\* rolled back.
WriterKeepsConnection(w) ==
    /\ ~IsOpen(w) /\ conn[w] # NoDb
    /\ conn' = [conn EXCEPT ![w] = NoDb]
    /\ UNCHANGED <<docs, created, nextId, handle, ended, tx, buf, busy, told, lost>>

\* Some time after the handle is gone, closed or dropped with its VM.
WriterEnds(w) ==
    /\ ~IsOpen(w) /\ conn[w] # NoDb
    /\ DropsConnection(w)
    /\ UNCHANGED <<docs, created, nextId, handle, ended, told, lost>>

\* Mutant of DocSet: INSERT without ON CONFLICT, which fails on an existing key.
DocSetNoReplace(w, k, v) ==
    /\ IsOpen(w)
    /\ IF handle[w] \in created /\ CanWrite(w) /\ (v # NoVal => docs[handle[w]][k] = NoVal)
       THEN SqlWrite(w, k, v)
       ELSE UNCHANGED <<docs, tx, buf, busy>>
    /\ told' = [told EXCEPT ![handle[w]][k] = v]
    /\ UNCHANGED <<created, nextId, handle, ended, conn, lost>>

\* doc.set (v a document) and doc.delete (v = NoVal): whatever the writer
\* answers, the call returns without an error.
DocSet(w, k, v) ==
    LET works == handle[w] \in created /\ CanWrite(w) IN
    /\ IsOpen(w)
    /\ IF works THEN SqlWrite(w, k, v) ELSE UNCHANGED <<docs, tx, buf, busy>>
    /\ told' = [told EXCEPT ![handle[w]][k] = v]
    /\ lost' = IF works THEN lost ELSE lost \cup {handle[w]}
    /\ UNCHANGED <<created, nextId, handle, ended, conn>>

\* sql.exec of an INSERT into docs: an error is raised, and the script knows.
SqlExecWrite(w, k, v) ==
    /\ IsOpen(w)
    /\ handle[w] \in created
    /\ SqlWrite(w, k, v)
    /\ told' = [told EXCEPT ![handle[w]][k] = v]
    /\ UNCHANGED <<created, nextId, handle, ended, conn, lost>>

\* sql.exec of BEGIN, COMMIT or ROLLBACK; an error changes nothing.
SqlExecTx(w, stmt) ==
    /\ IsOpen(w) /\ stmt \in TxSql
    /\ IF stmt = "BEGIN" THEN
         /\ tx[w] = "none"
         /\ tx' = [tx EXCEPT ![w] = "begun"]
         /\ UNCHANGED <<docs, buf, busy, told>>
       ELSE LET d == handle[w]
                commits == stmt = "COMMIT" /\ tx[w] = "writing" IN
         /\ tx[w] # "none"
         /\ docs' = IF commits THEN [docs EXCEPT ![d] = buf[w]] ELSE docs
         /\ told' = IF ~commits /\ tx[w] = "writing"
                    THEN [told EXCEPT ![d] = docs[d]] ELSE told
         /\ tx' = [tx EXCEPT ![w] = "none"]
         /\ buf' = [buf EXCEPT ![w] = NoDocs]
         /\ busy' = [busy EXCEPT ![d] = IF @ = w THEN <<>> ELSE @]
    /\ UNCHANGED <<created, nextId, handle, ended, conn, lost>>

StoreNext ==
    \/ \E m \in VM :
         \/ OpenFails(m) \/ VmEnds(m)
         \/ \E d \in Db, api \in {"doc", "sql"} : Open(m, d, api)
    \/ \E w \in Writer :
         \/ Close(w) \/ WriterEnds(w)
         \/ \E k \in Key, v \in Val \cup {NoVal} : DocSet(w, k, v) \/ SqlExecWrite(w, k, v)
         \/ \E stmt \in TxSql : SqlExecTx(w, stmt)

StoreSpec == StoreInit /\ [][StoreNext]_storeVars

\* A writer task that has left its loop returns.
StoreFairness == \A w \in Writer : WF_storeVars(WriterEnds(w))

-----------------------------------------------------------------------------
(* Properties.                                                             *)

\* The write lock of a database always belongs to a live connection on that
\* database, in a transaction that has written.  The handle may be gone, closed
\* or dropped with its VM, but it never means another database while the lock
\* is held.
LockHasOwner ==
    \A d \in Db : busy[d] # <<>> =>
        /\ conn[busy[d]] = d /\ tx[busy[d]] = "writing"
        /\ handle[busy[d]] \in {d, NoDb}

\* The lock of d outlives its handle, which was closed or dropped with its VM.
Orphaned(d) == busy[d] # <<>> /\ ~IsOpen(busy[d])

\* A lock that outlives its handle is freed: a transaction left open when a
\* handle is closed, or a worker ends in the middle of one, does not keep the
\* other workers out of the database for good.
LockComesBack == \A d \in Db : Orphaned(d) ~> ~Orphaned(d)

\* A handle a script holds keeps naming the database it was opened for: an
\* open handle is never rebound by a later open of the same or of another
\* database, and the id of a closed one is not given out again.
HandleStable ==
    [][\A w \in Writer :
          handle'[w] # handle[w] =>
             \/ handle'[w] = NoDb
             \/ handle[w] = NoDb /\ nextId[w[1]] = w[2]]_storeVars

\* Once no transaction is open, a database for which no error was discarded
\* holds exactly what the doc.set, doc.delete and sql.exec calls of all VMs have
\* written, in the order they returned: commits, rollbacks, closed handles and
\* the ends of workers lose and resurrect nothing else.
AckedSetStored ==
    (\A w \in Writer : tx[w] = "none") =>
        \A d \in Db \ lost : told[d] = docs[d]

\* "All mutations go through a dedicated `mpsc` channel", "FIFO serialized"
\* (store.rs:7-8): the same of every database.
EverySetStored == (\A w \in Writer : tx[w] = "none") => told = docs
=============================================================================
