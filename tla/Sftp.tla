--------------------------------- MODULE Sftp --------------------------------
(***************************************************************************)
(* The SSH/SFTP frontend of src/frontend/sshfs.rs: the connection limit,   *)
(* and the SFTP loop with its handle table and its 60 s timeout.           *)
(*                                                                         *)
(* Router and worker pool are the first-come-first-served line that module *)
(* SerialService describes.  A packet is identified by its connection and  *)
(* its number; packets that are answered without a request (unknown or     *)
(* wrong handles, realpath, unsupported ones) change nothing and are not   *)
(* actions.  Each connection opens one SFTP channel at a time.             *)
(***************************************************************************)
EXTENDS Integers, Sequences, FiniteSets

CONSTANTS
    Conn,      \* SSH connections
    MaxConns,  \* sshfs.conn(n)
    File,      \* paths of files and directories
    RootPath,  \* "/"
    LineCap,   \* capacity of the request channel
    MaxPacket, \* bound on the packets of each connection
    MaxHandle  \* bound on the handles of a session

ASSUME SftpAssumption ==
    /\ MaxConns \in Nat /\ MaxHandle \in Nat
    /\ MaxPacket \in [Conn -> Nat]
    /\ LineCap \in Nat \ {0}
    /\ RootPath \notin File

VARIABLES
    conn,     \* open connections
    permit,   \* connections that got a permit of the semaphore
    loop,     \* SFTP loop: "none", "ready", "sending" or "waiting"
    pkt,      \* the request of the packet each loop works on
    handles,  \* HandleState::handles of each session: path of each handle
    nextId,   \* HandleState::next_id
    line,     \* requests the router has not answered, oldest first
    given,    \* history: path of every handle the client was given
    okSeq     \* history: number of the last packet whose request succeeded in time

sftpVars == <<conn, permit, loop, pkt, handles, nextId, line, given, okSeq>>

Op == {"open", "close", "use", "setstat", "path"}
Packets == [seq : Nat, op : Op, path : File \cup {RootPath}, h : 0 .. MaxHandle]
Answered(seq) == [seq |-> seq, op |-> "path", path |-> RootPath, h |-> 0]
NoHandles == [h \in {} |-> RootPath]

SftpInit ==
    /\ conn = {} /\ permit = {}
    /\ loop = [c \in Conn |-> "none"]
    /\ pkt = [c \in Conn |-> Answered(0)]
    /\ handles = [c \in Conn |-> NoHandles]
    /\ nextId = [c \in Conn |-> 1]
    /\ line = <<>>
    /\ given = [c \in Conn |-> NoHandles]
    /\ okSeq = [c \in Conn |-> 0]

-----------------------------------------------------------------------------
(* Connections.                                                            *)

\* new_client: the session goes on with or without a permit.
NewClient(c) ==
    /\ c \notin conn /\ loop[c] = "none"
    /\ conn' = conn \cup {c}
    /\ permit' = IF Cardinality(permit) < MaxConns THEN permit \cup {c} ELSE permit
    /\ UNCHANGED <<loop, pkt, handles, nextId, line, given, okSeq>>

\* subsystem_request "sftp" spawns the loop with an empty handle table.
StartSftp(c) ==
    /\ c \in conn /\ loop[c] = "none"
    /\ loop' = [loop EXCEPT ![c] = "ready"]
    /\ UNCHANGED <<conn, permit, pkt, handles, nextId, line, given, okSeq>>

\* The loop ends and its session is dropped, without any Release.
EndSftp(c) ==
    /\ loop' = [loop EXCEPT ![c] = "none"]
    /\ handles' = [handles EXCEPT ![c] = NoHandles]
    /\ nextId' = [nextId EXCEPT ![c] = 1]
    /\ given' = [given EXCEPT ![c] = NoHandles]

\* The connection ends.  A loop that reads packets ends with it; one that waits
\* for the router goes on.
Disconnect(c) ==
    /\ c \in conn
    /\ conn' = conn \ {c} /\ permit' = permit \ {c}
    /\ IF loop[c] = "ready" THEN EndSftp(c)
       ELSE UNCHANGED <<loop, handles, nextId, given>>
    /\ UNCHANGED <<pkt, line, okSeq>>

-----------------------------------------------------------------------------
(* The SFTP loop.                                                          *)

\* A packet that needs the router is read.
Packet(c, op, path, h) ==
    /\ c \in conn /\ loop[c] = "ready" /\ pkt[c].seq < MaxPacket[c]
    /\ pkt' = [pkt EXCEPT ![c] = [seq |-> @.seq + 1, op |-> op, path |-> path, h |-> h]]
    /\ loop' = [loop EXCEPT ![c] = "sending"]
    /\ UNCHANGED <<conn, permit, handles, nextId, line, given, okSeq>>

\* Open and OpenDir.
Open(c, path) == nextId[c] <= MaxHandle /\ Packet(c, "open", path, 0)

\* Remove, MkDir, RmDir, Stat, Lstat, Rename, SetStat.
ByPath(c, path) == Packet(c, "path", path, 0)

\* Close, and Read, Write, ReadDir, Fstat: with a handle of the table.
ByHandle(c, op, h) ==
    /\ op \in {"close", "use"} /\ h \in DOMAIN handles[c]
    /\ Packet(c, op, handles[c][h], h)

\* FSetStat: a handle that is not in the table stands for the path "", which
\* route turns into "/".
FSetStat(c, h) ==
    Packet(c, "setstat", IF h \in DOMAIN handles[c] THEN handles[c][h] ELSE RootPath, h)

\* router_tx.send(req).await, which the timeout does not cover.
Send(c) ==
    /\ loop[c] = "sending" /\ Len(line) < LineCap
    /\ line' = Append(line, [c |-> c, seq |-> pkt[c].seq])
    /\ loop' = [loop EXCEPT ![c] = "waiting"]
    /\ UNCHANGED <<conn, permit, pkt, handles, nextId, given, okSeq>>

\* Mutant of Alloc: the id is the size of the table plus one.
AllocBySize(c) == Cardinality(DOMAIN handles[c]) + 1

\* HandleState::alloc.
Alloc(c) == nextId[c]

\* The handle table after a packet with that result.
Update(c, result) ==
    LET p == pkt[c]
        id == Alloc(c)
        With(f) == [h \in DOMAIN f \cup {id} |-> IF h = id THEN p.path ELSE f[h]]
    IN  IF p.op = "open" /\ result = "ok" THEN
          /\ handles' = [handles EXCEPT ![c] = With(@)]
          /\ nextId' = [nextId EXCEPT ![c] = @ + 1]
          /\ given' = [given EXCEPT ![c] = IF id \in DOMAIN @ THEN @ ELSE With(@)]
        ELSE IF p.op = "close" THEN
          /\ handles' = [handles EXCEPT ![c] = [h \in DOMAIN @ \ {p.h} |-> @[h]]]
          /\ UNCHANGED <<nextId, given>>
        ELSE UNCHANGED <<handles, nextId, given>>

\* Mutant of Answer: nothing is sent for an error.
AnswerOkOnly(c, result) ==
    /\ pkt' = [pkt EXCEPT ![c] = Answered(@.seq)]
    /\ okSeq' = [okSeq EXCEPT ![c] = IF result = "ok" THEN pkt[c].seq ELSE @]
    /\ IF c \notin conn THEN EndSftp(c)
       ELSE /\ loop' = [loop EXCEPT ![c] = IF result = "ok" THEN "ready" ELSE @]
            /\ Update(c, result)

\* The loop answers its packet, and reads the next one if the stream is there.
Answer(c, result) ==
    /\ pkt' = [pkt EXCEPT ![c] = Answered(@.seq)]
    /\ okSeq' = [okSeq EXCEPT ![c] = IF result = "ok" THEN pkt[c].seq ELSE @]
    /\ IF c \notin conn THEN EndSftp(c)
       ELSE /\ loop' = [loop EXCEPT ![c] = "ready"]
            /\ Update(c, result)

\* timeout(60 s): the request stays in the line.
PacketTimesOut(c) ==
    /\ loop[c] = "waiting"
    /\ Answer(c, "timeout")
    /\ UNCHANGED <<conn, permit, line>>

-----------------------------------------------------------------------------
(* The router.                                                             *)

\* The reply to r reaches the loop if it still waits for it.
Deliver(r) ==
    IF loop[r.c] = "waiting" /\ pkt[r.c].seq = r.seq
    THEN \E result \in {"ok", "err"} : Answer(r.c, result)
    ELSE UNCHANGED <<loop, pkt, handles, nextId, given, okSeq>>

\* Mutant of Serve: requests are dispatched in tasks of their own.
ServeAny ==
    \E i \in DOMAIN line :
        /\ line' = SubSeq(line, 1, i - 1) \o SubSeq(line, i + 1, Len(line))
        /\ Deliver(line[i])
        /\ UNCHANGED <<conn, permit>>

Serve ==
    /\ line # <<>>
    /\ line' = Tail(line)
    /\ Deliver(Head(line))
    /\ UNCHANGED <<conn, permit>>

LoopNext(c) ==
    \/ \E path \in File : Open(c, path) \/ ByPath(c, path)
    \/ \E h \in 1 .. MaxHandle : FSetStat(c, h) \/ \E op \in Op : ByHandle(c, op, h)
    \/ Send(c) \/ PacketTimesOut(c)

SftpNext ==
    \/ \E c \in Conn : NewClient(c) \/ StartSftp(c) \/ Disconnect(c) \/ LoopNext(c)
    \/ Serve

SftpSpec == SftpInit /\ [][SftpNext]_sftpVars

\* The router goes on, a timer fires, and tokio's channel lets waiting senders
\* in one after the other.
SftpFairness ==
    /\ WF_sftpVars(Serve)
    /\ \A c \in Conn : SF_sftpVars(Send(c)) /\ WF_sftpVars(PacketTimesOut(c))

-----------------------------------------------------------------------------
(* Properties.                                                             *)

SftpTypeOK ==
    /\ conn \subseteq Conn /\ permit \subseteq conn /\ Cardinality(permit) <= MaxConns
    /\ loop \in [Conn -> {"none", "ready", "sending", "waiting"}]
    /\ pkt \in [Conn -> Packets] /\ okSeq \in [Conn -> Nat]
    /\ DOMAIN handles = Conn /\ DOMAIN given = Conn
    /\ \A c \in Conn : handles[c] \in [DOMAIN handles[c] -> File \cup {RootPath}]
    /\ nextId \in [Conn -> 1 .. MaxHandle + 1]
    /\ line \in Seq([c : Conn, seq : Nat]) /\ Len(line) <= LineCap

\* A handle always means the path it was given out for: in the table, and in
\* every request made through it, however handles were closed and opened and
\* requests timed out in between.  FSetStat alone may fall through to "/".
HandleMeansPath ==
    /\ \A c \in Conn : \A h \in DOMAIN handles[c] : handles[c][h] = given[c][h]
    /\ \A c \in Conn : loop[c] \in {"sending", "waiting"} /\ pkt[c].h # 0 =>
         \/ pkt[c].h \in DOMAIN given[c] /\ pkt[c].path = given[c][pkt[c].h]
         \/ pkt[c].op = "setstat" /\ pkt[c].path = RootPath

\* What a client was told is done stays done: a request that timed out, and is
\* still in the line, is never carried out after a later one of the same
\* connection was answered Ok.  (A Close that times out is answered Ok too, and
\* does not count here.)
AckedIsSettled ==
    \A i \in DOMAIN line : line[i].seq > okSeq[line[i].c]

\* Every packet is answered, although the router serves one request at a time
\* and its channel is full at times.
PacketAnswered ==
    \A c \in Conn : loop[c] \in {"sending", "waiting"} ~> loop[c] \in {"ready", "none"}
=============================================================================
