------------------------------- MODULE NinepTcp ------------------------------
(***************************************************************************)
(* The TCP and TLS listeners of the 9P server (src/frontend/ninep.rs) and  *)
(* the multiplexer that carries many 9P sessions over one connection.      *)
(*                                                                         *)
(* Tasks: the accept loop; per connection a mux reader, a mux writer and   *)
(* the loop that hands frames to streams; per stream a run_connection.     *)
(* serve_tcp runs that loop inside its accept loop, serve_tcp_tls spawns a *)
(* task for it.  Sockets and channels are sequences.                       *)
(*                                                                         *)
(* A 9P message is two pieces, its header and its body, which is what      *)
(* run_connection reads at a time; frames cut a stream's pieces anywhere.  *)
(* What a handler answers is the business of NinepServer: here a reply     *)
(* names the pieces it answers.                                            *)
(***************************************************************************)
EXTENDS Integers, Sequences, FiniteSets

CONSTANTS
    Client,    \* TCP connections, by the client that makes them
    Stream,    \* stream ids
    Listener,  \* listeners to explore, of "tcp" and "tls"
    MaxConns,  \* ninep.conn(n), of serve_tcp only; no limit is a number no smaller than Client
    Pieces,    \* bound on the pieces each client sends on each stream
    TooLarge,  \* messages <<c, s, k>> whose size field exceeds the buffer
    MaxFrame   \* bound on the pieces of a frame

ASSUME TcpAssumption ==
    /\ Listener \subseteq {"tcp", "tls"}
    /\ MaxConns \in Nat /\ MaxFrame \in Nat
    /\ Pieces \in [Client -> [Stream -> Nat]]
    /\ TooLarge \subseteq Client \X Stream \X Nat

VARIABLES
    listener,  \* which of the two functions runs
    backlog,   \* connections the kernel has accepted for the listener
    accept,    \* the accept loop: <<"listen">>, <<"permit", c>> or <<"serve", c>>
    permits,   \* connections that hold a permit of the semaphore
    peer,      \* the client's side: "off", "open" or "gone"
    sent,      \* pieces each client has sent on each stream
    socket,    \* frames on their way to the server
    task,      \* state of each connection's reader, loop and writer
    arrived,   \* stream_tx/stream_rx: frames read and not handed out
    streams,   \* the loop's HashMap: ids that have a session
    queue,     \* channel of each stream
    session,   \* run_connection of each stream
    frames,    \* frame_tx/frame_rx: replies for the writer
    got        \* replies each client received on each stream

acceptVars == <<listener, backlog, accept, permits>>
clientVars == <<peer, sent>>
muxVars == <<arrived, streams, queue>>
tcpVars == <<acceptVars, clientVars, socket, task, muxVars, session, frames, got>>

Idle == [reader |-> "none", loop |-> "none", writer |-> "none"]
Running == [reader |-> "run", loop |-> "run", writer |-> "run"]
Refused == [reader |-> "none", loop |-> "end", writer |-> "none"]
NoSession == [at |-> "none", buf |-> <<>>, msg |-> <<>>]
PerStream(x) == [c \in Client |-> [s \in Stream |-> x]]

TcpInit ==
    /\ listener \in Listener
    /\ backlog = <<>> /\ accept = <<"listen">> /\ permits = {}
    /\ peer = [c \in Client |-> "off"]
    /\ sent = PerStream(0)
    /\ socket = [c \in Client |-> <<>>]
    /\ task = [c \in Client |-> Idle]
    /\ arrived = [c \in Client |-> <<>>]
    /\ streams = [c \in Client |-> {}]
    /\ queue = PerStream(<<>>)
    /\ session = PerStream(NoSession)
    /\ frames = [c \in Client |-> <<>>]
    /\ got = PerStream(<<>>)

-----------------------------------------------------------------------------
(* Clients.                                                                *)

Connect(c) ==
    /\ peer[c] = "off"
    /\ peer' = [peer EXCEPT ![c] = "open"]
    /\ backlog' = Append(backlog, c)
    /\ UNCHANGED <<listener, accept, permits, sent, socket, task, muxVars, session, frames, got>>

\* The next n pieces of stream s in one frame.
SendFrame(c, s, n) ==
    /\ peer[c] = "open"
    /\ sent[c][s] + n <= Pieces[c][s]
    /\ socket' = [socket EXCEPT ![c] =
          Append(@, [s |-> s, payload |-> [i \in 1 .. n |-> <<c, s, sent[c][s] + i>>]])]
    /\ sent' = [sent EXCEPT ![c][s] = @ + n]
    /\ UNCHANGED <<acceptVars, peer, task, muxVars, session, frames, got>>

\* The client closes or loses the connection.  Frames lost with it, and one cut
\* short, are to the server like frames that were never sent.
Leave(c) ==
    /\ peer[c] = "open"
    /\ peer' = [peer EXCEPT ![c] = "gone"]
    /\ UNCHANGED <<acceptVars, sent, socket, task, muxVars, session, frames, got>>

-----------------------------------------------------------------------------
(* The accept loop.                                                        *)

\* listener.accept(): serve_tcp goes on to the semaphore, serve_tcp_tls spawns
\* the connection and accepts the next one.
Accept ==
    /\ accept = <<"listen">> /\ backlog # <<>>
    /\ backlog' = Tail(backlog)
    /\ LET c == Head(backlog) IN
         IF listener = "tcp"
         THEN accept' = <<"permit", c>> /\ UNCHANGED task
         ELSE task' = [task EXCEPT ![c].loop = "handshake"] /\ UNCHANGED accept
    /\ UNCHANGED <<listener, permits, clientVars, socket, muxVars, session, frames, got>>

\* Mutant of AcquirePermit: the loop goes on without a permit to spare.
AcquirePermitAnyway ==
    /\ accept[1] = "permit"
    /\ permits' = permits \cup {accept[2]}
    /\ task' = [task EXCEPT ![accept[2]] = Running]
    /\ accept' = <<"serve", accept[2]>>
    /\ UNCHANGED <<listener, backlog, clientVars, socket, muxVars, session, frames, got>>

\* acquire_owned().await, then run_server_mux is spawned and serve_tcp itself
\* becomes the loop of the connection.
AcquirePermit ==
    /\ accept[1] = "permit" /\ Cardinality(permits) < MaxConns
    /\ permits' = permits \cup {accept[2]}
    /\ task' = [task EXCEPT ![accept[2]] = Running]
    /\ accept' = <<"serve", accept[2]>>
    /\ UNCHANGED <<listener, backlog, clientVars, socket, muxVars, session, frames, got>>

\* acceptor.accept(stream).await of a TLS connection.
Handshake(c) ==
    /\ task[c].loop = "handshake"
    /\ \/ peer[c] = "open" /\ task' = [task EXCEPT ![c] = Running]
       \/ task' = [task EXCEPT ![c] = Refused]
    /\ UNCHANGED <<acceptVars, clientVars, socket, muxVars, session, frames, got>>

-----------------------------------------------------------------------------
(* run_server_mux.                                                         *)

ReaderReads(c) ==
    /\ task[c].reader = "run" /\ socket[c] # <<>>
    /\ socket' = [socket EXCEPT ![c] = Tail(@)]
    /\ arrived' = [arrived EXCEPT ![c] = Append(@, Head(socket[c]))]
    /\ UNCHANGED <<acceptVars, clientVars, task, streams, queue, session, frames, got>>

\* read_exact fails: stream_tx is dropped.
ReaderEnds(c) ==
    /\ task[c].reader = "run" /\ socket[c] = <<>> /\ peer[c] = "gone"
    /\ task' = [task EXCEPT ![c].reader = "end"]
    /\ UNCHANGED <<acceptVars, clientVars, socket, muxVars, session, frames, got>>

\* Mutant of ReturnPermit: the accept loop keeps the permit until it has a new one.
ReturnPermitLater(c) ==
    /\ task[c].reader = "end" /\ c \in permits
    /\ accept[1] = "serve" /\ accept[2] # c
    /\ permits' = permits \ {c}
    /\ UNCHANGED <<listener, backlog, accept, clientVars, socket, task, muxVars, session, frames, got>>

\* drop(permit), after run_server_mux has returned.
ReturnPermit(c) ==
    /\ task[c].reader = "end" /\ c \in permits
    /\ permits' = permits \ {c}
    /\ UNCHANGED <<listener, backlog, accept, clientVars, socket, task, muxVars, session, frames, got>>

\* The writer takes a frame.  While the client is there it gets the reply; later
\* the write may still go into the socket's buffer, or fail and end the writer.
WriterWrites(c) ==
    /\ task[c].writer = "run" /\ frames[c] # <<>>
    /\ LET f == Head(frames[c]) IN
       \/ /\ peer[c] = "open"
          /\ got' = [got EXCEPT ![c][f.s] = Append(@, f.reply)]
          /\ frames' = [frames EXCEPT ![c] = Tail(@)]
          /\ UNCHANGED task
       \/ /\ peer[c] = "gone"
          /\ \/ frames' = [frames EXCEPT ![c] = Tail(@)] /\ UNCHANGED task
             \/ frames' = [frames EXCEPT ![c] = <<>>] /\ task' = [task EXCEPT ![c].writer = "end"]
          /\ UNCHANGED got
    /\ UNCHANGED <<acceptVars, clientVars, socket, muxVars, session>>

SessionsOver(c) == \A s \in Stream : session[c][s].at \in {"none", "end"}

\* Every frame_tx is gone: the loop's, and the clone in each session.
WriterEnds(c) ==
    /\ task[c].writer = "run" /\ frames[c] = <<>>
    /\ task[c].loop = "end" /\ SessionsOver(c)
    /\ task' = [task EXCEPT ![c].writer = "end"]
    /\ UNCHANGED <<acceptVars, clientVars, socket, muxVars, session, frames, got>>

-----------------------------------------------------------------------------
(* The loop that hands frames to streams.                                  *)

\* A frame goes to the channel of its stream; the first one starts a session.
\* The entry of a session that has ended stays, and its payloads are dropped.
HandOut(c) ==
    /\ task[c].loop = "run" /\ arrived[c] # <<>>
    /\ LET f == Head(arrived[c]) IN
       /\ streams' = [streams EXCEPT ![c] = @ \cup {f.s}]
       /\ queue' = IF session[c][f.s].at = "end" THEN queue
                   ELSE [queue EXCEPT ![c][f.s] = Append(@, f.payload)]
       /\ session' = IF f.s \in streams[c] THEN session
                     ELSE [session EXCEPT ![c][f.s].at = "header"]
    /\ arrived' = [arrived EXCEPT ![c] = Tail(@)]
    /\ UNCHANGED <<acceptVars, clientVars, socket, task, frames, got>>

\* Mutant of LoopEnds: the map of streams outlives the connection.
LoopEndsKeepsStreams(c) ==
    /\ task[c].loop = "run" /\ arrived[c] = <<>> /\ task[c].reader = "end" /\ SessionsOver(c)
    /\ task' = [task EXCEPT ![c].loop = "end"]
    /\ accept' = IF listener = "tcp" THEN <<"listen">> ELSE accept
    /\ UNCHANGED <<listener, backlog, permits, clientVars, socket, muxVars, session, frames, got>>

\* stream_rx.recv() returns None: map and writer are dropped, and serve_tcp
\* accepts again.
LoopEnds(c) ==
    /\ task[c].loop = "run" /\ arrived[c] = <<>> /\ task[c].reader = "end"
    /\ task' = [task EXCEPT ![c].loop = "end"]
    /\ accept' = IF listener = "tcp" THEN <<"listen">> ELSE accept
    /\ UNCHANGED <<listener, backlog, permits, clientVars, socket, muxVars, session, frames, got>>

-----------------------------------------------------------------------------
(* run_connection over a MuxStream.                                        *)

\* Mutant of ReadExact: what is left of a payload is dropped at the next refill.
ReadExactRefills(c, s) ==
    LET e == session[c][s]
        full == IF queue[c][s] # <<>> THEN Head(queue[c][s]) ELSE e.buf
    IN  [piece |-> Head(full), buf |-> Tail(full),
         queue |-> IF queue[c][s] # <<>> THEN Tail(queue[c][s]) ELSE <<>>]

\* MuxStream::read_exact of one piece: the next payload is taken from the channel
\* when the last one is used up.
ReadExact(c, s) ==
    LET e == session[c][s]
        full == IF e.buf # <<>> THEN e.buf ELSE Head(queue[c][s])
    IN  [piece |-> Head(full), buf |-> Tail(full),
         queue |-> IF e.buf # <<>> THEN queue[c][s] ELSE Tail(queue[c][s])]

Readable(c, s) == session[c][s].buf # <<>> \/ queue[c][s] # <<>>

\* The header is read; a size beyond the buffer ends the session.
ReadHeader(c, s) ==
    LET r == ReadExact(c, s) IN
    /\ session[c][s].at = "header" /\ Readable(c, s)
    /\ queue' = [queue EXCEPT ![c][s] = r.queue]
    /\ session' = [session EXCEPT ![c][s] =
          IF r.piece \in {<<m[1], m[2], 2 * m[3] - 1>> : m \in TooLarge}
          THEN [at |-> "end", buf |-> <<>>, msg |-> <<>>]
          ELSE [at |-> "body", buf |-> r.buf, msg |-> <<r.piece>>]]
    /\ UNCHANGED <<acceptVars, clientVars, socket, task, arrived, streams, frames, got>>

ReadBody(c, s) ==
    LET r == ReadExact(c, s) IN
    /\ session[c][s].at = "body" /\ Readable(c, s)
    /\ queue' = [queue EXCEPT ![c][s] = r.queue]
    /\ session' = [session EXCEPT ![c][s] =
          [at |-> "handle", buf |-> r.buf, msg |-> Append(@.msg, r.piece)]]
    /\ UNCHANGED <<acceptVars, clientVars, socket, task, arrived, streams, frames, got>>

\* Mutant of Answer: the error of a handler is only logged.
AnswerOkOnly(c, s) ==
    /\ session[c][s].at = "handle"
    /\ session' = [session EXCEPT ![c][s].at = "header", ![c][s].msg = <<>>]
    /\ \/ UNCHANGED frames
       \/ frames' = IF task[c].writer = "end" THEN frames
                    ELSE [frames EXCEPT ![c] = Append(@, [s |-> s, reply |-> session[c][s].msg])]
    /\ UNCHANGED <<acceptVars, clientVars, socket, task, muxVars, got>>

\* handle_message replies, or run_connection sends the error: one frame either
\* way.  A writer that has ended is not noticed.
Answer(c, s) ==
    /\ session[c][s].at = "handle"
    /\ session' = [session EXCEPT ![c][s].at = "header", ![c][s].msg = <<>>]
    /\ frames' = IF task[c].writer = "end" THEN frames
                 ELSE [frames EXCEPT ![c] = Append(@, [s |-> s, reply |-> session[c][s].msg])]
    /\ UNCHANGED <<acceptVars, clientVars, socket, task, muxVars, got>>

\* The channel is empty and its sender, in the map, is gone.
SessionEnds(c, s) ==
    /\ session[c][s].at \in {"header", "body"} /\ ~Readable(c, s)
    /\ task[c].loop = "end"
    /\ session' = [session EXCEPT ![c][s] = [at |-> "end", buf |-> <<>>, msg |-> <<>>]]
    /\ UNCHANGED <<acceptVars, clientVars, socket, task, muxVars, frames, got>>

-----------------------------------------------------------------------------
SessionNext(c, s) == ReadHeader(c, s) \/ ReadBody(c, s) \/ Answer(c, s) \/ SessionEnds(c, s)

ServerNext(c) ==
    \/ Handshake(c) \/ ReaderReads(c) \/ ReaderEnds(c) \/ ReturnPermit(c)
    \/ WriterWrites(c) \/ WriterEnds(c) \/ HandOut(c) \/ LoopEnds(c)

ClientNext(c) ==
    \/ Connect(c) \/ Leave(c)
    \/ \E s \in Stream, n \in 1 .. MaxFrame : SendFrame(c, s, n)

TcpNext ==
    \/ Accept \/ AcquirePermit
    \/ \E c \in Client : ClientNext(c) \/ ServerNext(c) \/ \E s \in Stream : SessionNext(c, s)

TcpSpec == TcpInit /\ [][TcpNext]_tcpVars

\* tokio polls every task that can go on, handlers return, and a client reads
\* what it is sent.  Nothing makes a client send, leave or stay.
TcpFairSpec ==
    /\ TcpSpec
    /\ WF_tcpVars(Accept) /\ WF_tcpVars(AcquirePermit)
    /\ \A c \in Client :
         /\ WF_tcpVars(Handshake(c)) /\ WF_tcpVars(ReaderReads(c) \/ ReaderEnds(c))
         /\ WF_tcpVars(ReturnPermit(c)) /\ WF_tcpVars(WriterWrites(c) \/ WriterEnds(c))
         /\ WF_tcpVars(HandOut(c) \/ LoopEnds(c))
         /\ \A s \in Stream : WF_tcpVars(SessionNext(c, s))

-----------------------------------------------------------------------------
(* Properties.                                                             *)

\* Connections whose frames are being read.
Served == {c \in Client : task[c].reader = "run"}

\* Types, and ninep.conn(n): a TCP connection is served with a permit and until
\* it gives the permit back, so there are no more than n at a time.  "Max
\* concurrent 9P/TCP/TLS connections" (handler.rs:196) holds of TCP alone:
\* serve_tcp_tls is given no limit, and its connections have no permits.
TcpTypeOK ==
    /\ listener \in Listener
    /\ \A i \in DOMAIN backlog : task[backlog[i]] = Idle
    /\ permits \subseteq Client
    /\ listener = "tcp" => Served \subseteq permits /\ Cardinality(permits) <= MaxConns
    /\ listener = "tls" => permits = {}
    /\ accept \in {<<"listen">>} \cup ({"permit", "serve"} \X Client)
    /\ peer \in [Client -> {"off", "open", "gone"}]
    /\ \A c \in Client :
         /\ task[c].reader \in {"none", "run", "end"} /\ task[c].writer \in {"none", "run", "end"}
         /\ task[c].loop \in {"none", "handshake", "run", "end"}
         /\ streams[c] = {s \in Stream : session[c][s].at # "none"}
         /\ \A s \in Stream : session[c][s].at \in {"none", "header", "body", "handle", "end"}

\* Sessions that share a connection do not mix: whatever way a client cuts its
\* streams into frames and the tasks interleave, the replies it gets on a stream
\* answer the messages it sent on that stream, each once, whole and in order.
StreamsFaithful ==
    \A c \in Client, s \in Stream :
        /\ 2 * Len(got[c][s]) <= sent[c][s]
        /\ \A k \in DOMAIN got[c][s] :
             got[c][s][k] = <<<<c, s, 2 * k - 1>>, <<c, s, 2 * k>>>>

\* A connection that is lost leaves nothing behind: its sessions end although
\* each keeps a clone of the writer, the writer ends although it waits for all
\* of them, and the permit comes back.
ConnectionTornDown ==
    \A c \in Client :
        (peer[c] = "gone" /\ task[c].loop = "run") ~>
            (SessionsOver(c) /\ task[c].writer = "end" /\ c \notin permits)

\* As long as the connections before it end some day, a client that has
\* connected is served some day, with any positive limit.  serve_tcp needs the
\* premise: "Each incoming connection is handled in its own task" says the
\* comment on it, but the loop that hands out a connection's streams runs in
\* the accept loop itself, so one client that stays keeps all others waiting.
QueuedIsServed ==
    (\A c \in Client : (task[c].loop = "run") ~> (peer[c] = "gone")) =>
        \A c \in Client : (peer[c] = "open") ~> (task[c].loop \notin {"none", "handshake"})

\* Every message a client has completely sent on an accepted connection is
\* answered while the client stays, except on a stream whose session has ended
\* at an oversized message.
MessageAnswered ==
    \A c \in Client, s \in Stream : \A k \in 1 .. Pieces[c][s] \div 2 :
        (task[c].loop = "run" /\ sent[c][s] >= 2 * k) ~>
            (Len(got[c][s]) >= k \/ peer[c] = "gone" \/ session[c][s].at = "end")
=============================================================================
