# A TLA+ model of pinhead

pinhead serves a virtual file system whose files are Lua functions. Frontends
(FUSE, 9P2000, SSH/SFTP) turn file operations into requests; one router task
matches each request against the routes the script registered; a pool of pinned
workers, each with its own Lua VM, runs the function. Scripts can keep documents
in SQLite, call other 9P servers and convert values to JSON and CSV. This
directory specifies that machinery, checks it with TLC and proves the safety of
most of it with TLAPS.

## The system and its modules

```
 fuse.rs   ninep.rs   sshfs.rs      frontend tasks: Request + oneshot reply
     \        |        /
      mpsc(128)  -> router.rs       one task, awaits each dispatch
                     mpsc(64) -> worker.rs dispatcher -> workers (Lua)
                                                           |
                              store.rs, ninep_client.rs, serialize.rs
```

| part (source) | module | state and actions |
|---|---|---|
| worker pool (`worker.rs`) | `WorkerPool` | channels, Vec of workers, life cycle of each worker; one action per select arm and outcome |
| router task (`router.rs`) | `Router` | request channel, what `dispatch` is doing, replies |
| wiring, clients, shutdown (`main.rs`) | `Pinhead` (extends both) | what each frontend task and `main` are doing |
| what frontends may rely on | `SerialService` | abstract: a line served one at a time |
| routes (`handler.rs`, `main.rs`, `router.rs`) | `RouteTable` | registration calls, merge by pattern, lookup |
| start and stop of frontends (`handler.rs`, `main.rs`, `serve*`, `mount`) | `Startup` | configuration, listener tasks, socket files over crashes and restarts |
| 9P server (`frontend/ninep.rs`) | `NinepServer` | fid and path tables, msize, state mutex, each handler at its await points |
| its TCP and TLS listeners | `NinepTcp` | accept loop, permits, multiplexer tasks, sessions |
| its stat records, and how the client reads them | `StatRecord` | the entries of a directory; bytes as operators |
| 9P client (`frontend/ninep_client.rs`) | `NinepClient` | one action per message of a call |
| SFTP (`frontend/sshfs.rs`) | `Sftp` | permits, handle tables, packet loops, timeout |
| FUSE (`frontend/fuse.rs`) | `Fuse` | inode table, size cache, the kernel's view |
| documents and SQL (`store.rs`) | `Store` | handles, writer connections, transactions and locks of several VMs |
| conversions (`serialize.rs`) | `Serialize` | the table a script builds; conversions as operators |
| proofs | `Pinhead_proofs`, `NinepServer_proofs`, `NinepTcp_proofs`, `Sftp_proofs`, `Fuse_proofs`, `Route_proofs`, `Script_proofs` (of `Store`, `NinepClient` and `Startup`), `Iteration_proofs` (lemmas) | inductive invariants and theorems |

An action is what a task does between two await points. `call_lua` blocks its
thread while all other tasks go on, so it is two actions, start and end. A FUSE
callback is one action because one thread serves a session; a store call is one
because it blocks the VM and no other VM can use the handle. The end of a writer task
is an action of its own: `close` has its answer before the task drops its connection,
and a VM that ends waits for none of its tasks, so a transaction and its lock outlive
the handle for a while.

How the modules fit together: `Pinhead` composes router and pool and is shown to
implement `SerialService`. `Router` takes the verdict of the route table as a
constant, `RouteTable` says what the verdict is. `NinepServer`, `Sftp` and `Fuse`
use the service only through what `SerialService` promises: an answer that is a
success or an error, in `Sftp` first come, first served. `NinepTcp` carries the
messages whose handlers are in `NinepServer`; a reply there names the message it
answers. `NinepClient` has the effect of each message on the server's fid table;
that a call blocks the worker, and what follows when the worker's own server is
called, is in `Pinhead`. Two instances join modules that share no variable, and a
behaviour of them moves in one: `MCFrontends` has the pipeline, `Fuse` and `Sftp`,
`MCScript` what a script meets (`RouteTable`, `Startup`, `Store`, `NinepClient`,
`StatRecord`, `Serialize`).

Definitions marked "Mutant of" (`AllocQidAlways`, `ClaimFirst`, ...) are broken
variants of the definition that follows them. They are part of no specification;
each shows that some property would notice that fault.

## What the passing runs show

| run (cfg) | properties | instance |
|---|---|---|
| `MCFrontends` | pipeline: `SingleInFlight`, `NoLostReply`, refinement `ServesSerially`, with fairness `EveryRequestAnswered`, `PoolRecovers`; FUSE: `HeldInodeHasPath`, `PathIsPlace`; SFTP: `AckedIsSettled`, `HandleMeansPath`, with fairness `PacketAnswered` | pipeline: 3 requests, of which one may time out and sends another, which the router refuses, to its own server, and one comes from an inline listener; min 1, max 2 workers; FUSE: 4 inodes, depth 2, renames of files and directories; SFTP: a connection with 3 packets, one with 1, 1 permit |
| `MCNinepTcp` | `TcpTypeOK`, `StreamsFaithful`; with fairness `ConnectionTornDown`, `QueuedIsServed`, `MessageAnswered` | TCP and TLS, 1 permit; a client with 2 streams, one with an oversized message, and a client that waits |
| `MCNinepSessions` | `NinepTypeOK`, `SessionView`, `QidsAllocated` | 2 connections with fids of their own, renames, Tversion below the limit, the name "." |
| `MCNinepLive` | `PathHasOneQid`, `FidNamesItsQid`; with fairness `EveryMessageAnswered` | 2 connections, walks of 2 names, no renames, socket buffers of one reply |
| `MCScript` | routes: `DispatchAsRegistered`, `MatchUnambiguous`, `RegistrationIsLocal`; start and stop: `SocketsLeadToListeners`, `ShutdownRemovesSockets`; store: `LockHasOwner`, `AckedSetStored`, `HandleStable`, with fairness `LockComesBack`; client: `ActsOnOwnPath`, `ReadReturnsFile`, `WriteDelivered`, with fairness `CallReturns`; records: `ListingFramed`; values: `JsonRoundTrip`, `CsvRoundTrip`, `QueriesAgree`; types: `ScriptTypeOK` | see Bounds |

Each property is stated in words above its definition. Some hold with an exception
that the code makes and the property names: `EveryRequestAnswered` excepts a handler
that waits for its own server, `PathHasOneQid` and `FidNamesItsQid` except targets of
renames, `AckedSetStored` excepts databases where a `doc.set` met a lock or a missing
table, `PathIsPlace` holds until the first rename, `QueuedIsServed` supposes that the
connections served before end some day, `SocketsLeadToListeners` excepts listeners
whose bind or accept failed, `CallReturns` supposes that a file being read does not
grow for ever. `ReadReturnsFile` and `CsvRoundTrip` say what comes back for bytes that
are no text, and for which rows a CSV text is reversible: booleans come back as text.
`DispatchAsRegistered` says what the code does, `DispatchAsDocumented` (below) what the
documents say. `SessionView` covers the msize as well; it holds in `MCNinepSessions`
because both clients ask for the same one, and it is about clients that wait for a
handler to end before they reconnect: one that does not is two connections with the
same fids, the situation of `MCNinepSharedFid`.

### Where the code and its comments differ

These runs end with a counterexample on purpose: each checks what a comment or the
examples' README says,
and the trace shows what the code does instead.

| run (cfg) | property | the code |
|---|---|---|
| `MCNinepSharedFid` | `SessionView` | connections of a listener share the fid table (and the msize) |
| `MCStoreBusy` | `EverySetStored` | `doc.set` on a locked database is lost without an error |
| `MCFuseRename` | `RenameFollowed` | a rename updates one of several inodes of a path |
| `MCClientLs` | `LsListsEntries` | `ninep_client.ls` reads the records at wrong offsets and prints no name |
| `MCPoolInflates` | `PoolInflates` | requests wait in the router's channel, the depth the dispatcher looks at is 0, and the pool stays at `worker.min` |
| `MCDispatch` | `DispatchAsDocumented` | `route.default` serves no unregistered path, a `.default` form does not reach a path that has a route, a later `route.all` loses to an earlier specific bundle (`main.rs:52-54`, `examples/README.md:137-140`) |
| `MCCsvQuery` | `CsvQueryIsArray` | `csv.q` keeps the number of each row, so its "array" has holes |

Further differences, visible in the definitions and without a run of their own:

- a request sent to a dead worker is dropped, not retried (`worker.rs:103`);
- `ninep.conn(n)` is documented as the maximum of "9P/TCP/TLS connections"
  (`handler.rs:196`), but `serve_tcp_tls` is given no limit and takes no permit
  (`main.rs:139`, `ninep.rs:1145`); `TcpTypeOK` says so of each listener;
- a handler that calls its own server through the 9P client never returns
  (`ninep_client.rs:3`; the disjunct `CallsItself` of `EveryRequestAnswered`);
- `serve_tcp` serves one connection at a time, whatever the limit: the loop that
  hands out its streams runs inside the accept loop (`ninep.rs:1076-1077` against
  `1121`; the premise of `QueuedIsServed`);
- an accept error ends a listener for good, and of two listeners of one socket path
  it removes the file of the other (`ninep.rs:214`);
- a 9P rename onto a known path gives it a second qid (`ninep.rs:1045`);
- Tremove keeps the fid (`ninep.rs:875`, against `ninep_client.rs:419`);
- the client's `mkdir` and `create_file` say that the server has no Tcreate, which it
  has; a path the client walked to is never a directory, so `ls` of it reads the file;
- a write of the client reaches the handler in pieces of 65512 bytes without an offset,
  and an empty one not at all; over TCP the client sends no multiplexer frames;
- uid, gid and muid of a stat record have length 2 and one byte (`ninep.rs:92`);
- `doc.set` on a handle of `sql.open` may find no table (`store.rs:352-353`), and
  `doc.find` compares numbers as text (`store.rs:506`);
- a list with holes loses elements in JSON, depending on the border Lua finds
  (`serialize.rs:44`), and a boolean in a CSV row comes back as text (`serialize.rs:240`);
- `ninep_client.read` of a file that grows with every read does not end
  (`ninep_client.rs:241`), and what is no UTF-8 comes back as U+FFFD (line 255);
- FUSE's size cache goes stale, and its `create` asks no handler (`fuse.rs:34`, `464`);
- SSH connections beyond the limit are served (`sshfs.rs:111-113`).

## Bounds

- Pipeline: the capacities 128 and 64 become 2, so full channels are reached.
  The growth threshold 5 becomes 0, the value at which growth is easiest. Three
  requests give one that runs, one that waits and one that is refused; with one
  worker its death leaves the pool empty. A request is sent once, so a run ends;
  `CHECK_DEADLOCK FALSE` because the process exits. Other values of `worker.min` and
  `worker.max` (also a maximum below the minimum) are covered by the theorems only.
- 9P: two connections are enough for each pair of handlers to interleave. Paths
  have at most `MaxDepth` names, a Twalk has a length of `WalkLen`; `MaxQid` stops
  renames, each of which can bring a new path; `SendCap` is the socket buffer.
  Renames and walks of two names are in different runs, together they are out of
  reach.
- TCP: a message is two pieces, header and body, and a frame holds up to three
  pieces, so it can end inside a message or hold a message and the start of the
  next. Stream 1 carries two messages, the second too large; stream 2 half a
  message. One permit makes the second client wait. `CHECK_DEADLOCK FALSE` because
  clients stop sending.
- Routes: three calls over six patterns and three bundles allow a specific, a
  wildcard and a default registration of overlapping patterns, and one pattern with a
  catch-all before its end, which the trie refuses. No pattern set has a
  parameter and a catch-all at the same position, where the precedence of the trie
  library is not visible in the source.
- Start and stop: one socket path, one port, one mount and three configuration
  calls, so that a path or port can be asked for twice; two processes, so that one
  finds what the other left.
- Client: a file in the root and one below it, two calls, texts of up to three
  bytes with two to a message (65512 in the code), so a text can need two, and a
  two-byte character can be cut by the end of a message or by a change of the file.
- Records: up to three entries with names of one or two bytes, one of which could
  be mistaken for a length.
- Values: tables with up to four keys, holes included, over nine elements (scalars,
  booleans, text that is a numeral, rows with different columns, a nested list).
- `MCScript` has `CHECK_DEADLOCK FALSE` because a script ends.
- Store: two databases and two VMs, one with two handles, so that a handle of another
  database can be opened between a close and the end of its writer, and one VM can
  meet what the other left. `MaxHandle` bounds the ids a VM gives out in one life.
  `sql.exec` is limited to writes of the docs table and transaction statements.
- FUSE: `MaxIno` bounds the inode numbers. A rename goes to a place that is free,
  for the kernel and for the script.
- SFTP: `MaxPacket` bounds the packets of each connection; three are enough to open,
  close and open again, and to go on after a timeout. `MaxHandle` bounds the handles of a session.
  A connection has one SFTP channel at a time.

## Fairness

- `Pinhead`: tokio polls every task that can go on, so router, dispatcher, workers
  and waiting frontends are weakly fair; `select!` picks a ready arm at random, so
  the dispatcher's two arms are fair separately. A handler that waits for nobody
  returns. Nothing forces a client to send, a worker to fail or a signal to come.
- `NinepServer`: tokio's mutex is first come, first served, so a handler that waits
  for it is not overtaken for ever (strong fairness). Clients read their replies;
  without that a client blocks the listener, since replies are written under the
  mutex.
- `NinepTcp`: every task of a connection and the accept loop are polled, handlers
  return, and the client reads what it is sent. Nothing makes a client send, leave or
  stay.
- `Store`: a writer task whose handle is gone has left its loop, or finds its channel
  closed, and returns. Nothing forces a script to call, or a VM to end.
- `NinepClient`: a call that can take its next step does (the server answers, or
  its connection ends). Nothing forces a call to begin or a file to change.
- `Sftp`: the request channel is fair to waiting senders (strong fairness of
  `Send`), the router goes on, timers fire.

## What is proved

The theorems hold for every value of the constants that satisfies the named
assumptions of the modules (`PoolAssumption`, `RouterAssumption`,
`FrontendAssumption`, `NinepAssumption`, `TcpAssumption`, `StoreAssumption`,
`SftpAssumption`, `FuseAssumption`, `RouteAssumption`, `StartupAssumption`,
`ClientAssumption`), which give the constants their types and say that marks such as
`NoRequest` are no values: any number of requests, connections, streams, workers,
handles and inodes, any routes, files and addresses, any limits and channel
capacities. `RouteAssumption` says that a parameter is no catch-all, that a path has a
segment, that scripts call wrappers which exist and that no operation is called `*`.

| module | theorem | property |
|---|---|---|
| `Pinhead_proofs` | `TypeCorrect` | `TypeOK` |
| | `SerialPipeline` | `SingleInFlight` |
| | `MaxWorkersUnused` | `PoolNeverInflates`, what the code does instead of `PoolInflates` |
| | `ReplyNeverDangles` | `NoLostReply` |
| | `HandlerNeverGone` | `DispatcherOutlivesRouter` |
| | `PipelineIsSerialService` | `ServesSerially` |
| `NinepServer_proofs` | `QidsStayAllocated` | `QidsAllocated` |
| | `ListingsUnambiguous` | `PathHasOneQid` |
| | `FidsNameTheirQids` | `FidNamesItsQid`, when clients use different fids |
| | `SessionsStayApart` | `SessionView`, when clients use different fids and one msize |
| | `NinepTypeCorrect` | `NinepTypeOK` |
| `NinepTcp_proofs` | `TcpInvariant` | `TcpInv` |
| | `StreamsAreFaithful` | `StreamsFaithful` |
| | `TcpTypeCorrect` | `TcpTypeOK` |
| `Sftp_proofs` | `SftpTypeCorrect` | `SftpTypeOK` |
| | `HandlesMeanPaths` | `HandleMeansPath` |
| | `AckedStaysSettled` | `AckedIsSettled` |
| `Fuse_proofs` | `InodesHavePaths` | `HeldInodeHasPath` |
| | `PathsArePlaces` | `PathIsPlace` |
| `Route_proofs` | `RouteInvariant` | `RouteInv` |
| | `RoutesUnambiguous` | `MatchUnambiguous` |
| | `RequestsRunRegistered` | `DispatchAsRegistered` |
| | `RegistrationsAreLocal` | `RegistrationIsLocal`, an action property |
| `Script_proofs` | `LocksOwned` | `LockHasOwner` |
| | `AckedIsStored` | `AckedSetStored` |
| | `HandlesStable` | `HandleStable` |
| | `ClientInvariant` | `ClientInv` |
| | `CallsActOnOwnPath` | `ActsOnOwnPath` |
| | `ReadsReturnFile` | `ReadReturnsFile` |
| | `WritesAreDelivered` | `WriteDelivered` |
| | `SocketsRemoved` | `ShutdownRemovesSockets` |
| | `SocketsLead` | `SocketsLeadToListeners` |

Each proof rests on an inductive invariant: one lemma per action, one step per
conjunct the action can disturb.

- `Inv` of `Pinhead_proofs`. `SingleInFlight` is not inductive alone: a router that
  sends while a request is still in the pool would break it, and only `CurInv` (the
  router holds a request exactly inside `dispatch`) and `HeldInv` exclude that.
  `AwaitInv` says that a router that waits has a reply channel. `QueueInv` says that
  queues belong to workers with a receiver, which makes a closing worker drop exactly
  the request in flight; `LifeInv` orders the ends of router and dispatcher.
  `PoolNeverInflates` needs `SingleInFlight` because growth needs a second request in
  the handler channel.
- `RefInv` of `Pinhead_proofs` adds that a request is accepted once and waits without
  having run (`AcceptedInv`), and that its place and its reply tell whether its handler
  was started (`StartedInv`). Under the mapping, `Submit` is the service's `Accept`, the
  router's reply its `Answer`, a worker's receive its `Run`; everything else stutters.
- `TablesInv` of `NinepServer_proofs`: the qid counter is ahead of the path table, in
  which a path is found once, rename targets excepted (`TableGood`); fids, and what a
  handler has copied before an await, denote entries that are still there when it
  goes on (`FidGood`, `JobGood`, `Owns`). The table only grows or has entries renamed,
  which is why a copy survives other handlers. `FidsNameTheirQids` needs the condition
  that fids are not shared (`Apart`): otherwise a Twstat may come back from the router
  and find its fid at another file.
- `ViewsInv`, for `SessionView`: whatever a client holds established is in the table
  with the path the client believes, up to the fid its own handler is about to change
  (`ViewGood`), and what the handler will answer is what it will store (`WantGood`). It
  needs the same condition, and that all clients ask for one msize, because the
  listener has a single one; `MCNinepSharedFid` shows what happens without.
- `TypesInv`, for `NinepTypeOK`: the path a handler copied before an await is one that
  it may still store after it (`JobTyped`).
- `TcpInv`. The pieces of a stream are numbered, so a payload is a run of numbers and
  what waits in a socket or a channel covers an interval: there are marks between its
  elements such that each element is the run between its two marks (`Spans`). `StreamAt`
  says that the intervals of socket, channels, buffer and message in progress join up
  from the last reply to the last piece sent, and that the reply frames cover the
  replies. A step moves one mark. This takes the place of an induction over the
  concatenation of the queues. `AcceptInv` says that a connection waits once
  and before it has a task, `MuxInv` that the map of streams holds those that have had
  a session and that a writer ends only when nobody is left to hand it replies.
  `PermitInv` adds the count of permits, and that the TCP connections that are served
  hold one.
- `StoreInv`: an open handle has a connection to its database, a transaction has a
  connection, and one that has written holds the lock (`TxInv`); unused handle numbers
  have no connection (`FreshInv`), which is why a writer that lags behind is never
  mistaken for a new one; what the scripts were told is the content or, while its handle
  is open, the buffer of the lock's owner (`ToldInv`).
- `SftpInv`: the handle table is part of what was given out (`TableInv`), a packet in
  work still means its handle's path (`PendingInv`), and the requests of a connection
  are in the line in order, after the last one that succeeded (`OrderInv`).
- `FuseInv`: numbers not given out are in no table (`FreshIno`), with both properties
  and the types.
- `RouteInv` of `Route_proofs`: the n-th registration of `main` belongs to the n-th
  function that the calls made so far count out, so a second execution of the script
  ties each name to the function it was given for. The loops over registrations
  (`MergeLoop`) and over calls (`Execution`) are recursive functions; the lemmas
  `MergeLoopIs`, `HandlersAre` and `ExecutionIs` say what they compute for every
  length. `Unambiguous` is about patterns alone: of two that match one path, neither
  tried before the other, insert refuses one. It needs that insert refuses a catch-all
  before the end of a pattern (`Malformed`); without it the statement is false.
- `ClientInv`: fid 4 is bound to the path of the call from the walk on (`OwnFid`), what
  has been read consists of pieces of the file's versions (`Pieces`) and reaches the end
  of one when the loop ends (`Whole`), what is returned is the text of such bytes
  (`AsText`), and the chunks that were delivered concatenate to
  the part of the data before the offset (`WriteGood`, by `ChunkDelivered`).
- `OwnerInv`: a socket file that is not left over belongs to a task that listens on its
  path. `PathInv`: the list of addresses holds exactly what was asked for (`AskedInv`),
  a leftover file is there only while no listener of its path has come past the removal,
  and a path has no file of a listener only while one has yet to bind or one met an
  error (`PathGood`).

What holds of recursive functions is proved with the lemmas of `Iteration_proofs`: `UpTo` (what holds of 0 and of every
number after one it holds of, from the well-foundedness of the naturals) and `Iterates`
(a recursive definition over an interval has a solution).

`TypeOK`, `StoreTypeOK`, `SftpTypeOK` and `FuseTypeOK` are proved as parts of these
invariants and are not listed in a run.

Only model-checked:

- all liveness (`EveryRequestAnswered`, `PoolRecovers`, `ConnectionTornDown`,
  `QueuedIsServed`, `MessageAnswered`, `EveryMessageAnswered`, `PacketAnswered`,
  `LockComesBack`, `CallReturns`), which is out of the prover's reach;
- `ListingFramed`, `JsonRoundTrip`, `CsvRoundTrip` and `QueriesAgree`: `StatRecord` and
  `Serialize` define their conversions with recursive operators, which the prover's
  backends cannot use;
- `ScriptTypeOK`, which combines the types of the modules of `MCScript`.

## Not modelled

- Layout of 9P and SFTP messages other than the stat record, read offsets, attribute
  texts, and checks of lengths (`ninep.rs:376`).
- The UDP loop of the 9P server: it serves one datagram after the other and answers
  an error with an empty one; nothing in it interleaves.
- SFTP listings, which never end with Eof (`sshfs.rs:396`).
- SSH authentication and TLS credentials. `worker.*` and `*.conn` are constants.
- Queries of the store, which change nothing, and its reader connection
  (`store.rs:212`, `506`).
- YAML, TOML and jq: the conversions of `Serialize` followed by a library's codec.
  Floats are left out. Lua here is LuaJIT, whose integers are doubles; values beyond
  2^53 are left out.
- The Lua APIs for files, environment and HTTP: stateless wrappers.
- FUSE callbacks that change nothing, and answers about sizes (`fuse.rs:34`).
- Time: a timer may fire whenever it is armed, so how the 100 ms pause of `main`
  compares with the 200 ms of the dispatcher is open.
- Scripts that register different routes each time they are executed.
- `json.rs`, `task.rs`, `processor.rs`, `sink.rs` and `source.rs`, which nothing uses.

## Plan

1. SFTP directory listings with the listing as a counter, and the release of handles
   at the end of a session.
2. Length checks of the other 9P messages, in the manner of `StatRecord`.
3. Compose `Sftp` and `NinepServer` with `SerialService` by INSTANCE instead of by
   convention.
4. `ListingFramed` of `StatRecord` and the conversions of `Serialize` with recursive
   functions instead of operators, in the manner of `RouteTable`, so that the lemmas
   of `Iteration_proofs` apply to them.
