----------------------------- MODULE NinepServer -----------------------------
(***************************************************************************)
(* The 9P2000 server of src/frontend/ninep.rs: one listener, whose         *)
(* connections all use the same Shared (fid table, path table, msize).     *)
(*                                                                         *)
(* Each connection handles one message at a time; job[c] is the handler's  *)
(* local state at its await points.  Between two awaits a handler runs     *)
(* under the state mutex; lock[c] tells that c still holds the guard while *)
(* it writes its reply.  The router is abstract here: it answers Ok or     *)
(* Err, which is what module SerialService promises.                       *)
(*                                                                         *)
(* A path is the sequence of its components, "/" is <<>>.  Byte layout,    *)
(* tags and read offsets are left out.                                     *)
(***************************************************************************)
EXTENDS Integers, Sequences, FiniteSets

CONSTANTS
    Conn,       \* connections
    Fid,        \* fid numbers
    FidsOf,     \* FidsOf[c]: the fid numbers the client of c uses
    Name,       \* path components in messages
    DotName,    \* those of them that are "." or ".."
    NewName,    \* names a Twstat may rename to
    MSize,      \* msize values in Tversion
    MaxDepth,   \* bound on the depth of paths
    WalkLen,    \* numbers of names in one Twalk
    MaxQid,     \* bound: no rename is sent once this many qids exist
    SendCap     \* replies that fit into a connection's socket buffer

ASSUME NinepAssumption ==
    /\ FidsOf \in [Conn -> SUBSET Fid]
    /\ DotName \subseteq Name
    /\ MSize \subseteq Nat /\ WalkLen \subseteq Nat
    /\ MaxDepth \in Nat /\ MaxQid \in Nat /\ SendCap \in Nat \ {0}

VARIABLES
    fids,     \* NinepState::fids
    paths,    \* NinepState::paths
    nextQid,  \* NinepState::next_qid
    msize,    \* Shared::msize
    lock,     \* connections that hold the state guard across an await
    job,      \* local variables of each connection's message handler
    unread,   \* replies in each connection's socket buffer
    view      \* history: what each client knows from its own replies

tableVars == <<fids, paths, nextQid, msize>>
ninepVars == <<fids, paths, nextQid, msize, lock, job, unread, view>>

Path == UNION {[1 .. n -> Name \cup NewName] : n \in 0 .. MaxDepth}
FidEntry == [qid : Nat, path : Path, is_dir : BOOLEAN]
PathEntry == [path : Path, is_dir : BOOLEAN]

NoJob == [pc |-> "idle", op |-> "none", fid |-> 0, to |-> 0, names |-> <<>>,
          path |-> <<>>, qid |-> 0, is_dir |-> FALSE, want |-> <<>>]

\* The limits of the negotiated msize.
MinMsize == 4096
MaxMsize == 65536

\* Mutant of Clamp: no lower limit.
ClampAbove(m) == IF m > MaxMsize THEN MaxMsize ELSE m

\* msize.clamp(4096, 65536)
Clamp(m) == IF m < MinMsize THEN MinMsize ELSE IF m > MaxMsize THEN MaxMsize ELSE m

NinepTypeOK ==
    /\ DOMAIN fids \subseteq Fid /\ \A f \in DOMAIN fids : fids[f] \in FidEntry
    /\ DOMAIN paths \subseteq Nat /\ \A q \in DOMAIN paths : paths[q] \in PathEntry
    /\ nextQid \in Nat
    /\ msize \in MinMsize .. MaxMsize
    /\ lock \subseteq Conn
    /\ \A c \in Conn :
         /\ job[c].pc \in {"idle", "walk", "lookup", "route", "clunk", "reply"}
         /\ job[c].path \in Path
    /\ unread \in [Conn -> 0 .. SendCap]

NinepInit ==
    /\ fids = <<>>
    /\ paths = [q \in {0} |-> [path |-> <<>>, is_dir |-> TRUE]]
    /\ nextQid = 1
    /\ msize = 8192
    /\ lock = {}
    /\ job = [c \in Conn |-> NoJob]
    /\ unread = [c \in Conn |-> 0]
    /\ view = [c \in Conn |-> [msize |-> 0, fids |-> <<>>]]

-----------------------------------------------------------------------------
(* NinepState.                                                             *)

\* HashMap::insert and HashMap::remove.
Insert(map, k, v) == [x \in DOMAIN map \cup {k} |-> IF x = k THEN v ELSE map[x]]
Remove(map, k) == [x \in DOMAIN map \ {k} |-> map[x]]

\* Mutants of AllocQid: no search for the path; no increment.
AllocQidAlways(p, dir, q, t, n) ==
    /\ q = nextQid
    /\ t = Insert(paths, nextQid, [path |-> p, is_dir |-> dir])
    /\ n = nextQid + 1
AllocQidSame(p, dir, q, t, n) ==
    LET known == {k \in DOMAIN paths : paths[k].path = p}
    IN  IF known # {}
        THEN q \in known /\ t = paths /\ n = nextQid
        ELSE /\ q = nextQid
             /\ t = Insert(paths, nextQid, [path |-> p, is_dir |-> dir])
             /\ n = nextQid

\* alloc_qid returns q for path p and leaves the path table t and the counter n:
\* the qid of any entry with that path, else a new one.
AllocQid(p, dir, q, t, n) ==
    LET known == {k \in DOMAIN paths : paths[k].path = p}
    IN  IF known # {}
        THEN q \in known /\ t = paths /\ n = nextQid
        ELSE /\ q = nextQid
             /\ t = Insert(paths, nextQid, [path |-> p, is_dir |-> dir])
             /\ n = nextQid + 1

\* set_fid; the open flag is left out, no code reads it.
FidAt(q, p, dir) == [qid |-> q, path |-> p, is_dir |-> dir]

\* The lines handle_read lists for directory p: known direct children.
DirEntries(p) ==
    {<<q, paths[q].path[Len(p) + 1]>> : q \in {k \in DOMAIN paths :
        Len(paths[k].path) = Len(p) + 1 /\ SubSeq(paths[k].path, 1, Len(p)) = p}}

-----------------------------------------------------------------------------
(* The client's side.                                                      *)

\* Where the client of c expects to be after it follows names from fid f; it
\* cannot tell when f is not one of the fids it established.
Unknown == <<"unknown">>
Want(c, f, names) ==
    IF f \in DOMAIN view[c].fids THEN view[c].fids[f] \o names ELSE Unknown

\* What the client of c concludes from a successful reply.
Learn(c, v) == view' = [view EXCEPT ![c] = v]
Forget(c, f) ==
    Learn(c, [view[c] EXCEPT !.fids = Remove(@, f)])
LearnFid(c, f, p) ==
    IF p = Unknown THEN Forget(c, f)
    ELSE Learn(c, [view[c] EXCEPT !.fids = Insert(@, f, p)])

\* The client reads a reply.
ClientReads(c) ==
    /\ unread[c] > 0
    /\ unread' = [unread EXCEPT ![c] = @ - 1]
    /\ UNCHANGED <<tableVars, lock, job, view>>

\* The connection ends between two messages and a new one takes its place: the
\* task forgets its stream, the tables keep what the client left there.  A client
\* that leaves while its handler still runs, and connects again at once, is two
\* members of Conn with the same fids: the first sends nothing more.
Reconnect(c) ==
    /\ job[c].pc = "idle"
    /\ unread' = [unread EXCEPT ![c] = 0]
    /\ Learn(c, [msize |-> 0, fids |-> <<>>])
    /\ UNCHANGED <<tableVars, lock, job>>

-----------------------------------------------------------------------------
(* The message handlers.                                                   *)

Idle(c) == job[c].pc = "idle"
LockFree == lock = {}

\* The handler is done but for its reply; err: with the error path, which drops
\* every guard first.
Replying(c) == job' = [job EXCEPT ![c] = [NoJob EXCEPT !.pc = "reply"]]

\* Mutant of Reply: the guard is never dropped.
ReplyKeepsLock(c) ==
    /\ job[c].pc = "reply"
    /\ unread[c] < SendCap
    /\ unread' = [unread EXCEPT ![c] = @ + 1]
    /\ job' = [job EXCEPT ![c] = NoJob]
    /\ UNCHANGED <<tableVars, lock, view>>

\* send_reply or send_error writes to the stream; the guard, if the handler still
\* has one, is dropped afterwards.
Reply(c) ==
    /\ job[c].pc = "reply"
    /\ unread[c] < SendCap
    /\ unread' = [unread EXCEPT ![c] = @ + 1]
    /\ job' = [job EXCEPT ![c] = NoJob]
    /\ lock' = lock \ {c}
    /\ UNCHANGED <<tableVars, view>>

\* Messages that touch no table: Tflush, unknown types, short or empty Twstat.
Tother(c) ==
    /\ Idle(c)
    /\ Replying(c)
    /\ UNCHANGED <<tableVars, lock, unread, view>>

Tversion(c, m) ==
    /\ Idle(c)
    /\ msize' = Clamp(m)
    /\ Replying(c)
    /\ Learn(c, [view[c] EXCEPT !.msize = Clamp(m)])
    /\ UNCHANGED <<fids, paths, nextQid, lock, unread>>

\* The guard lives until the reply is written.
Tattach(c, f) ==
    /\ Idle(c) /\ LockFree
    /\ fids' = Insert(fids, f, FidAt(0, <<>>, TRUE))
    /\ lock' = {c}
    /\ Replying(c)
    /\ LearnFid(c, f, <<>>)
    /\ UNCHANGED <<paths, nextQid, msize, unread>>

\* A message for a fid that is not in the table (Tclunk apart).
UnknownFid(c, f) ==
    /\ Idle(c) /\ LockFree
    /\ f \notin DOMAIN fids
    /\ Replying(c)
    /\ UNCHANGED <<tableVars, lock, unread, view>>

\* handle_walk copies the fid's entry and lets the guard go.
Twalk(c, f, to, names) ==
    /\ Idle(c) /\ LockFree
    /\ f \in DOMAIN fids
    /\ Len(fids[f].path) + Len(names) <= MaxDepth
    /\ job' = [job EXCEPT ![c] =
                 [pc |-> "walk", op |-> "walk", fid |-> f, to |-> to, names |-> names,
                  path |-> fids[f].path, qid |-> fids[f].qid, is_dir |-> fids[f].is_dir,
                  want |-> Want(c, f, names)]]
    /\ UNCHANGED <<tableVars, lock, unread, view>>

\* Mutant of WalkTo: the qid of the parent is kept.
WalkToKeepsQid(c) ==
    LET p == Append(job[c].path, Head(job[c].names))
        dir == Head(job[c].names) \in DotName
    IN \E q \in DOMAIN paths \cup {nextQid} :
         /\ AllocQid(p, dir, q, paths', nextQid')
         /\ job' = [job EXCEPT ![c] = [job[c] EXCEPT
                    !.pc = "walk", !.names = Tail(job[c].names),
                    !.path = p, !.is_dir = dir]]

\* One turn of the loop over the names, its alloc_qid under a guard of its own.
WalkTo(c) ==
    LET p == Append(job[c].path, Head(job[c].names))
        dir == Head(job[c].names) \in DotName
    IN \E q \in DOMAIN paths \cup {nextQid} :
         /\ AllocQid(p, dir, q, paths', nextQid')
         /\ job' = [job EXCEPT ![c] = [job[c] EXCEPT
                    !.pc = "walk", !.names = Tail(job[c].names),
                    !.path = p, !.qid = q, !.is_dir = dir]]

WalkIntermediate(c) ==
    /\ job[c].pc = "walk" /\ LockFree
    /\ Len(job[c].names) > 1
    /\ WalkTo(c)
    /\ UNCHANGED <<fids, msize, lock, unread, view>>

\* Only the last name is looked up through the router.
WalkLookup(c) ==
    /\ job[c].pc = "walk"
    /\ Len(job[c].names) = 1
    /\ job' = [job EXCEPT ![c].pc = "lookup"]
    /\ UNCHANGED <<tableVars, lock, unread, view>>

WalkFound(c) ==
    /\ job[c].pc = "lookup" /\ LockFree
    /\ WalkTo(c)
    /\ UNCHANGED <<fids, msize, lock, unread, view>>

\* set_fid, under yet another guard, once every name is walked.
WalkDone(c) ==
    /\ job[c].pc = "walk" /\ LockFree
    /\ job[c].names = <<>>
    /\ fids' = Insert(fids, job[c].to,
                      FidAt(job[c].qid, job[c].path, job[c].is_dir))
    /\ Replying(c)
    /\ LearnFid(c, job[c].to, job[c].want)
    /\ UNCHANGED <<paths, nextQid, msize, lock, unread>>

\* The other handlers copy what they need of the entry and send one request.
Routing(c, f, request) ==
    /\ Idle(c) /\ LockFree
    /\ f \in DOMAIN fids
    /\ job' = [job EXCEPT ![c] = request]
    /\ UNCHANGED <<tableVars, lock, unread, view>>

\* Topen, Tclunk, Tremove; Tread of a directory; and the messages after whose
\* request the handler only replies ("plain"): Twrite, Tstat, a Twstat that sets
\* attributes, and Tread of a file.
Tsimple(c, f) ==
    \E op \in {"open", "clunk", "remove", "readdir", "plain"} :
        /\ op = "readdir" => f \in DOMAIN fids /\ fids[f].is_dir
        /\ Routing(c, f, [NoJob EXCEPT !.pc = "route", !.op = op, !.fid = f])

\* The captured entry, for the handlers that store a new path for the fid.
Captured(c, op, f, name, dir) ==
    [pc |-> "route", op |-> op, fid |-> f, to |-> f, names |-> <<name>>,
     path |-> fids[f].path, qid |-> fids[f].qid, is_dir |-> dir,
     want |-> Want(c, f, <<>>)]

Tcreate(c, f, name, dir) ==
    /\ f \in DOMAIN fids /\ Len(fids[f].path) < MaxDepth
    /\ Routing(c, f, Captured(c, "create", f, name, dir))

\* A Twstat whose name is the current one only sets attributes.
Trename(c, f, name) ==
    /\ f \in DOMAIN fids
    /\ fids[f].path # <<>> => fids[f].path[Len(fids[f].path)] # name
    /\ MaxDepth > 0 /\ nextQid < MaxQid
    /\ Routing(c, f, Captured(c, "rename", f, name, FALSE))

\* Tclunk of an unknown fid skips the request.
TclunkUnknown(c, f) ==
    /\ Idle(c) /\ LockFree
    /\ f \notin DOMAIN fids
    /\ job' = [job EXCEPT ![c] = [NoJob EXCEPT !.pc = "clunk", !.op = "clunk", !.fid = f]]
    /\ UNCHANGED <<tableVars, lock, unread, view>>

\* The request failed: the error goes to the client, except that handle_clunk
\* ignores it.
RouteFails(c) ==
    /\ \/ job[c].pc = "lookup"
       \/ job[c].pc = "route" /\ job[c].op # "clunk"
    /\ Replying(c)
    /\ UNCHANGED <<tableVars, lock, unread, view>>

\* Handlers that only reply after their request.  handle_remove is one of them:
\* it leaves the fid in the table.
RouteDone(c) ==
    /\ job[c].pc = "route"
    /\ job[c].op \in {"plain", "remove"}
    /\ Replying(c)
    /\ IF job[c].op = "remove" THEN Forget(c, job[c].fid) ELSE UNCHANGED view
    /\ UNCHANGED <<tableVars, lock, unread>>

\* handle_read of a directory holds the guard while it sends the listing.
ReadDirDone(c) ==
    /\ job[c].pc = "route" /\ LockFree
    /\ job[c].op = "readdir"
    /\ lock' = {c}
    /\ Replying(c)
    /\ UNCHANGED <<tableVars, unread, view>>

\* handle_open marks the fid, if it still exists, and also replies under the guard.
OpenDone(c) ==
    /\ job[c].pc = "route" /\ LockFree
    /\ job[c].op = "open"
    /\ lock' = {c}
    /\ Replying(c)
    /\ UNCHANGED <<tableVars, unread, view>>

\* Mutant of CreateDone: the fid stays at the parent.
CreateDoneKeepsFid(c) ==
    /\ job[c].pc = "route" /\ LockFree
    /\ job[c].op = "create"
    /\ \E q \in DOMAIN paths \cup {nextQid} :
         AllocQid(job[c].path \o job[c].names, job[c].is_dir, q, paths', nextQid')
    /\ Replying(c)
    /\ LearnFid(c, job[c].fid,
                IF job[c].want = Unknown THEN Unknown ELSE job[c].want \o job[c].names)
    /\ UNCHANGED <<fids, msize, lock, unread>>

CreateDone(c) ==
    /\ job[c].pc = "route" /\ LockFree
    /\ job[c].op = "create"
    /\ LET p == job[c].path \o job[c].names
       IN \E q \in DOMAIN paths \cup {nextQid} :
            /\ AllocQid(p, job[c].is_dir, q, paths', nextQid')
            /\ fids' = Insert(fids, job[c].fid, FidAt(q, p, job[c].is_dir))
    /\ Replying(c)
    /\ LearnFid(c, job[c].fid,
                IF job[c].want = Unknown THEN Unknown ELSE job[c].want \o job[c].names)
    /\ UNCHANGED <<msize, lock, unread>>

\* The parent of p with the new name; "/" itself becomes "/name".
Renamed(p, names) == IF p = <<>> THEN names ELSE SubSeq(p, 1, Len(p) - 1) \o names

\* The fid's path and the path of the qid it had before the request are replaced;
\* the entry of the path table becomes a file.
RenameDone(c) ==
    LET p == Renamed(job[c].path, job[c].names)
        f == job[c].fid
        old == job[c].want
    IN /\ job[c].pc = "route" /\ LockFree
       /\ job[c].op = "rename"
       /\ fids' = IF f \in DOMAIN fids THEN [fids EXCEPT ![f].path = p] ELSE fids
       /\ paths' = Insert(paths, job[c].qid, [path |-> p, is_dir |-> FALSE])
       /\ Replying(c)
       /\ LearnFid(c, f, IF old = Unknown THEN Unknown ELSE Renamed(old, job[c].names))
       /\ UNCHANGED <<nextQid, msize, lock, unread>>

ClunkRouted(c) ==
    /\ job[c].pc = "route" /\ job[c].op = "clunk"
    /\ job' = [job EXCEPT ![c].pc = "clunk"]
    /\ UNCHANGED <<tableVars, lock, unread, view>>

\* The fid is removed whatever the request returned, by number.
ClunkDone(c) ==
    /\ job[c].pc = "clunk" /\ LockFree
    /\ fids' = Remove(fids, job[c].fid)
    /\ lock' = {c}
    /\ Replying(c)
    /\ Forget(c, job[c].fid)
    /\ UNCHANGED <<paths, nextQid, msize, unread>>

Names == UNION {[1 .. n -> Name] : n \in WalkLen}

\* A message arrives.
Receives(c) ==
    \/ Tother(c)
    \/ \E m \in MSize : Tversion(c, m)
    \/ \E f \in FidsOf[c] :
         \/ Tattach(c, f) \/ UnknownFid(c, f) \/ TclunkUnknown(c, f) \/ Tsimple(c, f)
         \/ \E to \in FidsOf[c], names \in Names : Twalk(c, f, to, names)
         \/ \E name \in Name, dir \in BOOLEAN : Tcreate(c, f, name, dir)
         \/ \E name \in NewName : Trename(c, f, name)

\* The handler of c goes on.
Handles(c) ==
    \/ WalkIntermediate(c) \/ WalkLookup(c) \/ WalkFound(c) \/ WalkDone(c)
    \/ RouteDone(c) \/ ReadDirDone(c) \/ OpenDone(c) \/ CreateDone(c) \/ RenameDone(c)
    \/ ClunkRouted(c) \/ ClunkDone(c) \/ RouteFails(c)
    \/ Reply(c)

NinepNext ==
    \E c \in Conn : Receives(c) \/ Handles(c) \/ ClientReads(c) \/ Reconnect(c)

NinepSpec == NinepInit /\ [][NinepNext]_ninepVars

\* Every handler is polled again once it can go on; tokio's Mutex is handed over
\* in the order of the waiters, so none is overtaken for ever; the router
\* answers; clients read their replies.
NinepFairness ==
    \A c \in Conn : SF_ninepVars(Handles(c)) /\ WF_ninepVars(ClientReads(c))

NinepFairSpec == NinepSpec /\ NinepFairness

-----------------------------------------------------------------------------
(* Properties.                                                             *)

\* "Each connection runs a single 9P session (version -> attach -> ...)": between
\* two messages every fid a client established denotes the path the client
\* walked it to, and the msize is the one it negotiated, whatever the handlers of
\* other connections do at the await points.
SessionView ==
    \A c \in Conn : Idle(c) =>
        /\ view[c].msize \in {0, msize}
        /\ \A f \in DOMAIN view[c].fids :
             f \in DOMAIN fids /\ fids[f].path = view[c].fids[f]

\* The last name of p was given by a rename.
RenameTarget(p) == p # <<>> /\ p[Len(p)] \in NewName

\* "Check if path already has a qid": a directory listing never shows one name
\* under two qids, although walks, creates and renames of several connections
\* interleave.  A name that is the target of a rename is excepted: handle_wstat
\* does not check whether the path it stores is known.
PathHasOneQid ==
    \A q \in DOMAIN paths : \A e1, e2 \in DirEntries(paths[q].path) :
        e1[2] = e2[2] /\ e1[2] \notin NewName => e1[1] = e2[1]

\* The qid counter stays ahead of the path table and no fid, nor any handler that
\* still has to store one, refers to a qid outside of it: a qid never comes to
\* denote a second file by being handed out twice.
QidsAllocated ==
    /\ DOMAIN paths = 0 .. nextQid - 1
    /\ \A f \in DOMAIN fids : fids[f].qid \in DOMAIN paths
    /\ \A c \in Conn : job[c].qid \in DOMAIN paths

\* A fid and its qid denote the same path, although handle_walk allocates the
\* qid and stores the fid under two separate guards.  Only a rename through one
\* fid leaves the other fids of the file at the old path.
FidNamesItsQid ==
    \A f \in DOMAIN fids :
        LET p == paths[fids[f].qid].path
        IN  fids[f].path = p \/ RenameTarget(p)

\* Every message is answered, although handlers wait for a mutex that others keep
\* while they write to their sockets.
EveryMessageAnswered == \A c \in Conn : ~Idle(c) ~> Idle(c)
=============================================================================
