----------------------------- MODULE NinepClient -----------------------------
(***************************************************************************)
(* The 9P client that scripts call (src/frontend/ninep_client.rs and the   *)
(* ninep_client table of src/handler.rs).  Every call opens a connection,  *)
(* negotiates, attaches fid 1, walks fid 4 to the path and works on it; an *)
(* error anywhere ends the call and closes the connection, whose fids stay *)
(* in the table of the listener.                                           *)
(*                                                                         *)
(* One step is one send_recv.  The server's side of a message is reduced   *)
(* to its effect on the fid table and on the files, which the script of    *)
(* the served side keeps and others may change at any time.  The router of *)
(* the calling process is serial, so its calls do not overlap.             *)
(***************************************************************************)
EXTENDS Integers, Sequences

CONSTANTS
    File,           \* paths of files
    RootPath,       \* the path "/"
    Parent,         \* split_parent_name: the directory of each file
    Text,           \* contents and data of writes, as sequences of bytes
    Lead, Cont,     \* first and second bytes of two-byte characters of UTF-8
    Replacement,    \* the character U+FFFD
    Payload,        \* data bytes in one Twrite, msize - 24 (65512 in the code)
    MaxClientCalls  \* bound on the calls of a behaviour

ASSUME ClientAssumption ==
    /\ RootPath \notin File
    /\ Parent \in [File -> File \cup {RootPath}]
    /\ \A t \in Text : t \in Seq(Nat)
    /\ Lead \cap Cont = {} /\ Replacement \in Nat
    /\ Payload \in Nat \ {0} /\ MaxClientCalls \in Nat

VARIABLES
    file,    \* what the handlers of the served script hold
    fids,    \* the listener's fid table, as far as this client's numbers go
    call,    \* local variables of the call that is being executed
    seen,    \* history: contents of the call's file since the call began
    wrote,   \* history: chunks the write handler was given in this call
    made     \* calls made

clientVars == <<file, fids, call, seen, wrote, made>>

\* fid of attach, and what alloc_fid returns first.
RootFid == 1
WalkFid == 4

ClientOp == {"read", "write", "stat", "ls", "mkdir", "create", "remove"}
Creates == {"mkdir", "create"}
NoCall == [op |-> "none", path |-> RootPath, data |-> <<>>, at |-> "idle", off |-> 0,
           got |-> <<>>, ok |-> FALSE]

ClientInit ==
    /\ file \in [File -> Text]
    /\ fids = <<>>
    /\ call = NoCall
    /\ seen = {} /\ wrote = <<>> /\ made = 0

-----------------------------------------------------------------------------
(* The call.                                                               *)

\* NinepClient::connect up to the answer of Tversion.
Call(op, p, d) ==
    /\ call.at = "idle" /\ made < MaxClientCalls
    /\ p = RootPath => op = "ls"
    /\ call' = [NoCall EXCEPT !.op = op, !.path = p, !.data = d, !.at = "attach"]
    /\ seen' = IF p = RootPath THEN {} ELSE {file[p]}
    /\ wrote' = <<>>
    /\ made' = made + 1
    /\ UNCHANGED <<file, fids>>

Goto(at) == call' = [call EXCEPT !.at = at]
SetFid(f, p) == fids' = [x \in DOMAIN fids \cup {f} |-> IF x = f THEN p ELSE fids[x]]

\* The server answers Rerror, or the connection breaks: `?` returns the error,
\* the fid is not clunked.  The result of Tclunk alone is ignored.
Fails ==
    /\ call.at \notin {"idle", "clunk"}
    /\ call' = [call EXCEPT !.at = "idle", !.ok = FALSE]
    /\ UNCHANGED <<file, fids, seen, wrote, made>>

Attach ==
    /\ call.at = "attach"
    /\ SetFid(RootFid, RootPath)
    /\ Goto("walk")
    /\ UNCHANGED <<file, seen, wrote, made>>

\* Where the call walks to: a create starts from the parent.
WalkTarget == IF call.op \in Creates THEN Parent[call.path] ELSE call.path

\* Mutant of Walk: an Rerror is taken for an answer.
WalkIgnoresError ==
    /\ call.at = "walk"
    /\ SetFid(WalkFid, WalkTarget) \/ UNCHANGED fids
    /\ Goto(IF call.op \in {"read", "write", "ls"} THEN "open" ELSE "transfer")
    /\ UNCHANGED <<file, seen, wrote, made>>

\* Twalk from fid 1; alloc_fid starts at 4 in every call.
Walk ==
    /\ call.at = "walk"
    /\ SetFid(WalkFid, WalkTarget)
    /\ Goto(IF call.op \in {"read", "write", "ls"} THEN "open" ELSE "transfer")
    /\ UNCHANGED <<file, seen, wrote, made>>

\* Topen; write_file with no data sends no Twrite.
Opened ==
    /\ call.at = "open"
    /\ Goto(IF call.op = "write" /\ call.data = <<>> THEN "clunk" ELSE "transfer")
    /\ UNCHANGED <<file, fids, seen, wrote, made>>

\* Mutants of ReadChunk: the offset is the length of the last chunk; an empty
\* chunk does not end the loop.
ReadChunkFromLast(content) ==
    LET chunk == SubSeq(content, call.off + 1, Len(content)) IN
    call' = IF chunk = <<>> THEN [call EXCEPT !.at = "clunk"]
            ELSE [call EXCEPT !.got = @ \o chunk, !.off = Len(chunk)]
ReadChunkForever(content) ==
    LET chunk == SubSeq(content, call.off + 1, Len(content)) IN
    call' = [call EXCEPT !.got = @ \o chunk, !.off = @ + Len(chunk)]

\* Tread at the offset reached.  The server runs the handler again and answers
\* with all of its data from there on, whatever count says.
ReadChunk(content) ==
    LET chunk == SubSeq(content, call.off + 1, Len(content)) IN
    call' = IF chunk = <<>> THEN [call EXCEPT !.at = "clunk"]
            ELSE [call EXCEPT !.got = @ \o chunk, !.off = @ + Len(chunk)]

ReadFile ==
    /\ call.at = "transfer" /\ call.op \in {"read", "ls"}
    /\ WalkFid \in DOMAIN fids /\ fids[WalkFid] # RootPath
    /\ ReadChunk(file[fids[WalkFid]])
    /\ UNCHANGED <<file, fids, seen, wrote, made>>

\* ls of "/": one read brings the listing (module StatRecord), the next nothing.
ReadDirectory ==
    /\ call.at = "transfer" /\ call.op \in {"read", "ls"}
    /\ WalkFid \in DOMAIN fids /\ fids[WalkFid] = RootPath
    /\ Goto("clunk")
    /\ UNCHANGED <<file, fids, seen, wrote, made>>

\* Mutant of ChunkEnd: counts the header bytes as data.
ChunkEndInclusive(off, len) == IF off + Payload + 1 < len THEN off + Payload + 1 ELSE len

ChunkEnd(off, len) == IF off + Payload < len THEN off + Payload ELSE len

\* Twrite of the next chunk.  handle_write drops the offset: the handler is
\* given the chunk, and the script keeps what it was given last.
WriteChunk ==
    LET end == ChunkEnd(call.off, Len(call.data))
        chunk == SubSeq(call.data, call.off + 1, end)
    IN
    /\ call.at = "transfer" /\ call.op = "write"
    /\ WalkFid \in DOMAIN fids /\ fids[WalkFid] # RootPath
    /\ wrote' = Append(wrote, chunk)
    /\ file' = [file EXCEPT ![fids[WalkFid]] = chunk]
    /\ seen' = IF fids[WalkFid] = call.path THEN seen \cup {chunk} ELSE seen
    /\ call' = [call EXCEPT !.off = end, !.at = IF end < Len(call.data) THEN @ ELSE "clunk"]
    /\ UNCHANGED <<fids, made>>

Stat ==
    /\ call.at = "transfer" /\ call.op = "stat" /\ WalkFid \in DOMAIN fids
    /\ Goto("clunk")
    /\ UNCHANGED <<file, fids, seen, wrote, made>>

\* Tcreate moves the fid to the new file.
Create ==
    /\ call.at = "transfer" /\ call.op \in Creates /\ WalkFid \in DOMAIN fids
    /\ SetFid(WalkFid, call.path)
    /\ Goto("clunk")
    /\ UNCHANGED <<file, seen, wrote, made>>

\* Tremove; neither the client nor handle_remove clunks the fid.
RemoveFid ==
    /\ call.at = "transfer" /\ call.op = "remove" /\ WalkFid \in DOMAIN fids
    /\ call' = [call EXCEPT !.at = "idle", !.ok = TRUE]
    /\ UNCHANGED <<file, fids, seen, wrote, made>>

\* Byte i of s is a character, or half of one.
IsText(s, i) ==
    \/ s[i] \notin Lead \cup Cont
    \/ s[i] \in Lead /\ i < Len(s) /\ s[i + 1] \in Cont
    \/ s[i] \in Cont /\ i > 1 /\ s[i - 1] \in Lead

\* String::from_utf8_lossy, where no character has more than two bytes.
Lossy(s) == [i \in 1 .. Len(s) |-> IF IsText(s, i) THEN s[i] ELSE Replacement]

\* Tclunk, and the result.  An error is ignored: when the connection breaks
\* before the server has read the message, the call succeeds and the fid stays.
Clunk ==
    /\ call.at = "clunk"
    /\ \/ fids' = [f \in DOMAIN fids \ {WalkFid} |-> fids[f]]
       \/ UNCHANGED fids
    /\ call' = [call EXCEPT !.at = "idle", !.ok = TRUE,
                            !.got = IF call.op = "read" THEN Lossy(call.got) ELSE call.got]
    /\ UNCHANGED <<file, seen, wrote, made>>

\* The served script changes a file by itself or for another client.  A change
\* between two calls is the same to them as one right after the next call began.
FileChanges(p, t) ==
    /\ call.at # "idle"
    /\ file' = [file EXCEPT ![p] = t]
    /\ seen' = IF p = call.path THEN seen \cup {t} ELSE seen
    /\ UNCHANGED <<fids, call, wrote, made>>

CallStep ==
    \/ Attach \/ Walk \/ Opened \/ ReadFile \/ ReadDirectory \/ WriteChunk
    \/ Stat \/ Create \/ RemoveFid \/ Clunk

ClientNext ==
    \/ \E op \in ClientOp, p \in File \cup {RootPath}, d \in Text :
         (op # "write" => d = <<>>) /\ Call(op, p, d)
    \/ Fails \/ CallStep
    \/ \E p \in File, t \in Text : FileChanges(p, t)

ClientSpec == ClientInit /\ [][ClientNext]_clientVars

\* The server answers every message (modules NinepServer and Pinhead), so a call
\* does not stay where it is for ever; an error (Fails) may end it at any point.
ClientFairness == WF_clientVars(CallStep)

-----------------------------------------------------------------------------
(* Properties.                                                             *)

ClientTypeOK ==
    /\ file \in [File -> Seq(Nat)]
    /\ DOMAIN fids \subseteq {RootFid, WalkFid}
    /\ \A f \in DOMAIN fids : fids[f] \in File \cup {RootPath}
    /\ call.at \in {"idle", "attach", "walk", "open", "transfer", "clunk"}
    /\ call.off \in 0 .. Len(call.data) \cup 0 .. Len(call.got)
    /\ made \in 0 .. MaxClientCalls

\* A call works on the path it was given.  Fid 4 may be left in the table by an
\* earlier call that failed or removed a file, and still name another path; no
\* message of this call gets to use it before its own walk has succeeded.
ActsOnOwnPath ==
    call.at \in {"open", "transfer"} =>
        WalkFid \in DOMAIN fids /\ fids[WalkFid] = WalkTarget

\* A file that others change is read in pieces of its versions: every byte that
\* ninep_client.read returns was in the file, at its position, at some moment of
\* the call, or stands for one that is no text there, and the result is not
\* shorter than all of them.  A file that does not change is read whole and
\* once, and as it is if it is text.
ReadReturnsFile ==
    (call.op = "read" /\ call.at = "idle" /\ call.ok) =>
        /\ \A i \in DOMAIN call.got :
             \/ \E v \in seen : i <= Len(v) /\ v[i] = call.got[i]
             \/ call.got[i] = Replacement
        /\ \E v \in seen : Len(v) <= Len(call.got)
        /\ \A v \in seen : seen = {v} => call.got = Lossy(v)

\* The chunks one after the other.
Joined(chunks) ==
    LET upTo[n \in 0 .. Len(chunks)] == IF n = 0 THEN <<>> ELSE upTo[n - 1] \o chunks[n]
    IN  upTo[Len(chunks)]

\* When ninep_client.write returns, the write handler was given the data in
\* order and completely, in chunks that fit a message.  (It was not told where
\* each chunk belongs; a script that keeps what it is given keeps the last one.)
WriteDelivered ==
    /\ \A k \in DOMAIN wrote : Len(wrote[k]) \in 1 .. Payload
    /\ (call.op = "write" /\ call.at = "idle" /\ call.ok) =>
          Joined(wrote) = call.data

\* The file that is being read gets longer.
Grows ==
    /\ call.op \in {"read", "ls"} /\ call.path \in File
    /\ Len(file'[call.path]) > Len(file[call.path])

\* Every call returns, unless it reads a file that goes on growing: the loops of
\* read_file and ls end only with an empty read, but each turn that does not end
\* them moves the offset on, and a chunk of write_file is never empty.
CallReturns ==
    <>[][~Grows]_clientVars => ((call.at # "idle") ~> (call.at = "idle"))
=============================================================================
