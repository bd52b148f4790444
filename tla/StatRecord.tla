----------------------------- MODULE StatRecord -----------------------------
(***************************************************************************)
(* The stat record on the wire: what encode_stat and handle_read of        *)
(* src/frontend/ninep.rs write for a directory, and what ls of             *)
(* src/frontend/ninep_client.rs reads out of it.  Bytes are numbers, a     *)
(* message is a sequence of them, offsets count from 0 as in the code.     *)
(*                                                                         *)
(* The state is the directory the server knows: its entries in the order   *)
(* in which the HashMap of paths yields them.                              *)
(***************************************************************************)
EXTENDS Integers, Sequences, SequencesExt

CONSTANTS
    EntryName,  \* names, as sequences of bytes
    Now,        \* four bytes of atime and mtime
    MaxEntries  \* bound on the entries of the directory

ASSUME RecordAssumption ==
    /\ \A n \in EntryName : n \in Seq(1 .. 255) /\ n # <<>>
    /\ Now \in [1 .. 4 -> 0 .. 255]
    /\ MaxEntries \in Nat

VARIABLE entries

Entry == [name : EntryName, is_dir : BOOLEAN]

\* to_le_bytes of a number below 2^24 into w bytes.
LeBytes(n, w) ==
    [i \in 1 .. w |-> CASE i = 1 -> n % 256
                        [] i = 2 -> (n \div 256) % 256
                        [] i = 3 -> n \div 65536
                        [] OTHER -> 0]

\* from_le_bytes of the two bytes at offset off.
U16(b, off) == b[off + 1] + 256 * b[off + 2]

Slice(b, from, len) == SubSeq(b, from + 1, from + len)

-----------------------------------------------------------------------------
(* The server.                                                             *)

EncodeQid(isDir, path) == <<IF isDir THEN 128 ELSE 0>> \o LeBytes(0, 4) \o LeBytes(path, 8)

\* type, dev, qid, mode (0x800001ed or 0x1ed), atime, mtime, length, name, and
\* uid, gid and muid with a length of 2 and one byte each.
StatBody(name, isDir, path, length) ==
    LET owner == LeBytes(2, 2) \o <<48>> IN
    LeBytes(0, 2) \o LeBytes(0, 4) \o EncodeQid(isDir, path)
        \o <<237, 1, 0, IF isDir THEN 128 ELSE 0>> \o Now \o Now \o LeBytes(length, 8)
        \o LeBytes(Len(name), 2) \o name \o owner \o owner \o owner

\* Mutant of EncodeStat: the size counts its own two bytes.
EncodeStatSelfCounting(name, isDir, path, length) ==
    LET body == StatBody(name, isDir, path, length) IN LeBytes(Len(body) + 2, 2) \o body

EncodeStat(name, isDir, path, length) ==
    LET body == StatBody(name, isDir, path, length) IN LeBytes(Len(body), 2) \o body

\* The data handle_read sends for a directory: "." comes first at offset 0 only.
ReadDirAt(es, offset) ==
    LET records == FlattenSeq([i \in DOMAIN es |->
                                  EncodeStat(es[i].name, es[i].is_dir, i, 0)])
        data == IF offset = 0 THEN EncodeStat(<<46>>, TRUE, 0, 0) \o records ELSE records
    IN  Slice(data, offset, Len(data) - offset)

\* A walk or a create makes another child known; the HashMap may yield it
\* anywhere.
WalkAdds(e, i) ==
    /\ Len(entries) < MaxEntries
    /\ \A k \in DOMAIN entries : entries[k].name # e.name
    /\ entries' = InsertAt(entries, i, e)

RecordInit == entries = <<>>
RecordNext == \E e \in Entry : \E i \in 1 .. Len(entries) + 1 : WalkAdds(e, i)

-----------------------------------------------------------------------------
(* The client.                                                             *)

\* The loop of ls (and of read_file): read from the offset reached until a read
\* returns nothing.  The server sends all it has at once.
ReadLoop(es) ==
    LET first == ReadDirAt(es, 0) IN first \o ReadDirAt(es, Len(first))

\* The lines ls prints: name, and whether it takes the entry for a directory.
\* Reading past the end of raw would be a panic.
LsLines(raw) ==
    LET line[off \in Nat] ==
          IF off >= Len(raw) THEN <<>>
          ELSE LET size == U16(raw, off)
                   start == off + 6
                   nameLen == U16(raw, start + 33)
               IN  IF size = 0 \/ off + size > Len(raw) THEN <<>>
                   ELSE <<[name |-> Slice(raw, start + 35, nameLen),
                           is_dir |-> raw[start + 1] >= 128]>> \o line[off + size]
    IN  line[0]

-----------------------------------------------------------------------------
(* Properties.                                                             *)

\* What a reader of 9P2000 does: each record follows the two bytes of its size.
StandardEntries(raw) ==
    LET entry[off \in Nat] ==
          IF off + 2 > Len(raw) \/ off + 2 + U16(raw, off) > Len(raw) THEN <<>>
          ELSE <<[name |-> Slice(raw, off + 43, U16(raw, off + 41)),
                  is_dir |-> raw[off + 9] >= 128]>> \o entry[off + 2 + U16(raw, off)]
    IN  entry[0]

Dot == [name |-> <<46>>, is_dir |-> TRUE]

\* The listing handle_read sends, over all the reads a client makes until it
\* gets nothing, is framed as 9P2000 frames it: whatever the names are, a reader
\* that follows the sizes finds "." and every known child once, with its name
\* and its directory bit.
ListingFramed == StandardEntries(ReadLoop(entries)) = <<Dot>> \o entries

\* "List directory contents.  Returns one entry per line.": ls prints every name
\* the server has listed.
LsListsEntries ==
    \A k \in DOMAIN entries :
        \E j \in DOMAIN LsLines(ReadLoop(entries)) :
            LsLines(ReadLoop(entries))[j].name = entries[k].name
=============================================================================
