----------------------------- MODULE Fuse_proofs -----------------------------
(***************************************************************************)
(* The inode table of the FUSE frontend for every tree, every depth and    *)
(* every number of inodes.                                                 *)
(***************************************************************************)
EXTENDS Fuse, SequenceTheorems, TLAPS

\* Numbers that were never given out are in no table.
FreshIno == \A i \in Ino : i >= inoNext => paths[i] = NoPath /\ kern[i] = NoPath

FuseInv == FuseTypeOK /\ FreshIno /\ HeldInodeHasPath /\ PathIsPlace

-----------------------------------------------------------------------------
(* Paths.                                                                  *)

\* The bounded set of paths consists of the sequences of names up to the bound.
LEMMA PathIs ==
    ASSUME NEW p
    PROVE  p \in FsPath <=> p \in Seq(Name) /\ Len(p) <= MaxDepth
<1>0. MaxDepth \in Nat
  BY FuseAssumption DEF FuseAssumption
<1>1. ASSUME p \in FsPath PROVE p \in Seq(Name) /\ Len(p) <= MaxDepth
  <2>1. PICK n \in 0 .. MaxDepth : p \in [1 .. n -> Name]
    BY <1>1 DEF FsPath
  <2>2. n \in Nat /\ n <= MaxDepth
    BY <1>0, <2>1
  <2> QED  BY <2>1, <2>2
<1>2. ASSUME p \in Seq(Name), Len(p) <= MaxDepth PROVE p \in FsPath
  <2>1. Len(p) \in 0 .. MaxDepth /\ p \in [1 .. Len(p) -> Name]
    BY <1>0, <1>2
  <2> QED  BY <2>1 DEF FsPath
<1> QED  BY <1>1, <1>2

\* Where the kernel and the frontend put a name they ask about.
LEMMA Asked ==
    ASSUME FuseInv, NEW parent \in Ino, NEW name \in Name, Asks(parent, name)
    PROVE  /\ kern[parent] \in Seq(Name) /\ ChildPath(parent, name) \in FsPath
           /\ Append(kern[parent], name) \in FsPath
           /\ ~renamed => ChildPath(parent, name) = Append(kern[parent], name)
<1>1. /\ kern[parent] \in Seq(Name) /\ Len(kern[parent]) < MaxDepth
      /\ Len(ChildPath(parent, name)) <= MaxDepth
  BY DEF Asks, Placed, FuseInv, FuseTypeOK
<1>2. paths[parent] # NoPath /\ paths[parent] \in Seq(Name)
  <2>1. paths[parent] # NoPath /\ paths[parent] \in FsPath
    BY DEF Asks, Placed, Held, FuseInv, FuseTypeOK, HeldInodeHasPath
  <2> QED  BY <2>1, PathIs
<1>3. ChildPath(parent, name) = paths[parent] \o <<name>>
  BY <1>2 DEF ChildPath
<1>4. ChildPath(parent, name) \in Seq(Name)
  BY <1>2, <1>3
<1>5. Append(kern[parent], name) \in FsPath
  <2>1. Append(kern[parent], name) \in Seq(Name)
        /\ Len(Append(kern[parent], name)) = Len(kern[parent]) + 1
    BY <1>1
  <2>2. Len(Append(kern[parent], name)) <= MaxDepth
    BY <1>1, <2>1, FuseAssumption DEF FuseAssumption
  <2> QED  BY <2>1, <2>2, PathIs, Zenon
<1>6. ASSUME ~renamed PROVE ChildPath(parent, name) = Append(kern[parent], name)
  <2>1. paths[parent] = kern[parent]
    BY <1>6 DEF Asks, FuseInv, PathIsPlace
  <2> QED  BY <1>1, <1>3, <2>1, AppendIsConcat
<1> QED  BY <1>1, <1>4, <1>5, <1>6, PathIs

\* A path below a directory that is moved.
LEMMA MovedType ==
    ASSUME NEW p, NEW old \in Seq(Name), NEW new \in Seq(Name)
    PROVE  IF p \in FsPath /\ IsPrefix(old, p) THEN Moved(p, old, new) \in Seq(Name)
           ELSE Moved(p, old, new) = p
<1>1. ASSUME p \in FsPath, IsPrefix(old, p) PROVE Moved(p, old, new) \in Seq(Name)
  <2>1. p \in Seq(Name) /\ Len(old) <= Len(p) /\ Len(old) \in Nat /\ Len(p) \in Nat
    BY <1>1, PathIs DEF IsPrefix
  <2>2. SubSeq(p, Len(old) + 1, Len(p)) \in Seq(Name)
    BY <2>1, SubSeqProperties
  <2> QED  BY <1>1, <2>2 DEF Moved
<1> QED  BY <1>1 DEF Moved

-----------------------------------------------------------------------------

\* The table starts with the root alone.
LEMMA FuseInitInv == FuseInit => FuseInv
<1> SUFFICES ASSUME FuseInit PROVE FuseInv
  OBVIOUS
<1>0. /\ MaxIno \in Nat \ {0} /\ MaxDepth \in Nat /\ NoPath \notin FsPath /\ Unlinked # NoPath
  BY FuseAssumption DEF FuseAssumption
<1>1. Root \in Seq(Name) /\ Root \in FsPath
  <2>1. Root \in Seq(Name) /\ Len(Root) = 0
    BY DEF Root
  <2>2. Len(Root) <= MaxDepth
    BY <1>0, <2>1
  <2> QED  BY <2>1, <2>2, PathIs, Zenon
<1>2. \A i \in Ino : paths[i] = (IF i = 1 THEN Root ELSE NoPath) /\ kern[i] = paths[i]
  BY DEF FuseInit
<1>3. FuseTypeOK
  <2>1. inoNext \in 2 .. MaxIno + 1 /\ 1 \in Ino
    BY <1>0 DEF FuseInit, Ino
  <2>2. paths \in [Ino -> FsPath \cup {NoPath}]
    BY <1>1 DEF FuseInit
  <2>3. kern \in [Ino -> Seq(Name) \cup {NoPath, Unlinked}]
    BY <1>1 DEF FuseInit
  <2>4. /\ sizeCache \in [FsPath -> Size \cup {NoSize}]
        /\ files \in [FsPath -> Size \cup {NoSize}]
    BY DEF FuseInit
  <2>5. isDir \subseteq Ino /\ renamed \in BOOLEAN
    BY <2>1, Zenon DEF FuseInit
  <2> QED  BY <2>1, <2>2, <2>3, <2>4, <2>5 DEF FuseTypeOK
<1>4. FreshIno
  BY <1>2 DEF FuseInit, FreshIno, Ino
<1>5. HeldInodeHasPath /\ PathIsPlace
  BY <1>0, <1>2 DEF HeldInodeHasPath, PathIsPlace, Held, Placed
<1> QED  BY <1>3, <1>4, <1>5 DEF FuseInv

\* A new number gets its path and its place in one callback.
LEMMA NewEntryInv ==
    ASSUME FuseInv, NEW parent \in Ino, NEW name \in Name, Asks(parent, name),
           NEW dir, NewEntry(parent, name, ChildPath(parent, name), dir),
           UNCHANGED <<sizeCache, renamed>>, files' \in [FsPath -> Size \cup {NoSize}]
    PROVE  FuseInv'
<1> DEFINE path == ChildPath(parent, name)
           place == Append(kern[parent], name)
<1>0. /\ path \in FsPath /\ place \in FsPath /\ place \in Seq(Name)
      /\ ~renamed => path = place
  BY Asked, PathIs
<1>1. NoPath \notin FsPath /\ MaxIno \in Nat
  BY FuseAssumption DEF FuseAssumption
<1>2. /\ inoNext \in Ino /\ inoNext' = inoNext + 1 /\ inoNext \in 2 .. MaxIno + 1
      /\ paths' = [paths EXCEPT ![inoNext] = path]
      /\ kern' = [kern EXCEPT ![inoNext] = place]
      /\ isDir' \subseteq Ino
  BY <1>1 DEF NewEntry, Ino, FuseInv, FuseTypeOK
<1> HIDE DEF path, place
<1>3. FuseTypeOK'
  <2>1. inoNext' \in 2 .. MaxIno + 1
    BY <1>1, <1>2 DEF Ino
  <2>2. /\ paths' \in [Ino -> FsPath \cup {NoPath}]
        /\ kern' \in [Ino -> Seq(Name) \cup {NoPath, Unlinked}]
    BY <1>0, <1>2 DEF FuseInv, FuseTypeOK
  <2>3. sizeCache' = sizeCache /\ renamed' = renamed
    OBVIOUS
  <2> QED  BY <1>2, <2>1, <2>2, <2>3 DEF FuseInv, FuseTypeOK
<1>4. \A i \in Ino : /\ paths'[i] = IF i = inoNext THEN path ELSE paths[i]
                     /\ kern'[i] = IF i = inoNext THEN place ELSE kern[i]
  BY <1>2 DEF FuseInv, FuseTypeOK
<1>5. FreshIno'
  BY <1>1, <1>2, <1>4 DEF FuseInv, FreshIno, Ino
<1>6. HeldInodeHasPath'
  BY <1>0, <1>1, <1>4 DEF FuseInv, HeldInodeHasPath, Held
<1>7. PathIsPlace'
  BY <1>0, <1>4 DEF FuseInv, PathIsPlace, Placed
<1> QED  BY <1>3, <1>5, <1>6, <1>7 DEF FuseInv

\* What the callbacks on a file do leaves the table alone.
LEMMA TableFrame ==
    ASSUME FuseInv, UNCHANGED <<inoNext, paths, kern, isDir, renamed>>,
           files' \in [FsPath -> Size \cup {NoSize}],
           sizeCache' \in [FsPath -> Size \cup {NoSize}]
    PROVE  FuseInv'
BY DEF FuseInv, FuseTypeOK, FreshIno, HeldInodeHasPath, PathIsPlace, Held, Placed

\* An unlinked inode was held before.
LEMMA UnlinkInv ==
    ASSUME FuseInv, NEW parent \in Ino, NEW name \in Name, Unlink(parent, name)
    PROVE  FuseInv'
<1> DEFINE place == Append(kern[parent], name)
<1>0. place \in FsPath /\ NoPath \notin FsPath /\ Unlinked # NoPath
  BY Asked, FuseAssumption DEF Unlink, FuseAssumption
<1>1. /\ kern' = [i \in Ino |-> IF kern[i] = place THEN Unlinked ELSE kern[i]]
      /\ UNCHANGED <<inoNext, paths, sizeCache, isDir, renamed>>
      /\ files' \in [FsPath -> Size \cup {NoSize}]
  BY Zenon DEF Unlink, FuseInv, FuseTypeOK
<1> HIDE DEF place
<1>2. FuseTypeOK'
  BY <1>1 DEF FuseInv, FuseTypeOK
<1>3. \A i \in Ino : kern'[i] = IF kern[i] = place THEN Unlinked ELSE kern[i]
  BY <1>1
<1>4. FreshIno' /\ HeldInodeHasPath' /\ PathIsPlace'
  BY <1>0, <1>1, <1>3 DEF FuseInv, FreshIno, HeldInodeHasPath, PathIsPlace, Held, Placed
<1> QED  BY <1>2, <1>4 DEF FuseInv

\* rename gives every inode it touches another path, and nobody a first one.
LEMMA RenameInv ==
    ASSUME FuseInv, NEW parent \in Ino, NEW name \in Name,
           NEW newparent \in Ino, NEW newname \in Name,
           Rename(parent, name, newparent, newname)
    PROVE  FuseInv'
<1> DEFINE old == ChildPath(parent, name)
           new == ChildPath(newparent, newname)
           kold == Append(kern[parent], name)
           knew == Append(kern[newparent], newname)
<1>0. /\ new \in FsPath /\ old \in FsPath /\ kold \in FsPath /\ knew \in FsPath
  BY Asked DEF Rename
<1>1. kold \in Seq(Name) /\ knew \in Seq(Name)
  BY <1>0, PathIs, Zenon
<1>2. NoPath \notin FsPath /\ Unlinked # NoPath
  BY FuseAssumption DEF FuseAssumption
<1>3. /\ kern' = [i \in Ino |-> Moved(kern[i], kold, knew)]
      /\ renamed' = TRUE /\ UNCHANGED <<inoNext, sizeCache, isDir>>
      /\ paths' = paths \/ \E i \in Ino : paths[i] = old /\ paths' = [paths EXCEPT ![i] = new]
  BY DEF Rename
<1>4. files' \in [FsPath -> Size \cup {NoSize}]
  <2>1. \A p \in FsPath : files[p] \in Size \cup {NoSize}
    BY DEF FuseInv, FuseTypeOK
  <2>2. files' = [p \in FsPath |->
                    LET from == Moved(p, new, old)
                    IN  IF IsPrefix(old, p) \/ from \notin FsPath THEN NoSize ELSE files[from]]
    BY DEF Rename
  <2> QED  BY <2>1, <2>2
<1> HIDE DEF old, new, kold, knew
<1>5. \A i \in Ino : /\ kern'[i] \in Seq(Name) \cup {NoPath, Unlinked}
                     /\ kern[i] = NoPath => kern'[i] = NoPath
  <2> SUFFICES ASSUME NEW i \in Ino
               PROVE  /\ kern'[i] \in Seq(Name) \cup {NoPath, Unlinked}
                      /\ kern[i] = NoPath => kern'[i] = NoPath
    OBVIOUS
  <2>1. kern[i] \in Seq(Name) \cup {NoPath, Unlinked}
    BY DEF FuseInv, FuseTypeOK
  <2>2. kern'[i] = Moved(kern[i], kold, knew)
    BY <1>3
  <2>3. kern'[i] \in Seq(Name) \/ kern'[i] = kern[i]
    <3>1. \/ Moved(kern[i], kold, knew) \in Seq(Name)
          \/ Moved(kern[i], kold, knew) = kern[i]
      BY <1>1, MovedType, Zenon
    <3> QED  BY <2>2, <3>1, Zenon
  <2>4. kern[i] = NoPath => kern'[i] = kern[i]
    BY <1>2, <2>2 DEF Moved
  <2> QED  BY <2>1, <2>3, <2>4
<1>6. /\ paths' \in [Ino -> FsPath \cup {NoPath}]
      /\ \A i \in Ino : paths'[i] = NoPath <=> paths[i] = NoPath
  <2>1. CASE paths' = paths
    BY <2>1 DEF FuseInv, FuseTypeOK
  <2>2. ASSUME NEW i \in Ino, paths[i] = old, paths' = [paths EXCEPT ![i] = new]
        PROVE  /\ paths' \in [Ino -> FsPath \cup {NoPath}]
               /\ \A j \in Ino : paths'[j] = NoPath <=> paths[j] = NoPath
    BY <1>0, <1>2, <2>2 DEF FuseInv, FuseTypeOK
  <2> QED  BY <1>3, <2>1, <2>2
<1>7. FuseTypeOK'
  <2>1. kern' \in [Ino -> Seq(Name) \cup {NoPath, Unlinked}]
    BY <1>3, <1>5
  <2> QED  BY <1>3, <1>4, <1>6, <2>1 DEF FuseInv, FuseTypeOK
<1>8. FreshIno'
  BY <1>3, <1>5, <1>6 DEF FuseInv, FreshIno
<1>9. HeldInodeHasPath'
  BY <1>5, <1>6 DEF FuseInv, HeldInodeHasPath, Held
<1>10. PathIsPlace'
  BY <1>3 DEF PathIsPlace
<1> QED  BY <1>7, <1>8, <1>9, <1>10 DEF FuseInv

\* readdir writes only to numbers nobody holds.
LEMMA ReaddirInv ==
    ASSUME FuseInv, NEW i \in Ino, Readdir(i)
    PROVE  FuseInv'
<1> DEFINE listed == {p \in FsPath : files[p] # NoSize /\ Len(p) = Len(paths[i]) + 1
                                     /\ IsPrefix(paths[i], p)}
           fresh(n) == inoNext .. inoNext + n - 1
<1>1. PICK n \in 1 .. MaxIno + 1 - inoNext :
         /\ inoNext' = inoNext + n
         /\ \E order \in Bijection(fresh(n), listed) :
              paths' = [j \in Ino |-> IF j \in DOMAIN order THEN order[j] ELSE paths[j]]
  BY Zenon DEF Readdir
<1>2. PICK order \in [fresh(n) -> FsPath] :
         paths' = [j \in Ino |-> IF j \in DOMAIN order THEN order[j] ELSE paths[j]]
  <2> HIDE DEF listed, fresh
  <2>1. PICK order \in Bijection(fresh(n), listed) :
           paths' = [j \in Ino |-> IF j \in DOMAIN order THEN order[j] ELSE paths[j]]
    BY <1>1, Zenon
  <2>2. order \in [fresh(n) -> listed]
    BY <2>1, Zenon DEF Bijection, Injection
  <2>3. listed \subseteq FsPath
    BY DEF listed
  <2>4. order \in [fresh(n) -> FsPath]
    BY <2>2, <2>3
  <2> QED  BY <2>1, <2>4, Zenon
<1>3. /\ UNCHANGED <<sizeCache, kern, isDir, files, renamed>>
      /\ NoPath \notin FsPath /\ MaxIno \in Nat
      /\ inoNext \in Nat /\ inoNext \in 2 .. MaxIno + 1
  BY FuseAssumption DEF Readdir, FuseAssumption, FuseInv, FuseTypeOK
<1>4. \A j \in Ino : \/ j >= inoNext /\ j < inoNext + n /\ paths'[j] \in FsPath
                     \/ paths'[j] = paths[j]
  <2> SUFFICES ASSUME NEW j \in Ino
               PROVE  \/ j >= inoNext /\ j < inoNext + n /\ paths'[j] \in FsPath
                      \/ paths'[j] = paths[j]
    OBVIOUS
  <2>1. CASE j \in DOMAIN order
    BY <1>1, <1>2, <1>3, <2>1
  <2>2. CASE j \notin DOMAIN order
    BY <1>2, <2>2
  <2> QED  BY <2>1, <2>2
<1>5. FuseTypeOK'
  <2>1. inoNext' \in 2 .. MaxIno + 1
    BY <1>1, <1>3
  <2>2. \A j \in Ino : paths[j] \in FsPath \cup {NoPath}
    BY DEF FuseInv, FuseTypeOK
  <2>3. \A j \in Ino : paths'[j] \in FsPath \cup {NoPath}
    BY <1>4, <2>2
  <2>4. paths' \in [Ino -> FsPath \cup {NoPath}]
    BY <1>2, <2>3
  <2> QED  BY <1>3, <2>1, <2>4 DEF FuseInv, FuseTypeOK
<1>6. FreshIno'
  BY <1>1, <1>3, <1>4 DEF FuseInv, FreshIno, Ino
<1>7. HeldInodeHasPath'
  BY <1>3, <1>4 DEF FuseInv, HeldInodeHasPath, Held
<1>8. PathIsPlace'
  BY <1>3, <1>4 DEF FuseInv, FreshIno, PathIsPlace, Placed
<1> QED  BY <1>5, <1>6, <1>7, <1>8 DEF FuseInv

\* Every callback keeps the invariant.
LEMMA FuseNextInv == FuseInv /\ [FuseNext]_fuseVars => FuseInv'
<1> SUFFICES ASSUME FuseInv, [FuseNext]_fuseVars PROVE FuseInv'
  OBVIOUS
<1>0. files \in [FsPath -> Size \cup {NoSize}] /\ sizeCache \in [FsPath -> Size \cup {NoSize}]
  BY DEF FuseInv, FuseTypeOK
<1>1. CASE UNCHANGED fuseVars
  BY <1>0, <1>1, TableFrame DEF fuseVars
<1>2. ASSUME NEW parent \in Ino, NEW name \in Name, Lookup(parent, name) PROVE FuseInv'
  <2>1. PICK dir : NewEntry(parent, name, ChildPath(parent, name), dir)
    BY <1>2 DEF Lookup
  <2>2. Asks(parent, name) /\ UNCHANGED <<sizeCache, files, renamed>>
    BY <1>2 DEF Lookup
  <2> QED  BY <1>0, <2>1, <2>2, NewEntryInv
<1>3. ASSUME NEW parent \in Ino, NEW name \in Name, Create(parent, name) PROVE FuseInv'
  BY <1>0, <1>3, NewEntryInv DEF Create
<1>4. ASSUME NEW parent \in Ino, NEW name \in Name, Mkdir(parent, name) PROVE FuseInv'
  <2>1. files' \in [FsPath -> Size \cup {NoSize}]
    BY <1>0, <1>4, FuseAssumption DEF Mkdir, FuseAssumption
  <2> QED  BY <1>4, <2>1, NewEntryInv DEF Mkdir
<1>5. ASSUME NEW i \in Ino,
             Read(i) \/ \E n \in Size : Write(i, n) \/ SetSize(i, n)
      PROVE  FuseInv'
  <2>1. paths[i] # NoPath /\ paths[i] \in FsPath
    BY <1>5 DEF Read, Write, SetSize, FuseInv, FuseTypeOK
  <2>2. files[paths[i]] \in Size \cup {NoSize}
    BY <1>0, <2>1
  <2>3. /\ files' \in [FsPath -> Size \cup {NoSize}]
        /\ sizeCache' \in [FsPath -> Size \cup {NoSize}]
        /\ UNCHANGED <<inoNext, paths, kern, isDir, renamed>>
    BY <1>0, <1>5, <2>2 DEF Read, Write, SetSize
  <2> QED  BY <2>3, TableFrame
<1>6. ASSUME NEW i \in Ino, Forget(i) PROVE FuseInv'
  <2>1. /\ paths' = [paths EXCEPT ![i] = NoPath] /\ kern' = [kern EXCEPT ![i] = NoPath]
        /\ isDir' = isDir \ {i} /\ UNCHANGED <<inoNext, sizeCache, files, renamed>>
    BY <1>6 DEF Forget
  <2>2. FuseTypeOK'
    BY <2>1 DEF FuseInv, FuseTypeOK
  <2>3. \A j \in Ino : \/ paths'[j] = paths[j] /\ kern'[j] = kern[j]
                       \/ paths'[j] = NoPath /\ kern'[j] = NoPath
    BY <2>1 DEF FuseInv, FuseTypeOK
  <2>4. FreshIno' /\ HeldInodeHasPath' /\ PathIsPlace'
    BY <2>1, <2>3 DEF FuseInv, FreshIno, HeldInodeHasPath, PathIsPlace, Held, Placed
  <2> QED  BY <2>2, <2>4 DEF FuseInv
<1>7. ASSUME NEW path \in Routed, NEW n \in Size \cup {NoSize}, Elsewhere(path, n) PROVE FuseInv'
  <2>1. files' \in [FsPath -> Size \cup {NoSize}]
    BY <1>0, <1>7, Zenon DEF Elsewhere
  <2> QED  BY <1>0, <1>7, <2>1, TableFrame DEF Elsewhere
<1> QED  BY <1>1, <1>2, <1>3, <1>4, <1>5, <1>6, <1>7, UnlinkInv, RenameInv, ReaddirInv
         DEF FuseNext

LEMMA FuseInvariance == FuseSpec => []FuseInv
BY FuseInitInv, FuseNextInv, PTL DEF FuseSpec

\* Whatever is looked up, listed, renamed, unlinked and forgotten, path_for finds
\* a path for every inode the kernel holds.
THEOREM InodesHavePaths == FuseSpec => []HeldInodeHasPath
<1>1. FuseInv => HeldInodeHasPath
  BY DEF FuseInv
<1> QED  BY <1>1, FuseInvariance, PTL

\* As long as nothing is renamed that path is the one the user sees.
THEOREM PathsArePlaces == FuseSpec => []PathIsPlace
<1>1. FuseInv => PathIsPlace
  BY DEF FuseInv
<1> QED  BY <1>1, FuseInvariance, PTL
=============================================================================
