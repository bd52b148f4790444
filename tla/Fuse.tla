--------------------------------- MODULE Fuse --------------------------------
(***************************************************************************)
(* The FUSE frontend of src/frontend/fuse.rs: the table that gives each    *)
(* inode number a path, and the cache of sizes.                            *)
(*                                                                         *)
(* The session is served by one background thread, so a callback is one    *)
(* step, its requests to the router included.  The kernel is external: it  *)
(* holds the inodes it was given until it forgets them, knows by its       *)
(* dentries where each of them is in the tree, and moves them on a rename. *)
(* So is the Lua script: it keeps a size for each file, and any request    *)
(* may fail.                                                               *)
(***************************************************************************)
EXTENDS Integers, Sequences, FiniteSets, SequencesExt

CONSTANTS
    Name,      \* names of files and directories
    MaxDepth,  \* bound on the depth of a path
    Routed,    \* paths some route matches
    Dirs,      \* those whose getattr handler answers mode=dir
    Size,      \* sizes of a file's content
    NoSize,    \* no file, or nothing cached
    NoPath,    \* no entry for the inode
    Unlinked,  \* the kernel holds the inode, but no dentry leads to it
    Renames,   \* whether the user renames
    MaxIno     \* bound on inode numbers

Root == <<>>
FsPath == UNION {[1 .. n -> Name] : n \in 0 .. MaxDepth}
Ino == 1 .. MaxIno

ASSUME FuseAssumption ==
    /\ MaxDepth \in Nat /\ MaxIno \in Nat \ {0}
    /\ Routed \subseteq FsPath \ {Root} /\ Dirs \subseteq Routed
    /\ 0 \in Size /\ Size \subseteq Nat /\ NoSize \notin Size
    /\ NoPath \notin FsPath /\ Unlinked \notin FsPath /\ Unlinked # NoPath
    /\ Renames \in BOOLEAN

VARIABLES
    inoNext,   \* next inode number
    paths,     \* path recorded for each inode, or NoPath
    sizeCache, \* length cached for each path, or NoSize
    kern,      \* kernel: place of each inode it holds; NoPath, or Unlinked
    isDir,     \* kernel: inodes it was told are directories
    files,     \* script: size of each file, or NoSize
    renamed    \* history: something was renamed

fuseVars == <<inoNext, paths, sizeCache, kern, isDir, files, renamed>>

Held(i) == kern[i] # NoPath
Placed(i) == kern[i] \notin {NoPath, Unlinked}

FuseInit ==
    /\ inoNext = 2
    /\ paths = [i \in Ino |-> IF i = 1 THEN Root ELSE NoPath]
    /\ sizeCache = [p \in FsPath |-> NoSize]
    /\ kern = paths
    /\ isDir = {1}
    /\ files = [p \in FsPath |-> NoSize]
    /\ renamed = FALSE

\* What lookup may tell the kernel: a path without a route is a directory on the
\* way, and one whose getattr fails is taken for a file.
IsDirAttr(path) == IF path \in Routed THEN {FALSE, (path \in Dirs)} ELSE {TRUE}

\* Mutant of ChildPath: the parent's path is not looked up.
ChildPathAtRoot(parent, name) == <<name>>

\* path_for(parent), "/" when there is none, and the name.
ChildPath(parent, name) ==
    (IF paths[parent] = NoPath THEN Root ELSE paths[parent]) \o <<name>>

\* The kernel asks about a name in a directory it holds.
Asks(parent, name) ==
    /\ Placed(parent) /\ parent \in isDir
    /\ Len(kern[parent]) < MaxDepth /\ Len(ChildPath(parent, name)) <= MaxDepth

\* A new number for path, and the entry of the reply in the kernel.
NewEntry(parent, name, path, dir) ==
    /\ inoNext <= MaxIno
    /\ inoNext' = inoNext + 1
    /\ paths' = [paths EXCEPT ![inoNext] = path]
    /\ kern' = [kern EXCEPT ![inoNext] = Append(kern[parent], name)]
    /\ isDir' = IF dir THEN isDir \cup {inoNext} ELSE isDir

-----------------------------------------------------------------------------
(* Callbacks.                                                              *)

\* lookup: a path the script knows, or one without a route.  A handler's error
\* is ENOENT.
Lookup(parent, name) ==
    LET path == ChildPath(parent, name) IN
    /\ Asks(parent, name)
    /\ path \in Routed => files[path] # NoSize
    /\ \E dir \in IsDirAttr(path) : NewEntry(parent, name, path, dir)
    /\ UNCHANGED <<sizeCache, files, renamed>>

\* Mutant of Create: the path of the new inode is not recorded.
CreateUnrecorded(parent, name) ==
    /\ Asks(parent, name)
    /\ inoNext <= MaxIno
    /\ inoNext' = inoNext + 1
    /\ kern' = [kern EXCEPT ![inoNext] = Append(kern[parent], name)]
    /\ UNCHANGED <<paths, isDir, sizeCache, files, renamed>>

\* create: the inode is made up; no request is sent.  The kernel creates after a
\* lookup that failed, in a handler or because the file was not yet there.
Create(parent, name) ==
    LET path == ChildPath(parent, name) IN
    /\ Asks(parent, name)
    /\ path \in Routed
    /\ NewEntry(parent, name, path, FALSE)
    /\ UNCHANGED <<sizeCache, files, renamed>>

\* mkdir: the request is sent first.
Mkdir(parent, name) ==
    LET path == ChildPath(parent, name) IN
    /\ Asks(parent, name)
    /\ path \in Dirs /\ files[path] = NoSize
    /\ files' = [files EXCEPT ![path] = 0]
    /\ NewEntry(parent, name, path, TRUE)
    /\ UNCHANGED <<sizeCache, renamed>>

\* unlink and rmdir.
Unlink(parent, name) ==
    LET path == ChildPath(parent, name) IN
    /\ Asks(parent, name)
    /\ path \in Routed /\ files[path] # NoSize
    /\ \A p \in FsPath : files[p] # NoSize => ~IsStrictPrefix(path, p)
    /\ files' = [files EXCEPT ![path] = NoSize]
    /\ kern' = [i \in Ino |-> IF kern[i] = Append(kern[parent], name)
                              THEN Unlinked ELSE kern[i]]
    /\ UNCHANGED <<inoNext, paths, sizeCache, isDir, renamed>>

Moved(p, old, new) ==
    IF p \in FsPath /\ IsPrefix(old, p)
    THEN new \o SubSeq(p, Len(old) + 1, Len(p)) ELSE p

\* rename to a place that is free: on success one of the inodes recorded for the
\* old path, whichever the hash map yields first, gets the new one.
Rename(parent, name, newparent, newname) ==
    LET old == ChildPath(parent, name)
        new == ChildPath(newparent, newname)
        kold == Append(kern[parent], name)
        knew == Append(kern[newparent], newname)
        stale == {i \in Ino : paths[i] = old}
    IN  /\ Renames
        /\ Asks(parent, name) /\ Asks(newparent, newname)
        /\ {old, new} \subseteq Dirs \/ {old, new} \subseteq Routed \ Dirs
        /\ files[old] # NoSize
        /\ \A i \in Ino : Placed(i) => ~IsPrefix(knew, kern[i])
        /\ \A p \in FsPath : files[p] # NoSize => ~IsPrefix(new, p)
        /\ files' = [p \in FsPath |->
                       LET from == Moved(p, new, old)
                       IN  IF IsPrefix(old, p) \/ from \notin FsPath THEN NoSize ELSE files[from]]
        /\ IF stale = {} THEN UNCHANGED paths
           ELSE \E i \in stale : paths' = [paths EXCEPT ![i] = new]
        /\ kern' = [i \in Ino |-> Moved(kern[i], kold, knew)]
        /\ renamed' = TRUE
        /\ UNCHANGED <<inoNext, sizeCache, isDir>>

\* read: the whole content is fetched, and its length cached.
Read(i) ==
    /\ Held(i) /\ i \notin isDir /\ paths[i] # NoPath
    /\ files[paths[i]] # NoSize /\ paths[i] \notin Dirs
    /\ sizeCache' = [sizeCache EXCEPT ![paths[i]] = files[paths[i]]]
    /\ UNCHANGED <<inoNext, paths, kern, isDir, files, renamed>>

\* write: the script keeps the data; its length is cached.
Write(i, n) ==
    /\ Held(i) /\ i \notin isDir /\ paths[i] # NoPath
    /\ paths[i] \in Routed \ Dirs
    /\ files' = [files EXCEPT ![paths[i]] = n]
    /\ sizeCache' = [sizeCache EXCEPT ![paths[i]] = n]
    /\ UNCHANGED <<inoNext, paths, kern, isDir, renamed>>

\* setattr with a size: the script truncates the file, the cache is left alone.
SetSize(i, n) ==
    /\ Held(i) /\ i \notin isDir /\ paths[i] # NoPath
    /\ files[paths[i]] # NoSize
    /\ files' = [files EXCEPT ![paths[i]] = n]
    /\ UNCHANGED <<inoNext, paths, sizeCache, kern, isDir, renamed>>

\* readdir: every entry of the listing gets a new number, which the kernel does
\* not hold, and so never forgets.
Readdir(i) ==
    LET listed == {p \in FsPath : files[p] # NoSize /\ Len(p) = Len(paths[i]) + 1
                                  /\ IsPrefix(paths[i], p)}
    IN  /\ Held(i) /\ i \in isDir /\ paths[i] # NoPath
        /\ \E n \in 1 .. MaxIno + 1 - inoNext :
             /\ inoNext' = inoNext + n
             /\ \E order \in Bijection(inoNext .. inoNext + n - 1, listed) :
                  paths' = [j \in Ino |-> IF j \in DOMAIN order THEN order[j] ELSE paths[j]]
        /\ UNCHANGED <<sizeCache, kern, isDir, files, renamed>>

\* forget: the kernel drops an inode under which it holds none.
Forget(i) ==
    /\ i # 1 /\ Held(i)
    /\ i \in isDir /\ Placed(i) =>
         \A j \in Ino : Placed(j) => j = i \/ ~IsStrictPrefix(kern[i], kern[j])
    /\ paths' = [paths EXCEPT ![i] = NoPath]
    /\ kern' = [kern EXCEPT ![i] = NoPath]
    /\ isDir' = isDir \ {i}
    /\ UNCHANGED <<inoNext, sizeCache, files, renamed>>

\* Another frontend writes or removes a file.
Elsewhere(path, n) ==
    /\ path \in Routed \ Dirs
    /\ files' = [files EXCEPT ![path] = n]
    /\ UNCHANGED <<inoNext, paths, sizeCache, kern, isDir, renamed>>

FuseNext ==
    \/ \E parent \in Ino, name \in Name :
         \/ Lookup(parent, name) \/ Create(parent, name) \/ Unlink(parent, name)
         \/ Mkdir(parent, name)
         \/ \E newparent \in Ino, newname \in Name : Rename(parent, name, newparent, newname)
    \/ \E i \in Ino :
         \/ Read(i) \/ Readdir(i) \/ Forget(i)
         \/ \E n \in Size : Write(i, n) \/ SetSize(i, n)
    \/ \E path \in Routed, n \in Size \cup {NoSize} : Elsewhere(path, n)

FuseSpec == FuseInit /\ [][FuseNext]_fuseVars

-----------------------------------------------------------------------------
(* Properties.                                                             *)

FuseTypeOK ==
    /\ inoNext \in 2 .. MaxIno + 1
    /\ paths \in [Ino -> FsPath \cup {NoPath}]
    /\ sizeCache \in [FsPath -> Size \cup {NoSize}]
    /\ kern \in [Ino -> Seq(Name) \cup {NoPath, Unlinked}]
    /\ isDir \subseteq Ino
    /\ files \in [FsPath -> Size \cup {NoSize}]
    /\ renamed \in BOOLEAN

\* An inode the kernel holds always has a path: whatever was looked up,
\* listed, renamed, unlinked or forgotten in between, no callback on a file
\* that is open ends in ENOENT because path_for finds nothing, and no child is
\* taken to be under "/" by default.
HeldInodeHasPath == \A i \in Ino : Held(i) => paths[i] # NoPath

\* Until something is renamed, the path recorded for an inode is where the kernel
\* has it in the tree: the handler of a read or write is that of the file the
\* user sees, below directories without a route too.
PathIsPlace == ~renamed => \A i \in Ino : Placed(i) => paths[i] = kern[i]

\* "Update path cache for the renamed inode" (fuse.rs:552): after a rename, too,
\* the path recorded for an inode is where the kernel has it.
RenameFollowed == \A i \in Ino : Placed(i) => paths[i] = kern[i]
=============================================================================
