------------------------------ MODULE Startup -------------------------------
(***************************************************************************)
(* From the script's configuration to running frontends and back: the      *)
(* fuse, ninep and sshfs tables of compile (src/handler.rs), the frontends *)
(* main starts from them (src/main.rs), the binding of their addresses     *)
(* (serve, serve_tcp, serve_tcp_tls, serve_udp of src/frontend/ninep.rs,   *)
(* serve of src/frontend/sshfs.rs, mount of src/frontend/fuse.rs) and the  *)
(* shutdown.  A process may also die without one, and a socket file        *)
(* outlives its process.                                                   *)
(*                                                                         *)
(* What a listener does once it listens is modelled elsewhere; here it may *)
(* only end because accept fails.                                          *)
(***************************************************************************)
EXTENDS Integers, Sequences, Functions

CONSTANTS
    SockPath,       \* paths of Unix sockets
    Port,           \* host:port addresses
    Mount,          \* mount points
    MaxConfigCalls, \* bound on the configuration calls of a script
    MaxProcesses    \* bound on the processes that follow one another

ASSUME StartupAssumption ==
    /\ MaxConfigCalls \in Nat /\ MaxProcesses \in Nat
    /\ SockPath \cap Port = {}

VARIABLES
    stage,      \* "script", "mounting", "running", "stopping", then "ended", or "died"
    config,     \* Config: mounts, 9P and SSH listeners, and the TLS paths that are set
    asked,      \* history: addresses the script last asked 9P to listen on
    configured, \* configuration calls made
    session,    \* FUSE sessions: for each mount handled so far, whether it is mounted
    task,       \* of each spawned listener
    files,      \* owner of each socket file: a task, NoFile or Stale
    process     \* number of the process

startupVars == <<stage, config, asked, configured, session, task, files, process>>

NoFile == 0
Stale == -1

\* Addresses by prefix; "none" is an address without a known one.
NinepAddress ==
    [kind : {"sock"}, at : SockPath] \cup [kind : {"tcp", "tls", "udp", "none"}, at : Port]
SshAddress == [kind : {"ssh"}, at : Port]

EmptyConfig == [mounts |-> <<>>, ninep |-> <<>>, ssh |-> <<>>, tls |-> {}]

\* What one pass over seq has kept after n elements: those of S, in order.
Kept(seq, S) ==
    LET kept[n \in 0 .. Len(seq)] ==
            IF n = 0 THEN <<>>
            ELSE IF seq[n] \in S THEN Append(kept[n - 1], seq[n]) ELSE kept[n - 1]
    IN  kept
Retain(seq, S) == Kept(seq, S)[Len(seq)]

\* The tasks main spawns, in order.
Spawned(c) == Retain(c.ninep, {l \in NinepAddress : l.kind # "none"}) \o c.ssh
Listener(i) == Spawned(config)[i]

StartupInit ==
    /\ stage = "script" /\ process = 1
    /\ config = EmptyConfig /\ asked = {} /\ configured = 0
    /\ session = <<>> /\ task = <<>>
    /\ files \in [SockPath -> {NoFile, Stale}]

-----------------------------------------------------------------------------
(* The script.                                                             *)

Configures ==
    /\ stage = "script" /\ configured < MaxConfigCalls
    /\ configured' = configured + 1
    /\ UNCHANGED <<stage, session, task, files, process>>

Without(seq, x) == Retain(seq, Range(seq) \ {x})

FuseMount(m) ==
    /\ Configures /\ config' = [config EXCEPT !.mounts = Append(@, m)]
    /\ UNCHANGED asked
FuseUnmount(m) ==
    /\ Configures /\ config' = [config EXCEPT !.mounts = Without(@, m)]
    /\ UNCHANGED asked
FuseUnmountAll ==
    /\ Configures /\ config' = [config EXCEPT !.mounts = <<>>]
    /\ UNCHANGED asked

NinepListen(l) ==
    /\ Configures /\ config' = [config EXCEPT !.ninep = Append(@, l)]
    /\ asked' = asked \cup {l}

NinepKill(l) ==
    /\ Configures /\ config' = [config EXCEPT !.ninep = Without(@, l)]
    /\ asked' = asked \ {l}
NinepKillAll ==
    /\ Configures /\ config' = [config EXCEPT !.ninep = <<>>]
    /\ asked' = {}

\* ninep.tls_cert and ninep.tls_key.
NinepTls(part) ==
    /\ Configures /\ config' = [config EXCEPT !.tls = @ \cup {part}]
    /\ UNCHANGED asked

SshListen(l) ==
    /\ Configures /\ config' = [config EXCEPT !.ssh = Append(@, l)]
    /\ UNCHANGED asked
SshKill(l) ==
    /\ Configures /\ config' = [config EXCEPT !.ssh = Without(@, l)]
    /\ UNCHANGED asked
SshKillAll ==
    /\ Configures /\ config' = [config EXCEPT !.ssh = <<>>]
    /\ UNCHANGED asked

\* compile returns the configuration.
ScriptEnds ==
    /\ stage = "script"
    /\ stage' = "mounting"
    /\ UNCHANGED <<config, asked, configured, session, task, files, process>>

-----------------------------------------------------------------------------
(* main.                                                                   *)

\* Mutant of MountNext: one mount too many.
MountNextPastEnd(ok) ==
    /\ stage = "mounting" /\ Len(session) <= Len(config.mounts)
    /\ session' = Append(session, ok)
    /\ UNCHANGED <<stage, config, asked, configured, task, files, process>>

\* frontend::fuse::mount is called for one path after the other; an error is
\* only printed.
MountNext(ok) ==
    /\ stage = "mounting" /\ Len(session) < Len(config.mounts)
    /\ session' = Append(session, ok)
    /\ UNCHANGED <<stage, config, asked, configured, task, files, process>>

\* Then every listener is spawned.  A spawned task runs when the runtime gets to
\* it, so that spawning them one by one would add nothing.
SpawnListeners ==
    /\ stage = "mounting" /\ Len(session) = Len(config.mounts)
    /\ stage' = "running"
    /\ task' = [i \in DOMAIN Spawned(config) |-> "spawned"]
    /\ UNCHANGED <<config, asked, configured, session, files, process>>

\* SIGINT, or the end of the router task.
Stop ==
    /\ stage = "running"
    /\ stage' = "stopping"
    /\ UNCHANGED <<config, asked, configured, session, task, files, process>>

Gone == {"in use", "failed", "lost", "dropped"}

\* main returns when its tasks are aborted; the sessions are dropped, which
\* unmounts them.
Exit ==
    /\ stage = "stopping" /\ \A i \in DOMAIN task : task[i] \in Gone
    /\ stage' = "ended"
    /\ session' = [k \in DOMAIN session |-> FALSE]
    /\ UNCHANGED <<config, asked, configured, task, files, process>>

\* A panic, SIGKILL, or a SIGINT before main handles it: the files stay.
Die ==
    /\ stage \notin {"ended", "died"}
    /\ stage' = "died"
    /\ files' = [p \in SockPath |-> IF files[p] = NoFile THEN NoFile ELSE Stale]
    /\ UNCHANGED <<config, asked, configured, session, task, process>>

\* The next process, with whatever script.
Restart ==
    /\ stage \in {"ended", "died"} /\ process < MaxProcesses
    /\ process' = process + 1
    /\ stage' = "script"
    /\ config' = EmptyConfig /\ asked' = {} /\ configured' = 0
    /\ session' = <<>> /\ task' = <<>>
    /\ UNCHANGED files

-----------------------------------------------------------------------------
(* The task of listener i.                                                 *)

Live == stage \in {"running", "stopping"}
Becomes(i, s) == task' = [task EXCEPT ![i] = s]
MainUnchanged == UNCHANGED <<stage, config, asked, configured, session, process>>

\* Mutant of RemoveStale: the file is left as it is.
RemoveStaleKeepsFile(i) ==
    /\ Live /\ task[i] = "spawned" /\ Listener(i).kind = "sock"
    /\ Becomes(i, "cleared")
    /\ UNCHANGED files /\ MainUnchanged

\* serve first removes a file that is in the way; errors are ignored.
RemoveStale(i) ==
    /\ Live /\ task[i] = "spawned" /\ Listener(i).kind = "sock"
    /\ Becomes(i, "cleared")
    /\ files' = [files EXCEPT ![Listener(i).at] = NoFile]
    /\ MainUnchanged

\* UnixListener::bind creates the file, together with its SocketCleanup.
BindSocket(i) ==
    /\ Live /\ task[i] = "cleared"
    /\ IF files[Listener(i).at] = NoFile
       THEN Becomes(i, "listening") /\ files' = [files EXCEPT ![Listener(i).at] = i]
       ELSE Becomes(i, "in use") /\ UNCHANGED files
    /\ MainUnchanged

SamePort(l, m) == l.at = m.at /\ (l.kind = "udp" <=> m.kind = "udp")

\* TcpListener::bind or UdpSocket::bind; serve_tcp_tls needs both its paths.
BindPort(i) ==
    /\ Live /\ task[i] = "spawned" /\ Listener(i).kind # "sock"
    /\ Listener(i).kind = "tls" => config.tls = {"cert", "key"}
    /\ IF \E j \in DOMAIN task : task[j] = "listening" /\ SamePort(Listener(i), Listener(j))
       THEN Becomes(i, "in use") ELSE Becomes(i, "listening")
    /\ UNCHANGED files /\ MainUnchanged

\* Any other error of bind, or TLS without (valid) certificate and key; it is
\* printed and ends the task.
BindFails(i) ==
    /\ Live /\ task[i] \in {"spawned", "cleared"}
    /\ Becomes(i, "failed")
    /\ UNCHANGED files /\ MainUnchanged

\* Drop of SocketCleanup removes the file at the path, whoever configured it.
Cleanup(i) ==
    files' = [p \in SockPath |->
                 IF task[i] = "listening" /\ Listener(i).at = p THEN NoFile ELSE files[p]]

\* accept returns an error: `?` ends the listener for good.
AcceptFails(i) ==
    /\ Live /\ task[i] = "listening"
    /\ Becomes(i, "lost")
    /\ Cleanup(i) /\ MainUnchanged

\* Mutant of Aborted: the file is left to the next start.
AbortedKeepsFile(i) ==
    /\ stage = "stopping" /\ task[i] \notin Gone
    /\ Becomes(i, "dropped")
    /\ UNCHANGED files /\ MainUnchanged

\* The abort of main takes effect: the future is dropped.  Until then the task
\* goes on.
Aborted(i) ==
    /\ stage = "stopping" /\ task[i] \notin Gone
    /\ Becomes(i, "dropped")
    /\ Cleanup(i) /\ MainUnchanged

ListenerStep(i) ==
    \/ RemoveStale(i) \/ BindSocket(i) \/ BindPort(i) \/ BindFails(i)
    \/ AcceptFails(i) \/ Aborted(i)

StartupNext ==
    \/ \E m \in Mount : FuseMount(m) \/ FuseUnmount(m)
    \/ FuseUnmountAll
    \/ \E l \in NinepAddress : NinepListen(l) \/ NinepKill(l)
    \/ NinepKillAll
    \/ \E part \in {"cert", "key"} : NinepTls(part)
    \/ \E l \in SshAddress : SshListen(l) \/ SshKill(l)
    \/ SshKillAll
    \/ ScriptEnds
    \/ \E ok \in BOOLEAN : MountNext(ok)
    \/ SpawnListeners \/ Stop \/ Exit \/ Die \/ Restart
    \/ \E i \in DOMAIN task : ListenerStep(i)

StartupSpec == StartupInit /\ [][StartupNext]_startupVars

-----------------------------------------------------------------------------
(* Properties.                                                             *)

StartupTypeOK ==
    /\ stage \in {"script", "mounting", "running", "stopping", "ended", "died"}
    /\ config.mounts \in Seq(Mount) /\ config.ninep \in Seq(NinepAddress)
    /\ config.ssh \in Seq(SshAddress) /\ config.tls \subseteq {"cert", "key"}
    /\ configured \in 0 .. MaxConfigCalls /\ process \in 1 .. MaxProcesses
    /\ Len(session) <= Len(config.mounts)
    /\ task # <<>> => DOMAIN task = DOMAIN Spawned(config)
    /\ \A i \in DOMAIN task : task[i] \in {"spawned", "cleared", "listening"} \cup Gone
    /\ files \in [SockPath -> {NoFile, Stale} \cup DOMAIN task]

Settled == stage = "running" /\ \A i \in DOMAIN task : task[i] \notin {"spawned", "cleared"}
At9p(l) == {i \in DOMAIN task : Listener(i) = l}

\* Once the listeners have started, the file of every socket the script asked
\* for leads to a listener that accepts, unless one of that path met an error,
\* and no other path leads to one: whatever an earlier process left behind, and
\* in whatever order listeners of one path remove each other's file, exactly the
\* loser of the race to bind is refused.
SocketsLeadToListeners ==
    Settled =>
        \A l \in NinepAddress :
            l.kind = "sock" =>
                LET owner == files[l.at] IN
                /\ l \in asked /\ (\A i \in At9p(l) : task[i] \notin {"failed", "lost"})
                     => owner \in DOMAIN task /\ task[owner] = "listening"
                /\ l \notin asked => owner \in {NoFile, Stale}

\* An orderly shutdown leaves no socket file of this process, although a task may
\* still bind between the abort and its effect, and although every cleanup guard
\* removes the path and not its own file.
ShutdownRemovesSockets ==
    stage = "ended" => \A p \in SockPath : files[p] \in {NoFile, Stale}
=============================================================================
