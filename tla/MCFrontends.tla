----------------------------- MODULE MCFrontends -----------------------------
(***************************************************************************)
(* The request pipeline (MCPinhead) and two of the frontends that feed it: *)
(* FUSE (MCFuse) and SFTP (MCSftp), each of which sees router and workers  *)
(* as one serial service.  They share no variable: a behaviour explores    *)
(* one of them, and the others do not begin.                               *)
(***************************************************************************)
EXTENDS MCPinhead, MCFuse, MCSftp

VARIABLE part

frontendsVars == <<part, vars, fuseVars, sftpVars>>

\* A pipeline that is not explored is one whose process has ended.
MCInit ==
    /\ part \in {"pipeline", "fuse", "sftp"}
    /\ PoolInit /\ RouterInit /\ FuseInit /\ SftpInit
    /\ client = [r \in Request |-> "idle"]
    /\ main = IF part = "pipeline" THEN "run" ELSE "exited"

MCNext ==
    \/ part = "pipeline" /\ Next /\ UNCHANGED <<part, fuseVars, sftpVars>>
    \/ part = "fuse" /\ FuseNext /\ UNCHANGED <<part, vars, sftpVars>>
    \/ part = "sftp" /\ SftpNext /\ UNCHANGED <<part, vars, fuseVars>>

MCSpec == MCInit /\ [][MCNext]_frontendsVars /\ Fairness /\ SftpFairness
=============================================================================
