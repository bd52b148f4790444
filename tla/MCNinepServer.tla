---------------------------- MODULE MCNinepServer ----------------------------
(***************************************************************************)
(* Small instances of NinepServer.                                         *)
(***************************************************************************)
EXTENDS NinepServer

CONSTANTS c1, c2

\* The clients use different fid numbers, or the same one.
OwnFids == [c \in {c1, c2} |-> IF c = c1 THEN {1} ELSE {2}]
SameFid == [c \in {c1, c2} |-> {1}]
=============================================================================
