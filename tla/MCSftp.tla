-------------------------------- MODULE MCSftp -------------------------------
(* Instances of Sftp: a connection that does much, and one that interferes. *)
EXTENDS Sftp

CONSTANTS c1, c2
MCConn == {c1, c2}
MCMaxPacket == [c \in MCConn |-> IF c = c1 THEN 3 ELSE 1]
=============================================================================
