------------------------------ MODULE MCPinhead ------------------------------
(***************************************************************************)
(* Small instances of Pinhead.                                             *)
(***************************************************************************)
EXTENDS Pinhead, TLC

CONSTANTS a, b, c

\* Three requests.  The handler of a sends b, which the router refuses, to its
\* own server through ninep_client; c is an ordinary request.
MCRequest == {a, b, c}
MCParent == [r \in MCRequest |-> IF r = b THEN a ELSE NoRequest]
MCVerdict == (b :> "is_directory") @@ [r \in MCRequest |-> "handler"]
=============================================================================
