-------------------------------- MODULE MCFuse -------------------------------
(* Instances of Fuse: directories a and b with routes, each with a file.   *)
EXTENDS Fuse

MCDirs == {<<"a">>, <<"b">>}
MCRouted == MCDirs \cup {<<"a", "b">>, <<"b", "b">>}
MCFlat == {<<"a">>, <<"b">>}
=============================================================================
