------------------------------ MODULE MCScript -------------------------------
(***************************************************************************)
(* What a script meets: its routes (RouteTable), the frontends it          *)
(* configures (Startup), the databases it opens (Store), the 9P client it  *)
(* calls (NinepClient), the directory records behind ninep_client.ls       *)
(* (StatRecord) and its conversions (Serialize).  They share no variable:  *)
(* a behaviour explores one of them, and the others stay in an initial     *)
(* state, in which nothing is due to happen.                               *)
(***************************************************************************)
EXTENDS RouteTable, Startup, MCStore, NinepClient, StatRecord, Serialize, TLC

CONSTANT Parts  \* those that are explored

VARIABLE part

scriptVars == <<part, routeVars, startupVars, storeVars, clientVars, entries, value>>

\* Routes: a static file, a directory with a parameter (under two names), a nested
\* file and the catch-all, also where it may not be.
MCPattern == {Root, <<"a">>, <<"a", "{x}">>, <<"a", "{y}">>, <<"a", "b">>, <<"{*path}", "b">>}
MCPath == {Root, <<"a">>, <<"c">>, <<"a", "b">>, <<"a", "c">>, <<"a", "b", "c">>}

\* Client: a file in the root and one below it; a text may need two messages.
MCFile == {"f", "f/g"}
MCParent == [p \in MCFile |-> IF p = "f" THEN "/" ELSE "f"]
MCText == {<<>>, <<1>>, <<4, 2, 3>>}

\* Records: names of one and two bytes, the first byte of one a plausible length.
MCEntryName == {<<97>>, <<98, 99>>, <<1, 2>>}
MCNow == <<1, 2, 3, 4>>

\* Values: rows with different columns, nested tables, text that is a numeral.
I(n) == <<"int", n>>
S(s) == <<"str", s>>
B(b) == <<"bool", b>>
Tab(f) == <<"tab", f>>
MCNumeral == (0 :> "0") @@ (1 :> "1") @@ (2 :> "2") @@ (3 :> "3") @@ (7 :> "7")
MCKeyOrder == <<"1", "2", "3", "a", "b">>
MCFieldKey == {I(1), I(2), I(3), S("a")}
MCElement ==
    {I(7), S("x"), B(TRUE), EmptyTable, Tab(S("a") :> I(7)), Tab(S("a") :> B(FALSE)), Tab(S("a") :> S("7")),
     Tab((S("a") :> S("x")) @@ (S("b") :> I(7))), Tab(I(1) :> S("x"))}

MCInit ==
    /\ part \in Parts
    /\ RouteInit /\ StartupInit /\ StoreInit /\ ClientInit /\ RecordInit /\ SerializeInit
    /\ part # "startup" => \A p \in SockPath : files[p] = NoFile
    /\ part # "client" => \A p \in File : file[p] = <<>>

MCNext ==
    \/ /\ part = "routes" /\ RouteNext
       /\ UNCHANGED <<part, startupVars, storeVars, clientVars, entries, value>>
    \/ /\ part = "startup" /\ StartupNext
       /\ UNCHANGED <<part, routeVars, storeVars, clientVars, entries, value>>
    \/ /\ part = "store" /\ StoreNext
       /\ UNCHANGED <<part, routeVars, startupVars, clientVars, entries, value>>
    \/ /\ part = "client" /\ ClientNext
       /\ UNCHANGED <<part, routeVars, startupVars, storeVars, entries, value>>
    \/ /\ part = "records" /\ RecordNext
       /\ UNCHANGED <<part, routeVars, startupVars, storeVars, clientVars, value>>
    \/ /\ part = "values" /\ SerializeNext
       /\ UNCHANGED <<part, routeVars, startupVars, storeVars, clientVars, entries>>

MCSpec == MCInit /\ [][MCNext]_scriptVars /\ StoreFairness /\ ClientFairness

\* Tables, tasks and local variables keep their types: main handles as many
\* mounts as are configured, every task has a listener, every fid is the
\* client's.
ScriptTypeOK == RouteTypeOK /\ StartupTypeOK /\ StoreTypeOK /\ ClientTypeOK
=============================================================================
