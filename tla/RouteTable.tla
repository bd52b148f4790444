----------------------------- MODULE RouteTable ------------------------------
(***************************************************************************)
(* Which Lua function serves a request: the script registers routes        *)
(* (src/handler.rs), main merges them by pattern and inserts them in the   *)
(* trie (src/main.rs), and the router looks path and operation up          *)
(* (src/router.rs).  main drops the functions of its own execution of the  *)
(* script: a worker executes the script again, and only the names that the *)
(* two executions count out tie a route to a function of the worker.       *)
(*                                                                         *)
(* A path is the sequence of its segments between slashes: "/" is <<"">>,  *)
(* "/a/b" is <<"a", "b">>.  A segment of a pattern is literal, a parameter *)
(* or, at the end, a catch-all.  The trie (crate matchit) is external.     *)
(***************************************************************************)
EXTENDS Integers, Sequences, FiniteSets, FiniteSetsExt

CONSTANTS
    Pattern,     \* patterns the script registers
    ParamSeg,    \* segments that are parameters, e.g. "{x}"
    CatchAllSeg, \* segments that are catch-alls
    BundleName,  \* the convenience wrappers the script calls
    Path,        \* request paths
    Op,          \* operations of a request
    MaxCalls     \* bound on the registration calls of a script

Segment == STRING
Root == <<"">>
DefaultPattern == <<"{*path}">>

\* The wrappers of the route table.
Wrapper == {"read", "write", "readdir", "create", "unlink", "mkdir", "lookup", "getattr",
            "open", "release", "all"}

ASSUME RouteAssumption ==
    /\ ParamSeg \cap CatchAllSeg = {}
    /\ "{*path}" \in CatchAllSeg
    /\ \A p \in Pattern \cup Path : p \in Seq(Segment) /\ Len(p) > 0
    /\ BundleName \subseteq Wrapper
    /\ "*" \notin Op
    /\ MaxCalls \in Nat

VARIABLES
    phase,   \* "script", then "serving" or "panicked"
    script,  \* the registration calls of the script: the n-th one passes function n
    routes   \* main's Vec<RouteRegistration>: pattern, ops, handler_name; func is history

routeVars == <<phase, script, routes>>

NoRoute == [kind |-> "no route"]
NoHandler == [kind |-> "no handler"]
IsDirectory == [kind |-> "is a directory"]
Runs(f) == [kind |-> "runs", func |-> f]

\* The operations each wrapper registers; none means all.
Bundle(name) ==
    CASE name = "read" -> {"lookup", "getattr", "open", "read", "release", "flush"}
      [] name = "write" -> {"lookup", "getattr", "open", "read", "write", "release",
                            "flush", "fsync", "create"}
      [] name = "readdir" -> {"lookup", "getattr", "opendir", "readdir", "releasedir"}
      [] name = "create" -> {"lookup", "getattr", "create", "open", "read", "write",
                             "release", "flush"}
      [] name = "unlink" -> {"unlink", "lookup", "getattr"}
      [] name = "mkdir" -> {"mkdir", "lookup", "getattr", "opendir", "readdir", "releasedir"}
      [] name \in {"lookup", "getattr", "open", "release"} -> {name}
      [] name = "all" -> {}

-----------------------------------------------------------------------------
(* The trie.                                                               *)

\* Literal segments are tried before parameters, and those before catch-alls.
Rank(seg) == IF seg \in CatchAllSeg THEN 2 ELSE IF seg \in ParamSeg THEN 1 ELSE 0
Ranks(p) == [i \in DOMAIN p |-> Rank(p[i])]

\* A parameter stands for one segment that is not empty, a catch-all for a rest
\* that is not empty ("/" alone leaves an empty rest).
SegMatches(seg, s) == seg = s \/ (seg \in ParamSeg /\ s # "")
Matches(p, path) ==
    IF Rank(p[Len(p)]) = 2
    THEN /\ Len(path) >= Len(p)
         /\ \A i \in 1 .. Len(p) - 1 : SegMatches(p[i], path[i])
         /\ SubSeq(path, Len(p), Len(path)) # Root
    ELSE /\ Len(path) = Len(p)
         /\ \A i \in DOMAIN p : SegMatches(p[i], path[i])

\* p is tried before q: at the first position where they differ in kind.
Before(p, q) ==
    \E i \in 1 .. Len(p) :
        /\ i <= Len(q)
        /\ Rank(p[i]) < Rank(q[i])
        /\ \A j \in 1 .. i - 1 : Rank(p[j]) = Rank(q[j])

At(patterns, path) ==
    LET m == {p \in patterns : Matches(p, path)}
    IN  {p \in m : \A q \in m : ~Before(q, p)}

\* insert refuses a pattern with a catch-all before its end, and one that differs
\* from another in parameter names only.
Malformed(p) == \E i \in 1 .. Len(p) - 1 : Rank(p[i]) = 2
Conflict(p, q) ==
    /\ p # q /\ Ranks(p) = Ranks(q)
    /\ \A i \in DOMAIN p : Rank(p[i]) = 0 => p[i] = q[i]

-----------------------------------------------------------------------------
(* main: the registrations merged by pattern.                              *)

Patterns(rs) == {rs[i].pattern : i \in DOMAIN rs}

\* Mutant of Claim: the first registration wins.
ClaimFirst(handlers, r) ==
    [op \in DOMAIN handlers |->
        IF handlers[op] = {} /\ (IF r.ops = {} THEN op = "*" ELSE op \in r.ops)
        THEN {r.name} ELSE handlers[op]]

\* One registration of a pattern: its name for its operations, or for "*".
Claim(handlers, r) ==
    [op \in DOMAIN handlers |->
        IF (IF r.ops = {} THEN op = "*" ELSE op \in r.ops)
        THEN {r.name} ELSE handlers[op]]

\* The handlers of pattern p after each turn of the loop over the registrations.
MergeLoop(rs, p) ==
    LET merged[n \in 0 .. Len(rs)] ==
          IF n = 0 THEN [op \in Op \cup {"*"} |-> {}]
          ELSE IF rs[n].pattern = p THEN Claim(merged[n - 1], rs[n]) ELSE merged[n - 1]
    IN  merged

\* RouteMeta::handlers of a pattern: at most one handler name for every operation.
Handlers(rs, p) == MergeLoop(rs, p)[Len(rs)]

-----------------------------------------------------------------------------
(* dispatch.                                                               *)

Probe(path) == path \o <<"x">>

\* Mutant of HasChildren: any longer route makes the path a directory.
HasChildrenAnyRoute(rs, path, pattern) ==
    \E q \in Patterns(rs) : Len(q) > Len(path)

\* has_children: the probe "<path>/x" matches another pattern without a "*".
HasChildren(rs, path, pattern) ==
    \E q \in At(Patterns(rs), Probe(path)) :
        q # pattern /\ \A i \in DOMAIN q : Rank(q[i]) # 2

\* from_bytecodes: a worker executes the script with a route table of its own, the
\* frontends stubbed.  A function is kept under the number of routes before it; a
\* rejected call numbers nothing, route.default keeps its function apart.
Execute(w, call, n) ==
    CASE call = "register" -> [w EXCEPT !.funcs = Append(@, n)]
      [] call = "default" -> [w EXCEPT !.default = {n}]
      [] OTHER -> w
Execution(calls) ==
    LET worker[n \in 0 .. Len(calls)] ==
          IF n = 0 THEN [funcs |-> <<>>, default |-> {}]
          ELSE Execute(worker[n - 1], calls[n], n)
    IN  worker
FromBytecodes(calls) == Execution(calls)[Len(calls)]

\* call_lua in worker w: the function of that name, else the one of route.default.
CallLua(w, name) ==
    IF name \in DOMAIN w.funcs THEN Runs(w.funcs[name])
    ELSE IF w.default # {} THEN Runs(CHOOSE n \in w.default : TRUE) ELSE NoHandler

\* What a request comes to, up to the call of the Lua function.
Dispatch(rs, w, path, op) ==
    LET found == At(Patterns(rs), path)
        pattern == CHOOSE p \in found : TRUE
        handlers == Handlers(rs, pattern)
        chosen == IF handlers[op] # {} THEN handlers[op] ELSE handlers["*"]
    IN  IF found = {} THEN NoRoute
        ELSE IF chosen = {} THEN NoHandler
        ELSE IF HasChildren(rs, path, pattern) /\ op \in {"open", "read", "write", "release"}
        THEN IsDirectory
        ELSE CallLua(w, CHOOSE n \in chosen : TRUE)

-----------------------------------------------------------------------------
(* The script.                                                             *)

RouteInit ==
    /\ phase = "script"
    /\ script = <<>> /\ routes = <<>>

Executes(call) ==
    /\ phase = "script" /\ Len(script) < MaxCalls
    /\ script' = Append(script, call)
    /\ UNCHANGED phase

\* route.register, route.<bundle> and route.<bundle>.default: the handler name is
\* the number of routes so far.
Register(pattern, ops) ==
    /\ Executes("register")
    /\ routes' = Append(routes, [pattern |-> pattern, ops |-> ops,
                                name |-> Len(routes) + 1, func |-> Len(script) + 1])

\* route.register with ops of another type raises a Lua error, which the script
\* may catch; nothing is registered.
RegisterRejected == Executes("rejected") /\ UNCHANGED routes

\* route.default keeps the function, and registers no route.
RouteDefault == Executes("default") /\ UNCHANGED routes

\* Mutant of BuildRouter: the result of insert is ignored.
BuildRouterUnchecked ==
    /\ phase = "script"
    /\ phase' = "serving"
    /\ UNCHANGED <<script, routes>>

\* insert takes every one of the patterns.
Accepted(patterns) ==
    \A p, q \in patterns : ~Malformed(p) /\ ~Conflict(p, q)

\* The script has ended: the patterns are inserted; main panics on an error.
BuildRouter ==
    /\ phase = "script"
    /\ phase' = IF Accepted(Patterns(routes)) THEN "serving" ELSE "panicked"
    /\ UNCHANGED <<script, routes>>

RouteNext ==
    \/ \E name \in BundleName :
         \/ \E p \in Pattern : Register(p, Bundle(name))
         \/ Register(DefaultPattern, Bundle(name))
    \/ RegisterRejected
    \/ RouteDefault
    \/ BuildRouter

RouteSpec == RouteInit /\ [][RouteNext]_routeVars

-----------------------------------------------------------------------------
(* Properties.                                                             *)

RouteTypeOK ==
    /\ phase \in {"script", "serving", "panicked"}
    /\ Len(script) <= MaxCalls
    /\ \A n \in DOMAIN script : script[n] \in {"register", "rejected", "default"}
    /\ \A i \in DOMAIN routes :
         /\ routes[i].pattern \in Pattern \cup {DefaultPattern}
         /\ routes[i].ops \in {Bundle(name) : name \in BundleName}
         /\ routes[i].func \in DOMAIN script
         /\ routes[i].name = i

\* Registrations of the most specific pattern that matches the path.
Specific(path) ==
    {i \in DOMAIN routes :
        /\ Matches(routes[i].pattern, path)
        /\ \A j \in DOMAIN routes :
             Matches(routes[j].pattern, path) => ~Before(routes[j].pattern, routes[i].pattern)}

Serve(path, op) == Dispatch(routes, FromBytecodes(script), path, op)

\* The registrations of that pattern that take op.
Claims(path, op) ==
    {i \in Specific(path) : op \in routes[i].ops \/ routes[i].ops = {}}

\* A request runs no other function than one the script registered for it, and
\* the one registered last where that registration names op, or none does:
\* merging by pattern, the handler names that main and the workers count out
\* each for itself, whatever calls were rejected between them, the lookup in the
\* trie and the wildcard fall-back lose, add and exchange nothing.  Only the
\* directory check refuses a request that has one.
DispatchAsRegistered ==
    phase = "serving" =>
        \A path \in Path, op \in Op :
            LET claims == Claims(path, op)
                last == routes[Max(claims)]
            IN  /\ Serve(path, op).kind = "runs" =>
                     \E i \in claims : Serve(path, op) = Runs(routes[i].func)
                /\ claims # {} /\ (op \in last.ops \/ \A i \in claims : routes[i].ops = {}) =>
                     Serve(path, op) \in {Runs(last.func), IsDirectory}

\* The functions that the documents make a fall-back for op: those of the
\* .default forms that take op and, below them, those of route.default.
Fallbacks(op) ==
    LET forms == {i \in DOMAIN routes : routes[i].pattern = DefaultPattern
                                         /\ (op \in routes[i].ops \/ routes[i].ops = {})}
    IN  IF forms # {} THEN {routes[i].func : i \in forms}
        ELSE {n \in DOMAIN script : script[n] = "default"}

\* "the LAST registration wins for that op" (main.rs:54); a .default form is "a
\* fallback for that specific operation type" and route.default the "Catch-all
\* for unregistered paths" (examples/README.md:137-140): a request that nothing
\* more specific takes is served by the last of these.
DispatchAsDocumented ==
    phase = "serving" =>
        \A path \in Path, op \in Op :
            LET claims == Claims(path, op) IN
            IF claims # {}
            THEN Serve(path, op) \in {Runs(routes[Max(claims)].func), IsDirectory}
            ELSE Fallbacks(op) # {} =>
                     Serve(path, op) \in {Runs(Max(Fallbacks(op))), IsDirectory}

\* Once main serves, no path is ambiguous: at most one pattern is tried first,
\* whatever order the hash map of patterns is inserted in.
MatchUnambiguous ==
    phase = "serving" =>
        \A path \in Path : Cardinality(At(Patterns(routes), path)) <= 1

\* A registration changes what is served only for the paths its pattern matches
\* and for their parent, which may become a directory.
RegistrationIsLocal ==
    [][phase = "script" /\ Len(routes') > Len(routes) =>
         LET new == routes'[Len(routes')].pattern IN
         Accepted(Patterns(routes')) =>
         \A path \in Path, op \in Op :
             Serve(path, op)' # Serve(path, op) =>
                 Matches(new, path) \/ Matches(new, Probe(path))]_routeVars
=============================================================================
