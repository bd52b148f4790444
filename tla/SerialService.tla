---------------------------- MODULE SerialService ----------------------------
(***************************************************************************)
(* What router and worker pool together promise the frontends: requests    *)
(* are served strictly one after the other in the order in which they were *)
(* accepted.  The handler of a request is started at most once, only while *)
(* the request is at the head of the line, and never after its answer; the *)
(* answer says truthfully what happened.                                   *)
(***************************************************************************)
EXTENDS Integers, Sequences, Functions

CONSTANTS Request, Verdict

VARIABLES
    line,    \* accepted requests that are not answered yet, oldest first
    answer,  \* the answer of each request, "none" before it
    runs     \* how often its handler was started

serviceVars == <<line, answer, runs>>

Init ==
    /\ line = <<>>
    /\ answer = [r \in Request |-> "none"]
    /\ runs = [r \in Request |-> 0]

Accept(r) ==
    /\ r \notin Range(line)
    /\ answer[r] = "none"
    /\ line' = Append(line, r)
    /\ UNCHANGED <<answer, runs>>

Run ==
    /\ line # <<>>
    /\ Verdict[Head(line)] = "handler"
    /\ runs[Head(line)] = 0
    /\ runs' = [runs EXCEPT ![Head(line)] = 1]
    /\ UNCHANGED <<line, answer>>

\* Answers that are true of a request whose handler was started n times.
Truthful(r, n) ==
    IF Verdict[r] # "handler" THEN {Verdict[r]}
    ELSE {"no_response"} \cup (IF n = 0 THEN {"noworkers"} ELSE {"ok", "err"})

Answer ==
    /\ line # <<>>
    /\ \E a \in Truthful(Head(line), runs[Head(line)]) :
         answer' = [answer EXCEPT ![Head(line)] = a]
    /\ line' = Tail(line)
    /\ UNCHANGED runs

Next == (\E r \in Request : Accept(r)) \/ Run \/ Answer

Spec == Init /\ [][Next]_serviceVars
=============================================================================
