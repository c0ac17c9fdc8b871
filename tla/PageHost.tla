------------------------------ MODULE PageHost ------------------------------
(***************************************************************************)
(* What every page of the web application is made of.  A page is a React   *)
(* component: its state is one record, which is lost when the page is left.*)
(* Its handlers call the API and go on when the answer arrives; nothing    *)
(* orders the answers of two calls, nor keeps the user from acting between *)
(* a call and its answer.                                                  *)
(*                                                                         *)
(* A call is a record on the wire: first "sent", then "ok" or "fail" once  *)
(* the server has decided, and gone when its handler has run.              *)
(***************************************************************************)
EXTENDS Naturals, Sequences, FiniteSets

CONSTANTS
    MaxCalls,  \* bound: calls the user causes during one visit of a page
    Sought     \* bound: what is typed into a search or address field, or into the URL

ASSUME MaxCallsAssumption == MaxCalls \in Nat

VARIABLES
    page,      \* the mounted page and the state of its component
    wire,      \* the API calls that have not been answered yet
    db         \* what the server stores of the things the page shows

hostVars == <<page, wire, db>>

None == "none"

\* The handler goes on to p and calls the API.
Call(p, r) ==
    /\ page.calls < MaxCalls
    /\ page' = [p EXCEPT !.calls = @ + 1]
    /\ wire' = wire \cup {r}
    /\ UNCHANGED db

\* A handler that follows an answer: r is done, more are the calls it makes.
Then(p, r, more) ==
    /\ page' = p
    /\ wire' = (wire \ {r}) \cup more
    /\ UNCHANGED db

\* A handler that only changes what is on the screen.
Show(p) == page' = p /\ UNCHANGED <<wire, db>>

Answers(op) == {r \in wire : r.op = op /\ r.out # "sent"}
InFlight(ops) == \E r \in wire : r.op \in ops
=============================================================================
