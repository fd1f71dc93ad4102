------------------------------ MODULE Requests ------------------------------
(***************************************************************************)
(* What the modules of the HTTP API share: a worker serves one request,    *)
(* statement by statement, and keeps in call[c] what the request has found *)
(* out so far.  Other requests run between any two statements.             *)
(***************************************************************************)
CONSTANT Caller   \* requests, each made once

VARIABLE call     \* [Caller -> a record whose stage names the next statement]

Idle == [stage |-> "idle"]
Done == [stage |-> "done"]

At(c, stage) == call[c].stage = stage
Goes(c, next) == call' = [call EXCEPT ![c] = next]
Begins(c, next) == At(c, "idle") /\ Goes(c, next)
=============================================================================
