------------------------------- MODULE Steps -------------------------------
(***************************************************************************)
(* The steps of one pass of a controller.  A pass makes many API calls and *)
(* each may end it, so an operator for a step returns the object as the    *)
(* step leaves it with how the pass goes on: "go" to the next step, "stop" *)
(* this object, or stop and "requeue" the pass.                            *)
(***************************************************************************)

\* The body of an operator, for a value that is computed once.
With(x, Body(_)) == CHOOSE z \in {Body(y) : y \in {x}} : TRUE

Go(w) == [w |-> w, res |-> "go"]
Stop(w) == [w |-> w, res |-> "stop"]
Requeue(w) == [w |-> w, res |-> "requeue"]

Then(r, Step(_)) == With(r, LAMBDA s : IF s.res = "go" THEN Step(s.w) ELSE s)
=============================================================================
