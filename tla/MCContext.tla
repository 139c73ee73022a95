----------------------------- MODULE MCContext -----------------------------
(* Two threads, and three registers for the seven: the two in which arguments
   are passed, and one that is only saved. *)
EXTENDS ContextRefinement

CallFiles ==
  {[r \in Reg |-> <<type, 5, 7>>[r + 1]] : type \in {RUN, EXIT, SETINTR}}
=============================================================================
