---------------------------- MODULE MCSmcCrtEa ----------------------------
(***************************************************************************)
(* Model checking of SmcCrtEa: the tickets are interchangeable model       *)
(* values, which is sound for every property checked here because none is  *)
(* a liveness property and none names a ticket.                            *)
(***************************************************************************)
EXTENDS SmcCrtEa, TLC

Symmetry == Permutations(Ticket)
===========================================================================
