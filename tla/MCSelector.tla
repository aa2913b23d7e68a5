----------------------------- MODULE MCSelector -----------------------------
(***************************************************************************)
(* Selector for TLC.                                                       *)
(***************************************************************************)
EXTENDS Selector, TLC

\* Connections are interchangeable.
Symmetry == Permutations(Conn)
=============================================================================
