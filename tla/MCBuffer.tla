------------------------------ MODULE MCBuffer ------------------------------
(***************************************************************************)
(* Buffer for TLC; BufferAssumption is evaluated here.                     *)
(***************************************************************************)
EXTENDS Buffer
=============================================================================
