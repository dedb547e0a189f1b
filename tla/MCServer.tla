------------------------------ MODULE MCServer ------------------------------
(***************************************************************************)
(* Server for TLC: socket objects are interchangeable.                     *)
(***************************************************************************)
EXTENDS Server, TLC

SocketSymmetry == Permutations(Sockets)
=============================================================================
