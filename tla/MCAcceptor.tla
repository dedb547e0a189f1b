----------------------------- MODULE MCAcceptor -----------------------------
(***************************************************************************)
(* Acceptor for TLC: connections and callers are interchangeable.          *)
(***************************************************************************)
EXTENDS Acceptor, TLC

ClientSymmetry == Permutations(Clients) \cup Permutations(Callers)
=============================================================================
