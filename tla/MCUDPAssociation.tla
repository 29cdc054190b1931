-------------------------- MODULE MCUDPAssociation --------------------------
(* Small instances of UDPAssociation.                                      *)
EXTENDS UDPAssociation, TLC

Symmetry == Permutations(Handlers) \cup Permutations(Slots)
=============================================================================
