-------------------------- MODULE MCRelayDelivery --------------------------
(* TLC instances of RelayDelivery: see the .cfg files that name it. *)
EXTENDS RelayDelivery, TLC

SourceSymmetry == Permutations(Source)
=============================================================================
