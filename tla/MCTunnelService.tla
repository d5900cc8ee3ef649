--------------------------- MODULE MCTunnelService ---------------------------
(***************************************************************************)
(* Instances of TunnelService for TLC: requests and row ids are            *)
(* interchangeable.                                                        *)
(***************************************************************************)
EXTENDS TunnelService, TLC

ThreadSymmetry == Permutations(Threads) \cup Permutations(RowIds)
=============================================================================
