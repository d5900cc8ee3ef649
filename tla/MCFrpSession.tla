---------------------------- MODULE MCFrpSession ----------------------------
(***************************************************************************)
(* Instances of FrpSession for TLC: devices, secrets and row ids are       *)
(* interchangeable.                                                        *)
(***************************************************************************)
EXTENDS FrpSession, TLC

FrpSymmetry ==
    Permutations(Devices) \cup Permutations(Secrets)
        \cup Permutations(LocalPorts) \cup Permutations(RowIds)
=============================================================================
