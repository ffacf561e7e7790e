------------------------------ MODULE MCKVCache ------------------------------
(* Instances of KVCache for TLC, with a history variable. *)
EXTENDS KVCache, TLC

CONSTANTS r1, r2

Two == {r1, r2}

VARIABLE unspilled      \* history: spill_cold_blocks has not been called

Watch == unspilled' = (unspilled /\ lock' # "spill")

MCInit == Init /\ unspilled = TRUE

MCNext ==
    \/ \E r \in Requests :
          \/ \E n \in 1..MaxBlocks : EnsureBegin(r, n) /\ Watch
          \/ AllocDevice(r) /\ Watch
          \/ AllocHost(r) /\ Watch
          \/ AllocGrown(r) /\ Watch
          \/ Install(r) /\ Watch
          \/ Write(r) /\ Watch
          \/ FreeBegin(r) /\ Watch
    \/ FreeDevice /\ Watch
    \/ FreeHost /\ Watch
    \/ FreeNothing /\ Watch
    \/ SpillOne /\ Watch
    \/ Unlock /\ Watch
    \/ \E n \in 1..MaxSpill : SpillBegin(n) /\ Watch

MCSpec == MCInit /\ [][MCNext]_<<vars, unspilled>>

(* Until the first spill the host pool, with the blocks grown beyond it,   *)
(* is conserved like the device pool (kvcache.py:77-82, 160-163), and an   *)
(* index has one table entry for each array stored under it, although the  *)
(* two pools number their blocks alike (157-163).  The state stays         *)
(* well-typed in any case.                                                 *)
BackedUntilSpill == TypeOK /\ (unspilled => HostPool /\ BlocksBacked)

=============================================================================
