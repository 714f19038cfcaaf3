-------------------------- MODULE MCTschNegotiation --------------------------
(* Two routing neighbours 1 and 2 of a node with N_MAX = 2: offsets 0..3.  *)
(* The node already transmits to neighbour 1 on a 2^2 slotframe at offset 3 *)
(* (handle 3).  Requests ask for N = 1 or 2, or urgently for N = 1.        *)
EXTENDS TschNegotiation

MCInitSf == 3 :> [N |-> 2, link |-> 3]

(* The last EACK's pigg1 is an output no property reads, and the sender    *)
(* side (my_N, my_t_offset, select_N's counters) of a neighbour we never   *)
(* send to is read by no action but SelectN's update of itself: states     *)
(* that differ only in these are the same state of the protocol.          *)
SenderView == [n \in TxNbrs |-> <<my_N[n], my_t_offset[n], my_uninstallable[n],
                                  consecutive_my_N_inc[n], new_add[n]>>]

MCView == <<sf, nbr_N, nbr_t_offset, consecutive, routing, todos, prN,
            SenderView, txflags, bg, changes>>
=============================================================================
