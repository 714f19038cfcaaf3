---------------------------- MODULE MCTschQueue ----------------------------
(***************************************************************************)
(* A node with two unicast neighbours and n_broadcast.  Neighbour 1 is its *)
(* RPL parent: Orchestra's receiver-based slotframe 1 (size 3; the node's *)
(* own id 3 gives its RX link timeslot 0, the parent's TX|SHARED link is   *)
(* at timeslot 1 % 3 = 1), and a negotiated TX slotframe 3 of size 2 with  *)
(* its link at t_offset 1 that add_tx and remove_tx install and remove.    *)
(* Neighbour 2 has no unicast link and uses the common shared slotframe 2  *)
(* (size 2, TX|RX|SHARED at timeslot 0), as does broadcast traffic.        *)
(***************************************************************************)
EXTENDS TschQueue

MCBaseLinks ==
  1 :> [slotframe_handle |-> 1, timeslot |-> 0, link_options |-> {"RX"}] @@
  2 :> [slotframe_handle |-> 1, timeslot |-> 1, link_options |-> {"TX", "SHARED"}] @@
  3 :> [slotframe_handle |-> 2, timeslot |-> 0, link_options |-> {"TX", "RX", "SHARED"}]

MCTxSfLinkId == 1 :> 4
MCTxSfHandle == 1 :> 3
MCTxSfOffset == 1 :> 1
MCSfSizes == (1 :> 3) @@ (2 :> 2) @@ (3 :> 2)
MCNbrOrder == <<1, 2>>
=============================================================================
