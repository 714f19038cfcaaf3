------------------------- MODULE MCTschSlotOperation -------------------------
(***************************************************************************)
(* A node running Orchestra with the PROPOSED negotiation: at init the EB  *)
(* slotframe 0 (its TX link at timeslot 0), the autonomous unicast         *)
(* slotframe 1 (its own RX link at timeslot 1) and the common shared       *)
(* slotframe 2 (TX|RX|SHARED at timeslot 1).  The background may add and   *)
(* remove the TX link of slotframe 1 toward a child's timeslot 3, and      *)
(* re-add the node's own link with TX|SHARED added when a child hashes to  *)
(* the same timeslot and with RX alone again when it leaves (Orchestra's   *)
(* add_uc_link and remove_uc_link), and the negotiated tx_sf 3 and rx_sf  *)
(* 4 (add_tx, add_rx, remove_tx, remove_rx), of size 2 or 4 with the link  *)
(* at timeslot 0 or 2.  Sizes are scaled down from 17/47/41 and 2^N so    *)
(* that every pair of links coincides within a hyperperiod of 4 slots.    *)
(***************************************************************************)
EXTENDS TschSlotOperation

MCLinkIds == 1 .. 5

MCInitSlotframes == <<0, 1, 2>>

MCInitSize == (0 :> 4) @@ (1 :> 4) @@ (2 :> 2) @@ (3 :> 2) @@ (4 :> 2)

MCInitLinks ==
  (1 :> [slotframe_handle |-> 0, timeslot |-> 0, link_options |-> {"TX"}]) @@
  (2 :> [slotframe_handle |-> 1, timeslot |-> 1, link_options |-> {"RX"}]) @@
  (3 :> [slotframe_handle |-> 2, timeslot |-> 1,
         link_options |-> {"TX", "RX", "SHARED"}])

(* add_tx / add_rx with a slotframe of size 2 or 4 and the link at        *)
(* timeslot ts, and remove_tx / remove_rx.                                 *)
NegotiatedCalls(h, opts, ts2, ts4) ==
  {[op |-> "addSf", h |-> h, ts |-> ts2, opts |-> opts, size |-> 2],
   [op |-> "addSf", h |-> h, ts |-> ts4, opts |-> opts, size |-> 4],
   [op |-> "removeSf", h |-> h, ts |-> 0, opts |-> {}, size |-> 0]}

MCCalls ==
  NegotiatedCalls(3, {"TX"}, 0, 2) \cup NegotiatedCalls(4, {"RX"}, 0, 2) \cup
  {[op |-> "addLink", h |-> 1, ts |-> 3, opts |-> {"TX", "SHARED"}, size |-> 0],
   [op |-> "removeLink", h |-> 1, ts |-> 3, opts |-> {}, size |-> 0],
   [op |-> "addLink", h |-> 1, ts |-> 1, opts |-> {"TX", "SHARED", "RX"}, size |-> 0],
   [op |-> "addLink", h |-> 1, ts |-> 1, opts |-> {"RX"}, size |-> 0]}

(* A smaller set of calls for the liveness check: the negotiated rx_sf     *)
(* only, added with size 2 or 4 and removed.                               *)
MCLiveCalls == NegotiatedCalls(4, {"RX"}, 0, 2)
=============================================================================
