------------------------- MODULE MCTschMatchingSlots -------------------------
(* A node with parent 1 and child 2 on slotframes of size 6: it listens at *)
(* timeslot 0, sends to 1 on the RB slotframe at 3 and on a negotiated TX  *)
(* slotframe at 4.  A table and a window of 3 slots (16 in the code) keep   *)
(* the code's equality of the two, so the table fills only as the code's   *)
(* does.                                                                    *)
EXTENDS TschMatchingSlots

MCOrigLinks ==
  { [size |-> 6, ts |-> 0, tx |-> FALSE, rb |-> TRUE,  nbr |-> NoNbr],
    [size |-> 6, ts |-> 3, tx |-> TRUE,  rb |-> TRUE,  nbr |-> 1],
    [size |-> 6, ts |-> 4, tx |-> TRUE,  rb |-> FALSE, nbr |-> 1] }

MCInfos == { {}, {1}, {1, 2} }
====
