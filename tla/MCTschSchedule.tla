--------------------------- MODULE MCTschSchedule ---------------------------
(***************************************************************************)
(* Checks GetNextActiveLink against a definition of what the choice of the *)
(* next link should be, over every schedule of a small node: one link at   *)
(* most per slotframe, with the link options Orchestra and the PROPOSED    *)
(* negotiation give each slotframe, at every ASN of a hyperperiod.         *)
(*                                                                         *)
(* Slotframes: 0 EB, 1 autonomous unicast (receiver based), 2 common       *)
(* shared, 3 a negotiated tx_sf (handle 2*id+1), 4 a negotiated rx_sf      *)
(* (handle 2*id+2).  Orchestra creates 0, 1, 2 at init in that order; the  *)
(* negotiated ones are added later, in either order.                       *)
(***************************************************************************)
EXTENDS TschSchedule, Naturals, FiniteSets, TLC

CONSTANT SfSize          \* handle -> slotframe size
CONSTANT AsnPeriod       \* a common multiple of the sizes: asn is taken mod it

Handles == DOMAIN SfSize

(* Sizes small enough for every pair of slotframes to coincide within the *)
(* hyperperiod of 12 slots, as the real 17/47/41 and 2^N sizes do.        *)
MCSfSize == (0 :> 4) @@ (1 :> 3) @@ (2 :> 2) @@ (3 :> 4) @@ (4 :> 2)

(* The link_options each slotframe's links are created with: EB TX on the  *)
(* node's own slot or RX on the time source's; unicast RX on the own slot  *)
(* or TX|SHARED toward a neighbour's; common TX|RX|SHARED; negotiated TX   *)
(* only on tx_sf and RX only on rx_sf.                                     *)
OptionsOf(h) ==
  CASE h = 0 -> {{"TX"}, {"RX"}}
    [] h = 1 -> {{"RX"}, {"TX", "SHARED"}}
    [] h = 2 -> {{"TX", "RX", "SHARED"}}
    [] h = 3 -> {{"TX"}}
    [] OTHER -> {{"RX"}}

LinkRecords(h) ==
  {[slotframe_handle |-> h, timeslot |-> ts, link_options |-> o] :
     ts \in 0 .. SfSize[h] - 1, o \in OptionsOf(h)}

(* slotframe_list orders: init slotframes first, negotiated ones after.   *)
ListOrders == {<<0, 1, 2, 3, 4>>, <<0, 1, 2, 4, 3>>}

VARIABLES lk, order, asn
vars == <<lk, order, asn>>

Init ==
  /\ \E present \in SUBSET Handles :
       lk \in [present -> UNION {LinkRecords(h) : h \in present}]
  /\ \A h \in DOMAIN lk : lk[h].slotframe_handle = h
  /\ \E o \in ListOrders : order = SelectSeq(o, LAMBDA h : h \in DOMAIN lk)
  /\ asn \in 0 .. AsnPeriod - 1

(* The schedule is not changed: each initial state is one question.        *)
Next == UNCHANGED vars

Spec == Init /\ [][Next]_vars

Result == GetNextActiveLink(lk, SfSize, order, asn)

(* Slots from asn to the next occurrence of l: the least k in              *)
(* 1..size with (asn + k) mod size = timeslot.                             *)
RefOffset(l) ==
  LET s == SfSize[lk[l].slotframe_handle] IN
  CHOOSE k \in 1 .. s : (asn + k) % s = lk[l].timeslot

Earliest == {l \in DOMAIN lk : \A m \in DOMAIN lk : RefOffset(l) <= RefOffset(m)}

(* The tie-break precedence of the design: an EB link first, then a TX     *)
(* link over a pure RX one, then (PROPOSED) the common shared slotframe    *)
(* over an autonomous unicast TX link, then the lower slotframe handle.    *)
PriorityOver(a, b) ==
  CASE a.slotframe_handle = 0 -> TRUE
    [] b.slotframe_handle = 0 -> FALSE
    [] IsTx(a) # IsTx(b)      -> IsTx(a)
    [] a.slotframe_handle = 2 /\ b.slotframe_handle = 1 /\ IsTx(b) -> TRUE
    [] a.slotframe_handle = 1 /\ IsTx(a) /\ b.slotframe_handle = 2 -> FALSE
    [] OTHER -> a.slotframe_handle < b.slotframe_handle

(* get_next_active_link returns a link exactly when the schedule has one,  *)
(* and it is a link due soonest, the number of slots to it being that      *)
(* link's true distance (never 0: the current slot was just executed).     *)
NextLinkIsEarliest ==
  /\ (Result.best = NoLink) <=> (DOMAIN lk = {})
  /\ Result.best # NoLink =>
        /\ Result.best \in Earliest
        /\ Result.off = RefOffset(Result.best)

(* Among the links due soonest, the scan's pairwise tie-breaks, applied in *)
(* slotframe_list order, pick the one the precedence puts above all the    *)
(* others, whatever the order the negotiated slotframes were added in.     *)
NextLinkFollowsPriority ==
  Result.best # NoLink =>
    \A l \in Earliest \ {Result.best} : PriorityOver(lk[Result.best], lk[l])

(* The backup link serves the fail-over of tsch_slot_operation: whenever *)
(* the chosen link cannot receive (a TX-only link, which listens through  *)
(* the backup when it has no packet) and an RX-capable link is due at the *)
(* same time, the backup is such a link; and any backup returned is an    *)
(* RX-capable link due at that time.  The backup may be the chosen link   *)
(* itself (a tie kept by curr_best); then the chosen link can receive and *)
(* neither swap fires (see the README, Findings).                         *)
BackupServesFailover ==
  /\ Result.backup # NoLink =>
       IsRx(lk[Result.backup]) /\ Result.backup \in Earliest
  /\ Result.best # NoLink /\ ~IsRx(lk[Result.best])
     /\ (\E l \in Earliest : IsRx(lk[l])) =>
       Result.backup # NoLink /\ Result.backup # Result.best
=============================================================================
