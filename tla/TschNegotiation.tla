--------------------------- MODULE TschNegotiation ---------------------------
(***************************************************************************)
(* The receiver side of the PROPOSED bandwidth negotiation                 *)
(* (tsch-slot-operation.c): a unicast data frame from a routing neighbour  *)
(* carries in pigg1 the slotframe exponent N it wants; in the RX slot,      *)
(* before the EACK is built, process_rx_N picks a free timeslot offset for  *)
(* a private slotframe of size 2^N (select_t_offset and the recursive       *)
(* eliminate_overlap_toc), records it in the neighbour entry and leaves     *)
(* the schedule change to the background, through the single set of       *)
(* globals todo_rx_schedule_change, prN_nbr, prN_new_N, prN_new_t_offset.  *)
(* The background post_process_rx_N later removes the neighbour's RX       *)
(* slotframe and adds the new one; the slot interrupt may run between its   *)
(* lock-protected schedule calls.  Orchestra's child_added/child_removed    *)
(* reset the neighbour entry (reset_nbr) and remove its slotframes.        *)
(*                                                                         *)
(* A slotframe is a record [N, link]: its size is 2^N and link is the      *)
(* timeslot of its single link, or NoTs while it has none yet.             *)
(***************************************************************************)
EXTENDS Integers, FiniteSets, TLC

CONSTANTS
  Nbrs,             \* node ids of the routing neighbours
  NMax,             \* N_MAX
  IncN,             \* INC_N_NEW_TX_REQUEST
  ThresConsecutive, \* THRES_CONSECUTIVE_NEW_TX_REQUEST
  Requests,         \* the pigg1 values a data frame may carry
  RxNbrs,           \* the neighbours whose data frames the node receives
  TxNbrs,           \* the neighbours the node sends unicast frames to
  InitSf,           \* the negotiated TX slotframes installed at the start
  InitMyN,          \* my_N as reset_nbr sets it
  EackValues,       \* the pigg1 values an EACK from a neighbour may carry
  MaxRouteChanges,  \* bound on child_added / child_removed calls
  MoreUnderProvision, \* MORE_UNDER_PROVISION
  ThresNInc,        \* THRES_CONSEQUTIVE_N_INC
  TrafficLoads      \* traffic_load values of a selection period, 2^N_MAX per slot

Null == 65535                       \* "no allocation" of N and t_offset
NoTs == 65535                       \* a slotframe without a link
NoNbr == 0                          \* prN_nbr == NULL
AllocationFail == 2^NMax + 1        \* T_OFFSET_ALLOCATION_FAIL
ConsecutiveFail == 2^NMax + 2       \* T_OFFSET_CONSECUTIVE_NEW_TX_REQUEST

(* get_tx_sf_handle_from_id, get_rx_sf_handle_from_id                      *)
TxHandle(id) == 2 * id + 1
RxHandle(id) == 2 * id + 2

VARIABLES
  sf,                  \* handle -> [N, link] of the slotframes above handle 2
  nbr_N, nbr_t_offset, \* per neighbour: what was granted to it
  consecutive,         \* nbr->consecutive_new_tx_request
  routing,             \* is_routing_nbr
  todo_rx_schedule_change, todo_no_resource, todo_consecutive_new_tx_request,
  prN_nbr, prN_new_N, prN_new_t_offset,
  eack,                \* pigg1 of the last EACK: [to, pigg1]
  my_N, my_t_offset, my_uninstallable, \* per neighbour: what it granted us
  consecutive_my_N_inc, new_add,       \* per neighbour: select_N's state
  todo_tx_schedule_change, todo_N_update, todo_N_inc,
  prt_nbr, prt_new_t_offset, changed_t_offset_default,
  bg,                  \* where the background post-processing is
  changes              \* route changes so far

vars == <<sf, nbr_N, nbr_t_offset, consecutive, routing,
          todo_rx_schedule_change, todo_no_resource,
          todo_consecutive_new_tx_request, prN_nbr, prN_new_N,
          prN_new_t_offset, eack, my_N, my_t_offset, my_uninstallable,
          consecutive_my_N_inc, new_add,
          todo_tx_schedule_change, todo_N_update, todo_N_inc, prt_nbr,
          prt_new_t_offset, changed_t_offset_default, bg, changes>>

(* the sender side: the neighbour entries' my_* fields, and the globals    *)
(* process_rx_t_offset hands to post_process_rx_t_offset                   *)
mine == <<my_N, my_t_offset, my_uninstallable, consecutive_my_N_inc, new_add>>
txflags == <<todo_tx_schedule_change, todo_N_update, todo_N_inc, prt_nbr,
             prt_new_t_offset, changed_t_offset_default>>

todos == <<todo_rx_schedule_change, todo_no_resource,
           todo_consecutive_new_tx_request>>
prN == <<prN_nbr, prN_new_N, prN_new_t_offset>>

(* the todo flags after an RX slot: reset to 0, then set by process_rx_N   *)
Todos(rx, noRes, consec) ==
  /\ todo_rx_schedule_change' = rx
  /\ todo_no_resource' = noRes
  /\ todo_consecutive_new_tx_request' = consec

Offsets(N) == 0 .. 2^N - 1

(* Faulty variant: the parent offset taken modulo the child's own size.    *)
RECURSIVE EliminateOverlapTocParentOffByOne(_, _, _)
EliminateOverlapTocParentOffByOne(target_N, used_N, used_t_offset) ==
  IF target_N < used_N
  THEN EliminateOverlapTocParentOffByOne(target_N, used_N - 1,
                                         used_t_offset % 2^used_N)
  ELSE IF target_N > used_N
  THEN EliminateOverlapTocParentOffByOne(target_N, used_N + 1, used_t_offset)
       \cup EliminateOverlapTocParentOffByOne(target_N, used_N + 1,
                                              used_t_offset + 2^used_N)
  ELSE IF used_t_offset >= 2^target_N THEN {} ELSE {used_t_offset}

(***************************************************************************)
(* eliminate_overlap_toc: the offsets of a 2^target_N frame that a         *)
(* 2^used_N allocation at used_t_offset occupies, found by folding the     *)
(* allocation up (parent offset t mod 2^(used_N-1)) or down (children t    *)
(* and t + 2^used_N) the binary tree until it has the target's depth; an   *)
(* offset outside the frame is not marked.                                 *)
(***************************************************************************)
RECURSIVE EliminateOverlapToc(_, _, _)
EliminateOverlapToc(target_N, used_N, used_t_offset) ==
  IF target_N < used_N
  THEN EliminateOverlapToc(target_N, used_N - 1,
                           used_t_offset % 2^(used_N - 1))
  ELSE IF target_N > used_N
  THEN EliminateOverlapToc(target_N, used_N + 1, used_t_offset)
       \cup EliminateOverlapToc(target_N, used_N + 1,
                                used_t_offset + 2^used_N)
  ELSE IF used_t_offset >= 2^target_N THEN {} ELSE {used_t_offset}

(* The allocations select_t_offset folds: slotframes above handle 2 other  *)
(* than the target's own RX slotframe, whose size is 2^n for n in          *)
(* 1..N_MAX (a size-1 frame matches no n and is skipped), with a link.     *)
UsedAllocs(target_id) ==
  { sf[h] : h \in { h \in DOMAIN sf : /\ h > 2
                                      /\ h # RxHandle(target_id)
                                      /\ sf[h].N \in 1 .. NMax
                                      /\ sf[h].link # NoTs } }

(* Faulty variant: the candidate loop runs to i <= 1<<N.                  *)
SelectTOffsetPastEnd(target_id, N) ==
  (0 .. 2^N) \ UNION { EliminateOverlapToc(N, a.N, a.link)
                      : a \in UsedAllocs(target_id) }

(* select_t_offset: the offsets still available.  The code returns the     *)
(* first available one from a random rotation, so each of them can be      *)
(* returned; no available offset means 65536 (allocation failure).         *)
SelectTOffset(target_id, N) ==
  Offsets(N) \ UNION { EliminateOverlapToc(N, a.N, a.link)
                       : a \in UsedAllocs(target_id) }

RemoveSf(s, h) == [x \in DOMAIN s \ {h} |-> s[x]]

(***************************************************************************)
(* The RX slot of an ack-requesting unicast frame from neighbour n with    *)
(* pigg1 = p (tsch-slot-operation.c 2976-2996): the three todo flags are    *)
(* reset, process_rx_N runs, and tsch_packet_create_eack puts the grant    *)
(* into the EACK.  The slot can start while the background holds the lock *)
(* (the skip check tests only tsch_lock_requested), and then process_rx_N  *)
(* returns at once, after the flags were reset.                            *)
(***************************************************************************)
Eack(n, t, noRes, consec) ==
  [to |-> n,
   pigg1 |-> IF ~routing[n] THEN Null
             ELSE IF consec = 1 THEN ConsecutiveFail
             ELSE IF noRes = 1 THEN AllocationFail
             ELSE t]

(* process_rx_N when nbr_N = pigg1: nothing to change.                     *)
RxSameN(n, p) ==
  /\ nbr_N[n] = p
  /\ consecutive' = [consecutive EXCEPT ![n] = 0]
  /\ Todos(0, 0, 0)
  /\ eack' = Eack(n, nbr_t_offset[n], 0, 0)
  /\ UNCHANGED <<prN, nbr_N, nbr_t_offset>>

(* process_rx_N when pigg1 asks for a new N (pigg1 >= INC_N_NEW_TX_REQUEST *)
(* is an urgent request for N = pigg1 - INC_N_NEW_TX_REQUEST); the         *)
(* THRES_CONSECUTIVE_NEW_TX_REQUEST-th urgent request in a row is refused.  *)
RxNewN(n, p) ==
  LET urgent == p >= IncN
      newN == IF urgent THEN p - IncN ELSE p
      count == IF urgent THEN consecutive[n] + 1 ELSE 0
      free == SelectTOffset(n, newN)
  IN /\ nbr_N[n] # p
     /\ prN_new_N' = newN
     /\ \/ /\ urgent /\ count >= ThresConsecutive
           /\ consecutive' = [consecutive EXCEPT ![n] = 0]
           /\ Todos(0, 0, 1)
           /\ eack' = Eack(n, nbr_t_offset[n], 0, 1)
           /\ UNCHANGED <<prN_nbr, prN_new_t_offset, nbr_N, nbr_t_offset>>
        \/ /\ count < ThresConsecutive
           /\ consecutive' = [consecutive EXCEPT ![n] = count]
           /\ \/ \E t \in free :
                   /\ Todos(1, 0, 0)
                   /\ prN_nbr' = n
                   /\ prN_new_t_offset' = t
                   /\ nbr_N' = [nbr_N EXCEPT ![n] = newN]
                   /\ nbr_t_offset' = [nbr_t_offset EXCEPT ![n] = t]
                   /\ eack' = Eack(n, t, 0, 0)
              \/ /\ free = {}
                 /\ Todos(0, 1, 0)
                 /\ eack' = Eack(n, nbr_t_offset[n], 1, 0)
                 /\ UNCHANGED <<prN_nbr, prN_new_t_offset, nbr_N, nbr_t_offset>>

(* A frame from a neighbour that is not a routing neighbour changes       *)
(* nothing but the todo flags, and its EACK carries 65535.                 *)
RxNotRouting(n) ==
  /\ ~routing[n]
  /\ Todos(0, 0, 0)
  /\ eack' = Eack(n, Null, 0, 0)
  /\ UNCHANGED <<prN, nbr_N, nbr_t_offset, consecutive>>

(* process_rx_N while tsch_is_locked(): it returns before looking at the   *)
(* frame, so the reset flags stay 0 and the EACK carries nbr_t_offset.     *)
(* The select_N ctimer and Orchestra's schedule calls may hold the lock at *)
(* any moment, so this may happen in any RX slot.                          *)
RxLocked(n) ==
  /\ Todos(0, 0, 0)
  /\ eack' = Eack(n, nbr_t_offset[n], 0, 0)
  /\ UNCHANGED <<prN, nbr_N, nbr_t_offset, consecutive>>

RxUnicast(n, p) ==
  /\ \/ routing[n] /\ (RxSameN(n, p) \/ RxNewN(n, p))
     \/ RxNotRouting(n)
     \/ RxLocked(n)
  /\ UNCHANGED <<sf, routing, bg, changes, mine, txflags>>

(***************************************************************************)
(* post_process_rx_N, run by the background after RX slots, in the three   *)
(* steps between which the slot interrupt may run: remove_rx of prN_nbr's   *)
(* slotframe (under the lock); then add_rx with the arguments prN_new_N and *)
(* prN_new_t_offset as they are now, whose tsch_schedule_add_slotframe      *)
(* installs an empty slotframe of size 2^N; then its tsch_schedule_add_link *)
(* adds the RX link.  The todo_consecutive_new_tx_request and              *)
(* todo_no_resource flags are cleared at the end.                          *)
(***************************************************************************)
PostProcessRemoveRx ==
  /\ bg = [pc |-> "idle"]
  /\ todo_rx_schedule_change = 1
  /\ prN_nbr # NoNbr
  /\ todo_rx_schedule_change' = 0
  /\ sf' = RemoveSf(sf, RxHandle(prN_nbr))
  /\ bg' = [pc |-> "add_rx", id |-> prN_nbr]
  /\ UNCHANGED <<nbr_N, nbr_t_offset, consecutive, routing, todo_no_resource,
                 todo_consecutive_new_tx_request, prN, eack, changes, mine,
                 txflags>>

(* post_process_rx_N with no schedule change pending: clear the flags.     *)
PostProcessFlagsOnly ==
  /\ bg = [pc |-> "idle"]
  /\ todo_rx_schedule_change = 0
  /\ todo_no_resource + todo_consecutive_new_tx_request > 0
  /\ todo_no_resource' = 0
  /\ todo_consecutive_new_tx_request' = 0
  /\ UNCHANGED <<sf, nbr_N, nbr_t_offset, consecutive, routing,
                 todo_rx_schedule_change, prN, eack, bg, changes, mine,
                 txflags>>

(* add_rx's tsch_schedule_add_slotframe.  Its early return when the       *)
(* handle exists is never taken here: remove_rx has just removed it, and    *)
(* only background code, which does not run inside post_process_rx_N,      *)
(* adds RX slotframes.                                                     *)
PostProcessAddSlotframe ==
  /\ bg.pc = "add_rx"
  /\ prN_new_N # Null /\ prN_new_t_offset # Null
  /\ sf' = sf @@ (RxHandle(bg.id) :> [N |-> prN_new_N, link |-> NoTs])
  /\ bg' = [pc |-> "add_link", id |-> bg.id, t |-> prN_new_t_offset]
  /\ UNCHANGED <<nbr_N, nbr_t_offset, consecutive, routing, todos, prN,
                 eack, changes, mine, txflags>>

(* add_rx's tsch_schedule_add_link, then the end of post_process_rx_N.     *)
PostProcessAddLink ==
  /\ bg.pc = "add_link"
  /\ sf' = [sf EXCEPT ![RxHandle(bg.id)].link = bg.t]
  /\ bg' = [pc |-> "idle"]
  /\ todo_no_resource' = 0
  /\ todo_consecutive_new_tx_request' = 0
  /\ UNCHANGED <<nbr_N, nbr_t_offset, consecutive, routing,
                 todo_rx_schedule_change, prN, eack, changes, mine, txflags>>

(* reset_nbr(addr, new_add, 0): the neighbour's negotiation state back to *)
(* "no allocation", and select_N's state with it.                         *)
ResetNbr(n, newAdd) ==
  /\ nbr_N' = [nbr_N EXCEPT ![n] = Null]
  /\ nbr_t_offset' = [nbr_t_offset EXCEPT ![n] = Null]
  /\ consecutive' = [consecutive EXCEPT ![n] = 0]
  /\ my_N' = [my_N EXCEPT ![n] = InitMyN]
  /\ my_t_offset' = [my_t_offset EXCEPT ![n] = Null]
  /\ my_uninstallable' = [my_uninstallable EXCEPT ![n] = 0]
  /\ consecutive_my_N_inc' = [consecutive_my_N_inc EXCEPT ![n] = 0]
  /\ new_add' = [new_add EXCEPT ![n] = newAdd]

(* Orchestra child_added (reset_nbr(addr, 1, 0)) when n becomes a routing  *)
(* neighbour, and child_removed when it no longer is: reset_nbr, remove_tx *)
(* and remove_rx.  Both run in the background, never inside                *)
(* post_process_rx_N.                                                      *)
ChildAdded(n) ==
  /\ bg = [pc |-> "idle"]
  /\ changes < MaxRouteChanges
  /\ ~routing[n]
  /\ routing' = [routing EXCEPT ![n] = TRUE]
  /\ ResetNbr(n, 1)
  /\ changes' = changes + 1
  /\ UNCHANGED <<sf, todos, prN, eack, bg, txflags>>

ChildRemoved(n) ==
  /\ bg = [pc |-> "idle"]
  /\ changes < MaxRouteChanges
  /\ routing[n]
  /\ routing' = [routing EXCEPT ![n] = FALSE]
  /\ ResetNbr(n, 0)
  /\ sf' = RemoveSf(RemoveSf(sf, TxHandle(n)), RxHandle(n))
  /\ changes' = changes + 1
  /\ UNCHANGED <<todos, prN, eack, bg, txflags>>

(***************************************************************************)
(* The sender side.  tx_installable re-checks a granted offset against the *)
(* node's own schedule with the same fold, skipping the node's TX          *)
(* slotframe toward the neighbour: 1 (installable), -1 (not installable,   *)
(* or an offset beyond the frame) or -2 (t_offset 65535).                  *)
(***************************************************************************)
TxUsedAllocs(target_id) ==
  { sf[h] : h \in { h \in DOMAIN sf : /\ h > 2
                                      /\ h # TxHandle(target_id)
                                      /\ sf[h].N \in 1 .. NMax
                                      /\ sf[h].link # NoTs } }

(* Mutant: tx_installable checks only the sentinel and the frame length,  *)
(* not the node's own schedule                                             *)
TxInstallableNoFold(target_id, N, t_offset) ==
  CASE t_offset = Null -> -2
    [] t_offset >= 2^N -> -1
    [] OTHER -> 1

TxInstallable(target_id, N, t_offset) ==
  CASE t_offset = Null -> -2
    [] t_offset >= 2^N -> -1
    [] t_offset \in UNION { EliminateOverlapToc(N, a.N, a.link)
                            : a \in TxUsedAllocs(target_id) } -> -1
    [] OTHER -> 1

(* has_my_N_changed: the installed TX slotframe has another size than 2^my_N *)
HasMyNChanged(n) ==
  TxHandle(n) \in DOMAIN sf /\ sf[TxHandle(n)].N # my_N[n]

(* The TX slot of a unicast frame to n whose EACK carries pigg1 = v        *)
(* (tsch-slot-operation.c 2451-2468): todo_tx_schedule_change, todo_N_update *)
(* and todo_N_inc are reset, then process_rx_t_offset runs.  A failure     *)
(* sentinel asks for a larger N; a new offset is stored in my_t_offset and  *)
(* tx_installable decides whether the TX slotframe is re-installed, only    *)
(* removed (uninstallable, or 65535), and whether the queue's N changes.    *)
TxEack(n, v) ==
  /\ \/ /\ ~routing[n] \/ (my_t_offset[n] = v /\ ~HasMyNChanged(n))
        /\ todo_tx_schedule_change' = 0 /\ todo_N_update' = 0 /\ todo_N_inc' = 0
        /\ UNCHANGED <<mine, prt_nbr, prt_new_t_offset, changed_t_offset_default>>
     \/ /\ routing[n] /\ (my_t_offset[n] # v \/ HasMyNChanged(n))
        /\ prt_new_t_offset' = v
        /\ prt_nbr' = n
        /\ \/ /\ v \in {AllocationFail, ConsecutiveFail}
              /\ todo_N_inc' = 1
              /\ todo_tx_schedule_change' = 0 /\ todo_N_update' = 0
              /\ UNCHANGED <<mine, changed_t_offset_default>>
           \/ /\ v \notin {AllocationFail, ConsecutiveFail}
              /\ LET r == TxInstallable(n, my_N[n], v)
                     uninst == IF r = -1 THEN 1 ELSE 0
                 IN /\ my_t_offset' = [my_t_offset EXCEPT ![n] = v]
                    /\ my_uninstallable' = [my_uninstallable EXCEPT ![n] = uninst]
                    /\ todo_N_update' =
                         IF uninst # my_uninstallable[n] THEN 1 ELSE 0
                    /\ changed_t_offset_default' = IF r = -2 THEN 1 ELSE 0
                    /\ todo_tx_schedule_change' = 1
                    /\ todo_N_inc' = 0
                    /\ UNCHANGED <<my_N, consecutive_my_N_inc, new_add>>
  /\ UNCHANGED <<sf, nbr_N, nbr_t_offset, consecutive, routing, todos, prN,
                 eack, bg, changes>>

(***************************************************************************)
(* post_process_rx_t_offset in the background: a requested increase of N   *)
(* (capped at N_MAX); or remove_tx, then add_tx with my_N, my_uninstallable *)
(* and changed_t_offset_default of prt_nbr and prt_new_t_offset as they are *)
(* when it is called, in the same lock-separated steps as add_rx.  The     *)
(* queue updates (change_queue_N_update, change_queue_select_packet) carry  *)
(* no state of this model.                                                 *)
(***************************************************************************)
PostProcessNInc ==
  /\ bg = [pc |-> "idle"]
  /\ todo_N_inc = 1
  /\ todo_N_inc' = 0
  /\ my_N' = [my_N EXCEPT ![prt_nbr] = IF @ < NMax THEN @ + 1 ELSE @]
  /\ UNCHANGED <<sf, nbr_N, nbr_t_offset, consecutive, routing, todos, prN,
                 eack, my_t_offset, my_uninstallable, consecutive_my_N_inc,
                 new_add, todo_tx_schedule_change,
                 todo_N_update, prt_nbr, prt_new_t_offset,
                 changed_t_offset_default, bg, changes>>

PostProcessRemoveTx ==
  /\ bg = [pc |-> "idle"]
  /\ todo_N_inc = 0
  /\ todo_tx_schedule_change = 1
  /\ prt_nbr # NoNbr
  /\ todo_tx_schedule_change' = 0
  /\ sf' = RemoveSf(sf, TxHandle(prt_nbr))
  /\ bg' = [pc |-> "add_tx", id |-> prt_nbr]
  /\ UNCHANGED <<nbr_N, nbr_t_offset, consecutive, routing, todos, prN, eack,
                 mine, todo_N_update, todo_N_inc, prt_nbr, prt_new_t_offset,
                 changed_t_offset_default, changes>>

(* add_tx's tsch_schedule_add_slotframe when the TX slotframe is to be      *)
(* re-installed, or the end of post_process_rx_t_offset when it is not.     *)
(* nbr_id was taken before remove_tx; my_uninstallable, my_N and            *)
(* prt_new_t_offset are read through prt_nbr after it, when a TX slot may   *)
(* have changed them.                                                       *)
PostProcessAddTx ==
  LET id == bg.id IN
  /\ bg.pc = "add_tx"
  /\ IF my_uninstallable[prt_nbr] = 0 /\ changed_t_offset_default = 0
        /\ my_N[prt_nbr] # Null /\ prt_new_t_offset # Null
     THEN /\ sf' = sf @@ (TxHandle(id) :> [N |-> my_N[prt_nbr], link |-> NoTs])
          /\ bg' = [pc |-> "add_tx_link", id |-> id, t |-> prt_new_t_offset]
          /\ UNCHANGED todo_N_update
     ELSE /\ bg' = [pc |-> "idle"]
          /\ todo_N_update' = 0
          /\ UNCHANGED sf
  /\ UNCHANGED <<nbr_N, nbr_t_offset, consecutive, routing, todos, prN, eack,
                 mine, todo_tx_schedule_change, todo_N_inc, prt_nbr,
                 prt_new_t_offset, changed_t_offset_default, changes>>

(* add_tx's tsch_schedule_add_link, then the end of post_process_rx_t_offset *)
PostProcessAddTxLink ==
  /\ bg.pc = "add_tx_link"
  /\ sf' = [sf EXCEPT ![TxHandle(bg.id)].link = bg.t]
  /\ bg' = [pc |-> "idle"]
  /\ todo_N_update' = 0
  /\ UNCHANGED <<nbr_N, nbr_t_offset, consecutive, routing, todos, prN, eack,
                 mine, todo_tx_schedule_change, todo_N_inc, prt_nbr,
                 prt_new_t_offset, changed_t_offset_default, changes>>

(* select_N (tsch-queue.c), the N_SELECTION_PERIOD ctimer: for every      *)
(* routing neighbour not just added, traffic_load is the period's num_tx   *)
(* scaled to 2^N_MAX per slot; the first i with traffic_load >> i < 1      *)
(* gives new_N = N_MAX-i+1-MORE_UNDER_PROVISION, taken at once when it is  *)
(* a decrease and only after THRES_CONSEQUTIVE_N_INC increases in a row;   *)
(* a load of 2^N_MAX or more matches no i and changes nothing. Every other *)
(* neighbour gets my_N = 5 and loses new_add. The loop runs under          *)
(* tsch_get_lock, so in one step; num_tx is reset after it, so the next    *)
(* period's load is again any value. change_queue_N_update rewrites the N  *)
(* piggybacked on queued packets, which the model leaves free (Requests).  *)
LeastOf(S) == CHOOSE i \in S : \A j \in S : i <= j

NSelection(n, load) ==
  LET matching == {i \in 1 .. NMax : load < 2^i}
      old == my_N[n]
      c == consecutive_my_N_inc[n]
  IN IF matching = {} THEN [N |-> old, c |-> c]
     ELSE LET new == (NMax - LeastOf(matching) + 1 - MoreUnderProvision) % 2^16
          IN CASE new = old                  -> [N |-> old, c |-> 0]
               [] new > old /\ c + 1 >= ThresNInc -> [N |-> new, c |-> 0]
               [] new > old                  -> [N |-> old, c |-> c + 1]
               [] OTHER                      -> [N |-> new, c |-> 0]

SelectN ==
  /\ bg = [pc |-> "idle"]
  /\ \E load \in [Nbrs -> TrafficLoads] :
       LET selected(n) == routing[n] /\ new_add[n] = 0
       IN /\ my_N' = [n \in Nbrs |->
                        IF selected(n) THEN NSelection(n, load[n]).N ELSE InitMyN]
          /\ consecutive_my_N_inc' = [n \in Nbrs |->
                        IF selected(n) THEN NSelection(n, load[n]).c
                        ELSE consecutive_my_N_inc[n]]
          /\ new_add' = [n \in Nbrs |-> IF selected(n) THEN new_add[n] ELSE 0]
  /\ UNCHANGED <<sf, nbr_N, nbr_t_offset, consecutive, routing, todos, prN,
                 eack, my_t_offset, my_uninstallable, txflags, bg, changes>>

Init ==
  /\ sf = InitSf
  /\ nbr_N = [n \in Nbrs |-> Null]
  /\ nbr_t_offset = [n \in Nbrs |-> Null]
  /\ consecutive = [n \in Nbrs |-> 0]
  /\ routing = [n \in Nbrs |-> TRUE]
  /\ todo_rx_schedule_change = 0
  /\ todo_no_resource = 0
  /\ todo_consecutive_new_tx_request = 0
  /\ prN_nbr = NoNbr
  /\ prN_new_N = 0
  /\ prN_new_t_offset = 0
  /\ eack = [to |-> NoNbr, pigg1 |-> Null]
  /\ my_N = [n \in Nbrs |-> InitMyN]
  /\ my_t_offset = [n \in Nbrs |-> Null]
  /\ my_uninstallable = [n \in Nbrs |-> 0]
  /\ consecutive_my_N_inc = [n \in Nbrs |-> 0]
  /\ new_add = [n \in Nbrs |-> 0]
  /\ todo_tx_schedule_change = 0
  /\ todo_N_update = 0
  /\ todo_N_inc = 0
  /\ prt_nbr = NoNbr
  /\ prt_new_t_offset = 0
  /\ changed_t_offset_default = 0
  /\ bg = [pc |-> "idle"]
  /\ changes = 0

PostProcess ==
  \/ PostProcessRemoveRx \/ PostProcessFlagsOnly
  \/ PostProcessAddSlotframe \/ PostProcessAddLink
  \/ PostProcessNInc \/ PostProcessRemoveTx
  \/ PostProcessAddTx \/ PostProcessAddTxLink

Next ==
  \/ \E n \in RxNbrs, p \in Requests : RxUnicast(n, p)
  \/ \E n \in TxNbrs, v \in EackValues : TxEack(n, v)
  \/ PostProcess
  \/ SelectN
  \/ \E n \in Nbrs : ChildAdded(n) \/ ChildRemoved(n)

(* The background process is polled after every RX and TX slot and runs   *)
(* post_process_rx_N and post_process_rx_t_offset to their end once        *)
(* scheduled.                                                              *)
Spec == Init /\ [][Next]_vars /\ WF_vars(PostProcess)

-----------------------------------------------------------------------------
AllocN == 0 .. NMax \cup {Null}

TypeOK ==
  /\ \A h \in DOMAIN sf : sf[h].N \in 0 .. NMax
                          /\ sf[h].link \in 0 .. ConsecutiveFail \cup {NoTs}
  /\ nbr_N \in [Nbrs -> AllocN]
  /\ nbr_t_offset \in [Nbrs -> Offsets(NMax) \cup {Null}]
  /\ consecutive \in [Nbrs -> 0 .. ThresConsecutive - 1]
  /\ prN_nbr \in Nbrs \cup {NoNbr}
  /\ my_N \in [Nbrs -> 0 .. NMax]
  /\ my_t_offset \in [Nbrs -> EackValues \cup {Null}]
  /\ my_uninstallable \in [Nbrs -> {0, 1}]
  /\ consecutive_my_N_inc \in [Nbrs -> 0 .. ThresNInc - 1]
  /\ new_add \in [Nbrs -> {0, 1}]
  /\ prt_nbr \in Nbrs \cup {NoNbr}
  /\ bg.pc \in {"idle", "add_rx", "add_link", "add_tx", "add_tx_link"}

(* Reference meaning of an overlap: a 2^N1 allocation at t1 and a 2^N2     *)
(* allocation at t2 share a timeslot iff t1 and t2 agree modulo the        *)
(* smaller of the two sizes.                                               *)
LowerN(N1, N2) == IF N1 < N2 THEN N1 ELSE N2
Overlap(a, b) == a.link % 2^LowerN(a.N, b.N) = b.link % 2^LowerN(a.N, b.N)

Linked == { h \in DOMAIN sf : h > 2 /\ sf[h].link # NoTs }

(* Every offset process_rx_N grants (select_t_offset with the recursive    *)
(* eliminate_overlap_toc) shares no timeslot with any well-formed          *)
(* negotiated slotframe (link timeslot below its size) installed with a    *)
(* link at that moment, other than the requesting neighbour's own RX       *)
(* slotframe that the grant replaces.                                      *)
WellFormed(a) == a.N \in 1 .. NMax /\ a.link < 2^a.N

GrantAvoidsInstalled ==
  [][ \A n \in Nbrs :
        LET grant == [N |-> nbr_N'[n], link |-> nbr_t_offset'[n]] IN
        grant.link # Null /\ grant # [N |-> nbr_N[n], link |-> nbr_t_offset[n]]
          => \A h \in Linked \ {RxHandle(n)} :
               WellFormed(sf[h]) => ~Overlap(grant, sf[h]) ]_vars

(* Every TX slotframe placement that process_rx_t_offset accepts           *)
(* (tx_installable returned 1) shares no timeslot with any well-formed     *)
(* negotiated slotframe installed with a link at that moment other than    *)
(* the TX slotframe toward the same neighbour that it replaces; in         *)
(* particular not with the node's RX slotframe for that neighbour.         *)
TxPlacementAvoidsInstalled ==
  [][ \A n \in TxNbrs, v \in EackValues :
        TxEack(n, v) /\ todo_tx_schedule_change' = 1
          /\ my_uninstallable'[n] = 0 /\ changed_t_offset_default' = 0
          => \A h \in Linked \ {TxHandle(n)} :
               WellFormed(sf[h]) => ~Overlap([N |-> my_N[n], link |-> v], sf[h]) ]_vars

(* spec.md section 8: no two negotiated allocations of the node occupy the *)
(* same leaf of the tree once folded to a common depth, whatever the       *)
(* interleaving of RX slots with post_process_rx_N's schedule calls.       *)
NoOverlapInstalled ==
  \A h1, h2 \in Linked : h1 # h2 => ~Overlap(sf[h1], sf[h2])

(* Whenever no schedule change is pending (todo_rx_schedule_change = 0)    *)
(* and post_process_rx_N is not running, every routing neighbour that was  *)
(* granted (nbr_N, nbr_t_offset) in an EACK has exactly that RX slotframe  *)
(* installed: the node listens where it told the sender to transmit.        *)
RxScheduleMatchesGrant ==
  bg = [pc |-> "idle"] /\ todo_rx_schedule_change = 0 =>
    \A n \in Nbrs :
      routing[n] /\ nbr_N[n] # Null =>
        /\ RxHandle(n) \in DOMAIN sf
        /\ sf[RxHandle(n)] = [N |-> nbr_N[n], link |-> nbr_t_offset[n]]

(* Every TX slotframe post_process_rx_t_offset installs has its link at a  *)
(* timeslot below its size, so the link fires once per slotframe and the   *)
(* packets change_queue_select_packet moved onto it are sent.              *)
TxLinkInFrame ==
  \A n \in TxNbrs : TxHandle(n) \in Linked => WellFormed(sf[TxHandle(n)])

(* GrantAvoidsInstalled over every slotframe with its link in range, the   *)
(* size-1 one (N = 0) that select_N produces under heavy load included:    *)
(* select_t_offset finds used_N only for sizes 2 .. 2^N_MAX, so a TX       *)
(* slotframe of size 1, which fires in every timeslot, is not avoided.     *)
GrantAvoidsEveryInstalled ==
  [][ \A n \in Nbrs :
        LET grant == [N |-> nbr_N'[n], link |-> nbr_t_offset'[n]] IN
        grant.link # Null /\ grant # [N |-> nbr_N[n], link |-> nbr_t_offset[n]]
          => \A h \in Linked \ {RxHandle(n)} :
               sf[h].link < 2^sf[h].N => ~Overlap(grant, sf[h]) ]_vars

==============================================================================
