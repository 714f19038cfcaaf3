# TLA+ models of the OST TSCH MAC

This directory holds TLA+ models of the Contiki TSCH MAC layer as OST modifies
it. OST adds an autonomous bandwidth negotiation (`PROPOSED`), matching slots
(`RESIDUAL_ALLOC`) and multi-channel negotiated slotframes (`MULTI_CHANNEL`).
The models follow the build in `src/examples/ipv6/rpl-tsch/project-conf.h`:
`PROPOSED 1`, `TESLA 0`, `MULTI_CHANNEL 1`, `RESIDUAL_ALLOC 1`, receiver-based
Orchestra unicast.

## 1. The system

| Part | Source | State | Operations |
|---|---|---|---|
| Schedule store | `tsch-schedule.c` | `slotframe_list` (list order = creation order), `link_memb` (the link pool; a freed entry keeps its contents) | add/remove slotframe, add/remove link, get link by timeslot, `get_next_active_link` |
| TSCH lock | `tsch-slot-operation.c` 1664-1720 | `tsch_locked`, `tsch_lock_requested`, `tsch_in_slot_operation` | `tsch_get_lock`, `tsch_release_lock` |
| Slot operation | `tsch-slot-operation.c` 3138-3454, 3924-3949 | `current_link`, `backup_link`, `tsch_current_asn`, the protothread position | skip, packet fetch, backup swap, TX/RX sub-protothreads, next link and ASN advance |
| Negotiation | `tsch-slot-operation.c` 280-1400 | `todo_*` flags, `prN_*` and `prt_*` requests, per-neighbour N | `process_rx_N` (RX slot), EACK parsing (TX slot), `post_process_rx_N` / `_tx_N` (background), `add_tx`/`add_rx`/`remove_tx`/`remove_rx` |
| Matching slots | `tsch-slot-operation.c` 336-568, 2113-2169, 2249-2324, 3141-3194, 3405-3453; `tsch-schedule.c` 364-530, 716-735 | `ssq_schedule_list[16]` (an ASN, a link with TX or RX, a neighbour per entry) | add/remove/exist matching slot, the busy-slot bitmap, the choice of a slot, the override of `get_next_active_link` |
| Neighbour queues | `tsch-queue.c` | per-neighbour ring buffers, backoff window and exponent | enqueue, get packet for neighbour, backoff update |
| Orchestra unicast rule | `orchestra-rule-unicast-per-neighbor-rpl-storing.c` | `sf_unicast` and its links | `add_uc_link`, `remove_uc_link`, `init` |
| Frames, log, application | `tsch-packet.c`, `tsch-log.c`, `node.c` | buffers | encoding and parsing, printing, traffic |

How they interact:

- The slot operation runs as a protothread in the rtimer interrupt. It yields
  inside the TX and RX sub-protothreads and between slots.
- Everything else runs in Contiki processes, called "the background" here:
  Orchestra callbacks, the negotiation's post-processing, the queue
  housekeeping. The interrupt can preempt the background between any two of
  its steps.
- Schedule changes take the TSCH lock. The lock has two parts:
  - `tsch_get_lock` raises `tsch_lock_requested`, busy-waits while
    `tsch_in_slot_operation` is set, then sets `tsch_locked` and clears the
    request.
  - The slot operation skips a slot when `current_link` is NULL or a lock is
    *requested*. It never tests `tsch_locked`.
- The schedule readers return NULL while the schedule is locked. These are
  `get_next_active_link`, `get_slotframe_by_handle` and the queue's
  `get_nbr`/`get_packet_for_nbr`.

What makes the system hard:

- `current_link` and `backup_link` are pointers into `link_memb`. They are
  computed at the end of one slot and used at the start of the next. The
  background can remove links in between.
- Removing a link, and adding one in place of another, are several critical
  sections. A slot can run between them.
- The negotiation passes its requests from interrupt context to the background
  through unsynchronised globals.

## 2. Modules

- **`TschSchedule`** holds the schedule as data: link records, link options,
  `time_to_timeslot`, the pairwise tie-break (`TieWinner`, including the
  `PROPOSED` rule that slotframe 2 beats a slotframe 1 TX link), the backup
  maintenance (`TieBackup`) and `GetNextActiveLink`.
  - `GetNextActiveLink` is a `FoldLeft` of `ScanStep` over the links in scan
    order.
  - All of these are pure operators.
- **`MCTschSchedule`** checks `GetNextActiveLink` against a reference
  definition.
  - The inputs are every schedule with at most one link per slotframe, using
    the options Orchestra and the negotiation give each slotframe. These
    schedules are checked at every ASN of a 12-slot hyperperiod, and in both
    orders of the negotiated slotframes in `slotframe_list`.
  - The reference definitions are `RefOffset`, `Earliest` (the least k ≥ 1
    with `(asn + k) % size = timeslot`) and `PriorityOver` (the precedence the
    design states).
- **`TschSlotOperation`** puts the slot operation and the background on the
  shared schedule under the lock.
  - Schedule variables: `slotframe_list`, `sf_size`, and `links` with `used`
    (`link_memb`'s contents and its allocated set).
  - Lock variables: the three lock flags.
  - `current_link`, `backup_link`, and `asn` (the ASN modulo `AsnPeriod`).
  - `slot`: idle, or inside the TX or RX sub-protothread.
  - `bg`: the background's call in progress and its step.

  The actions:

  | Action | Code |
  |---|---|
  | `SlotStart` | one slot start of `tsch_slot_operation`: skip check (`SkipSlot`), `get_packet_and_neighbor_for_link` (`PacketFor`), the backup swap with JSB mod1, `is_active_slot`, the `MULTI_CHANNEL` lookup of a negotiated slotframe that jumps to `donothing`, and the spawn |
  | `SlotEnd` | the end of the TX/RX sub-protothread |
  | `EndOfSlot` (part of both) | next active link, ASN advance, clearing `tsch_in_slot_operation` |
  | `Call(c)` | a background call starting: `add_rx`/`add_tx` (add slotframe, then add link), `remove_rx`/`remove_tx` (remove slotframe), or Orchestra's `add_uc_link`/`remove_uc_link` (add link, which first removes the link at the timeslot; remove link) |
  | `RemoveSlotframeLoop` | the loop of `tsch_schedule_remove_slotframe` |
  | `LockRequest`, `LockAcquire` | the two halves of `tsch_get_lock` |
  | `CriticalSection` | one locked change (`CsRemoveLink`, `CsAddLink`, `CsAddSlotframe`, `CsRemoveSlotframe`), then `tsch_release_lock` |
  | `Init` | the schedule Orchestra installs at init, then `tsch_slot_operation_start` |

  Modelling choices:

  - `CsAddLink` takes the lowest free `link_memb` entry.
  - `CsRemoveLink` frees an entry without clearing it, so a stale pointer
    still reads the old link.
  - Packets are abstract: an unlocked TX link may or may not find a packet.
- **`MCTschSlotOperation`** is the instance the runs check. It has five link
  structures and slotframes 0 (EB TX, timeslot 0, size 4), 1 (the node's own
  RX link, timeslot 1, size 4) and 2 (common, TX|RX|SHARED, timeslot 1,
  size 2). The calls are:
  - `add_rx`/`add_tx`/`remove_*` for rx_sf 4 and tx_sf 3, with size 2
    (link at timeslot 0) or size 4 (link at timeslot 2);
  - Orchestra adding and removing a TX|SHARED link toward a child at
    timeslot 3;
  - Orchestra re-adding the own link with TX|SHARED|RX when a child hashes to
    timeslot 1, and with RX alone when it leaves.

  The sizes are scaled down from 17/47/41 and `1<<N` so that every pair of
  links meets within a hyperperiod of 4 slots. Every tie the code can see
  occurs: EB with tx_sf/rx_sf at timeslot 0, unicast with common at
  timeslot 1, and the negotiated links alone at timeslot 2.

- **`TschQueue`** models the neighbour queues (`tsch-queue.c`) as the slot
  operation serves them and the background fills, flushes and re-targets them.
  - State: `queue` (neighbour → ring buffer of packet records
    `[id, sf, ts, tx]`, where `sf`/`ts` are the link-selector attributes and
    `tx` the transmission count), `backoff_window`/`backoff_exponent`,
    `dequeued` (`dequeued_ringbuf`), `allocated` (`packet_memb`), `tx_sf`
    (which negotiated TX slotframes exist), `current_link`, `backup_link`,
    `asn`, `slot`, `current_packet`/`current_neighbor` (what the TX slot read at
    its start), `bg` (a pending re-targeting), the bounds `created` and
    `changes`.
  - Actions:

  | Action | Code |
  |---|---|
  | `AddPacket(n)` | `tsch_queue_add_packet` with Orchestra's `select_packet` (`SelectPacket`) stamping slotframe and timeslot; Q_Loss when the ring or `packet_memb` is full |
  | `SlotStart` | the slot start: `get_packet_and_neighbor_for_link` (n_broadcast first, then `get_unicast_packet_for_any` over `neighbor_list`, each through `get_packet_for_nbr` with backoff and link selector), the backup swap, the `dequeued_ringbuf` room check of `tsch_tx_slot` |
  | `TxEnd` | the rest of `tsch_tx_slot`: the outcome (`TxStatus`: OK, NOACK, ERR), `transmissions++`, `update_neighbor_state` (dequeue on success or at `MAX_FRAME_RETRIES + 1`, backoff reset/increment), the put into `dequeued_ringbuf`, then the end of the slot (`update_all_backoff_windows` on a TX|SHARED link, next link, ASN). The count is kept by packet id: the code increments through the `current_packet` pointer, and after a flush freed that packet, a new packet that `memb_alloc` put in the same block would get the increment; packet ids are not blocks, so that is not modelled |
  | `ProcessPending` | `tsch_tx_process_pending` (in `tsch.c`, modelled from the spec): report and free every dequeued packet |
  | `FlushNbrQueue(n)` | `tsch_queue_flush_nbr_queue`, as Orchestra calls it on a parent switch, without the lock |
  | `AddTx(n)`, `RemoveTx(n)` | `add_tx`/`remove_tx`: the slotframe change under the lock (between slots) |
  | `ChangeQueueSelectPacket` | the re-targeting of the queued packets that follows them |

  - The TX slot is two steps because it yields between reading the packet and
    updating the queue; the background runs in between. Schedule changes take
    the lock, so they happen between slots. The re-targeting runs after the lock
    is released.
  - Every TX link of this build has the broadcast address, so unicast packets
    always go through `get_unicast_packet_for_any`. The link selector then
    decides which link a packet may use.
- **`TschQueueFifo`** is the abstract specification of the queues: per-neighbour
  FIFOs where a packet joins at the tail, leaves at the head or with a flush,
  and a head packet eventually leaves (weak fairness on `Leave`).
  `TschQueue` instantiates it with the ids of the queued packets as `fifo`.
- **`MCTschQueue`** is a node with parent 1, non-parent neighbour 2 and
  n_broadcast:
  - slotframe 1 has size 3: the own RX link at timeslot 0 and the TX|SHARED
    link to the parent at timeslot 1;
  - common slotframe 2 has size 2, with a TX|RX|SHARED link at timeslot 0;
  - the parent's negotiated TX slotframe 3 has size 2, with its link at
    timeslot 1.

  Bounds:
  - ring buffers of 2 and a pool of 2, so both Q_Loss paths occur;
  - `dequeued_ringbuf` of 1, so the room check bites;
  - `MAX_FRAME_RETRIES` 1;
  - `MIN_BE = MAX_BE = 1`, so the cap applies from the first increment;
  - 3 packets and 2 schedule changes (2 packets for the liveness run).

- **`TschNegotiation`** models both sides of the bandwidth negotiation
  (`tsch-slot-operation.c` 560-905 and the RX slot at 2972-2996 for the
  receiver; 958-1375, the EACK handling at 2451-2468 and `select_N` in
  `tsch-queue.c` 174-283 for the sender).
  - State: `sf`, the negotiated slotframes (handle `2*id+1` for TX,
    `2*id+2` for RX) as handle -> `[N, link]` (size `2^N`, the timeslot of the
    single link or `NoTs` while it has none); the neighbour entries `nbr_N`,
    `nbr_t_offset`, `consecutive` (`consecutive_new_tx_request`) and
    `routing`; the globals shared by the RX slot and the background
    (`todo_*`, `prN_nbr`, `prN_new_N`, `prN_new_t_offset`); `eack`, the pigg1
    of the last EACK; the sender's per-neighbour `my_N`, `my_t_offset`,
    `my_uninstallable`, `select_N`'s `consecutive_my_N_inc` and `new_add`,
    and its globals (`todo_tx_schedule_change`,
    `todo_N_update`, `todo_N_inc`, `prt_nbr`, `prt_new_t_offset`,
    `changed_t_offset_default`); `bg`, where the background post-processing
    is; `changes`, a bound.
  - Constants `RxNbrs` (children, whose frames the node receives) and
    `TxNbrs` (parents, to which it sends) are the neighbours each side is
    exercised with; `EackValues` are the pigg1 values a parent can answer;
    `TrafficLoads` are the `traffic_load` values a selection period can
    measure.
  - `NSelection` is `select_N`'s choice for one neighbour: the first `i` with
    `traffic_load >> i < 1` gives `N_MAX-i+1-MORE_UNDER_PROVISION` (taken
    modulo 2^16, as the `uint16_t` does), a decrease is taken at once, an
    increase only on the `THRES_CONSEQUTIVE_N_INC`-th period in a row, and a
    load of `2^N_MAX` or more changes nothing.
  - `EliminateOverlapToc` is `eliminate_overlap_toc` as a RECURSIVE operator
    (it returns the offsets it marks unavailable). `SelectTOffset` is the set
    of offsets `select_t_offset` can return: its random rotation makes every
    available offset a possible result. The run checks it against the
    reference `Overlap` (two allocations share a slot iff their offsets agree
    modulo the smaller size).
  - Actions:

  | Action | Code |
  |---|---|
  | `RxUnicast(n, p)` | an ack-requesting RX slot: the todo resets, `process_rx_N` (`RxSameN`, `RxNewN` with the urgent and consecutive-request paths, `RxNotRouting`, and `RxLocked`: the return at line 759 while the lock is held, after the flags were reset) and the pigg1 that `tsch_packet_create_eack` puts in the EACK |
  | `PostProcessRemoveRx` | `post_process_rx_N` up to `remove_rx` |
  | `PostProcessAddSlotframe` | `add_rx` evaluating `prN_new_N`/`prN_new_t_offset` and `tsch_schedule_add_slotframe` |
  | `PostProcessAddLink` | `add_rx`'s `tsch_schedule_add_link` and the end of `post_process_rx_N` |
  | `PostProcessFlagsOnly` | `post_process_rx_N` with no schedule change pending |
  | `TxEack(n, v)` | a TX slot's EACK carrying pigg1 `v`: the todo resets and `process_rx_t_offset` with `has_my_N_changed` and `tx_installable` (`TxInstallable`, the same recursive fold over the other negotiated slotframes) |
  | `PostProcessNInc` | `post_process_rx_t_offset` increasing `my_N` after a failure sentinel |
  | `PostProcessRemoveTx` | `post_process_rx_t_offset` up to `remove_tx` |
  | `PostProcessAddTx` | `add_tx`'s `tsch_schedule_add_slotframe` with `prt_nbr`'s `my_N` and `prt_new_t_offset`, or the end when uninstallable or 65535 |
  | `PostProcessAddTxLink` | `add_tx`'s `tsch_schedule_add_link` and the end of `post_process_rx_t_offset` |
  | `SelectN` | the `select_N` ctimer under the lock: `NSelection` for every routing neighbour with `new_add` 0, `my_N` = 5 (`InitMyN`) and `new_add` cleared for the others; the `num_tx` reset makes the next period's load free again. A failed `tsch_get_lock` changes nothing (a stuttering step) |
  | `ChildAdded(n)`, `ChildRemoved(n)` | Orchestra's callbacks with `reset_nbr` (`new_add` 1 and 0), `remove_tx`, `remove_rx` |

  - The three post-processing steps are separate because each schedule call
    takes and releases the lock, and the slot interrupt (here `RxUnicast`)
    runs whenever the lock is free. Background code (the callbacks and the
    `select_N` ctimer) never runs inside the post-processing, but it does run
    between a TX slot and the `post_process_rx_t_offset` it scheduled. The slot actions read `bg` nowhere: they run
    in every window.
- **`MCTschNegotiation`**: `N_MAX` = 2 (offsets 0..3); parent 1, to which the
  node already sends on a slotframe of size 4 at offset 3 (handle 3), and
  child 2; requests for N = 1, N = 2 and an urgent N = 1
  (`INC_N_NEW_TX_REQUEST` + 1); `THRES_CONSECUTIVE_NEW_TX_REQUEST` = 2 so that
  the refusal is reached; EACK values 0, 3 (beyond a size-2 frame), 5
  (`T_OFFSET_ALLOCATION_FAIL`) and 65535; two route changes. Offset 3 makes
  the parent's offset differ from its value modulo 2, so the fold's modulus
  matters. A parent is never also a child (RPL has no loops), so `RxNbrs` and
  `TxNbrs` are disjoint. A second child with requests for N = 2 does not
  finish in minutes; the violation run has two children and shows what two
  children add. `MORE_UNDER_PROVISION` is 1 as in the code, so `select_N`
  yields N = 1 or N = 0 (a size-1 slotframe) for `N_MAX` = 2. The loads 0, 2
  and 4 are one of each outcome (N = 1, N = 0, no change).
  `THRES_CONSEQUTIVE_N_INC` is 2 rather than 3: the one delayed increase
  exercises the hysteresis, and 3 takes the pass run to 3 minutes. `MCView`
  leaves out `eack`, which no property reads, and the sender state of the
  child, which no action but `SelectN`'s update of it reads.

- **`TschMatchingSlots`** models one node's matching slots (`RESIDUAL_ALLOC`).
  - State: `list` is `ssq_schedule_list`, one record per entry (`used`, `at`,
    `tx`, `nbr`). `at` is the entry's ASN minus the current ASN, and every
    past ASN is `Past`: the code reads only that difference and whether it is
    `<= 0`. `cur` is the ASN modulo the slotframes' common period; `qlen` the
    neighbour queues; `link` is `current_link` (none, a slotframe link, or an
    entry); `pc` says whether the slot at `cur` is to run or the next wake-up
    is being computed.
  - Pure operators: `AddMatchingSlot`, `RemoveMatchingSlot`, `Exist`,
    `SelectMatchingSchedule` (the earliest slot free in both bitmaps),
    `SubsequentSchedule` (the node's busy slots: its slotframes unless
    locked, its pending entries, and any bits from the uninitialised
    `used[16]`), `DisableBits` (the slots from the periodic TX slotframe's
    next link on), `ReservedSsq`/`RemoveReservedSsq` and `EarlierSsq`
    (`earlier_ssq_schedule_list`, returning the list it leaves and the entry
    to wake for, or -1).
  - Actions:

  | Action | Code |
  |---|---|
  | `NextWakeup` | the end of `tsch_slot_operation`: `get_next_active_link` (NULL and one slot ahead while locked), the ASN increment, the removal of an entry at the new ASN when locked with no link, and a missed deadline that loops without running the slot |
  | `SkipSlot` | the skip at the start of the slot (no link, or a lock requested), removing an entry at this ASN |
  | `SsqTxSlot` | a TX slot of an entry: the head packet of its neighbour, the frame with its pending bit and bitmap, the EACK's matching slot recorded, the entry removed; with no packet, removed only if locked |
  | `OrigTxSlot` | a TX slot of a slotframe link, the same frame, and `remove_reserved_ssq` after the RB slotframe emptied the queue |
  | `RxSlot` | an RX slot of a slotframe link or an entry: no frame, or a frame from a neighbour whose bitmap is any of `Infos`, `process_rx_schedule_info` picking and recording a slot, and the entry removed at the end |
  | `Enqueue(n)` | `tsch_queue_add_packet` |

  - Peers are an environment. A sender's bitmap is any of `Infos`. A
    receiver answers any slot free in the bitmap the node sent, or 65535:
    that is what its `select_matching_schedule` can return.
- **`MCTschMatchingSlots`**: parent 1 and child 2 on slotframes of size 6:
  the node listens at timeslot 0, sends to 1 on the RB slotframe at 3 and on
  a negotiated TX slotframe at 4. The window is 3 slots and the table 3
  entries. The code has 16 of each, and the model keeps them equal, so the
  table fills only as the code's does. Queues hold up to 3 packets, so the
  pending bit (more than one queued) is set and cleared. One missed deadline
  is allowed. About 27k states, 4 s.

## 3. Runs

| Run | Cfg | Expect | Shows |
|---|---|---|---|
| next_link_choice | `MCTschSchedule.cfg` | pass | `NextLinkIsEarliest`: a link is returned iff the schedule has one, it is due soonest, and its offset is right (never 0). `NextLinkFollowsPriority`: among the soonest links it is the one the precedence puts first, in either slotframe order. `BackupServesFailover`: a backup is an RX link due as soon as the chosen one, and there is one whenever the chosen link cannot receive and an RX link ties with it (the masking of Finding 1). 52k initial states. |
| slot_vs_background | `MCTschSlotOperation.cfg` | pass | `TxNeverLocked`: no transmission overlaps a critical section. `OneLinkPerTimeslot`: `add_link`'s remove-then-add keeps one link per timeslot. `CurrentLinkDue`: every wake-up is at `current_link`'s timeslot, even when slotframes are removed and re-added with another size. About 507k states, 15 s. |
| lock_granted | `MCTschSlotOperation_live.cfg` | pass | `LockEventuallyGranted`: a caller of `tsch_get_lock` always gets the lock. |
| stale_backup_link | `MCTschSlotOperation_SlotRunsDueLink.cfg` | violation | `SlotRunsDueLink` fails: a freed backup link is swapped in and run. |
| null_current_link_in_rx | `MCTschSlotOperation_SlotRunsWithCurrentLink.cfg` | violation | `SlotRunsWithCurrentLink` fails: `current_link` becomes NULL during an RX slot that started with the lock held. |
| queue_service | `MCTschQueue.cfg` | pass | `QueueSelectsInstalledLink`: whenever no re-targeting is pending, every queued packet is stamped for an installed TX link, through enqueue, `add_tx`/`remove_tx` and flushes. `TypeOK` also bounds `dequeued_ringbuf` by its room. About 34k states, 3 s. |
| queue_fifo_refinement | `MCTschQueue_live.cfg` | pass | `FifoRefinement`: the queues implement `TschQueueFifo`, including that a head packet eventually leaves. This holds under weak fairness of the slot operation, `tsch_tx_process_pending` and the re-targeting. The bounds on enqueues and on schedule changes make the negotiation finite. About 23k states, 40 s. |
| flush_during_tx | `MCTschQueue_PacketsAccounted.cfg` | violation | `PacketsAccounted` fails: a flush while the TX slot has yielded makes the slot put a freed packet into `dequeued_ringbuf` (see Findings). |
| negotiation_grants | `MCTschNegotiation.cfg` | pass | `GrantAvoidsInstalled`: every offset `process_rx_N` grants shares no timeslot with any well-formed negotiated slotframe installed with a link at that moment. This checks the recursive fold of `eliminate_overlap_toc` against the modular reference under every interleaving. `TxPlacementAvoidsInstalled`: every offset from the parent's EACK that `tx_installable` accepts, and that is to be installed, shares no timeslot with the node's other negotiated slotframes. About 900k states, 100 s. |
| matching_slots | `MCTschMatchingSlots.cfg` | pass | `DistinctMatchingSlots`: no two pending matching slots share an ASN, whatever `used[16]` holds and whether the lock was held when a slot was chosen. `MatchingSlotNotPassed`: until a deadline is missed, every entry is served at its ASN: no wake-up jumps over it, and none is left behind as a past entry. |
| rx_allocations_overlap | `MCTschNegotiation_NoOverlapInstalled.cfg` | violation | `NoOverlapInstalled` (spec.md section 8) fails: two negotiated slotframes end up sharing a timeslot (see Findings). |
| grant_lost_by_next_frame | `MCTschNegotiation_RxScheduleMatchesGrant.cfg` | violation | `RxScheduleMatchesGrant` fails in 3 states: a second frame from a child drops the RX schedule change of its grant (see Findings). |

Each property of a passing run has a mutant in `PROJECT.json`, and TLC finds
every mutant violated:

- `time_to_timeslot` with `>=`;
- the tie-break without the `PROPOSED` rule;
- the backup choice never keeping a losing RX link;
- the packet fetch ignoring the lock;
- `add_link` without its `remove_link_by_timeslot`;
- `remove_link` not clearing `current_link`;
- the skip check without `tsch_lock_requested`;
- `tsch_tx_slot` without its `dequeued_ringbuf` room check;
- `remove_tx` without `change_queue_select_packet`;
- `get_packet_and_neighbor_for_link` without the fallback to unicast packets;
- `select_t_offset`'s candidate loop running to `1<<N` inclusive;
- `eliminate_overlap_toc` taking the parent offset modulo the child's size;
- `tx_installable` checking only the sentinel and the frame length, not the
  schedule;
- `add_matching_slot` without its range check;
- `get_subsequent_schedule` without the loop over `ssq_schedule_list`;
- `tsch_tx_slot` without the bits after the periodic TX slotframe.

Fairness: the rtimer fires at every slot, so the slot actions are weakly fair.
The background process runs whenever the interrupt leaves the CPU, so its lock
and critical-section steps are weakly fair too. Nothing forces a call to
start. In `TschQueue` the slot actions, `tsch_tx_process_pending` (a process
the TX slot polls) and the re-targeting are weakly fair. Enqueues, flushes and
negotiations get no fairness. In `TschNegotiation` the post-processing steps
are weakly fair: the background process is polled after the slot and runs
`post_process_rx_N` or `post_process_rx_t_offset` to its end. RX and TX slots
and route changes get no fairness, nor does `select_N`, which no liveness property concerns. The liveness run of `TschSlotOperation` uses only the rx_sf calls (about 700 states). The full
call set gives the same answer but takes about five minutes. `TschMatchingSlots`
has safety properties only, and no fairness.

## 4. Findings

1. **Backup is the chosen link** (spec/code divergence, `tsch-schedule.c:654`).
   - The code sets `curr_backup = curr_best` when a tie leaves `curr_best` in
     place, and sets `curr_backup` only while it is NULL.
   - So an RX link that loses the tie is dropped as backup.
   - In this build the effect is masked: the best link then has RX itself, and
     mod1 compares equal handles.
   - `next_link_choice` checks the masking as `BackupServesFailover`: any
     backup is an RX link as soon as the chosen one, and there is one
     whenever the chosen link cannot receive and an RX link ties with it.
     The literal expectation, that the backup is always a tie loser, fails
     at once, and it was retired in favour of this property.
2. **Stale `backup_link`** (code bug, `tsch-schedule.c:300`).
   - `remove_link` clears `current_link` but not `backup_link`.
   - Orchestra re-adding the node's own unicast link removes it (through
     `add_link`) between two slots.
   - The next slot's mod1 swap (`tsch-slot-operation.c:3221`) then listens on
     the freed structure.
3. **NULL `current_link` in `tsch_rx_slot`** (code bug,
   `tsch-slot-operation.c:3145`).
   - `tsch_get_lock` clears `tsch_lock_requested` once it holds the lock, and
     the skip check does not test `tsch_locked`.
   - So an RX slot on slotframe 1 or 2 can start while `remove_link` is about
     to run.
   - `remove_link` sets `current_link` to NULL, and after the yield line 2709
     dereferences it.

4. **Packet freed during a TX slot** (code bug, `tsch-slot-operation.c:2559`).
   - `tsch_tx_slot` reads `current_packet` at the start of the slot and uses it
     after the yields for the frame and the ACK.
   - Orchestra flushes a neighbour's queue from the background, without the
     lock (`child_removed` at line 666 and the parent switch at line 992 of the
     Orchestra rule).
   - If the flush comes during the TX slot, the packet is already reported and
     freed. `update_neighbor_state` then dequeues the packet now at the head,
     and the freed packet goes into `dequeued_ringbuf`, where it is reported
     and freed again. The packet dequeued in its place is never freed, so
     `packet_memb` leaks one entry.
5. **Retry count** (spec/code divergence, `tsch-slot-operation.c:2013`).
   - A packet is dropped when `transmissions >= MAX_FRAME_RETRIES + 1`, so the
     configured 8 retries mean 9 transmissions and 9 backoff increments.
   - spec.md Scenario E says 8.
   - This is read off the guard, which `UpdateNeighborState` keeps as it is;
     no run checks it. A property counting transmissions would only restate
     the guard, and the model keeps the count by packet id, while the code
     counts through the `current_packet` pointer (see `TxEnd`).
6. **Overlapping negotiated allocations** (code bug,
   `tsch-slot-operation.c:874`).
   - `post_process_rx_N` runs `remove_rx` and then `add_rx` with
     `prN_new_N` and `prN_new_t_offset`. Each schedule call releases the lock,
     so RX slots, and `process_rx_N` with them, run in between.
   - In that window `select_t_offset` sees neither the removed slotframe nor
     the new one while it has no link (line 695). So another neighbour can be
     granted the same offset.
   - A refused request (the consecutive-request refusal at line 800, or no
     resource) has already overwritten `prN_new_N` (line 790 or 805). Then
     `add_rx` installs the slotframe with another neighbour's N and a timeslot
     beyond its size.
   - TLC's shortest trace is the second case, with children 2 and 3. Child 3
     is granted N = 2 at offset 1. Another frame from it in the window
     overwrites `prN_new_N` with 1, and `add_rx` installs a slotframe of
     size 2 at timeslot 1, which fires together with the TX slotframe's
     timeslot 3.
7. **A grant lost by the next frame** (code bug, `tsch-slot-operation.c:2979`;
   run `grant_lost_by_next_frame`).
   - Every ack-requesting RX slot resets `todo_rx_schedule_change` before
     `process_rx_N`. A second frame that comes before `post_process_rx_N`
     runs therefore drops the pending change, and `nbr_N` already equals the
     request, so nothing triggers the change again.
   - `RxScheduleMatchesGrant` states the expectation, and TLC shows a
     3-state violation: two frames from child 2 asking for N = 1.
8. **A TX link installed beyond its slotframe** (`tsch-slot-operation.c:1342`;
   in no run).
   - `post_process_rx_t_offset` calls `remove_tx`, which releases the lock,
     and then `add_tx(nbr_id, prt_nbr->my_N, prt_new_t_offset)`.
   - An EACK carrying `T_OFFSET_ALLOCATION_FAIL` in between sets
     `prt_new_t_offset` to `2^N_MAX + 1` (line 1215). `add_tx` rejects only
     65535, and `tsch_schedule_add_link` only prints on a too-large timeslot.
     So the TX link is installed at timeslot 5 of a size-2 slotframe, and it
     never fires.
   - `TxLinkInFrame` states the expectation. Used as the invariant of
     `MCTschNegotiation.cfg`, it shows a 7-state violation.
9. **A matching slot on the node's own link** (`tsch-schedule.c:370`; in no
   run).
   - While the lock is held, `get_subsequent_schedule` leaves the slotframes
     out of the node's bitmap, and RX slots still run (finding 3).
   - So `process_rx_schedule_info` can pick a slot where the node has its own
     slotframe link, and the EACK gives it to the sender. When that ASN comes,
     `earlier_ssq_schedule_list` drops the entry for the slotframe link
     (equal times), while the sender transmits into it.
   - `MatchingSlotsAvoidOwnLinks` states the expectation. Used as the
     invariant of `MCTschMatchingSlots.cfg`, it shows a 6-state violation: an
     RX slot at ASN 0 while locked, a frame whose bitmap marks slots 1 and 2,
     and slot 3 is chosen, the RB TX link's slot.
10. **A missed deadline loses the next matching slot too**
    (`tsch-schedule.c:488`; in no run).
    - A missed deadline makes the wake-up loop advance again without running
      the slot, so an entry at the missed ASN becomes a past entry.
    - The next `earlier_ssq_schedule_list` clears that past entry and returns
      0 without looking at the rest. The node then sleeps to its slotframe
      link, past another entry it had promised.
    - Without its `misses' = 0` premise, `MatchingSlotNotPassed` (in its
      `at >= 1` form: an entry jumped over) is violated in 11 states: a TX
      entry at slot 1 and an RX entry at slot 2; the wake-up for slot 1 is
      missed; the next call clears it and wakes at the slotframe link at 3,
      passing over the RX entry.

11. **A size-1 TX slotframe that grants ignore** (code bug,
    `tsch-slot-operation.c:690` and `tsch-queue.c:234`; recorded on
    `negotiation_grants`).
    - `select_N` sets `my_N` to `N_MAX-i+1-MORE_UNDER_PROVISION`, which is
      0 at the heaviest load, and `add_tx` installs a TX slotframe of size 1,
      whose link fires in every timeslot.
    - `select_t_offset` looks for `used_N` with `size >> n == 1` only for
      `n >= 1`, so it never counts that slotframe. A child is then granted
      an offset that collides with it.
    - The ctimer can also run between the TX slot whose EACK
      `tx_installable` checked at the old N and the `add_tx` that installs
      with the new one.
    - `GrantAvoidsInstalled` holds because its premise keeps only
      slotframes of size 2 to `2^N_MAX`. Without that premise it is
      `GrantAvoidsEveryInstalled`, which TLC violates in 8 states under
      `MCTschNegotiation.cfg`: the EACK is checked at N = 1, `select_N`
      lowers N to 0, `add_tx` installs size 1 at timeslot 0, and the child is
      granted N = 2 at offset 0. It has no run of its own: the project is at
      its run limit.

## 5. Not modelled yet, and the plan

These are in order of the hazards they reach (see `PROJECT.json`):

1. Two nodes composed from `TschNegotiation` (one's TX slot delivering to
   the other's RX slot, with the EACK back), so that a run can check that
   both ends agree on N and the offset, and that a request for N = 0 from
   `select_N` is served. The install for a removed child belongs here too.
   `select_N` is modelled on the sender side; it is not liveness-checked,
   since a fair `select_N` would need strong fairness over the idle
   background, and the pass run already takes 100 s.
2. A composition of `TschMatchingSlots` with `TschSchedule`'s
   `GetNextActiveLink` (the model takes the earliest slotframe link, and the
   slotframes never change), and two nodes agreeing on a slot through the
   frame and the EACK, so that the sender's TX entry and the receiver's RX
   entry are checked to meet.
3. Queue parts `TschQueue` leaves out: neighbour creation and garbage
   collection, the EB queue, `add_tx` with `link_memb` full (after which
   `select_packet` dereferences a NULL link), and the stale static
   `mac_tx_status` when radio preparation fails.

Out of TLC's reach or of no consequence:

- timing, drift and resynchronisation;
- the radio;
- frame encoding (`tsch-packet.c`);
- logging (`tsch-log.c`);
- the application (`node.c`);
- `TESLA` code, which is not compiled.

In `TschSchedule` and `TschSlotOperation`, `get_next_active_link` is
modelled with an empty matching-slot table, which is the state when no
negotiation has matched a slot. `TschMatchingSlots` models the table.
