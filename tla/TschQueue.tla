------------------------------ MODULE TschQueue ------------------------------
(***************************************************************************)
(* The per-neighbour transmit queues of TSCH (tsch-queue.c) as the slot    *)
(* operation serves them (tsch-slot-operation.c) and the background fills, *)
(* flushes and re-targets them.                                            *)
(*                                                                         *)
(* Every neighbour has a ring buffer of packets, each stamped by Orchestra *)
(* with the slotframe and timeslot it may leave in (the link selector),    *)
(* and CSMA backoff state.  Packets come from packet_memb.  A TX slot      *)
(* looks up the packet at the start of the slot, yields until the frame   *)
(* and its ACK are over, then counts the attempt, dequeues on success or   *)
(* after the last retry, and hands the dequeued packet to dequeued_ringbuf *)
(* for the background to report and free.  The background runs between   *)
(* those two halves (it is preempted by the rtimer interrupt, not locked   *)
(* out): it enqueues, flushes a neighbour's queue, frees dequeued packets. *)
(* Schedule changes take the TSCH lock, so they happen between slots; the  *)
(* re-targeting of the queue that follows them runs after the lock is      *)
(* released.                                                               *)
(*                                                                         *)
(* All TX links of this build have the broadcast address, so               *)
(* tsch_queue_get_nbr(link->addr) is n_broadcast for every TX link, and    *)
(* unicast neighbours (tx_links_count = 0) are served through              *)
(* tsch_queue_get_unicast_packet_for_any.                                  *)
(***************************************************************************)
EXTENDS TschSchedule, Naturals, Sequences, SequencesExt, FiniteSets

CONSTANTS
  Bcast,            \* n_broadcast (broadcast data, DIOs)
  Nbrs,             \* the unicast neighbours
  NbrOrder,         \* neighbor_list: the unicast neighbours in list order
  UcNbrs,           \* neighbours with an Orchestra unicast link (RB)
  TxSfNbrs,         \* neighbours a negotiated TX slotframe can be added for
  UnicastPeriod,    \* ORCHESTRA_UNICAST_PERIOD, size of slotframe 1
  BaseLinks,        \* Orchestra's links: link id -> record
  TxSfLinkId,       \* id of the one link of the TX slotframe of a neighbour
  TxSfHandle,       \* get_tx_sf_handle_from_id
  TxSfOffset,       \* the granted t_offset of that link
  SfSizes,          \* slotframe handle -> size
  AsnPeriod,        \* a common multiple of the slotframe sizes
  QueueCap,         \* packets a neighbour ring buffer holds
  PoolSize,         \* packet_memb
  DequeuedCap,      \* packets dequeued_ringbuf holds
  MaxFrameRetries,  \* TSCH_MAC_MAX_FRAME_RETRIES
  MinBE, MaxBE,     \* TSCH_MAC_MIN_BE, TSCH_MAC_MAX_BE
  FlushNbrs,        \* neighbours whose queue Orchestra may flush
  MaxPackets,       \* bound: packets handed to tsch_queue_add_packet
  MaxSchedChanges   \* bound: add_tx / remove_tx calls

AllNbrs == Nbrs \cup {Bcast}
Unselected == 65535          \* 0xffff: no slotframe/timeslot selected
PacketIds == 1 .. MaxPackets
NoPacket == [id |-> 0, sf |-> Unselected, ts |-> Unselected, tx |-> 0]

VARIABLES
  queue,             \* neighbour -> its ring buffer, head first
  backoff_window, backoff_exponent,
  dequeued,          \* dequeued_ringbuf: [id, ret, tx] records
  allocated,         \* ids of the packets held in packet_memb
  tx_sf,             \* neighbour -> its TX slotframe is installed
  current_link, backup_link, asn,
  slot,              \* "idle" between slots, "tx" inside tsch_tx_slot
  current_packet,    \* the packet record the TX slot read at its start
  current_neighbor,
  bg,                \* the background: idle, or about to re-target
  created,           \* packets handed to the queue so far
  changes            \* schedule changes so far

vars == <<queue, backoff_window, backoff_exponent, dequeued, allocated,
          tx_sf, current_link, backup_link, asn, slot, current_packet,
          current_neighbor, bg, created, changes>>

-----------------------------------------------------------------------------
(* The schedule: Orchestra's links and the installed TX slotframes.        *)

Links == BaseLinks @@ [l \in {TxSfLinkId[n] : n \in {m \in TxSfNbrs : tx_sf[m]}} |->
                        LET n == CHOOSE m \in TxSfNbrs : TxSfLinkId[m] = l IN
                        [slotframe_handle |-> TxSfHandle[n],
                         timeslot |-> TxSfOffset[n], link_options |-> {"TX"}]]

(* Link ids are given in slotframe order, so sorting them is the scan      *)
(* order of get_next_active_link.                                          *)
NextActive ==
  GetNextActiveLink(Links, SfSizes,
                    SetToSortSeq(DOMAIN Links, LAMBDA a, b : a < b), asn)

-----------------------------------------------------------------------------
(* Orchestra's select_packet, run on enqueue: a data frame to a neighbour  *)
(* with a unicast link goes to its TX slotframe if it exists, else to      *)
(* slotframe 1 at the neighbour's timeslot; anything else is selected by   *)
(* the default common rule (slotframe 2, timeslot 0).                      *)
SelectPacket(n) ==
  CASE n \in UcNbrs /\ n \in TxSfNbrs /\ tx_sf[n] -> <<TxSfHandle[n], TxSfOffset[n]>>
    [] n \in UcNbrs                             -> <<1, n % UnicastPeriod>>
    [] OTHER                                    -> <<2, 0>>

(* tsch_queue_add_packet: with room in the neighbour's ring buffer and in  *)
(* packet_memb the packet is appended with no transmissions; otherwise it  *)
(* is lost (Q_Loss).                                                       *)
AddPacket(n) ==
  /\ bg.op = "idle"
  /\ created < MaxPackets
  /\ created' = created + 1
  /\ IF Len(queue[n]) < QueueCap /\ Cardinality(allocated) < PoolSize
     THEN LET a == SelectPacket(n) IN
          /\ queue' = [queue EXCEPT ![n] =
                Append(@, [id |-> created + 1, sf |-> a[1], ts |-> a[2], tx |-> 0])]
          /\ allocated' = allocated \cup {created + 1}
     ELSE UNCHANGED <<queue, allocated>>
  /\ UNCHANGED <<backoff_window, backoff_exponent, dequeued, tx_sf, current_link,
                 backup_link, asn, slot, current_packet, current_neighbor, bg,
                 changes>>

-----------------------------------------------------------------------------
(* Packet selection for a link.                                            *)

(* The link selector of tsch_queue_get_packet_for_nbr: a packet stamped    *)
(* with a slotframe or timeslot leaves only in a link that has it.         *)
Selects(p, r) ==
  /\ p.sf \in {Unselected, r.slotframe_handle}
  /\ p.ts \in {Unselected, r.timeslot}

(* tsch_queue_get_packet_for_nbr: the head of n's queue, unless the link   *)
(* is shared and n is still backing off, or the head is selected for      *)
(* another link (the packets behind it are not looked at).                 *)
GetPacketForNbr(n, l) ==
  IF /\ queue[n] # <<>>
     /\ ~(IsShared(Links[l]) /\ backoff_window[n] # 0)
     /\ Selects(Head(queue[n]), Links[l])
  THEN Head(queue[n]) ELSE NoPacket

(* Faulty variant: no fallback to unicast packets on a broadcast link.   *)
GetPacketAndNeighborForLinkBcastOnly(l) ==
  LET b == GetPacketForNbr(Bcast, l)
  IN IF IsTx(Links[l]) /\ b # NoPacket THEN [p |-> b, n |-> Bcast]
                                      ELSE [p |-> NoPacket, n |-> Bcast]

(* tsch_queue_get_unicast_packet_for_any: the packet of the first unicast *)
(* neighbour of neighbor_list (all have tx_links_count = 0) that has one   *)
(* for the link; without one the neighbour stays n_broadcast.              *)
GetUnicastPacketForAny(l) ==
  LET ready == SelectSeq(NbrOrder, LAMBDA m : GetPacketForNbr(m, l) # NoPacket)
  IN IF ready = <<>> THEN [p |-> NoPacket, n |-> Bcast]
                     ELSE [p |-> GetPacketForNbr(Head(ready), l), n |-> Head(ready)]

(* get_packet_and_neighbor_for_link: nothing on a link without TX; on a TX *)
(* link a packet of n_broadcast (the neighbour of link->addr), and when    *)
(* there is none, since that neighbour is n_broadcast, a unicast one.      *)
GetPacketAndNeighborForLink(l) ==
  LET b == GetPacketForNbr(Bcast, l)
  IN CASE ~IsTx(Links[l]) -> [p |-> NoPacket, n |-> Bcast]
       [] b # NoPacket    -> [p |-> b, n |-> Bcast]
       [] OTHER           -> GetUnicastPacketForAny(l)

-----------------------------------------------------------------------------
(* The slot operation.                                                     *)

(* tsch_queue_update_all_backoff_windows(&current_link->addr) after a slot *)
(* on a TX|SHARED link: with the broadcast address, every neighbour with   *)
(* no TX link of its own (all unicast ones) counts one slot off its window. *)
UpdateAllBackoffWindows(w, l) ==
  IF l # NoLink /\ IsTx(Links[l]) /\ IsShared(Links[l])
  THEN [m \in AllNbrs |-> IF m # Bcast /\ w[m] # 0 THEN w[m] - 1 ELSE w[m]]
  ELSE w

(* The end of the slot: backoff windows for the link that ran (w is the    *)
(* window function as the slot left it), then the next active link and     *)
(* the ASN advanced to it (by one slot without one).                       *)
EndOfSlot(l, w) ==
  \E r \in {NextActive} :
  /\ backoff_window' = UpdateAllBackoffWindows(w, l)
  /\ current_link' = r.best
  /\ backup_link' = r.backup
  /\ asn' = (asn + IF r.best = NoLink THEN 1 ELSE r.off) % AsnPeriod
  /\ slot' = "idle"

(* Faulty variant: tsch_tx_slot runs without a place in dequeued_ringbuf. *)
SlotStartIgnoringDequeuedRoom ==
  /\ slot = "idle"
  /\ IF current_link = NoLink
     THEN EndOfSlot(NoLink, backoff_window)
          /\ UNCHANGED <<current_packet, current_neighbor>>
     ELSE
       LET pn1 == GetPacketAndNeighborForLink(current_link)
           swap == /\ pn1.p = NoPacket
                   /\ backup_link # NoLink
                   /\ \/ ~IsRx(Links[current_link])
                      \/ Links[current_link].slotframe_handle
                           > Links[backup_link].slotframe_handle
           run == IF swap THEN backup_link ELSE current_link
           pn == IF swap THEN GetPacketAndNeighborForLink(backup_link) ELSE pn1
       IN IF pn.p # NoPacket
          THEN /\ current_link' = run
               /\ current_packet' = pn.p
               /\ current_neighbor' = pn.n
               /\ slot' = "tx"
               /\ UNCHANGED <<backoff_window, backup_link, asn>>
          ELSE EndOfSlot(run, backoff_window)
               /\ UNCHANGED <<current_packet, current_neighbor>>
  /\ UNCHANGED <<queue, backoff_exponent, dequeued, allocated, tx_sf, bg,
                 created, changes>>

(* The start of a slot (tsch_slot_operation): without a current link the   *)
(* slot is skipped.  Otherwise a packet is looked up; without one, a link  *)
(* lacking RX or of a higher slotframe than backup_link gives way to       *)
(* backup_link, looked up again.  With a packet, tsch_tx_slot starts: it   *)
(* first reserves a place in dequeued_ringbuf and, if there is none, does  *)
(* nothing else.  A slot that does not transmit ends here (an RX slot does *)
(* not touch the queues).                                                  *)
SlotStart ==
  /\ slot = "idle"
  /\ IF current_link = NoLink
     THEN EndOfSlot(NoLink, backoff_window)
          /\ UNCHANGED <<current_packet, current_neighbor>>
     ELSE
       LET pn1 == GetPacketAndNeighborForLink(current_link)
           swap == /\ pn1.p = NoPacket
                   /\ backup_link # NoLink
                   /\ \/ ~IsRx(Links[current_link])
                      \/ Links[current_link].slotframe_handle
                           > Links[backup_link].slotframe_handle
           run == IF swap THEN backup_link ELSE current_link
           pn == IF swap THEN GetPacketAndNeighborForLink(backup_link) ELSE pn1
       IN IF pn.p # NoPacket /\ Len(dequeued) < DequeuedCap
          THEN /\ current_link' = run
               /\ current_packet' = pn.p
               /\ current_neighbor' = pn.n
               /\ slot' = "tx"
               /\ UNCHANGED <<backoff_window, backup_link, asn>>
          ELSE EndOfSlot(run, backoff_window)
               /\ UNCHANGED <<current_packet, current_neighbor>>
  /\ UNCHANGED <<queue, backoff_exponent, dequeued, allocated, tx_sf, bg,
                 created, changes>>

(* tsch_queue_backoff_inc: the exponent grows up to MaxBE and the window   *)
(* is drawn from [0, 2^exponent), plus one for the decrement at the end of *)
(* this slot.                                                              *)
BackoffInc(n) ==
  LET e == IF backoff_exponent[n] + 1 < MaxBE THEN backoff_exponent[n] + 1 ELSE MaxBE
  IN {<<w + 1, e>> : w \in 0 .. 2^e - 1}

(* update_neighbor_state after an attempt with status st of packet p (its  *)
(* transmissions already counted) to n on link l.  Success dequeues; a     *)
(* failure dequeues once p has had MaxFrameRetries + 1 transmissions.      *)
(* tsch_queue_remove_packet_from_queue takes whatever is at the head of    *)
(* the ring buffer.  For a unicast neighbour, success on a shared link, or *)
(* leaving the queue empty, resets the backoff; failure on a shared link   *)
(* increments it.  The result: the new queue of n, whether p left it       *)
(* (in_queue = 0), and the set of possible <<window, exponent>> of n.       *)
UpdateNeighborState(n, p, l, st) ==
  LET removed == st = "OK" \/ p.tx >= MaxFrameRetries + 1
      q == IF removed /\ queue[n] # <<>> THEN Tail(queue[n]) ELSE queue[n]
      keep == {<<backoff_window[n], backoff_exponent[n]>>}
      bo == CASE n = Bcast                                     -> keep
              [] st = "OK" /\ (IsShared(Links[l]) \/ q = <<>>) -> {<<0, MinBE>>}
              [] st # "OK" /\ IsShared(Links[l])               -> BackoffInc(n)
              [] OTHER                                         -> keep
  IN [queue |-> q, dequeued |-> removed, backoff |-> bo]

(* The outcomes of an attempt: a broadcast frame is OK unless the radio    *)
(* fails (MAC_TX_ERR); a unicast frame also waits for its ACK (NOACK).     *)
TxStatus(n) == IF n = Bcast THEN {"OK", "ERR"} ELSE {"OK", "NOACK", "ERR"}

(* The rest of tsch_tx_slot, after the frame and its ACK: the transmission *)
(* count of current_packet grows, update_neighbor_state runs, a dequeued   *)
(* packet is put in dequeued_ringbuf; then the slot ends.  current_packet  *)
(* is the pointer read at the start of the slot: the count is written to   *)
(* the queue head only if that is still the same packet.  Packet ids are   *)
(* fresh, not packet_memb blocks, so when a flush has freed current_packet *)
(* and memb_alloc has handed its block to a new packet, the increment the  *)
(* code makes on that new packet is not modelled.                         *)
TxEnd ==
  /\ slot = "tx"
  /\ \E st \in TxStatus(current_neighbor) :
     LET n == current_neighbor
         p == [current_packet EXCEPT !.tx = @ + 1]
         u == UpdateNeighborState(n, p, current_link, st)
         q == IF u.queue # <<>> /\ Head(u.queue).id = p.id
              THEN <<p>> \o Tail(u.queue) ELSE u.queue
     IN \E wb \in u.backoff :
        /\ queue' = [queue EXCEPT ![n] = q]
        /\ backoff_exponent' = [backoff_exponent EXCEPT ![n] = wb[2]]
        /\ dequeued' = IF u.dequeued
                       THEN Append(dequeued, [id |-> p.id, ret |-> st, tx |-> p.tx])
                       ELSE dequeued
        /\ EndOfSlot(current_link, [backoff_window EXCEPT ![n] = wb[1]])
  /\ current_packet' = NoPacket     \* not read again before the next TX slot
  /\ current_neighbor' = Bcast      \* sets them
  /\ UNCHANGED <<allocated, tx_sf, bg,
                 created, changes>>

-----------------------------------------------------------------------------
(* The background.                                                         *)

(* tsch_tx_process_pending: every packet of dequeued_ringbuf is reported   *)
(* to its sender (mac_call_sent_callback) and freed.                       *)
ProcessPending ==
  /\ bg.op = "idle"
  /\ dequeued # <<>>
  /\ allocated' = allocated \ {d.id : d \in ToSet(dequeued)}
  /\ dequeued' = <<>>
  /\ UNCHANGED <<queue, backoff_window, backoff_exponent, tx_sf, current_link,
                 backup_link, asn, slot, current_packet, current_neighbor, bg,
                 created, changes>>

(* tsch_queue_flush_nbr_queue, called by Orchestra without the TSCH lock   *)
(* on a parent switch (bootstrap) for a non-empty queue: every packet is   *)
(* removed, reported with MAC_TX_ERR and freed at once.                    *)
FlushNbrQueue(n) ==
  /\ bg.op = "idle"
  /\ queue[n] # <<>>
  /\ allocated' = allocated \ {p.id : p \in ToSet(queue[n])}
  /\ queue' = [queue EXCEPT ![n] = <<>>]
  /\ UNCHANGED <<backoff_window, backoff_exponent, dequeued, tx_sf, current_link,
                 backup_link, asn, slot, current_packet, current_neighbor, bg,
                 created, changes>>

BgIdle == [op |-> "idle", n |-> Bcast, sf |-> Unselected, ts |-> Unselected]

(* add_tx for a neighbour without a TX slotframe: the slotframe and its    *)
(* link at t_offset are installed under the lock, so between slots; the    *)
(* re-targeting of the queue (change_queue_select_packet) follows.         *)
AddTx(n) ==
  /\ bg.op = "idle" /\ slot = "idle"
  /\ ~tx_sf[n]
  /\ changes < MaxSchedChanges
  /\ changes' = changes + 1
  /\ tx_sf' = [tx_sf EXCEPT ![n] = TRUE]
  /\ bg' = [op |-> "retarget", n |-> n, sf |-> TxSfHandle[n], ts |-> TxSfOffset[n]]
  /\ UNCHANGED <<queue, backoff_window, backoff_exponent, dequeued, allocated,
                 current_link, backup_link, asn, slot, current_packet,
                 current_neighbor, created>>

(* Faulty variant: remove_tx without change_queue_select_packet.         *)
RemoveTxKeepSelection(n) ==
  /\ bg.op = "idle" /\ slot = "idle"
  /\ tx_sf[n]
  /\ changes < MaxSchedChanges
  /\ changes' = changes + 1
  /\ tx_sf' = [tx_sf EXCEPT ![n] = FALSE]
  /\ current_link' = IF current_link = TxSfLinkId[n] THEN NoLink ELSE current_link
  /\ UNCHANGED <<queue, backoff_window, backoff_exponent, dequeued, allocated,
                 backup_link, asn, slot, current_packet, current_neighbor,
                 created, bg>>

(* remove_tx: tsch_schedule_remove_slotframe (under the lock; removing the *)
(* link clears current_link if it is that link), then the queue is         *)
(* re-targeted to slotframe 1 at timeslot id % UNICAST_PERIOD when the     *)
(* neighbour has a unicast link, else to the shared slot (2, 0).           *)
RemoveTx(n) ==
  /\ bg.op = "idle" /\ slot = "idle"
  /\ tx_sf[n]
  /\ changes < MaxSchedChanges
  /\ changes' = changes + 1
  /\ tx_sf' = [tx_sf EXCEPT ![n] = FALSE]
  /\ current_link' = IF current_link = TxSfLinkId[n] THEN NoLink ELSE current_link
  /\ bg' = IF n \in UcNbrs
           THEN [op |-> "retarget", n |-> n, sf |-> 1, ts |-> n % UnicastPeriod]
           ELSE [op |-> "retarget", n |-> n, sf |-> 2, ts |-> 0]
  /\ UNCHANGED <<queue, backoff_window, backoff_exponent, dequeued, allocated,
                 backup_link, asn, slot, current_packet, current_neighbor,
                 created>>

(* change_queue_select_packet: every packet queued for the neighbour is    *)
(* stamped with the new slotframe and timeslot.                            *)
ChangeQueueSelectPacket ==
  /\ bg.op = "retarget"
  /\ queue' = [queue EXCEPT ![bg.n] =
                 [k \in 1 .. Len(@) |-> [@[k] EXCEPT !.sf = bg.sf, !.ts = bg.ts]]]
  /\ bg' = BgIdle
  /\ UNCHANGED <<backoff_window, backoff_exponent, dequeued, allocated, tx_sf,
                 current_link, backup_link, asn, slot, current_packet,
                 current_neighbor, created, changes>>

-----------------------------------------------------------------------------

(* tsch_queue_init and the start of the slot operation: empty queues,      *)
(* backoff reset, no TX slotframe yet, no current link at ASN 0.           *)
Init ==
  /\ queue = [n \in AllNbrs |-> <<>>]
  /\ backoff_window = [n \in AllNbrs |-> 0]
  /\ backoff_exponent = [n \in AllNbrs |-> MinBE]
  /\ dequeued = <<>>
  /\ allocated = {}
  /\ tx_sf = [n \in TxSfNbrs |-> FALSE]
  /\ current_link = NoLink
  /\ backup_link = NoLink
  /\ asn = 0
  /\ slot = "idle"
  /\ current_packet = NoPacket
  /\ current_neighbor = Bcast
  /\ bg = BgIdle
  /\ created = 0
  /\ changes = 0

SlotStep == SlotStart \/ TxEnd

BackgroundStep ==
  \/ \E n \in AllNbrs : AddPacket(n)
  \/ ProcessPending
  \/ \E n \in FlushNbrs : FlushNbrQueue(n)
  \/ \E n \in TxSfNbrs : AddTx(n) \/ RemoveTx(n)
  \/ ChangeQueueSelectPacket

Next == SlotStep \/ BackgroundStep

(* The rtimer keeps firing the slot operation, and the background process *)
(* polled by the TX slot (tsch_pending_events_process) and the one that   *)
(* started a schedule change run to completion.  Enqueues, flushes and    *)
(* negotiations are up to the network and get no fairness.                 *)
Fairness ==
  /\ WF_vars(SlotStep)
  /\ WF_vars(ProcessPending)
  /\ WF_vars(ChangeQueueSelectPacket)

Spec == Init /\ [][Next]_vars /\ Fairness

-----------------------------------------------------------------------------
(* Properties.                                                             *)

TypeOK ==
  /\ queue \in [AllNbrs -> Seq([id : PacketIds, sf : Nat, ts : Nat, tx : Nat])]
  /\ backoff_window \in [AllNbrs -> 0 .. 2^MaxBE]
  /\ backoff_exponent \in [AllNbrs -> MinBE .. MaxBE]
  /\ dequeued \in Seq([id : PacketIds, ret : {"OK", "NOACK", "ERR"}, tx : Nat])
  /\ Len(dequeued) <= DequeuedCap
  /\ allocated \subseteq PacketIds /\ Cardinality(allocated) <= PoolSize
  /\ current_link \in DOMAIN Links \cup {NoLink}
  /\ slot \in {"idle", "tx"}

QueuedIds == {p.id : p \in UNION {ToSet(queue[n]) : n \in AllNbrs}}

(* Whenever the background is not in the middle of a schedule change, the  *)
(* slotframe and timeslot stamped on every queued packet (select_packet on *)
(* enqueue, change_queue_select_packet after add_tx and remove_tx) are      *)
(* those of an installed TX link: no packet is pinned to a link that does  *)
(* not exist and would block its neighbour's queue.                        *)
QueueSelectsInstalledLink ==
  bg.op = "idle" =>
    \A n \in AllNbrs : \A k \in 1 .. Len(queue[n]) :
      \E l \in DOMAIN Links : IsTx(Links[l]) /\ Selects(queue[n][k], Links[l])

(* Every packet held in packet_memb is queued or waiting in               *)
(* dequeued_ringbuf, and every packet of dequeued_ringbuf is still held:   *)
(* no packet leaks and none is reported and freed twice.                  *)
PacketsAccounted ==
  allocated = QueuedIds \cup {d.id : d \in ToSet(dequeued)}

(* The queues implement TschQueueFifo: packets join at the tail, leave     *)
(* from the head or by a flush, and a head packet eventually leaves.       *)
Fifo == INSTANCE TschQueueFifo
          WITH QNbrs <- AllNbrs, QIds <- PacketIds,
               fifo <- [n \in AllNbrs |-> [k \in 1 .. Len(queue[n]) |-> queue[n][k].id]]

FifoRefinement == Fifo!QSpec

=============================================================================
