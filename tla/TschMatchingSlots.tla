--------------------------- MODULE TschMatchingSlots ---------------------------
(***************************************************************************)
(* Residual allocation (RESIDUAL_ALLOC): on-demand matching slots.  A     *)
(* sender with more than one queued packet sets the pending bit and         *)
(* piggybacks the bitmap of its next Window slots that are busy            *)
(* (tsch_schedule_get_subsequent_schedule); the receiver picks the earliest *)
(* slot free for both (select_matching_schedule), records an RX entry in   *)
(* ssq_schedule_list and returns the slot in its EACK, on which the sender *)
(* records a TX entry.  get_next_active_link wakes the node at the earliest *)
(* entry when it comes before the next link of the slotframes               *)
(* (earlier_ssq_schedule_list), and the slot removes the entry at its end. *)
(*                                                                         *)
(* One node.  ASNs are kept relative to the current one: an entry's `at`  *)
(* is its ASN minus the current ASN, every past ASN is Past (the code      *)
(* reads only the difference and whether it is <= 0), and `cur` is the    *)
(* current ASN modulo OrigPeriod, which is all the slotframes read.  The   *)
(* peers are an environment: any frame, any EACK answer their code allows. *)
(***************************************************************************)
EXTENDS Integers, FiniteSets

CONSTANTS
  Nbrs,        \* routing neighbours (ids)
  Window,      \* 16: entries of ssq_schedule_list, bits of the schedule info
  OrigPeriod,  \* a common multiple of the slotframe sizes
  OrigLinks,   \* the slotframes' links: [size, ts, tx, rb, nbr]
  Infos,       \* busy-slot sets (1..Window) a sender can piggyback
  QueueMax,    \* packets per neighbour queue
  MaxMisses    \* missed wake-up deadlines

VARIABLES
  cur,     \* tsch_current_asn modulo OrigPeriod
  list,    \* ssq_schedule_list: index -> [used, at, tx, nbr]
  qlen,    \* packets in each neighbour's tx_ringbuf
  link,    \* current_link: [kind, orig, i]
  pc,      \* "slot": the slot at cur is to run; "next": computing the next wake-up
  misses   \* wake-up deadlines missed so far

vars == <<cur, list, qlen, link, pc, misses>>

Idx == 0 .. Window - 1
Past == -1
NoMatch == 65535
NoNbr == 0
NoOrig == [size |-> 1, ts |-> 0, tx |-> FALSE, rb |-> FALSE, nbr |-> NoNbr]
NoLink == [kind |-> "none", orig |-> NoOrig, i |-> -1]
Empty == [used |-> FALSE, at |-> Past, tx |-> FALSE, nbr |-> NoNbr]

Least(S) == CHOOSE x \in S : \A y \in S : x <= y

(* slots to the next occurrence of an orig link, 1..size (never 0) *)
TimeTo(l) ==
  LET t == cur % l.size IN IF l.ts > t THEN l.ts - t ELSE l.size + l.ts - t

(* exist_matching_slot(&tsch_current_asn) *)
Exist(l) == \E i \in Idx : l[i].used /\ l[i].at = 0

(* remove_matching_slot: the first entry at the current ASN *)
RemoveMatchingSlot(l) ==
  LET hit == {i \in Idx : l[i].used /\ l[i].at = 0} IN
  IF hit = {} THEN l ELSE [l EXCEPT ![Least(hit)] = Empty]

(* Mutant: the range check on the slot offset is dropped. *)
AddMatchingSlotNoRange(l, m, tx, n) ==
  LET free == {i \in Idx : ~l[i].used} IN
  IF free # {}
  THEN [l EXCEPT ![Least(free)] = [used |-> TRUE, at |-> m, tx |-> tx, nbr |-> n]]
  ELSE l

(* add_matching_slot: the first free entry, silently nothing when full *)
AddMatchingSlot(l, m, tx, n) ==
  LET free == {i \in Idx : ~l[i].used} IN
  IF m \in 1 .. Window /\ free # {}
  THEN [l EXCEPT ![Least(free)] = [used |-> TRUE, at |-> m, tx |-> tx, nbr |-> n]]
  ELSE l

(* Mutant: the loop over ssq_schedule_list is left out. *)
SubsequentScheduleNoPending(locked, garbage) ==
  (IF locked THEN {} ELSE {TimeTo(l) : l \in OrigLinks} \cap 1 .. Window)
  \cup garbage

(* tsch_schedule_get_subsequent_schedule as the set of busy slots 1..Window *)
(* (bit i is slot i+1): the slotframes' links unless locked, the pending    *)
(* entries, and `garbage`, the bits used[16] holds uninitialised.          *)
SubsequentSchedule(locked, garbage) ==
  (IF locked THEN {} ELSE {TimeTo(l) : l \in OrigLinks} \cap 1 .. Window)
  \cup {list[i].at : i \in {j \in Idx : list[j].used /\ list[j].at >= 1}}
  \cup garbage

(* select_matching_schedule: the earliest slot busy for neither node *)
SelectMatchingSchedule(info, my) ==
  LET free == (1 .. Window) \ (info \cup my) IN
  IF free = {} THEN NoMatch ELSE Least(free)

(* reserved_ssq: a TX entry for n at another ASN than the current one *)
ReservedSsq(n) ==
  \E i \in Idx : list[i].used /\ list[i].at # 0 /\ list[i].tx /\ list[i].nbr = n

RemoveReservedSsq(l, n) ==
  [i \in Idx |-> IF l[i].used /\ l[i].at # 0 /\ l[i].tx /\ l[i].nbr = n
                 THEN Empty ELSE l[i]]

(* Mutant: no bit is disabled after the periodic TX slotframe. *)
DisableBitsNone(n) == {}

(* The bits tsch_tx_slot adds after the periodic TX slotframe towards n:   *)
(* every slot from its next TX link on.                                    *)
DisableBits(n) ==
  UNION { TimeTo(l) .. Window : l \in {k \in OrigLinks : k.tx /\ ~k.rb /\ k.nbr = n} }

(***************************************************************************)
(* earlier_ssq_schedule_list(time_to_orig): the entry to wake at instead   *)
(* of the slotframes' link, or -1.  The first past entry (in index order)  *)
(* is cleared and -1 returned; an entry due with the slotframes' link is   *)
(* cleared.  Result: [l (the list after it), i].                           *)
(***************************************************************************)
EarlierSsq(l, origT) ==
  LET used == {i \in Idx : l[i].used}
      past == {i \in used : l[i].at <= 0}
  IN IF past # {} THEN [l |-> [l EXCEPT ![Least(past)] = Empty], i |-> -1]
     ELSE IF used = {} THEN [l |-> l, i |-> -1]
     ELSE LET t == Least({l[i].at : i \in used})
              e == Least({i \in used : l[i].at = t})
          IN IF t < origT THEN [l |-> l, i |-> e]
             ELSE IF t = origT THEN [l |-> [l EXCEPT ![e] = Empty], i |-> -1]
             ELSE [l |-> l, i |-> -1]

(* the next link of the slotframes (their links never coincide here) *)
NextOrig == CHOOSE l \in OrigLinks : \A k \in OrigLinks : TimeTo(l) <= TimeTo(k)

Age(l, d) ==
  [i \in Idx |-> IF l[i].used
                 THEN [l[i] EXCEPT !.at = IF @ - d >= 0 THEN @ - d ELSE Past]
                 ELSE l[i]]

(***************************************************************************)
(* The end of a slot (tsch_slot_operation 3395-3453): get_next_active_link *)
(* (NULL and one slot ahead when locked), the ASN increment, the removal   *)
(* of an entry at the new ASN when locked with no link, and the deadline   *)
(* check: a missed deadline computes the next wake-up again from there,    *)
(* without running the slot.                                               *)
(***************************************************************************)
NextWakeup ==
  /\ pc = "next"
  /\ \E locked \in BOOLEAN, miss \in BOOLEAN :
       LET o == NextOrig
           r == EarlierSsq(list, TimeTo(o))
           nl == IF locked THEN NoLink
                 ELSE IF r.i = -1 THEN [kind |-> "orig", orig |-> o, i |-> -1]
                 ELSE [kind |-> "ssq", orig |-> NoOrig, i |-> r.i]
           l1 == IF locked THEN list ELSE r.l
           d == IF locked THEN 1 ELSE IF r.i = -1 THEN TimeTo(o) ELSE l1[r.i].at
           l2 == Age(l1, d)
       IN /\ miss => misses < MaxMisses
          /\ link' = nl
          /\ cur' = (cur + d) % OrigPeriod
          /\ list' = IF nl.kind = "none" /\ locked /\ Exist(l2)
                     THEN RemoveMatchingSlot(l2) ELSE l2
          /\ pc' = IF miss THEN "next" ELSE "slot"
          /\ misses' = IF miss THEN misses + 1 ELSE misses
  /\ UNCHANGED qlen

(* The slot is skipped: no link, or tsch_lock_requested (3141-3161) *)
SkipSlot ==
  /\ pc = "slot"
  /\ \E lockRequested \in BOOLEAN :
       /\ link.kind = "none" \/ lockRequested
       /\ list' = IF Exist(list) THEN RemoveMatchingSlot(list) ELSE list
  /\ pc' = "next"
  /\ UNCHANGED <<cur, qlen, link, misses>>

(***************************************************************************)
(* A unicast frame to n in a TX slot (tsch_tx_slot 2243-2330, the EACK at  *)
(* 2463-2466): with more than one packet queued and no TX entry reserved   *)
(* for n (TxPending), the pending bit and the busy bitmap (the subsequent  *)
(* schedule and the bits after the TX slotframe towards n); the peer's     *)
(* EACK carries a slot free in that bitmap or 65535 (PeerAnswers), and     *)
(* process_rx_matching_slot records it.  A packet can be acknowledged,     *)
(* unacknowledged (kept for a retry) or dropped.  The result is [l, q].    *)
(***************************************************************************)
TxPending(n) == qlen[n] > 1 /\ ~ReservedSsq(n)

PeerAnswers(n, garbage) ==
  IF TxPending(n)
  THEN ((1 .. Window) \ (SubsequentSchedule(FALSE, garbage) \cup DisableBits(n))) \cup {NoMatch}
  ELSE {NoMatch}

TxFrame(n, outcome, m) ==
  CASE outcome = "ack" -> [l |-> AddMatchingSlot(list, m, TRUE, n),
                           q |-> [qlen EXCEPT ![n] = @ - 1]]
    [] outcome = "drop" -> [l |-> list, q |-> [qlen EXCEPT ![n] = @ - 1]]
    [] OTHER -> [l |-> list, q |-> qlen]

Outcomes == {"ack", "noack", "drop"}

(* The TX slot of an ssq TX link (3168-3194, 2597-2601): the head packet of *)
(* the entry's neighbour, none while locked; without one, the entry is     *)
(* removed when locked and left in place otherwise.                        *)
SsqTxSlot ==
  /\ pc = "slot" /\ link.kind = "ssq" /\ list[link.i].tx
  /\ \E locked \in BOOLEAN :
       LET n == list[link.i].nbr IN
       IF ~locked /\ qlen[n] > 0
       THEN \E garbage \in SUBSET (1 .. Window), o \in Outcomes :
              \E m \in PeerAnswers(n, garbage) :
                LET r == TxFrame(n, o, m) IN
                /\ list' = RemoveMatchingSlot(r.l)
                /\ qlen' = r.q
       ELSE /\ list' = IF locked THEN RemoveMatchingSlot(list) ELSE list
            /\ UNCHANGED qlen
  /\ pc' = "next"
  /\ UNCHANGED <<cur, link, misses>>

(* The TX slot of a slotframe link towards l.nbr (no packet while locked); *)
(* after a TX on the RB slotframe (handle 1) that emptied the queue,       *)
(* remove_reserved_ssq (2603-2613).                                        *)
OrigTxSlot ==
  /\ pc = "slot" /\ link.kind = "orig" /\ link.orig.tx
  /\ \E locked \in BOOLEAN :
       LET n == link.orig.nbr IN
       IF ~locked /\ qlen[n] > 0
       THEN \E garbage \in SUBSET (1 .. Window), o \in Outcomes :
              \E m \in PeerAnswers(n, garbage) :
                LET r == TxFrame(n, o, m)
                    reserved == \E i \in Idx : r.l[i].used /\ r.l[i].at # 0
                                               /\ r.l[i].tx /\ r.l[i].nbr = n
                IN /\ qlen' = r.q
                   /\ list' = IF link.orig.rb /\ r.q[n] = 0 /\ reserved
                              THEN RemoveReservedSsq(r.l, n) ELSE r.l
       ELSE UNCHANGED <<list, qlen>>
  /\ pc' = "next"
  /\ UNCHANGED <<cur, link, misses>>

(***************************************************************************)
(* An RX slot (tsch_rx_slot 2972-2996 and its end at 3123-3127): nothing   *)
(* received, or an ack-requesting unicast frame from routing neighbour n;  *)
(* with the pending bit, process_rx_schedule_info picks the matching slot  *)
(* from the frame's bitmap and the node's subsequent schedule (without the *)
(* slotframes while the lock is held), records it, and the EACK carries it *)
(* whether or not it was recorded.  An ssq RX link's entry is removed at    *)
(* the end.                                                                *)
(***************************************************************************)
RxFrame(n, info, locked, garbage) ==
  AddMatchingSlot(list, SelectMatchingSchedule(info, SubsequentSchedule(locked, garbage)),
                  FALSE, n)

RxSlot ==
  /\ pc = "slot"
  /\ \/ link.kind = "orig" /\ ~link.orig.tx
     \/ link.kind = "ssq" /\ ~list[link.i].tx
  /\ LET done(l) == IF link.kind = "ssq" THEN RemoveMatchingSlot(l) ELSE l IN
     \/ list' = done(list)
     \/ \E n \in Nbrs, info \in Infos, locked \in BOOLEAN, garbage \in SUBSET (1 .. Window) :
          list' = done(RxFrame(n, info, locked, garbage))
  /\ pc' = "next"
  /\ UNCHANGED <<cur, qlen, link, misses>>

(* The upper layer queues a packet for n (tsch_queue_add_packet) *)
Enqueue(n) ==
  /\ qlen[n] < QueueMax
  /\ qlen' = [qlen EXCEPT ![n] = @ + 1]
  /\ UNCHANGED <<cur, list, link, pc, misses>>

Init ==
  /\ cur = 0
  /\ list = [i \in Idx |-> Empty]
  /\ qlen = [n \in Nbrs |-> 0]
  /\ link = NoLink
  /\ pc = "next"
  /\ misses = 0

Next ==
  \/ NextWakeup
  \/ SkipSlot
  \/ SsqTxSlot
  \/ OrigTxSlot
  \/ RxSlot
  \/ \E n \in Nbrs : Enqueue(n)

Spec == Init /\ [][Next]_vars

TypeOK ==
  /\ cur \in 0 .. OrigPeriod - 1
  /\ list \in [Idx -> [used : BOOLEAN, at : {Past} \cup 0 .. Window,
                        tx : BOOLEAN, nbr : Nbrs \cup {NoNbr}]]
  /\ \A i \in Idx : ~list[i].used => list[i] = Empty
  /\ qlen \in [Nbrs -> 0 .. QueueMax]
  /\ pc \in {"slot", "next"}
  /\ misses \in 0 .. MaxMisses
  /\ pc = "slot" /\ link.kind = "ssq" => link.i \in Idx /\ list[link.i].used /\ list[link.i].at = 0

(* No two pending matching slots share an ASN: every slot the node and its *)
(* peers agree on is one the node's table had free, whatever used[16]      *)
(* holds and whether the lock was held when it was chosen.                 *)
DistinctMatchingSlots ==
  \A i, j \in Idx :
    i # j /\ list[i].used /\ list[j].used /\ list[i].at >= 0 => list[i].at # list[j].at

(* While every wake-up meets its deadline, every pending matching slot is *)
(* served: the node wakes at the entry's ASN and the slot removes it (or   *)
(* earlier_ssq_schedule_list drops it for the slotframes' link), so no     *)
(* entry is jumped over or left behind to become a past entry.  A TX entry *)
(* must not outlive its packet: this rests on the disable bits of          *)
(* tsch_tx_slot and remove_reserved_ssq, since an ssq TX slot without a   *)
(* packet keeps its entry.  After a missed deadline it fails               *)
(* (earlier_ssq_schedule_list returns 0 after clearing a past entry); see  *)
(* the README.                                                             *)
MatchingSlotNotPassed ==
  [][ misses' = 0 =>
      \A i \in Idx :
        list[i].used /\ list[i].at >= 0 => ~(list'[i].used /\ list'[i].at = Past) ]_vars

(* No pending matching slot falls on a slot of the node's own slotframes, *)
(* where get_next_active_link would give the slot to the slotframe's link. *)
MatchingSlotsAvoidOwnLinks ==
  \A i \in Idx, l \in OrigLinks :
    list[i].used /\ list[i].at >= 1 => list[i].at # TimeTo(l)

====
