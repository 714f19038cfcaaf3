-------------------------- MODULE TschSlotOperation --------------------------
(***************************************************************************)
(* The slot operation of TSCH (tsch-slot-operation.c) against the schedule *)
(* mutations of the background (tsch-schedule.c), synchronised by the TSCH *)
(* lock.                                                                   *)
(*                                                                         *)
(* Two execution contexts share the schedule:                              *)
(*  - the slot operation, a protothread run by the rtimer interrupt: at    *)
(*    the start of a slot it decides what to do with current_link (skip,  *)
(*    transmit, listen, swap in backup_link), it yields inside the TX/RX   *)
(*    sub-protothread, and at the end it computes the next active link and *)
(*    advances the ASN;                                                    *)
(*  - the background (Contiki processes: Orchestra callbacks, the          *)
(*    negotiation's post-processing), which adds and removes slotframes    *)
(*    and links.  Each change takes the lock with tsch_get_lock (raise     *)
(*    tsch_lock_requested, busy-wait while tsch_in_slot_operation, set     *)
(*    tsch_locked), changes the lists and releases it.  The interrupt      *)
(*    preempts the background between any two of these steps.              *)
(*                                                                         *)
(* Link structures live in link_memb: a freed one keeps its contents until *)
(* memb_alloc hands it out again, so a stale pointer reads old values.     *)
(* Packets are abstracted: an unlocked TX link may or may not find one.    *)
(***************************************************************************)
EXTENDS TschSchedule, Naturals, Sequences, SequencesExt, FiniteSets, TLC

CONSTANTS
  LinkIds,         \* link_memb: the TSCH_SCHEDULE_MAX_LINKS link structures
  AsnPeriod,       \* a common multiple of every slotframe size; asn mod it
  InitSlotframes,  \* slotframes Orchestra creates at init, in list order
  InitSize,        \* their sizes
  InitLinks,       \* the links Orchestra installs at init: LinkIds -> record
  Calls            \* the schedule changes the background may call

ASSUME LinkIds \subseteq Nat /\ DOMAIN InitLinks \subseteq LinkIds

VARIABLES
  slotframe_list,  \* handles of the installed slotframes, in list order
  sf_size,         \* handle -> size of each slotframe ever installed
  links,           \* link_memb contents: LinkIds -> link record
  used,            \* the link structures memb_alloc has handed out
  tsch_locked, tsch_lock_requested, tsch_in_slot_operation,
  current_link, backup_link,
  asn,             \* tsch_current_asn, modulo AsnPeriod
  slot,            \* the slot protothread: "idle" (waiting), "tx", "rx"
  bg               \* the background: the call in progress and its step

schedule == <<slotframe_list, sf_size, links, used>>
lock == <<tsch_locked, tsch_lock_requested, tsch_in_slot_operation>>
vars == <<schedule, lock, current_link, backup_link, asn, slot, bg>>

Handle(l) == links[l].slotframe_handle
LinksOf(h) == {l \in used : Handle(l) = h}
LinkAt(h, ts) == {l \in LinksOf(h) : links[l].timeslot = ts}

(* The order of the scan in get_next_active_link: slotframes in list       *)
(* order, then each one's links.  Two links of one slotframe never tie     *)
(* (one link per timeslot), so their order among themselves is immaterial  *)
(* and taken by identity.                                                  *)
ScanOrder ==
  FlattenSeq([i \in 1 .. Len(slotframe_list) |->
                SetToSortSeq(LinksOf(slotframe_list[i]), LAMBDA a, b : a < b)])


-----------------------------------------------------------------------------
(* The slot operation.                                                     *)

(* The packet get_packet_and_neighbor_for_link can find for link l: none   *)
(* on a link without TX, and none while the schedule is locked             *)
(* (tsch_queue_get_nbr and tsch_queue_get_packet_for_nbr return NULL).     *)
PacketForIgnoringLock(l) ==
  IF IsTx(links[l]) THEN BOOLEAN ELSE {FALSE}

PacketFor(l) ==
  IF IsTx(links[l]) /\ ~tsch_locked THEN BOOLEAN ELSE {FALSE}

(* The result of tsch_schedule_get_next_active_link now: nothing while the *)
(* schedule is locked.                                                     *)
NextActive ==
  IF tsch_locked
  THEN [best |-> NoLink, backup |-> NoLink, off |-> 0]
  ELSE GetNextActiveLink([l \in used |-> links[l]], sf_size, ScanOrder, asn)

(* The end of tsch_slot_operation's loop body: compute the next active     *)
(* link and its backup, advance the ASN by the slots to it (one if there   *)
(* is none), clear tsch_in_slot_operation and yield until the next slot.   *)
EndOfSlot ==
  \E r \in {NextActive} :
  /\ current_link' = r.best
  /\ backup_link' = r.backup
  /\ asn' = (asn + IF r.best = NoLink THEN 1 ELSE r.off) % AsnPeriod
  /\ tsch_in_slot_operation' = FALSE
  /\ slot' = "idle"

(* Faulty variant: the slot is not skipped while the lock is requested.   *)
SkipSlotWithoutRequest == current_link = NoLink

(* The slot is skipped when there is no current link or the background has *)
(* requested the lock (tsch_locked is not looked at).                      *)
SkipSlot == current_link = NoLink \/ tsch_lock_requested

(* The start of a slot: a skipped one ends at once.  Otherwise a packet is fetched; without one, a link lacking RX, or (JSB  *)
(* mod1) an RX link of a higher slotframe handle than backup_link, gives   *)
(* way to backup_link, for which a packet is fetched again.  A slot with a *)
(* packet transmits, one with an RX link listens, except that a            *)
(* negotiated link whose slotframe tsch_schedule_get_slotframe_by_handle   *)
(* cannot find (removed, or the schedule locked) does nothing.             *)
SlotStart ==
  /\ slot = "idle"
  /\ IF SkipSlot
     THEN EndOfSlot /\ UNCHANGED tsch_in_slot_operation
     ELSE \E p1 \in PacketFor(current_link) :
       LET swap == /\ ~p1
                   /\ backup_link # NoLink
                   /\ \/ ~IsRx(links[current_link])
                      \/ Handle(current_link) > Handle(backup_link)
           run == IF swap THEN backup_link ELSE current_link
       IN \E p \in IF swap THEN PacketFor(backup_link) ELSE {p1} :
          LET active == p \/ IsRx(links[run])
              noSf == Handle(run) >= 3
                      /\ (tsch_locked \/ Handle(run) \notin ToSet(slotframe_list))
          IN IF active /\ ~noSf
             THEN /\ current_link' = run
                  /\ tsch_in_slot_operation' = TRUE
                  /\ slot' = IF p THEN "tx" ELSE "rx"
                  /\ UNCHANGED <<backup_link, asn>>
             ELSE EndOfSlot
  /\ UNCHANGED <<schedule, tsch_locked, tsch_lock_requested, bg>>

(* The TX or RX sub-protothread has run to its end, then the slot ends.    *)
SlotEnd ==
  /\ slot \in {"tx", "rx"}
  /\ EndOfSlot
  /\ UNCHANGED <<schedule, tsch_locked, tsch_lock_requested, bg>>

-----------------------------------------------------------------------------
(* The background: one schedule call at a time, each a series of critical  *)
(* sections.  bg.cs is the critical section the call is heading for and    *)
(* bg.victim the link it removes.                                          *)
(*   addLink (tsch_schedule_add_link): remove the link at the timeslot if  *)
(*     any, then allocate the new one;                                     *)
(*   removeLink (Orchestra's remove_uc_link): remove the link at the       *)
(*     timeslot;                                                           *)
(*   addSf (add_tx / add_rx): add the slotframe, then its one link;        *)
(*   removeSf (remove_tx / remove_rx, tsch_schedule_remove_slotframe):     *)
(*     remove its links one by one, then the slotframe.                    *)

Idle == [pc |-> "idle", call |-> "none", cs |-> "none", victim |-> NoLink]

(* Start a call from the set Calls, in the state its caller checks: the    *)
(* slotframe exists (add_link, remove_uc_link, remove_tx/_rx) or not       *)
(* (add_tx/_rx return early when the handle already exists), and          *)
(* remove_uc_link returns when no link is at the timeslot.                 *)
(* Faulty variant: add_link without its remove_link_by_timeslot.          *)
FirstStepNoReplace(c) ==
  CASE c.op = "removeSf" ->
         [pc |-> "loop", call |-> c, cs |-> "none", victim |-> NoLink]
    [] c.op = "addSf" ->
         [pc |-> "req", call |-> c, cs |-> "addSf", victim |-> NoLink]
    [] c.op = "removeLink" ->
         [pc |-> "req", call |-> c, cs |-> "removeLink",
          victim |-> CHOOSE l \in LinkAt(c.h, c.ts) : TRUE]
    [] OTHER ->
         [pc |-> "req", call |-> c, cs |-> "addLink", victim |-> NoLink]

(* The first step of call c: the loop of remove_slotframe, the critical    *)
(* section of add_slotframe, or that of remove_link for the link at the   *)
(* timeslot (remove_uc_link, and add_link's remove_link_by_timeslot), or   *)
(* add_link's allocation when the timeslot is free.                        *)
FirstStep(c) ==
  CASE c.op = "removeSf" ->
         [pc |-> "loop", call |-> c, cs |-> "none", victim |-> NoLink]
    [] c.op = "addSf" ->
         [pc |-> "req", call |-> c, cs |-> "addSf", victim |-> NoLink]
    [] LinkAt(c.h, c.ts) # {} ->
         [pc |-> "req", call |-> c, cs |-> "removeLink",
          victim |-> CHOOSE l \in LinkAt(c.h, c.ts) : TRUE]
    [] OTHER ->
         [pc |-> "req", call |-> c, cs |-> "addLink", victim |-> NoLink]

Call(c) ==
  /\ bg.pc = "idle"
  /\ (c.h \in ToSet(slotframe_list)) = (c.op # "addSf")
  /\ c.op = "removeLink" => LinkAt(c.h, c.ts) # {}
  /\ bg' = FirstStep(c)
  /\ UNCHANGED <<schedule, lock, current_link, backup_link, asn, slot>>

(* The loop of tsch_schedule_remove_slotframe: remove the head link while  *)
(* there is one, then the slotframe itself.                                *)
RemoveSlotframeLoop ==
  /\ bg.pc = "loop"
  /\ LET ls == LinksOf(bg.call.h) IN
     bg' = IF ls # {}
           THEN [bg EXCEPT !.pc = "req", !.cs = "removeLink",
                           !.victim = CHOOSE l \in ls : \A m \in ls : l <= m]
           ELSE [bg EXCEPT !.pc = "req", !.cs = "removeSf"]
  /\ UNCHANGED <<schedule, lock, current_link, backup_link, asn, slot>>

(* tsch_get_lock, first half: no new slot operation may start.             *)
LockRequest ==
  /\ bg.pc = "req"
  /\ tsch_lock_requested' = TRUE
  /\ bg' = [bg EXCEPT !.pc = "acq"]
  /\ UNCHANGED <<schedule, tsch_locked, tsch_in_slot_operation,
                 current_link, backup_link, asn, slot>>

(* tsch_get_lock, second half: once the slot in progress has ended, take   *)
(* the lock and withdraw the request.                                      *)
LockAcquire ==
  /\ bg.pc = "acq"
  /\ ~tsch_in_slot_operation
  /\ tsch_locked' = TRUE
  /\ tsch_lock_requested' = FALSE
  /\ bg' = [bg EXCEPT !.pc = "cs"]
  /\ UNCHANGED <<schedule, tsch_in_slot_operation,
                 current_link, backup_link, asn, slot>>

(* The critical sections, each ending with tsch_release_lock.              *)

(* tsch_schedule_remove_link: clear current_link if it is the victim       *)
(* (backup_link is left as it is), unlink and free the structure.          *)
(* Faulty variant: current_link is not cleared.                           *)
CsRemoveLinkKeepCurrent ==
  /\ bg.cs = "removeLink"
  /\ used' = used \ {bg.victim}
  /\ UNCHANGED <<slotframe_list, sf_size, links, current_link>>

CsRemoveLink ==
  /\ bg.cs = "removeLink"
  /\ current_link' = IF current_link = bg.victim THEN NoLink ELSE current_link
  /\ used' = used \ {bg.victim}
  /\ UNCHANGED <<slotframe_list, sf_size, links>>

(* tsch_schedule_add_link: memb_alloc the first free structure and fill it *)
(* in; with none free, nothing is added.                                   *)
CsAddLink ==
  /\ bg.cs = "addLink"
  /\ IF used = LinkIds
     THEN UNCHANGED <<links, used>>
     ELSE LET l == CHOOSE f \in LinkIds \ used : \A g \in LinkIds \ used : f <= g IN
          /\ used' = used \cup {l}
          /\ links' = [links EXCEPT ![l] =
                         [slotframe_handle |-> bg.call.h, timeslot |-> bg.call.ts,
                          link_options |-> bg.call.opts]]
  /\ UNCHANGED <<slotframe_list, sf_size, current_link>>

(* tsch_schedule_add_slotframe: append the slotframe to slotframe_list.    *)
CsAddSlotframe ==
  /\ bg.cs = "addSf"
  /\ slotframe_list' = Append(slotframe_list, bg.call.h)
  /\ sf_size' = [sf_size EXCEPT ![bg.call.h] = bg.call.size]
  /\ UNCHANGED <<links, used, current_link>>

(* tsch_schedule_remove_slotframe, once its links are gone.                *)
CsRemoveSlotframe ==
  /\ bg.cs = "removeSf"
  /\ slotframe_list' = SelectSeq(slotframe_list, LAMBDA h : h # bg.call.h)
  /\ UNCHANGED <<sf_size, links, used, current_link>>

(* Where the call goes after a critical section: a link removed by         *)
(* add_link makes way for the new link, one removed by remove_slotframe    *)
(* returns to its loop, a new slotframe gets its link.                     *)
AfterCs ==
  CASE bg.cs = "removeLink" /\ bg.call.op = "removeSf" ->
         [bg EXCEPT !.pc = "loop", !.cs = "none", !.victim = NoLink]
    [] (bg.cs = "removeLink" /\ bg.call.op = "addLink") \/ bg.cs = "addSf" ->
         [bg EXCEPT !.pc = "req", !.cs = "addLink", !.victim = NoLink]
    [] OTHER -> Idle

CriticalSection ==
  /\ bg.pc = "cs"
  /\ \/ CsRemoveLink
     \/ CsAddLink
     \/ CsAddSlotframe
     \/ CsRemoveSlotframe
  /\ tsch_locked' = FALSE
  /\ bg' = AfterCs
  /\ UNCHANGED <<tsch_lock_requested, tsch_in_slot_operation,
                 backup_link, asn, slot>>

-----------------------------------------------------------------------------

(* After the Orchestra init, tsch_slot_operation_start computes the first  *)
(* active link from the ASN of the EB that synchronised the node.          *)
Init ==
  /\ slotframe_list = InitSlotframes
  /\ sf_size = InitSize
  /\ links = [l \in LinkIds |->
                IF l \in DOMAIN InitLinks THEN InitLinks[l]
                ELSE [slotframe_handle |-> 0, timeslot |-> 0, link_options |-> {}]]
  /\ used = DOMAIN InitLinks
  /\ tsch_locked = FALSE /\ tsch_lock_requested = FALSE
  /\ tsch_in_slot_operation = FALSE
  /\ \E asn0 \in 0 .. AsnPeriod - 1 :
       LET r == GetNextActiveLink(InitLinks, InitSize, ScanOrder, asn0) IN
       /\ current_link = r.best
       /\ backup_link = r.backup
       /\ asn = (asn0 + IF r.best = NoLink THEN 1 ELSE r.off) % AsnPeriod
  /\ slot = "idle"
  /\ bg = Idle

(* The steps of the background process, one enabled at a time.           *)
BackgroundStep ==
  \/ RemoveSlotframeLoop
  \/ LockRequest
  \/ LockAcquire
  \/ CriticalSection

Next ==
  \/ SlotStart
  \/ SlotEnd
  \/ \E c \in Calls : Call(c)
  \/ RemoveSlotframeLoop
  \/ LockRequest
  \/ LockAcquire
  \/ CriticalSection

(* The rtimer fires every slot, and the background process runs whenever   *)
(* the interrupt does not: both are weakly fair.  Nothing forces the       *)
(* background to make a call.                                              *)
Fairness ==
  /\ WF_vars(SlotStart \/ SlotEnd)
  /\ WF_vars(BackgroundStep)

Spec == Init /\ [][Next]_vars /\ Fairness

-----------------------------------------------------------------------------
(* Properties.                                                             *)

(* The link a slot runs is a link of the schedule whose timeslot is the   *)
(* current one.  get_next_active_link chose current_link and backup_link   *)
(* so at the end of the previous slot; tsch_schedule_remove_link clears    *)
(* current_link when it frees it, so that the slot is skipped instead.     *)
SlotRunsDueLink ==
  slot \in {"tx", "rx"} /\ current_link # NoLink =>
    /\ current_link \in used
    /\ links[current_link].timeslot = asn % sf_size[Handle(current_link)]

(* While the TX or RX sub-protothread runs it reads current_link (its      *)
(* slotframe handle at tsch-slot-operation.c:2709 after the first yield of *)
(* tsch_rx_slot, and at :2554 after a transmission): it is not NULL then.  *)
SlotRunsWithCurrentLink ==
  slot \in {"tx", "rx"} => current_link # NoLink

(* A transmission never overlaps a critical section of the background: a  *)
(* slot that starts with the schedule locked finds no packet, and the     *)
(* background cannot take the lock while a slot is in progress.          *)
TxNeverLocked ==
  slot = "tx" => ~tsch_locked

(* At most one link per timeslot of a slotframe, which add_link keeps by  *)
(* removing the link at the timeslot first, in a separate critical        *)
(* section.                                                                *)
OneLinkPerTimeslot ==
  \A l, m \in used :
    l # m /\ Handle(l) = Handle(m) => links[l].timeslot # links[m].timeslot

(* When the slot operation wakes up, the ASN has been advanced exactly to  *)
(* the timeslot of current_link in its slotframe, whatever the background  *)
(* changed (slotframes removed and re-added with another size) meanwhile.  *)
CurrentLinkDue ==
  slot = "idle" /\ current_link # NoLink =>
    links[current_link].timeslot = asn % sf_size[Handle(current_link)]

(* A background call waiting in tsch_get_lock eventually gets the lock:    *)
(* the slot operation skips slots while tsch_lock_requested is set, so     *)
(* tsch_in_slot_operation falls and stays false.                           *)
LockEventuallyGranted ==
  bg.pc = "acq" ~> bg.pc = "cs"

=============================================================================
