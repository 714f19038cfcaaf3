---------------------------- MODULE TschSchedule ----------------------------
(***************************************************************************)
(* The TSCH schedule as data, and the choice of the next active link.      *)
(*                                                                         *)
(* A link is a record [slotframe_handle, timeslot, link_options]; a        *)
(* schedule is a function from link identities (slots of link_memb) to     *)
(* such records, together with the order in which                          *)
(* tsch_schedule_get_next_active_link visits them: slotframes in the order *)
(* of slotframe_list (list_add appends, so creation order), and the links   *)
(* of each slotframe after them.  Slotframe sizes are a function from       *)
(* handle to size.  All operators here are pure; the modules that own the   *)
(* schedule state (TschSlotOperation) apply them to that state.             *)
(***************************************************************************)
EXTENDS Naturals, Sequences, SequencesExt

CONSTANT NoLink     \* the NULL link pointer

(* link_options bits of a link (LINK_OPTION_TX, _RX, _SHARED).            *)
LinkOptionBits == {"TX", "RX", "SHARED"}

IsTx(r) == "TX" \in r.link_options
IsRx(r) == "RX" \in r.link_options
IsShared(r) == "SHARED" \in r.link_options

(* Faulty variant: a link at the current timeslot counted 0 slots away.  *)
TimeToTimeslotInclusive(r, size, asn) ==
  LET timeslot == asn % size IN
  IF r.timeslot >= timeslot THEN r.timeslot - timeslot
                            ELSE size + r.timeslot - timeslot

(* time_to_timeslot: slots from asn to the next occurrence of the link's   *)
(* timeslot.  A link whose timeslot is the current one is a whole          *)
(* slotframe away, never 0 slots away.                                     *)
TimeToTimeslot(r, size, asn) ==
  LET timeslot == asn % size IN
  IF r.timeslot > timeslot THEN r.timeslot - timeslot
                           ELSE size + r.timeslot - timeslot

(* Faulty variant: the tie-break without the PROPOSED slotframe 2 rule.  *)
TieWinnerNoProposed(lk, cb, l) ==
  LET c == lk[cb]
      n == lk[l]
  IN CASE n.slotframe_handle = 0 -> l
       [] c.slotframe_handle = 0 -> cb
       [] IsTx(c) = IsTx(n) -> IF n.slotframe_handle < c.slotframe_handle
                               THEN l ELSE NoLink
       [] OTHER -> IF IsTx(n) THEN l ELSE NoLink

(* new_best when link l ties with curr_best cb: equal TX-ness prefers the  *)
(* lower slotframe handle, and (PROPOSED) the common shared slotframe 2    *)
(* over an autonomous unicast TX link of slotframe 1; otherwise the TX     *)
(* link wins; the EB slotframe 0 beats everything.  NoLink means "keep".   *)
TieWinner(lk, cb, l) ==
  LET c == lk[cb]
      n == lk[l]
      byOptions ==
        IF IsTx(c) = IsTx(n)
        THEN IF \/ n.slotframe_handle < c.slotframe_handle
                \/ c.slotframe_handle = 1 /\ IsTx(c) /\ n.slotframe_handle = 2
             THEN l ELSE NoLink
        ELSE IF IsTx(n) THEN l ELSE NoLink
  IN CASE n.slotframe_handle = 0 -> l
       [] c.slotframe_handle = 0 -> cb
       [] OTHER                  -> byOptions

(* Mutant: a losing RX-capable link l is never kept as the backup.       *)
TieBackupNoLoser(lk, cb, l, nb, backup) ==
  CASE backup # NoLink                -> backup
    [] nb # cb /\ IsRx(lk[cb])        -> cb
    [] OTHER                          -> NoLink

(* curr_backup after the tie: set only while it is still NULL, first to l  *)
(* if l lost and can receive, then to curr_best if curr_best is not the    *)
(* new best (which includes new_best = NULL) and can receive.              *)
TieBackup(lk, cb, l, nb, backup) ==
  CASE backup # NoLink                -> backup
    [] nb # cb /\ IsRx(lk[cb])        -> cb
    [] nb # l /\ IsRx(lk[l])          -> l
    [] OTHER                          -> NoLink

(* One iteration of the scan over the links, with the accumulator          *)
(* [best, backup, off] standing for curr_best, curr_backup and             *)
(* time_to_curr_best.                                                      *)
ScanStep(lk, size, asn, acc, l) ==
  LET t == TimeToTimeslot(lk[l], size[lk[l].slotframe_handle], asn) IN
  IF acc.best = NoLink \/ t < acc.off
  THEN [best |-> l, backup |-> NoLink, off |-> t]
  ELSE IF t = acc.off
  THEN LET nb == TieWinner(lk, acc.best, l) IN
       [best   |-> IF nb # NoLink THEN nb ELSE acc.best,
        backup |-> TieBackup(lk, acc.best, l, nb, acc.backup),
        off    |-> acc.off]
  ELSE acc

(* tsch_schedule_get_next_active_link on an unlocked schedule: the link    *)
(* to run next, the slots until it, and the backup link.  order lists the  *)
(* link identities in list order; with no link the result is NoLink.  The  *)
(* accumulator is bound once per step (a \in {acc}) so that it is          *)
(* evaluated once.                                                         *)
GetNextActiveLink(lk, size, order, asn) ==
  LET Step(acc, l) == CHOOSE r \in {ScanStep(lk, size, asn, a, l) : a \in {acc}} : TRUE
  IN FoldLeft(Step, [best |-> NoLink, backup |-> NoLink, off |-> 0], order)

=============================================================================
