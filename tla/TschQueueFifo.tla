---------------------------- MODULE TschQueueFifo ----------------------------
(***************************************************************************)
(* What the neighbour queues promise their users (spec.md 4.3, Packet      *)
(* lifecycle): every neighbour has a FIFO of packets; a packet joins at    *)
(* the tail, leaves only from the head (sent, or dropped after its last    *)
(* retry), or together with the whole queue when it is flushed; and a      *)
(* packet at the head of a queue does not stay there forever.             *)
(***************************************************************************)
EXTENDS Sequences, SequencesExt

CONSTANTS
  QNbrs,     \* the neighbours, n_broadcast included
  QIds       \* packet identities

VARIABLE fifo  \* neighbour -> the identities of its queued packets

Queued == UNION {ToSet(fifo[n]) : n \in QNbrs}

QInit == fifo = [n \in QNbrs |-> <<>>]

Enqueue(n) ==
  \E i \in QIds \ Queued : fifo' = [fifo EXCEPT ![n] = Append(@, i)]

Leave(n) ==
  /\ fifo[n] # <<>>
  /\ fifo' = [fifo EXCEPT ![n] = Tail(@)]

Flush(n) ==
  /\ fifo[n] # <<>>
  /\ fifo' = [fifo EXCEPT ![n] = <<>>]

QNext == \E n \in QNbrs : Enqueue(n) \/ Leave(n) \/ Flush(n)

QSpec == QInit /\ [][QNext]_fifo /\ \A n \in QNbrs : WF_fifo(Leave(n))

=============================================================================
