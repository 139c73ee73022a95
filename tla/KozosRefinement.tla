-------------------------- MODULE KozosRefinement --------------------------
(***************************************************************************)
(* The kernel's pointers implement the queues of FifoScheduler and the     *)
(* boxes of Mailbox: reading each list from its first pointer gives the    *)
(* abstract sequence.                                                      *)
(***************************************************************************)
EXTENDS Kozos

Scheduler == INSTANCE FifoScheduler WITH
  First   <- Idle,
  queue   <- [p \in Priority |-> QueueSeq(p)],
  running <- current,
  up      <- (mode = "run")

Message(b) == [sender |-> mb.sender[b], data |-> mb.data[b]]

Messages(id) ==
  LET buffers == ListSeq(mb.next, mb.head[id], Cardinality(Block))
  IN  [k \in 1 .. Len(buffers) |-> Message(buffers[k])]

Mail == INSTANCE Mailbox WITH
  box     <- [id \in MsgBox |-> Messages(id)],
  waiting <- mb.reciever,
  hold    <- held

(* Threads of one priority run in the order in which they became ready, nobody
   overtakes or disappears, a caller goes behind the others of its priority and
   ahead of the thread it wakes: every kernel entry of kozos.c, with its get,
   put and schedule, is a step of the FIFO scheduler. *)
ImplementsFifoScheduler == Scheduler!Spec

(* Messages leave a box in the order they entered it, each once, with the data
   and the sender they entered with, and the data changes hands exactly with
   the message: thread_send and thread_recv, with their enque, deque and
   kzmem calls, are steps of the mailbox. *)
ImplementsMailbox == Mail!Spec
=============================================================================
