------------------------------ MODULE Mailbox ------------------------------
(***************************************************************************)
(* What the kernel promises about messages: each box is a FIFO queue, the  *)
(* data of a message belongs first to its sender, then to the message, and *)
(* in the end to the one thread that receives it, and a waiting receiver   *)
(* gets a message in the step that sends it.  No buffers and no pools.     *)
(***************************************************************************)
EXTENDS Integers, Sequences

CONSTANTS
  MsgBox,
  Thread,
  Block,    \* what data can be put in
  STATIC,   \* data that belongs to nobody
  NULL      \* no thread; the sender of what an interrupt handler sends

VARIABLES
  box,      \* the messages of each box, oldest first
  waiting,  \* the thread that waits for a message of each box, or NULL
  hold      \* the blocks of each thread

vars == <<box, waiting, hold>>

InMessage == UNION {{box[id][k].data : k \in 1 .. Len(box[id])} : id \in MsgBox}

(* The blocks nobody has. *)
Fresh == (Block \ InMessage) \ UNION {hold[t] : t \in Thread}

Gain(h, t, data) == [h EXCEPT ![t] = @ \cup ({data} \cap Block)]

Init ==
  /\ box = [id \in MsgBox |-> <<>>]
  /\ waiting = [id \in MsgBox |-> NULL]
  /\ hold = [t \in Thread |-> {}]

(* A message enters a box, or goes through it to the thread that waits; h is
   what the threads hold besides. *)
Post(from, id, data, h) ==
  \/ /\ waiting[id] = NULL
     /\ box' = [box EXCEPT ![id] = Append(@, [sender |-> from, data |-> data])]
     /\ hold' = h
     /\ UNCHANGED waiting
  \/ /\ waiting[id] # NULL
     /\ box[id] = <<>>
     /\ waiting' = [waiting EXCEPT ![id] = NULL]
     /\ hold' = Gain(h, waiting[id], data)
     /\ UNCHANGED box

Send(t, id, data) ==
  /\ data \in hold[t] \cup {STATIC}
  /\ Post(t, id, data, [hold EXCEPT ![t] = @ \ {data}])

HandlerSend(id) == \E data \in Fresh : Post(NULL, id, data, hold)

Receive(t, id) ==
  /\ waiting[id] = NULL
  /\ box[id] # <<>>
  /\ box' = [box EXCEPT ![id] = Tail(@)]
  /\ hold' = Gain(hold, t, Head(box[id]).data)
  /\ UNCHANGED waiting

Wait(t, id) ==
  /\ waiting[id] = NULL
  /\ box[id] = <<>>
  /\ waiting' = [waiting EXCEPT ![id] = t]
  /\ UNCHANGED <<box, hold>>

Allocate(t, b) == b \in Fresh /\ hold' = Gain(hold, t, b) /\ UNCHANGED <<box, waiting>>

Free(t, b) ==
  /\ b \in hold[t]
  /\ hold' = [hold EXCEPT ![t] = @ \ {b}]
  /\ UNCHANGED <<box, waiting>>

End(t) == hold' = [hold EXCEPT ![t] = {}] /\ UNCHANGED <<box, waiting>>

Next ==
  \/ \E id \in MsgBox : HandlerSend(id)
  \/ \E t \in Thread :
       \/ \E id \in MsgBox : Receive(t, id) \/ Wait(t, id)
       \/ \E id \in MsgBox, data \in Block \cup {STATIC} : Send(t, id, data)
       \/ \E b \in Block : Allocate(t, b) \/ Free(t, b)
       \/ End(t)

Spec == Init /\ [][Next]_vars
=============================================================================
