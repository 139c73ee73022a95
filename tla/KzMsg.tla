------------------------------- MODULE KzMsg -------------------------------
(***************************************************************************)
(* The message boxes of os/kozos.c, as operators on one value:             *)
(*   x.reciever[id], x.head[id], x.tail[id]  the fields of msg_boxes[id];  *)
(*   x.next[b], x.sender[b], x.data[b]       the kz_msgbuf kept in block b *)
(* The size of a message travels with its data pointer and is left out.    *)
(***************************************************************************)
EXTENDS LinkedList

CONSTANT
  MsgBox   \* the boxes, kz_msgbox_id_t

(* What the kernel reads in a box nobody has used. *)
EmptyBoxes(Blocks) ==
  [reciever |-> [id \in MsgBox |-> NULL],
   head     |-> [id \in MsgBox |-> NULL],
   tail     |-> [id \in MsgBox |-> NULL],
   next     |-> [b \in Blocks |-> NULL],
   sender   |-> [b \in Blocks |-> NULL],
   data     |-> [b \in Blocks |-> NULL]]

(* Mutant: a new buffer goes in front of the others. *)
enque_InFront(x, id, b) ==
  IF x.tail[id] = NULL
  THEN [x EXCEPT !.head[id] = b, !.tail[id] = b]
  ELSE [x EXCEPT !.next[b] = x.head[id], !.head[id] = b]

(* enque: a buffer becomes the head of an empty box, and otherwise the
   successor of the head. *)
enque(x, id, b) ==
  IF x.tail[id] = NULL
  THEN [x EXCEPT !.head[id] = b, !.tail[id] = b]
  ELSE [x EXCEPT !.next[x.head[id]] = b, !.tail[id] = b]

(* deque. *)
deque(x, id) ==
  LET first == x.head[id] IN
  [x EXCEPT !.head[id]  = x.next[first],
            !.tail[id]  = IF x.next[first] = NULL THEN NULL ELSE @,
            !.next[first] = NULL]

(* sendmsg, once it has block b for the message buffer. *)
sendmsg(x, id, b, thread, data) ==
  enque([x EXCEPT !.next[b] = NULL, !.sender[b] = thread, !.data[b] = data],
        id, b)

(* Mutant: the receiver stays registered after it has been served. *)
recvmsg_KeepsReceiver(x, id) ==
  [deque(x, id) EXCEPT !.sender[x.head[id]] = NULL, !.data[x.head[id]] = NULL]

(* What recvmsg does to the box.  The buffer goes back to the memory manager,
   so its fields are forgotten here. *)
recvmsg(x, id) ==
  [deque(x, id) EXCEPT !.reciever[id] = NULL,
                       !.sender[x.head[id]] = NULL,
                       !.data[x.head[id]] = NULL]
=============================================================================
