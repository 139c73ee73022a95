------------------------- MODULE ConsoleRefinement -------------------------
(***************************************************************************)
(* The console, through its threads, messages, buffers and interrupts,     *)
(* implements the terminal.                                                *)
(***************************************************************************)
EXTENDS Console

(* A string the driver has begun to copy is on its way as a whole once sending
   has been taken care of. *)
Copying == pc[Consdrv] \in {"write_test", "write_start"}

Unsent ==
  LET begun == IF Copying THEN Len(OnWire(Tail(text[msg]))) ELSE 0
  IN  SubSeq(cons.send, 1, Len(cons.send) - begun)

Out == (IF port.tdre THEN <<>> ELSE <<port.tdr>>) \o Unsent

(* Lines in the box of the shell, and the one it has been given but has not
   looked at. *)
Arrived == pc[Command] = "reply_alloc" /\ ret[Command] # NULL

Texts(id) ==
  LET buffers == ListSeq(mb.next, mb.head[id], Cardinality(Block))
  IN  [k \in 1 .. Len(buffers) |-> text[mb.data[buffers[k]]]]

Inbox == (IF Arrived THEN <<text[ret[Command]]>> ELSE <<>>) \o Texts(CONSINPUT)

(* Strings to be written: with the driver, and still with the shell. *)
AtDriver ==
  CASE pc[Consdrv] \in {"write_copy", "write_test", "write_start"} -> <<Tail(text[msg])>>
    [] /\ pc[Consdrv] = "command" /\ ret[Consdrv] # NULL
       /\ Head(text[ret[Consdrv]]) = "write"  -> <<Tail(text[ret[Consdrv]])>>
    [] OTHER -> <<>>

AtShell ==
  CASE pc[Command] = "reply_send" -> Append(Reply(text[str]), Prompt)
    [] pc[Command] \in {"end_alloc", "end_send"} -> <<<<LF>>, Prompt>>
    [] pc[Command] \in {"recv", "reply_alloc"} -> <<>>
    [] OTHER -> <<Prompt>>

Screen == INSTANCE Terminal WITH
  Key   <- Char \ {CR, LF},
  out   <- Out,
  line  <- cons.recv,
  inbox <- Inbox,
  owed  <- AtDriver \o AtShell,
  up    <- mode = "run"

(* Every line typed is answered once, in order and with the reply to its own
   text; strings reach the port whole and in order; every key is echoed: the
   driver thread, its handler and the shell, on the kernel's threads, boxes and
   pools, are steps of the terminal. *)
ImplementsTerminal == Screen!Spec
=============================================================================
