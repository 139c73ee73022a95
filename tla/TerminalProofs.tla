-------------------------- MODULE TerminalProofs --------------------------
(***************************************************************************)
(* What the console promises to the person at the terminal, for any number *)
(* of threads, priorities, pools and blocks, any prompt, command word and  *)
(* lines: it implements Terminal, stops only for a line typed too early,   *)
(* and its buffers hold what they are given, under the conditions on their *)
(* sizes and on the memory that Console states.                            *)
(*                                                                         *)
(* The steps of the console are first reduced to what they move: strings   *)
(* in blocks, blocks between threads and the shell's box, characters on    *)
(* the line.  The theorems are about these moves only.                     *)
(***************************************************************************)
EXTENDS ConsoleProofs

(* The lines in the box of the shell, oldest first. *)
Waiting ==
  LET first == mb.head[CONSINPUT]
      last  == mb.tail[CONSINPUT]
  IN  IF first = NULL THEN <<>>
      ELSE IF first = last THEN <<text[mb.data[first]]>>
      ELSE <<text[mb.data[first]], text[mb.data[last]]>>

WaitingRead == KernelHolds => Texts(CONSINPUT) = Waiting

LEMMA TextsAre == WaitingRead
<1> SUFFICES ASSUME KernelHolds PROVE Texts(CONSINPUT) = Waiting
  BY DEF WaitingRead
<1>1. PICK h, e : h = mb.head[CONSINPUT] /\ e = mb.tail[CONSINPUT]
  OBVIOUS
<1>2. PICK s : s = ListSeq(mb.next, mb.head[CONSINPUT], Cardinality(Block))
  OBVIOUS
<1>3. s = BoxSeq(mb, CONSINPUT)
  <2>1. mb \in Boxes /\ BoxShape(mb)
    BY Books DEF KernelHolds
  <2> QED
    BY <1>2, <2>1, Names, BoxList
<1>4. Texts(CONSINPUT) = [k \in 1 .. Len(s) |-> text[mb.data[s[k]]]]
  BY <1>2 DEF Texts
<1>5. PICK f, g : f = text[mb.data[h]] /\ g = text[mb.data[e]]
  OBVIOUS
<1>6. CASE h = NULL
  <2>1. s = <<>> /\ Waiting = <<>> /\ 1 .. 0 = {}
    BY <1>1, <1>3, <1>6 DEF BoxSeq, Waiting
  <2>2. [k \in 1 .. Len(s) |-> text[mb.data[s[k]]]] = <<>>
    BY <2>1
  <2> QED
    BY <1>4, <2>1, <2>2
<1>7. CASE h # NULL /\ h = e
  <2>1. s = <<h>> /\ Waiting = <<f>>
    BY <1>1, <1>3, <1>5, <1>7 DEF BoxSeq, Waiting
  <2>2. Len(s) = 1 /\ s[1] = h
    BY <2>1
  <2>3. [k \in 1 .. 1 |-> text[mb.data[s[k]]]] = [k \in 1 .. 1 |-> f]
    BY <1>5, <2>2
  <2>4. [k \in 1 .. 1 |-> f] = <<f>>
    OBVIOUS
  <2> QED
    BY <1>4, <2>1, <2>2, <2>3, <2>4
<1>8. CASE h # NULL /\ h # e
  <2>1. s = <<h, e>> /\ Waiting = <<f, g>>
    BY <1>1, <1>3, <1>5, <1>8 DEF BoxSeq, Waiting
  <2>2. Len(s) = 2 /\ s[1] = h /\ s[2] = e
    BY <2>1
  <2>3. [k \in 1 .. 2 |-> text[mb.data[s[k]]]] = [k \in 1 .. 2 |-> IF k = 1 THEN f ELSE g]
    BY <1>5, <2>2
  <2>4. [k \in 1 .. 2 |-> IF k = 1 THEN f ELSE g] = <<f, g>>
    OBVIOUS
  <2> QED
    BY <1>4, <2>1, <2>2, <2>3, <2>4
<1> QED
  BY <1>6, <1>7, <1>8

LEMMA TextsNext == WaitingRead'
BY TextsAre, PTL

(* Their number is what the person's limit counts. *)
LEMMA WaitingLen == KernelHolds => Pending(CONSINPUT) = Len(Waiting)
BY PendingLen, Names DEF PendingAre, BoxSeq, Waiting

LEMMA WaitingSame ==
  ASSUME KernelHolds, OthersSame(CONSOUTPUT), SameText({mb.data[c] : c \in Ends(mb, CONSINPUT)})
  PROVE  Waiting' = Waiting
<1>1. mb \in Boxes /\ BoxShape(mb)
  BY Books DEF KernelHolds
<1>2. /\ mb'.head[CONSINPUT] = mb.head[CONSINPUT] /\ mb'.tail[CONSINPUT] = mb.tail[CONSINPUT]
      /\ \A c \in Ends(mb, CONSINPUT) : mb'.data[c] = mb.data[c]
  BY Names DEF OthersSame
<1>3. \A c \in Ends(mb, CONSINPUT) : text'[mb'.data[c]] = text[mb.data[c]]
  BY <1>2 DEF SameText
<1>4. mb.head[CONSINPUT] # NULL => {mb.head[CONSINPUT], mb.tail[CONSINPUT]} \subseteq Ends(mb, CONSINPUT)
  BY <1>1, Names DEF BoxShape, Ends
<1> QED
  BY <1>2, <1>3, <1>4 DEF Waiting
-----------------------------------------------------------------------------
(* Thread t goes from one label to the next, *)
Goes(t, from, to) == pc[t] = from /\ pc'[t] = to

(* and is given a block nobody had; *)
Unheld(b) == b \in Block /\ \A t \in Thread : b \notin held[t]

Gains(t) ==
  \E b \in Block : /\ Unheld(b)
                   /\ held' = [held EXCEPT ![t] = @ \cup {b}]
                   /\ ret' = [ret EXCEPT ![t] = b]

(* or the system has none of that size and stops. *)
RunsOut(size) == mode' = "down" /\ NoFit(mem, size) /\ UNCHANGED <<ipcVars, ret>>

GainsOrNot(t, size) == (mode' = "run" /\ Gains(t)) \/ RunsOut(size)

LEMMA AllocationMoves ==
  ASSUME ConsoleInv, KernelHolds', Roles, NEW size \in AllocSizes, thread_kmalloc(size),
         Returned(ret), NEW t, t = current
  PROVE  mb' = mb /\ GainsOrNot(t, size)
<1>1. /\ mb' = mb
      /\ \/ mode' # "run" /\ held' = held /\ ret' = ret
         \/ \E b \in Block :
              /\ \A u \in Thread : b \notin held[u]
              /\ held' = [held EXCEPT ![t] = @ \cup {b}]
              /\ ret' = [ret EXCEPT ![t] = b]
  BY Allocated
<1>2. CASE mode' # "run"
  <2>1. KernelHolds
    BY DEF ConsoleInv
  <2>2. mode' = "down" /\ NoFit(mem, size) /\ UNCHANGED ipcVars
    BY <1>2, <2>1, KmallocStops
  <2>3. ret \in [Thread -> Block \cup {NULL}] /\ \A u \in Thread : held'[u] \subseteq held[u]
    BY <2>2 DEF ConsoleInv, Always, Types, ipcVars
  <2>4. ret' = [u \in Thread |-> ret[u]]
    BY <2>3, ReturnedNone
  <2> QED
    BY <1>1, <2>2, <2>3, <2>4 DEF GainsOrNot, RunsOut
<1> QED
  BY <1>1, <1>2 DEF GainsOrNot, Gains, Unheld
-----------------------------------------------------------------------------
(* The moves of the driver's thread: consdrv_main, *)
SetsHandler ==
  /\ Goes(Consdrv, "setintr", "recv") /\ mode' = "run" /\ ~DriverWaits'
  /\ UNCHANGED <<ret, msg, text, cons, port, held>>

Awaits ==
  /\ Goes(Consdrv, "recv", "command") /\ mode' = "run" /\ DriverWaits'
  /\ ret' = [ret EXCEPT ![Consdrv] = NULL]
  /\ UNCHANGED <<msg, text, cons, port, held>>

FreesMessage ==
  /\ Goes(Consdrv, "free", "recv") /\ mode' = "run" /\ ~DriverWaits'
  /\ held' = [held EXCEPT ![Consdrv] = @ \ {msg}]
  /\ msg' = NULL /\ text' = [text EXCEPT ![msg] = <<>>]
  /\ UNCHANGED <<ret, cons, port>>

(* CONSDRV_CMD_USE, *)
TakesUser ==
  /\ Goes(Consdrv, "command", "use_recv") /\ ~DriverWaits'
  /\ text[ret[Consdrv]] = <<"use">> /\ msg' = ret[Consdrv]
  /\ cons' = [cons EXCEPT !.sender = Command, !.send = <<>>]
  /\ GainsOrNot(Consdrv, CONS_SIZE)
  /\ UNCHANGED <<text, port>>

SetsSend ==
  /\ Goes(Consdrv, "use_recv", "use_init") /\ ~DriverWaits'
  /\ cons' = [cons EXCEPT !.send_buf = ret[Consdrv], !.recv = <<>>]
  /\ GainsOrNot(Consdrv, CONS_SIZE)
  /\ UNCHANGED <<msg, text, port>>

SetsRecv ==
  /\ Goes(Consdrv, "use_init", "free") /\ mode' = "run" /\ ~DriverWaits'
  /\ cons' = [cons EXCEPT !.recv_buf = ret[Consdrv]]
  /\ port' = serial_intr_recv_enable(serial_init)
  /\ UNCHANGED <<msg, ret, text, held>>

(* and CONSDRV_CMD_WRITE. *)
InSection(from, to) ==
  /\ Goes(Consdrv, from, to) /\ mode' = "run" /\ ~DriverWaits'
  /\ UNCHANGED <<ret, text, held>>

Masks ==
  /\ InSection("command", "write_copy")
  /\ Head(text[ret[Consdrv]]) = "write" /\ msg' = ret[Consdrv] /\ UNCHANGED <<cons, port>>

Copies ==
  /\ InSection("write_copy", "write_test")
  /\ cons' = [cons EXCEPT !.send = @ \o OnWire(Tail(text[msg]))] /\ UNCHANGED <<msg, port>>

Tests ==
  /\ InSection("write_test", IF cons.send # <<>> /\ ~port.tie THEN "write_start" ELSE "write_enable")
  /\ UNCHANGED <<msg, cons, port>>

Starts ==
  /\ InSection("write_start", "write_enable")
  /\ cons' = [cons EXCEPT !.send = Tail(@)]
  /\ ~port'.tdre /\ port'.tdr = Head(cons.send)
  /\ port'.rdrf = port.rdrf /\ port'.rdr = port.rdr
  /\ UNCHANGED msg

Unmasks == InSection("write_enable", "free") /\ UNCHANGED <<msg, cons, port>>

(* What they leave alone. *)
DriverAlone ==
  /\ mode = "run" /\ ~DriverWaits
  /\ pc'[Command] = pc[Command] /\ ret'[Command] = ret[Command] /\ str' = str
  /\ OthersSame(CONSOUTPUT) /\ Waiting' = Waiting
  /\ \A t \in Thread \ {Consdrv} : held'[t] = held[t]
  /\ SameText(held[Command])

DriverMoves ==
  \/ SetsHandler \/ Awaits \/ FreesMessage
  \/ TakesUser \/ SetsSend \/ SetsRecv
  \/ Masks \/ Copies \/ Tests \/ Starts \/ Unmasks

(* What the driver's thread changes is its own. *)
LEMMA AloneOf ==
  ASSUME ConsoleInv, mode = "run", current = Consdrv, NEW from, NEW to, Goto(Consdrv, from, to),
         str' = str, OthersSame(CONSOUTPUT),
         ret'[Command] = ret[Command], \A t \in Thread \ {Consdrv} : held'[t] = held[t],
         \A b \in Block : text'[b] # text[b] => b \in held[Consdrv]
  PROVE  DriverAlone /\ Goes(Consdrv, from, to)
<1>1. /\ KernelHolds /\ InputInv /\ ~DriverWaits /\ BlocksApart
      /\ DOMAIN pc = Thread
  BY ConsdrvRuns, Apart DEF ConsoleInv, Always, Types
<1>2. pc'[Command] = pc[Command] /\ Goes(Consdrv, from, to)
  BY <1>1, Names DEF Goto, Goes
<1>3. SameText({mb.data[c] : c \in Ends(mb, CONSINPUT)})
  BY <1>1, Names DEF SameText, BlocksApart, InputInv
<1>4. SameText(held[Command])
  BY <1>1, Names DEF SameText, BlocksApart
<1>5. Waiting' = Waiting
  BY <1>1, <1>3, WaitingSame
<1> QED
  BY <1>1, <1>2, <1>4, <1>5 DEF DriverAlone

LEMMA MainMoves ==
  ASSUME ConsoleInv, KernelHolds', consdrv_main
  PROVE  DriverAlone /\ (SetsHandler \/ Awaits \/ FreesMessage)
<1>0. mode = "run" /\ current = Consdrv /\ str' = str /\ UNCHANGED <<cons, port>>
  BY DEF consdrv_main, Goto, thread_setintr, thread_recv, thread_kmfree, Syscall
<1>1. /\ KernelHolds /\ Always /\ Roles /\ DriverInv /\ ~DriverWaits /\ current # Idle
      /\ held \in [Thread -> SUBSET Block] /\ ret \in [Thread -> Block \cup {NULL}]
      /\ mb \in Boxes
  BY <1>0, ConsdrvRuns, Books, Names DEF ConsoleInv, KernelHolds, Always, Types
<1>2. CASE Goto(Consdrv, "setintr", "recv") /\ thread_setintr(SERINTR) /\ UNCHANGED <<ret, msg>>
  <2>1. mb' = mb /\ held' = held /\ mode' = "run" /\ text' = text
    BY <1>1, <1>2, SetintrEffect, SetintrGoesOn DEF consdrv_main
  <2>2. OthersSame(CONSOUTPUT) /\ ~DriverWaits'
    BY <1>1, <2>1 DEF OthersSame, DriverWaits
  <2>3. DriverAlone /\ Goes(Consdrv, "setintr", "recv")
    BY <1>0, <1>2, <2>1, <2>2, AloneOf
  <2> QED
    BY <1>0, <1>2, <2>1, <2>2, <2>3 DEF SetsHandler
<1>3. CASE /\ Goto(Consdrv, "recv", "command") /\ thread_recv(CONSOUTPUT)
           /\ Returned([ret EXCEPT ![Consdrv] = NULL]) /\ UNCHANGED msg
  <2>1. mode' = "run" /\ text' = text
    BY <1>1, <1>3, Names, RecvGoesOn DEF consdrv_main, DriverWaits
  <2>2. mb.head[CONSOUTPUT] = NULL /\ NULL \notin Ends(mb, CONSOUTPUT)
    BY <1>1 DEF Roles, Ends
  <2>3. /\ held' = held /\ OthersSame(CONSOUTPUT)
        /\ mb' = [mb EXCEPT !.reciever[CONSOUTPUT] = Consdrv]
    BY <1>0, <1>1, <1>3, <2>1, <2>2, Names, RecvEffect
  <2>4. DriverWaits'
    BY <1>1, <2>3, Names DEF DriverWaits, Boxes
  <2>5. ret' = [u \in Thread |-> [ret EXCEPT ![Consdrv] = NULL][u]]
    BY <1>3, <2>3, ReturnedNone
  <2>6. ret' = [ret EXCEPT ![Consdrv] = NULL] /\ ret'[Command] = ret[Command]
    BY <1>1, <2>5, Names
  <2>7. DriverAlone /\ Goes(Consdrv, "recv", "command")
    BY <1>0, <1>3, <2>1, <2>3, <2>6, AloneOf
  <2> QED
    BY <1>0, <1>3, <2>1, <2>3, <2>4, <2>6, <2>7 DEF Awaits
<1>4. CASE Goto(Consdrv, "free", "recv") /\ thread_kmfree(msg) /\ msg' = NULL /\ UNCHANGED ret
  <2>1. /\ mb' = mb /\ held' = [held EXCEPT ![Consdrv] = @ \ {msg}] /\ msg \in held[Consdrv]
        /\ mode' = "run"
    BY <1>0, <1>1, <1>4, KmfreeEffect, KmfreeGoesOn
  <2>2. msg # NULL /\ text \in [Block -> Seq(Letter)]
    BY <1>1, <2>1, Names DEF Always, Types
  <2>3. text' = [text EXCEPT ![msg] = <<>>]
    BY <1>4, <2>2 DEF consdrv_main
  <2>4. OthersSame(CONSOUTPUT) /\ ~DriverWaits'
    BY <1>1, <2>1 DEF OthersSame, DriverWaits
  <2>5. /\ \A t \in Thread \ {Consdrv} : held'[t] = held[t]
        /\ \A b \in Block : text'[b] # text[b] => b \in held[Consdrv]
    BY <1>1, <2>1, <2>2, <2>3
  <2>6. DriverAlone /\ Goes(Consdrv, "free", "recv")
    BY <1>0, <1>4, <2>4, <2>5, AloneOf
  <2> QED
    BY <1>0, <1>4, <2>1, <2>3, <2>4, <2>6 DEF FreesMessage
<1> QED
  BY <1>2, <1>3, <1>4 DEF consdrv_main

LEMMA UseMoves ==
  ASSUME ConsoleInv, KernelHolds', consdrv_command_use
  PROVE  DriverAlone /\ (TakesUser \/ SetsSend \/ SetsRecv)
<1>0. mode = "run" /\ current = Consdrv /\ str' = str /\ text' = text
  BY DEF consdrv_command_use, Goto, thread_kmalloc, Syscall
<1>1. /\ KernelHolds /\ Roles /\ ~DriverWaits /\ ret \in [Thread -> Block \cup {NULL}]
      /\ held \in [Thread -> SUBSET Block] /\ Returned(ret) /\ CONS_SIZE \in AllocSizes
  BY <1>0, ConsdrvRuns, Books, SizesAsked DEF ConsoleInv, KernelHolds, Always, Types,
     consdrv_command_use
<1>2. ASSUME thread_kmalloc(CONS_SIZE), NEW from, NEW to, Goto(Consdrv, from, to)
      PROVE  /\ GainsOrNot(Consdrv, CONS_SIZE) /\ ~DriverWaits'
             /\ DriverAlone /\ Goes(Consdrv, from, to)
  <2>1. mb' = mb /\ GainsOrNot(Consdrv, CONS_SIZE)
    BY <1>0, <1>1, <1>2, AllocationMoves
  <2>2. ret'[Command] = ret[Command] /\ \A t \in Thread \ {Consdrv} : held'[t] = held[t]
    BY <1>1, <2>1, Names DEF GainsOrNot, Gains, RunsOut, ipcVars
  <2>3. OthersSame(CONSOUTPUT) /\ ~DriverWaits'
    BY <1>1, <2>1 DEF OthersSame, DriverWaits
  <2> QED
    BY <1>0, <1>2, <2>1, <2>2, <2>3, AloneOf
<1>3. CASE /\ Goto(Consdrv, "command", "use_recv") /\ text[ret[Consdrv]] = <<"use">>
           /\ msg' = ret[Consdrv] /\ thread_kmalloc(CONS_SIZE)
           /\ cons' = [cons EXCEPT !.sender = Command, !.send = <<>>] /\ UNCHANGED port
  BY <1>0, <1>2, <1>3 DEF TakesUser
<1>4. CASE /\ Goto(Consdrv, "use_recv", "use_init") /\ thread_kmalloc(CONS_SIZE)
           /\ cons' = [cons EXCEPT !.send_buf = ret[Consdrv], !.recv = <<>>]
           /\ UNCHANGED <<msg, port>>
  BY <1>0, <1>2, <1>4 DEF SetsSend
<1>5. CASE /\ Goto(Consdrv, "use_init", "free") /\ mode = "run"
           /\ cons' = [cons EXCEPT !.recv_buf = ret[Consdrv]]
           /\ port' = serial_intr_recv_enable(serial_init) /\ UNCHANGED <<vars, msg>>
  <2>1. UNCHANGED <<mb, held, mode>>
    BY <1>5 DEF vars, ipcVars
  <2>2. ret' = [u \in Thread |-> ret[u]]
    BY <1>1, <2>1, ReturnedNone
  <2>3. ret' = ret /\ OthersSame(CONSOUTPUT) /\ ~DriverWaits'
    BY <1>1, <2>1, <2>2 DEF OthersSame, DriverWaits
  <2>4. DriverAlone /\ Goes(Consdrv, "use_init", "free")
    BY <1>0, <1>5, <2>1, <2>3, AloneOf
  <2> QED
    BY <1>0, <1>5, <2>1, <2>3, <2>4 DEF SetsRecv
<1> QED
  BY <1>3, <1>4, <1>5 DEF consdrv_command_use

LEMMA WriteMoves ==
  ASSUME ConsoleInv, KernelHolds', consdrv_command_write
  PROVE  DriverAlone /\ (Masks \/ Copies \/ Tests \/ Starts \/ Unmasks)
<1>0. mode = "run" /\ current = Consdrv /\ UNCHANGED <<ret, str, text>>
  BY DEF consdrv_command_write, Goto, intr_disable, intr_enable, SetCcr
<1>1. KernelHolds /\ PortInv /\ ~DriverWaits /\ ~port.waited /\ (~port.tie => port.tdre)
      /\ cons \in Consreg /\ port \in Port(Char) /\ Driver \in Drivers
  BY <1>0, ConsdrvRuns DEF ConsoleInv, KernelHolds, Always, Types, Driver, Drivers
<1>2. ASSUME UNCHANGED <<mb, held, mode>>, NEW from, NEW to, Goto(Consdrv, from, to)
      PROVE  DriverAlone /\ InSection(from, to)
  <2>1. OthersSame(CONSOUTPUT) /\ ~DriverWaits'
    BY <1>1, <1>2 DEF OthersSame, DriverWaits
  <2>2. DriverAlone /\ Goes(Consdrv, from, to)
    BY <1>0, <1>2, <2>1, AloneOf
  <2> QED
    BY <1>0, <1>2, <2>1, <2>2 DEF InSection
<1>3. CASE /\ Goto(Consdrv, "command", "write_copy") /\ Head(text[ret[Consdrv]]) = "write"
           /\ msg' = ret[Consdrv] /\ intr_disable /\ UNCHANGED <<cons, port>>
  <2>1. UNCHANGED <<mb, held, mode>>
    BY <1>0, <1>1, <1>3, MaskedCcr DEF intr_disable
  <2> QED
    BY <1>2, <1>3, <2>1 DEF Masks
<1>4. CASE /\ Goto(Consdrv, "write_copy", "write_test") /\ mode = "run"
           /\ SetDriver(Copied(Driver, Tail(text[msg]))) /\ UNCHANGED <<vars, msg>>
  <2>1. UNCHANGED <<mb, held, mode>>
    BY <1>4 DEF vars, ipcVars
  <2>2. cons' = [cons EXCEPT !.send = @ \o OnWire(Tail(text[msg]))] /\ port' = port
    BY <1>4 DEF SetDriver, Copied, Driver
  <2> QED
    BY <1>2, <1>4, <2>1, <2>2 DEF Copies
<1>5. CASE /\ Goto(Consdrv, "write_test",
                   IF MustStart(Driver) THEN "write_start" ELSE "write_enable")
           /\ mode = "run" /\ UNCHANGED <<vars, msg, cons, port>>
  <2>1. UNCHANGED <<mb, held, mode>>
    BY <1>5 DEF vars, ipcVars
  <2>2. MustStart(Driver) <=> cons.send # <<>> /\ ~port.tie
    BY DEF MustStart, Driver
  <2>3. Goto(Consdrv, "write_test",
             IF cons.send # <<>> /\ ~port.tie THEN "write_start" ELSE "write_enable")
    BY <1>5, <2>2
  <2> QED
    BY <1>2, <1>5, <2>1, <2>3 DEF Tests
<1>6. CASE /\ Goto(Consdrv, "write_start", "write_enable") /\ mode = "run"
           /\ SetDriver(Started(Driver)) /\ UNCHANGED <<vars, msg>>
  <2>1. UNCHANGED <<mb, held, mode>>
    BY <1>6 DEF vars, ipcVars
  <2>2. cons' = [cons EXCEPT !.send = Tail(@)]
        /\ port' = [port EXCEPT !.waited = @ \/ ~port.tdre, !.tdr = Head(cons.send),
                                !.tdre = FALSE, !.tie = TRUE]
    BY <1>1, <1>6 DEF SetDriver, Started, send_char, Driver, serial_send_byte,
       serial_intr_send_enable, Port
  <2>3. /\ ~port'.tdre /\ port'.tdr = Head(cons.send)
        /\ port'.rdrf = port.rdrf /\ port'.rdr = port.rdr
    BY <1>1, <2>2 DEF Port
  <2> QED
    BY <1>2, <1>6, <2>1, <2>2, <2>3 DEF Starts
<1>7. CASE /\ Goto(Consdrv, "write_enable", "free") /\ intr_enable /\ UNCHANGED <<msg, cons, port>>
  <2>1. UNCHANGED <<mb, held, mode>>
    BY <1>0, <1>1, <1>7, MaskedCcr DEF intr_enable
  <2> QED
    BY <1>2, <1>7, <2>1 DEF Unmasks
<1> QED
  BY <1>3, <1>4, <1>5, <1>6, <1>7 DEF consdrv_command_write
-----------------------------------------------------------------------------
(* The moves of the shell: a block for a string, *)
Allocates(from, to) ==
  /\ Goes(Command, from, to) /\ DriverWaits' /\ mb' = mb /\ text' = text /\ Waiting' = Waiting
  /\ str' = IF from = "reply_alloc" THEN ret[Command] ELSE str
  /\ \E s \in {<<"0">>} \cup Written : GainsOrNot(Command, Len(s) + 2)

(* a message that the driver is given, if there is memory for it, *)
Sends(from, to, m) ==
  /\ Goes(Command, from, to) /\ Waiting' = Waiting /\ str' = str
  /\ ret[Command] \in held[Command] /\ text' = [text EXCEPT ![ret[Command]] = m]
  /\ \/ /\ mode' = "run" /\ ~DriverWaits'
        /\ ret' = [ret EXCEPT ![Consdrv] = ret[Command]]
        /\ held' = [[held EXCEPT ![Command] = @ \ {ret[Command]}]
                      EXCEPT ![Consdrv] = @ \cup {ret[Command]}]
     \/ RunsOut(MSGBUF_SIZE)

(* a line, for which it waits or which is there, *)
Receives ==
  /\ Goes(Command, "recv", "reply_alloc") /\ mode' = "run" /\ DriverWaits'
  /\ UNCHANGED <<str, text>>
  /\ \/ /\ Waiting = <<>> /\ Waiting' = <<>>
        /\ ret' = [ret EXCEPT ![Command] = NULL] /\ held' = held
     \/ /\ Waiting # <<>> /\ Waiting' = Tail(Waiting)
        /\ \E d \in Block : /\ Unheld(d) /\ text[d] = Head(Waiting)
                            /\ ret' = [ret EXCEPT ![Command] = d]
                            /\ held' = [held EXCEPT ![Command] = @ \cup {d}]

(* and the end of it. *)
FreesLine ==
  /\ Goes(Command, "free", "prompt_alloc") /\ mode' = "run" /\ DriverWaits'
  /\ str' = NULL /\ text' = [text EXCEPT ![str] = <<>>] /\ ret' = ret /\ Waiting' = Waiting
  /\ held' = [held EXCEPT ![Command] = @ \ {str}]

ShellAlone ==
  /\ mode = "run" /\ DriverWaits /\ ~ShellWaits
  /\ pc[Consdrv] = "command" /\ pc'[Consdrv] = "command" /\ ret[Consdrv] = NULL
  /\ UNCHANGED <<msg, cons, port>>

ShellMoves ==
  \/ Allocates("use_alloc", "use_send")
  \/ Sends("use_send", "prompt_alloc", <<"use">>)
  \/ Allocates("prompt_alloc", "prompt_send")
  \/ Sends("prompt_send", "recv", <<"write">> \o Prompt)
  \/ Receives
  \/ Allocates("reply_alloc", "reply_send")
  \/ Sends("reply_send", IF Len(Reply(text[str])) = 1 THEN "free" ELSE "end_alloc",
           <<"write">> \o Reply(text[str])[1])
  \/ Allocates("end_alloc", "end_send")
  \/ Sends("end_send", "free", <<"write">> \o <<LF>>)
  \/ FreesLine

LEMMA ShellFinds ==
  ASSUME ConsoleInv, mode = "run", current = Command
  PROVE  /\ KernelHolds /\ Always /\ Roles /\ ShellInv /\ InputInv /\ BlocksApart
         /\ DriverWaits /\ ~ShellWaits /\ pc[Consdrv] = "command" /\ ret[Consdrv] = NULL
         /\ ret \in [Thread -> Block \cup {NULL}] /\ text \in [Block -> Seq(Letter)]
         /\ held \in [Thread -> SUBSET Block] /\ mb \in Boxes /\ DOMAIN pc = Thread
BY CommandRuns, Apart, Books DEF ConsoleInv, KernelHolds, Always, Types

LEMMA ShellGoes ==
  ASSUME ConsoleInv, mode = "run", NEW from, NEW to, Goto(Command, from, to),
         UNCHANGED <<msg, cons, port>>
  PROVE  ShellAlone /\ Goes(Command, from, to)
<1>1. /\ DriverWaits /\ ~ShellWaits /\ pc[Consdrv] = "command" /\ ret[Consdrv] = NULL
      /\ DOMAIN pc = Thread
  BY ShellFinds DEF Goto
<1> QED
  BY <1>1, Names DEF Goto, Goes, ShellAlone

LEMMA AllocWriteMoves ==
  ASSUME ConsoleInv, KernelHolds', NEW from, NEW to, NEW s \in {<<"0">>} \cup Written,
         AllocWrite(from, to, s), str' = IF from = "reply_alloc" THEN ret[Command] ELSE str,
         UNCHANGED <<msg, cons, port>>
  PROVE  ShellAlone /\ Allocates(from, to)
<1>1. /\ mode = "run" /\ current = Command /\ Goto(Command, from, to) /\ text' = text
      /\ thread_kmalloc(Len(s) + 2) /\ Returned(ret)
  BY DEF AllocWrite, Goto, thread_kmalloc, Syscall
<1>2. ShellAlone /\ Goes(Command, from, to)
  BY <1>1, ShellGoes
<1>3. Roles /\ Len(s) + 2 \in AllocSizes
  BY <1>1, ShellFinds, SizesAsked
<1>4. mb' = mb /\ GainsOrNot(Command, Len(s) + 2)
  BY <1>1, <1>3, AllocationMoves
<1>5. DriverWaits' /\ Waiting' = Waiting
  BY <1>1, <1>2, <1>4 DEF DriverWaits, ShellAlone, Waiting
<1> QED
  BY <1>1, <1>2, <1>4, <1>5 DEF Allocates

LEMMA SendMoves ==
  ASSUME ConsoleInv, KernelHolds', NEW to, NEW m,
         NEW from \in {"use_send", "prompt_send", "reply_send", "end_send"},
         SendMessage(from, to, m), UNCHANGED <<msg, str, cons, port>>
  PROVE  ShellAlone /\ Sends(from, to, m)
<1>1. /\ mode = "run" /\ current = Command /\ Goto(Command, from, to)
      /\ text' = [text EXCEPT ![ret[Command]] = m] /\ thread_send(CONSOUTPUT, ret[Command])
      /\ Returned(ret)
  BY DEF SendMessage, Goto, thread_send, Syscall
<1>2. ShellAlone /\ Goes(Command, from, to)
  BY <1>1, ShellGoes
<1>3. /\ KernelHolds /\ Roles /\ ShellInv /\ InputInv /\ BlocksApart /\ DriverWaits
      /\ ret \in [Thread -> Block \cup {NULL}] /\ text \in [Block -> Seq(Letter)]
      /\ held \in [Thread -> SUBSET Block]
  BY <1>1, ShellFinds
<1>4. PICK d \in Block : d = ret[Command] /\ d \in held[Command]
  BY <1>1, <1>3, Names DEF ShellInv, Goto
<1>5. SameText({mb.data[c] : c \in Ends(mb, CONSINPUT)})
  BY <1>1, <1>3, <1>4, Names DEF SameText, BlocksApart, InputInv
<1>6. \/ mode' # "run" /\ UNCHANGED ipcVars
      \/ OthersSame(CONSOUTPUT) /\ Handed(CONSOUTPUT, d, [held EXCEPT ![Command] = @ \ {d}])
  BY <1>1, <1>3, <1>4, Names, SendEffect DEF Queued, DriverWaits
<1>7. CASE mode' # "run"
  <2>1. mode' = "down" /\ NoFit(mem, MSGBUF_SIZE) /\ UNCHANGED ipcVars
    BY <1>1, <1>3, <1>4, <1>7, Names, SendStops
  <2>2. \A u \in Thread : held'[u] \subseteq held[u]
    BY <2>1 DEF ipcVars
  <2>3. ret' = [u \in Thread |-> ret[u]]
    BY <1>1, <2>2, ReturnedNone
  <2>4. ret' = ret /\ OthersSame(CONSOUTPUT)
    BY <1>3, <2>1, <2>3 DEF OthersSame, ipcVars
  <2>5. Waiting' = Waiting
    BY <1>3, <1>5, <2>4, WaitingSame
  <2> QED
    BY <1>1, <1>2, <1>4, <2>1, <2>4, <2>5 DEF Sends, RunsOut
<1>8. CASE /\ mode' = "run" /\ OthersSame(CONSOUTPUT)
           /\ Handed(CONSOUTPUT, d, [held EXCEPT ![Command] = @ \ {d}])
  <2>1. mb.reciever[CONSOUTPUT] = Consdrv
    BY <1>3 DEF Roles, DriverWaits
  <2>2. /\ ~DriverWaits'
        /\ held' = [[held EXCEPT ![Command] = @ \ {d}] EXCEPT ![Consdrv] = @ \cup {d}]
    BY <1>8, <2>1, Names DEF Handed, DriverWaits
  <2>3. /\ held'[Consdrv] = held[Consdrv] \cup {d}
        /\ \A u \in Thread : u # Consdrv => held'[u] \subseteq held[u]
        /\ d \notin held[Consdrv]
    BY <1>3, <1>4, <2>2, Names DEF BlocksApart
  <2>4. ret' = [u \in Thread |-> IF u = Consdrv THEN d ELSE ret[u]]
    BY <1>1, <2>3, Names, ReturnedOne
  <2>5. ret' = [ret EXCEPT ![Consdrv] = d]
    BY <1>3, <2>4
  <2>6. Waiting' = Waiting
    BY <1>3, <1>5, <1>8, WaitingSame
  <2> QED
    BY <1>1, <1>2, <1>4, <1>8, <2>2, <2>5, <2>6 DEF Sends
<1> QED
  BY <1>6, <1>7, <1>8

LEMMA ReceiveMoves ==
  ASSUME ConsoleInv, KernelHolds', Goto(Command, "recv", "reply_alloc"), thread_recv(CONSINPUT),
         Returned([ret EXCEPT ![Command] = NULL]), UNCHANGED <<str, text, msg, cons, port>>
  PROVE  ShellAlone /\ Receives
<1>1. mode = "run" /\ current = Command /\ current # Idle
  BY Names DEF Goto, thread_recv, Syscall
<1>2. ShellAlone /\ Goes(Command, "recv", "reply_alloc")
  BY <1>1, ShellGoes
<1>3. /\ KernelHolds /\ Roles /\ InputInv /\ BlocksApart /\ DriverWaits /\ ~ShellWaits
      /\ ret \in [Thread -> Block \cup {NULL}] /\ held \in [Thread -> SUBSET Block]
      /\ mb \in Boxes
  BY <1>1, ShellFinds
<1>4. mode' = "run"
  BY <1>1, <1>3, Names, RecvGoesOn DEF ShellWaits
<1>5. PICK h, e : h = mb.head[CONSINPUT] /\ e = mb.tail[CONSINPUT]
  OBVIOUS
<1>6. /\ OthersSame(CONSINPUT)
      /\ \/ /\ h \in Ends(mb, CONSINPUT) /\ mb'.tail[CONSINPUT] = mb'.head[CONSINPUT]
            /\ mb'.head[CONSINPUT] = IF h = e THEN NULL ELSE e
            /\ Ends(mb', CONSINPUT) \subseteq Ends(mb, CONSINPUT)
            /\ \A c \in Ends(mb', CONSINPUT) : mb'.data[c] = mb.data[c]
            /\ held' = [held EXCEPT ![Command] = @ \cup ({mb.data[h]} \cap Block)]
         \/ /\ h = NULL /\ held' = held
            /\ mb' = [mb EXCEPT !.reciever[CONSINPUT] = Command]
  BY <1>1, <1>3, <1>4, <1>5, Names, RecvEffect
<1>7. DriverWaits'
  BY <1>3, <1>6, Names DEF OthersSame, DriverWaits
<1>8. CASE /\ h = NULL /\ held' = held
           /\ mb' = [mb EXCEPT !.reciever[CONSINPUT] = Command]
  <2>1. mb'.head[CONSINPUT] = NULL
    BY <1>3, <1>5, <1>8 DEF Boxes
  <2>2. Waiting = <<>> /\ Waiting' = <<>>
    BY <1>5, <1>8, <2>1 DEF Waiting
  <2>3. ret' = [u \in Thread |-> [ret EXCEPT ![Command] = NULL][u]]
    BY <1>8, ReturnedNone
  <2>4. ret' = [ret EXCEPT ![Command] = NULL]
    BY <1>3, <2>3
  <2> QED
    BY <1>2, <1>4, <1>7, <1>8, <2>2, <2>4 DEF Receives
<1>9. CASE /\ h \in Ends(mb, CONSINPUT) /\ mb'.tail[CONSINPUT] = mb'.head[CONSINPUT]
           /\ mb'.head[CONSINPUT] = IF h = e THEN NULL ELSE e
           /\ Ends(mb', CONSINPUT) \subseteq Ends(mb, CONSINPUT)
           /\ \A c \in Ends(mb', CONSINPUT) : mb'.data[c] = mb.data[c]
           /\ held' = [held EXCEPT ![Command] = @ \cup ({mb.data[h]} \cap Block)]
  <2>1. PICK d \in Block : d = mb.data[h]
    BY <1>3, <1>9 DEF InputInv
  <2>2. \A u \in Thread : d \notin held[u]
    BY <1>3, <1>9, <2>1, Names DEF BlocksApart
  <2>3. held' = [held EXCEPT ![Command] = @ \cup {d}]
    BY <1>9, <2>1
  <2>4. held'[Command] = held[Command] \cup {d} /\ \A u \in Thread : u # Command => held'[u] \subseteq held[u]
    BY <1>3, <2>3, Names
  <2>5. PICK before : before = [ret EXCEPT ![Command] = NULL] /\ Returned(before)
    OBVIOUS
  <2>6. ret' = [u \in Thread |-> IF u = Command THEN d ELSE before[u]]
    <3>1. /\ held'[Command] \ held[Command] = {d}
          /\ \A u \in Thread : u # Command => held'[u] \ held[u] = {}
      BY <2>2, <2>4, Names
    <3>2. (CHOOSE x \in {d} : TRUE) = d /\ {d} # {}
      OBVIOUS
    <3> QED
      BY <2>5, <3>1, <3>2 DEF Returned
  <2>7. ret' = [ret EXCEPT ![Command] = d]
    <3>1. \A u \in Thread : u # Command => before[u] = ret[u]
      BY <1>3, <2>5
    <3>2. ret' = [u \in Thread |-> IF u = Command THEN d ELSE ret[u]]
      BY <2>6, <3>1
    <3> QED
      BY <1>3, <3>2
  <2>8. h # NULL /\ NULL \notin Ends(mb, CONSINPUT)
    BY <1>9 DEF Ends
  <2>9. PICK f, g : f = text[d] /\ g = text[mb.data[e]]
    OBVIOUS
  <2>10. Waiting = (IF h = e THEN <<f>> ELSE <<f, g>>)
    BY <1>5, <2>1, <2>8, <2>9 DEF Waiting
  <2>11. Waiting' = (IF h = e THEN <<>> ELSE <<g>>)
    <3>1. CASE h = e
      BY <1>9, <3>1 DEF Waiting
    <3>2. CASE h # e
      <4>1. e # NULL
        <5>1. BoxShape(mb)
          BY <1>3, Books DEF KernelHolds
        <5> QED
          BY <1>5, <2>8, <5>1, Names DEF BoxShape
      <4>2. mb'.head[CONSINPUT] = e /\ mb'.tail[CONSINPUT] = e /\ e \in Ends(mb', CONSINPUT)
        BY <1>9, <3>2, <4>1 DEF Ends
      <4>3. text'[mb'.data[e]] = g
        BY <1>9, <2>9, <4>2
      <4> QED
        BY <3>2, <4>1, <4>2, <4>3 DEF Waiting
    <3> QED
      BY <3>1, <3>2
  <2>12. Waiting # <<>> /\ Waiting' = Tail(Waiting) /\ text[d] = Head(Waiting)
    <3>1. CASE h = e
      BY <2>9, <2>10, <2>11, <3>1
    <3>2. CASE h # e
      BY <2>9, <2>10, <2>11, <3>2
    <3> QED
      BY <3>1, <3>2
  <2> QED
    BY <1>2, <1>4, <1>7, <2>2, <2>3, <2>7, <2>12 DEF Receives, Unheld
<1> QED
  BY <1>6, <1>8, <1>9

LEMMA FreeMoves ==
  ASSUME ConsoleInv, KernelHolds', Goto(Command, "free", "prompt_alloc"), thread_kmfree(str),
         text' = [text EXCEPT ![str] = <<>>], str' = NULL, UNCHANGED <<ret, msg, cons, port>>
  PROVE  ShellAlone /\ FreesLine
<1>1. mode = "run" /\ current = Command
  BY DEF Goto, thread_kmfree, Syscall
<1>2. ShellAlone /\ Goes(Command, "free", "prompt_alloc")
  BY <1>1, ShellGoes
<1>3. /\ KernelHolds /\ Roles /\ InputInv /\ BlocksApart /\ DriverWaits
      /\ text \in [Block -> Seq(Letter)]
  BY <1>1, ShellFinds
<1>4. /\ mb' = mb /\ str \in held[Command] /\ held' = [held EXCEPT ![Command] = @ \ {str}]
      /\ mode' = "run"
  BY <1>1, <1>3, KmfreeEffect, KmfreeGoesOn
<1>5. SameText({mb.data[c] : c \in Ends(mb, CONSINPUT)}) /\ OthersSame(CONSOUTPUT)
  BY <1>3, <1>4, Names DEF SameText, BlocksApart, InputInv, OthersSame
<1>6. Waiting' = Waiting /\ DriverWaits'
  BY <1>3, <1>4, <1>5, WaitingSame DEF DriverWaits
<1> QED
  BY <1>2, <1>4, <1>6 DEF FreesLine

LEMMA CommandMoves ==
  ASSUME ConsoleInv, KernelHolds', command_main
  PROVE  ShellAlone /\ ShellMoves
<1>1. UNCHANGED <<msg, cons, port>>
  BY DEF command_main
<1>2. /\ <<"0">> \in {<<"0">>} \cup Written /\ Prompt \in {<<"0">>} \cup Written
      /\ <<LF>> \in {<<"0">>} \cup Written
  BY WrittenTyped
<1>3. CASE AllocWrite("use_alloc", "use_send", <<"0">>) /\ UNCHANGED str
  BY <1>1, <1>2, <1>3, AllocWriteMoves DEF ShellMoves
<1>4. CASE SendMessage("use_send", "prompt_alloc", <<"use">>) /\ UNCHANGED str
  BY <1>1, <1>4, SendMoves DEF ShellMoves
<1>5. CASE AllocWrite("prompt_alloc", "prompt_send", Prompt) /\ UNCHANGED str
  BY <1>1, <1>2, <1>5, AllocWriteMoves DEF ShellMoves
<1>6. CASE SendWrite("prompt_send", "recv", Prompt) /\ UNCHANGED str
  BY <1>1, <1>6, SendMoves DEF ShellMoves, SendWrite
<1>7. CASE /\ Goto(Command, "recv", "reply_alloc") /\ thread_recv(CONSINPUT)
           /\ Returned([ret EXCEPT ![Command] = NULL]) /\ UNCHANGED <<str, text>>
  BY <1>1, <1>7, ReceiveMoves DEF ShellMoves
<1>8. CASE str' = ret[Command] /\ AllocWrite("reply_alloc", "reply_send", Reply(text[str'])[1])
  <2>1. /\ mode = "run" /\ current = Command /\ pc[Command] = "reply_alloc"
    BY <1>8 DEF AllocWrite, Goto, thread_kmalloc, Syscall
  <2>2. text[str'] \in Lines
    BY <1>8, <2>1, ShellFinds DEF ShellInv
  <2>3. Reply(text[str'])[1] \in {<<"0">>} \cup Written
    BY <2>2, WrittenTyped
  <2> QED
    BY <1>1, <1>8, <2>3, AllocWriteMoves DEF ShellMoves
<1>9. CASE /\ SendWrite("reply_send", IF Len(Reply(text[str])) = 1 THEN "free" ELSE "end_alloc",
                        Reply(text[str])[1]) /\ UNCHANGED str
  BY <1>1, <1>9, SendMoves DEF ShellMoves, SendWrite
<1>10. CASE AllocWrite("end_alloc", "end_send", <<LF>>) /\ UNCHANGED str
  BY <1>1, <1>2, <1>10, AllocWriteMoves DEF ShellMoves
<1>11. CASE SendWrite("end_send", "free", <<LF>>) /\ UNCHANGED str
  BY <1>1, <1>11, SendMoves DEF ShellMoves, SendWrite
<1>12. CASE /\ Goto(Command, "free", "prompt_alloc") /\ thread_kmfree(str)
            /\ text' = [text EXCEPT ![str] = <<>>] /\ str' = NULL /\ UNCHANGED ret
  BY <1>1, <1>12, FreeMoves DEF ShellMoves
<1> QED
  BY <1>3, <1>4, <1>5, <1>6, <1>7, <1>8, <1>9, <1>10, <1>11, <1>12 DEF command_main
-----------------------------------------------------------------------------
(* The characters on their way to the screen, the driver not copying any. *)
OnTheWay == (IF port.tdre THEN <<>> ELSE <<port.tdr>>) \o cons.send

(* The moves of the handler: it may find no character, *)
Quiet ==
  /\ ~port.rdrf /\ cons'.recv = cons.recv
  /\ OnTheWay' = OnTheWay /\ Len(cons'.send) <= Len(cons.send)
  /\ UNCHANGED <<mode, ret, text, held>> /\ Waiting' = Waiting

(* or one that it echoes: *)
Echoes(c) ==
  /\ port.rdrf /\ c = Typed(port) /\ c \in Char
  /\ OnTheWay' = OnTheWay \o OnWire(<<c>>)
  /\ Len(cons'.send) <= Len(cons.send) + Len(OnWire(<<c>>))

(* a character of the line, *)
Extends ==
  /\ Echoes(Typed(port)) /\ Typed(port) # LF /\ cons'.recv = Append(cons.recv, Typed(port))
  /\ UNCHANGED <<mode, ret, text, held>> /\ Waiting' = Waiting

(* or its end, and there is no room for it, *)
LineEnds ==
  Echoes(LF) /\ cons.recv \in Lines /\ Len(Waiting) < MaxPending

Loses ==
  /\ LineEnds /\ mode' = "down" /\ NoRoomForLine /\ UNCHANGED <<ipcVars, ret>>
  /\ cons'.recv \in {cons.recv, <<>>} /\ Waiting' = Waiting

(* it is stored for the shell, *)
Stores ==
  /\ LineEnds /\ mode' = "run" /\ ~ShellWaits /\ ~ShellWaits' /\ cons'.recv = <<>>
  /\ UNCHANGED <<ret, held>>
  /\ MaxPending <= 2 => Waiting' = Append(Waiting, cons.recv)
  /\ Len(Waiting') <= Len(Waiting) + 1

(* or given to it. *)
Gives ==
  /\ LineEnds /\ mode' = "run" /\ ShellWaits /\ ~ShellWaits' /\ cons'.recv = <<>>
  /\ Waiting = <<>> /\ Waiting' = <<>>
  /\ \E b \in Block : /\ Unheld(b) /\ text'[b] = cons.recv
                      /\ held' = [held EXCEPT ![Command] = @ \cup {b}]
                      /\ ret' = [ret EXCEPT ![Command] = b]

HandlerAlone ==
  /\ mode = "run" /\ ~BeforeUse /\ ~Opening /\ pc[Consdrv] \notin Section
  /\ UNCHANGED <<pc, msg, str>> /\ DriverWaits' = DriverWaits /\ ~port'.rdrf
  /\ cons'.send_buf = cons.send_buf /\ cons'.recv_buf = cons.recv_buf
  /\ SameText(held[Consdrv]) /\ SameText(held[Command])

HandlerMoves == Quiet \/ Extends \/ Loses \/ Stores \/ Gives

(* What the handler leaves in the driver's record. *)
LEMMA LeavesBy ==
  ASSUME NEW d, Serves(d), ~d.port.rdrf, NEW line \in Seq(Char),
         SetDriver([d EXCEPT !.cons.recv = line])
  PROVE  /\ cons'.recv = line /\ ~port'.rdrf /\ cons'.send = d.cons.send
         /\ cons'.send_buf = cons.send_buf /\ cons'.recv_buf = cons.recv_buf
         /\ OnTheWay' = Wire(d)
<1>1. d \in Drivers /\ d.cons \in Consreg
  BY DEF Serves, Drivers
<1>2. PICK c \in Consreg : c = [d.cons EXCEPT !.recv = line]
  BY <1>1 DEF Consreg
<1>3. PICK e \in Drivers : e = [d EXCEPT !.cons = c]
  BY <1>1 DEF Drivers
<1>4. [d EXCEPT !.cons.recv = line] = e
  BY <1>2, <1>3
<1>5. cons' = c /\ port' = d.port
  BY <1>1, <1>3, <1>4 DEF SetDriver, Drivers
<1>6. /\ c.recv = line /\ c.send_buf = d.cons.send_buf /\ c.recv_buf = d.cons.recv_buf
      /\ c.send = d.cons.send
  BY <1>1, <1>2 DEF Consreg
<1> QED
  BY <1>5, <1>6 DEF Serves, Wire, OnTheWay

(* A line comes to the box, or to the shell that waits for one. *)
LEMMA LineMoves ==
  ASSUME ConsoleInv, KernelHolds', Handles, cons.recv \in Lines, Pending(CONSINPUT) < MaxPending,
         NEW i \in Pool, FirstFit(mem, CONS_SIZE, i),
         text' = [text EXCEPT ![mem.free[i]] = cons.recv],
         Post(rq, kzmem_alloc(mem, i), held, NULL, CONSINPUT, mem.free[i]), Returned(ret),
         mode' # "run" => UNCHANGED ipcVars
  PROVE  /\ SameText(held[Consdrv]) /\ SameText(held[Command])
         /\ \/ /\ mode' # "run" /\ UNCHANGED <<ipcVars, ret>> /\ Waiting' = Waiting
            \/ /\ mode' = "run" /\ DriverWaits' = DriverWaits
               /\ \/ /\ ~ShellWaits /\ ~ShellWaits' /\ UNCHANGED <<ret, held>>
                     /\ MaxPending <= 2 => Waiting' = Append(Waiting, cons.recv)
                     /\ Len(Waiting') <= Len(Waiting) + 1
                  \/ /\ ShellWaits /\ ~ShellWaits' /\ Waiting = <<>> /\ Waiting' = <<>>
                     /\ \E b \in Block : /\ Unheld(b) /\ text'[b] = cons.recv
                                         /\ held' = [held EXCEPT ![Command] = @ \cup {b}]
                                         /\ ret' = [ret EXCEPT ![Command] = b]
<1>1. PICK b : b = mem.free[i] /\ b # NULL
  BY DEF FirstFit, Fits
<1>2. /\ b \in Block
      /\ \/ mode' # "run" /\ UNCHANGED ipcVars
         \/ OthersSame(CONSINPUT) /\ (Queued(CONSINPUT, b, held) \/ Handed(CONSINPUT, b, held))
  BY <1>1, IntrPosts
<1>3. /\ KernelHolds /\ Always /\ Roles /\ ShellInv /\ InputInv
  BY IntrFinds
<1>4. /\ BlocksApart /\ text \in [Block -> Seq(Letter)] /\ ret \in [Thread -> Block \cup {NULL}]
      /\ held \in [Thread -> SUBSET Block] /\ BoxShape(mb) /\ WaitsEmpty(mb) /\ mb \in Boxes
  BY <1>3, Apart, Books DEF KernelHolds, KernelInv, IpcInv, Always, Types
<1>5. text'[b] = cons.recv /\ \A c \in Block : c # b => text'[c] = text[c]
  BY <1>1, <1>2, <1>4
<1>6. Unheld(b)
  BY <1>1, <1>2, <1>4 DEF BlocksApart, Unheld
<1>7. \A c \in Ends(mb, CONSINPUT) : mb.data[c] \in Block /\ text'[mb.data[c]] = text[mb.data[c]]
  BY <1>1, <1>3, <1>4, <1>5, Names DEF BlocksApart, InputInv
<1>8. SameText(held[Consdrv]) /\ SameText(held[Command])
  BY <1>4, <1>5, <1>6, Names DEF SameText, Unheld
<1>9. mb.head[CONSINPUT] # NULL => {mb.head[CONSINPUT], mb.tail[CONSINPUT]} \subseteq Ends(mb, CONSINPUT)
  BY <1>4, Names DEF BoxShape, Ends
<1>10. CASE mode' # "run" /\ UNCHANGED ipcVars
  <2>1. \A u \in Thread : held'[u] \subseteq held[u]
    BY <1>10 DEF ipcVars
  <2>2. ret' = [u \in Thread |-> ret[u]]
    BY <2>1, ReturnedNone
  <2>3. ret' = ret
    BY <1>4, <2>2
  <2>4. mb' = mb
    BY <1>10 DEF ipcVars
  <2>5. Waiting' = Waiting
    BY <1>7, <1>9, <2>4 DEF Waiting
  <2> QED
    BY <1>8, <1>10, <2>3, <2>5
<1>11. OthersSame(CONSINPUT) => DriverWaits' = DriverWaits
  BY Names DEF OthersSame, DriverWaits
<1>12. CASE mode' = "run" /\ OthersSame(CONSINPUT) /\ Queued(CONSINPUT, b, held)
  <2>1. held' = held /\ ~ShellWaits /\ ~ShellWaits'
    BY <1>12 DEF Queued, ShellWaits
  <2>2. ret' = [u \in Thread |-> ret[u]]
    BY <2>1, ReturnedNone
  <2>3. ret' = ret
    BY <1>4, <2>2
  <2>4. PICK h, e : h = mb.head[CONSINPUT] /\ e = mb.tail[CONSINPUT]
    OBVIOUS
  <2>5. PICK m \in Block : /\ mb'.data[m] = b /\ mb'.tail[CONSINPUT] = m
                           /\ mb'.head[CONSINPUT] = IF h = NULL THEN m ELSE h
                           /\ m \notin Ends(mb, CONSINPUT)
    BY <1>12, <2>4 DEF Queued
  <2>6. \A c \in Ends(mb, CONSINPUT) : mb'.data[c] = mb.data[c]
    BY <1>12 DEF Queued
  <2>7. PICK f, g : f = text[mb.data[h]] /\ g = text[mb.data[e]]
    OBVIOUS
  <2>8. Waiting = IF h = NULL THEN <<>> ELSE IF h = e THEN <<f>> ELSE <<f, g>>
    BY <2>4, <2>7 DEF Waiting
  <2>9. Waiting' = IF h = NULL THEN <<cons.recv>> ELSE <<f, cons.recv>>
    <3>1. text'[mb'.data[m]] = cons.recv /\ m # NULL
      BY <1>5, <2>5, Names
    <3>2. CASE h = NULL
      BY <2>5, <3>1, <3>2 DEF Waiting
    <3>3. CASE h # NULL
      <4>1. h \in Ends(mb, CONSINPUT) /\ h # m
        BY <1>9, <2>4, <2>5, <3>3
      <4>2. text'[mb'.data[h]] = f
        BY <1>7, <2>6, <2>7, <4>1
      <4> QED
        BY <2>5, <3>1, <3>3, <4>1, <4>2 DEF Waiting
    <3> QED
      BY <3>2, <3>3
  <2>10. MaxPending <= 2 => h = e
    BY <1>4, <2>4, PendingOne, Names
  <2>11. Len(Waiting') <= Len(Waiting) + 1
    BY <2>8, <2>9
  <2>12. h = NULL \/ h = e => Waiting' = Append(Waiting, cons.recv)
    <3>1. Append(<<>>, cons.recv) = <<cons.recv>>
      OBVIOUS
    <3>2. Append(<<f>>, cons.recv) = <<f, cons.recv>>
      BY AppendToOne
    <3>3. CASE h = NULL
      BY <2>8, <2>9, <3>1, <3>3
    <3>4. CASE h # NULL
      BY <2>8, <2>9, <3>2, <3>4
    <3> QED
      BY <3>3, <3>4
  <2> QED
    BY <1>8, <1>11, <1>12, <2>1, <2>3, <2>10, <2>11, <2>12
<1>13. CASE mode' = "run" /\ OthersSame(CONSINPUT) /\ Handed(CONSINPUT, b, held)
  <2>1. /\ mb.reciever[CONSINPUT] = Command /\ mb'.reciever[CONSINPUT] = NULL
        /\ mb'.head[CONSINPUT] = NULL /\ held' = [held EXCEPT ![Command] = @ \cup {b}]
    BY <1>2, <1>3, <1>13, Names DEF Handed, Roles
  <2>2. mb.head[CONSINPUT] = NULL
    BY <1>4, <2>1, Names DEF WaitsEmpty
  <2>3. /\ held'[Command] = held[Command] \cup {b} /\ b \notin held[Command]
        /\ \A u \in Thread : u # Command => held'[u] \subseteq held[u]
    BY <1>4, <1>6, <2>1, Names DEF Unheld
  <2>4. ret' = [u \in Thread |-> IF u = Command THEN b ELSE ret[u]]
    BY <2>3, Names, ReturnedOne
  <2>5. ret' = [ret EXCEPT ![Command] = b]
    BY <1>4, <2>4
  <2>6. Waiting = <<>> /\ Waiting' = <<>> /\ ShellWaits /\ ~ShellWaits'
    BY <2>1, <2>2, Names DEF Waiting, ShellWaits
  <2> QED
    BY <1>2, <1>5, <1>6, <1>8, <1>11, <1>13, <2>1, <2>5, <2>6
<1> QED
  BY <1>2, <1>10, <1>12, <1>13

LEMMA NoLonger ==
  ASSUME NEW s \in Seq(Char), NEW t \in Seq(Char), NEW u \in Seq(Char), NEW w \in Seq(Char),
         Len(t) <= Len(s), Len(u) <= Len(t) + Len(w)
  PROVE  Len(u) <= Len(s) + Len(w)
<1>1. Len(s) \in Nat /\ Len(t) \in Nat /\ Len(u) \in Nat /\ Len(w) \in Nat
  BY LenProperties
<1> QED
  BY <1>1

LEMMA IntrMoves ==
  ASSUME ConsoleInv, KernelHolds', consdrv_intr
  PROVE  HandlerAlone /\ HandlerMoves
<1>1. PICK d, e : d = SendPart(Driver) /\ e = Echoed(d)
  OBVIOUS
<1>2. Handles /\ mode = "run" /\ UNCHANGED <<pc, msg, str>>
  BY DEF consdrv_intr, Handles, threadVars
<1>3. /\ KernelHolds /\ Always /\ Roles /\ pc[Consdrv] \notin Section /\ ~BeforeUse /\ ~Opening
      /\ Serves(d) /\ d.port.rdrf = port.rdrf /\ d.port.rdr = port.rdr
      /\ Wire(d) = OnTheWay /\ Len(d.cons.send) <= Len(cons.send)
      /\ port.rdrf => Typed(port) \in Char
      /\ port.rdrf /\ Typed(port) = LF => cons.recv \in Lines /\ Pending(CONSINPUT) < MaxPending
  <2>1. Wire(Driver) = OnTheWay
    BY DEF Wire, Driver, OnTheWay
  <2> QED
    BY <1>1, <1>2, <2>1, IntrFinds
<1>4. cons \in Consreg /\ cons.recv \in Seq(Char) /\ cons.send \in Seq(Char) /\ d.cons.send \in Seq(Char)
  BY <1>3 DEF Always, Types, Consreg, Serves, Drivers
<1>5. port.rdrf => /\ Serves(e) /\ ~e.port.rdrf /\ Wire(e) = OnTheWay \o OnWire(<<Typed(port)>>)
                   /\ Len(e.cons.send) <= Len(d.cons.send) + Len(OnWire(<<Typed(port)>>))
                   /\ e.cons.send \in Seq(Char)
  <2> SUFFICES ASSUME port.rdrf
               PROVE  /\ Serves(e) /\ ~e.port.rdrf
                      /\ Wire(e) = OnTheWay \o OnWire(<<Typed(port)>>)
                      /\ Len(e.cons.send) <= Len(d.cons.send) + Len(OnWire(<<Typed(port)>>))
                      /\ e.cons.send \in Seq(Char)
    OBVIOUS
  <2>1. Typed(d.port) = Typed(port)
    BY <1>3 DEF Typed
  <2>2. /\ Serves(e) /\ ~e.port.rdrf /\ Wire(e) = Wire(d) \o OnWire(<<Typed(d.port)>>)
        /\ Len(e.cons.send) <= Len(d.cons.send) + Len(OnWire(<<Typed(d.port)>>))
    BY <1>1, <1>3, <2>1, EchoedServes
  <2> QED
    BY <1>3, <2>1, <2>2 DEF Serves, Drivers, Consreg
<1>6. port.rdrf => Len(e.cons.send) <= Len(cons.send) + Len(OnWire(<<Typed(port)>>))
  <2> SUFFICES ASSUME port.rdrf
               PROVE  Len(e.cons.send) <= Len(cons.send) + Len(OnWire(<<Typed(port)>>))
    OBVIOUS
  <2>1. <<Typed(port)>> \in Seq(Char)
    BY <1>3
  <2>2. OnWire(<<Typed(port)>>) \in Seq(Char)
    BY <2>1, OnWireTyped
  <2> QED
    <3>1. e.cons.send \in Seq(Char) /\ Len(d.cons.send) <= Len(cons.send)
          /\ Len(e.cons.send) <= Len(d.cons.send) + Len(OnWire(<<Typed(port)>>))
      BY <1>3, <1>5
    <3> QED
      BY <1>4, <2>2, <3>1, NoLonger
<1>7. ASSUME Served, OnTheWay' = OnTheWay \/ port.rdrf, ~port'.rdrf,
             UNCHANGED <<ipcVars, ret, text>>
      PROVE  HandlerAlone /\ Waiting' = Waiting /\ held' = held
  BY <1>2, <1>3, <1>7 DEF HandlerAlone, Served, SameText, Waiting, DriverWaits, ipcVars
<1>8. KernelHolds => Pending(CONSINPUT) = Len(Waiting)
  BY WaitingLen
<1>9. ASSUME UNCHANGED ipcVars, Dispatch(rq) PROVE mode' = mode
  <2>1. /\ func' = func /\ syscall' = syscall /\ mb' = mb
    BY <1>2, <1>9 DEF Handles, ipcVars
  <2>2. IdleStays
    BY <1>3, <2>1, IdleKept DEF IdleStays
  <2> QED
    BY <2>2, <1>9, Dispatched
<1>10. CASE ~port.rdrf /\ SetDriver(d) /\ Dispatch(rq) /\ UNCHANGED <<ipcVars, ret, text>>
  <2>1. /\ Served /\ OnTheWay' = OnTheWay /\ ~port'.rdrf /\ cons'.recv = cons.recv
        /\ Len(cons'.send) <= Len(cons.send)
    <3>1. cons' = d.cons /\ port' = d.port
      BY <1>10 DEF SetDriver
    <3>2. Served
      BY <1>3, <1>10, <3>1 DEF Served, Serves, Drivers
    <3>3. OnTheWay' = Wire(d)
      BY <3>1, Zenon DEF OnTheWay, Wire
    <3> QED
      BY <1>3, <1>10, <3>1, <3>2, <3>3 DEF Serves
  <2> QED
    <3>1. HandlerAlone /\ Waiting' = Waiting /\ held' = held
      BY <1>7, <1>10, <2>1
    <3>2. mode' = mode /\ ret' = ret /\ text' = text
      BY <1>9, <1>10
    <3>3. Quiet
      BY <1>10, <2>1, <3>1, <3>2 DEF Quiet
    <3> QED
      BY <3>1, <3>3 DEF HandlerMoves
<1>11. CASE /\ port.rdrf /\ Typed(port) # LF
            /\ SetDriver([e EXCEPT !.cons.recv = Append(@, Typed(port))])
            /\ Dispatch(rq) /\ UNCHANGED <<ipcVars, ret, text>>
  <2>1. PICK line : line = Append(cons.recv, Typed(port)) /\ line \in Seq(Char)
    <3>1. Typed(port) \in Char /\ cons.recv \in Seq(Char)
      BY <1>3, <1>4, <1>11
    <3>2. Append(cons.recv, Typed(port)) \in Seq(Char)
      BY <3>1
    <3> QED
      BY <3>2
  <2>2. SetDriver([e EXCEPT !.cons.recv = line])
    BY <1>5, <1>11, <2>1 DEF Serves
  <2>3. Served
    BY <1>5, <1>11, <2>1, <2>2, ServedBy
  <2>4. cons'.recv = line /\ ~port'.rdrf /\ cons'.send = e.cons.send /\ OnTheWay' = Wire(e)
    BY <1>5, <1>11, <2>1, <2>2, LeavesBy
  <2>5. Echoes(Typed(port))
    BY <1>3, <1>5, <1>6, <1>11, <2>4 DEF Echoes
  <2> QED
    BY <1>7, <1>9, <1>11, <2>1, <2>3, <2>4, <2>5 DEF HandlerMoves, Extends
<1>12. CASE /\ port.rdrf /\ Typed(port) = LF /\ NoFit(mem, CONS_SIZE) /\ Halt("down")
            /\ SetDriver(e) /\ UNCHANGED <<ret, text>>
  <2>1. Served /\ ~port'.rdrf /\ cons'.recv = cons.recv /\ OnTheWay' = Wire(e)
        /\ cons'.send = e.cons.send
    BY <1>5, <1>12 DEF SetDriver, Served, Serves, Drivers, Wire, OnTheWay
  <2>2. Echoes(LF)
    BY <1>3, <1>5, <1>6, <1>12, <2>1 DEF Echoes
  <2>3. mode' = "down" /\ NoRoomForLine /\ UNCHANGED ipcVars
    BY <1>12 DEF Halt, NoRoomForLine, ipcVars
  <2>4. LineEnds
    BY <1>3, <1>8, <1>12, <2>2 DEF LineEnds
  <2> QED
    BY <1>7, <1>12, <2>1, <2>3, <2>4 DEF HandlerMoves, Loses
<1>13. ASSUME port.rdrf, Typed(port) = LF, SetDriver([e EXCEPT !.cons.recv = <<>>]), Returned(ret),
              NEW i \in Pool, FirstFit(mem, CONS_SIZE, i),
              text' = [text EXCEPT ![mem.free[i]] = cons.recv],
              Post(rq, kzmem_alloc(mem, i), held, NULL, CONSINPUT, mem.free[i])
       PROVE  HandlerAlone /\ HandlerMoves
  <2>1. PICK line : line = <<>> /\ line \in Seq(Char)
    <3>1. <<>> \in Seq(Char)
      OBVIOUS
    <3> QED
      BY <3>1
  <2>2. SetDriver([e EXCEPT !.cons.recv = line])
    BY <1>13, <2>1
  <2>3. Served
    BY <1>5, <1>13, <2>1, <2>2, ServedBy
  <2>4. cons'.recv = <<>> /\ ~port'.rdrf /\ cons'.send = e.cons.send /\ OnTheWay' = Wire(e)
    BY <1>5, <1>13, <2>1, <2>2, LeavesBy
  <2>5. Echoes(LF)
    BY <1>3, <1>5, <1>6, <1>13, <2>4 DEF Echoes
  <2>6. LineEnds
    BY <1>3, <1>8, <1>13, <2>5 DEF LineEnds
  <2>7. /\ SameText(held[Consdrv]) /\ SameText(held[Command])
        /\ \/ /\ mode' # "run" /\ UNCHANGED <<ipcVars, ret>> /\ Waiting' = Waiting
           \/ /\ mode' = "run" /\ DriverWaits' = DriverWaits
              /\ \/ /\ ~ShellWaits /\ ~ShellWaits' /\ UNCHANGED <<ret, held>>
                    /\ MaxPending <= 2 => Waiting' = Append(Waiting, cons.recv)
                    /\ Len(Waiting') <= Len(Waiting) + 1
                 \/ /\ ShellWaits /\ ~ShellWaits' /\ Waiting = <<>> /\ Waiting' = <<>>
                    /\ \E b \in Block : /\ Unheld(b) /\ text'[b] = cons.recv
                                        /\ held' = [held EXCEPT ![Command] = @ \cup {b}]
                                        /\ ret' = [ret EXCEPT ![Command] = b]
    BY <1>2, <1>3, <1>13, IntrStops, LineMoves
  <2>8. DriverWaits' = DriverWaits
    BY <2>7 DEF DriverWaits, ipcVars
  <2>9. HandlerAlone
    BY <1>2, <1>3, <2>3, <2>4, <2>7, <2>8 DEF HandlerAlone, Served
  <2>10. CASE mode' # "run"
    <3>1. mode' = "down" /\ NoRoomForLine /\ UNCHANGED ipcVars
      BY <2>10, IntrStops
    <3>2. ret' = ret /\ Waiting' = Waiting
      BY <1>3, <2>7, <3>1 DEF ipcVars
    <3> QED
      BY <2>4, <2>6, <2>9, <3>1, <3>2 DEF HandlerMoves, Loses
  <2>11. CASE mode' = "run"
    BY <2>4, <2>6, <2>7, <2>9, <2>11 DEF HandlerMoves, Stores, Gives
  <2> QED
    BY <2>10, <2>11
<1> QED
  BY <1>1, <1>10, <1>11, <1>12, <1>13 DEF consdrv_intr
-----------------------------------------------------------------------------
(* The moves of the rest: idle and the person who waits, a character on the line, a key. *)
Shows ==
  /\ ~port.tdre /\ port'.tdre /\ port'.rdrf = port.rdrf /\ port'.rdr = port.rdr

Presses(c) ==
  /\ ~port.rdrf /\ port'.rdrf /\ port'.rdr = c
  /\ port'.tdre = port.tdre /\ port'.tdr = port.tdr
  /\ Len(cons.send) <= OutLimit
  /\ c = CR => cons.recv \in Lines /\ Len(Waiting) < TypeAhead
  /\ c # CR => \E l \in Lines : Seqs!IsPrefix(Append(cons.recv, c), l)

Elsewhere ==
  /\ mode = "run" /\ mode' = "run" /\ pc'[Consdrv] = pc[Consdrv] /\ pc'[Command] = pc[Command]
  /\ UNCHANGED <<ret, shellVars, cons, mb, held>> /\ Waiting' = Waiting
  /\ port' = port \/ Shows \/ \E c \in Char \ {LF} : Presses(c)

LEMMA ElsewhereMoves ==
  ASSUME ConsoleInv, KernelHolds', mode = "run",
         start_threads \/ Transmit \/ (\E c \in Char \ {LF} : PressKey(c)) \/ UNCHANGED allVars
  PROVE  Elsewhere
<1>1. port \in Port(Char) /\ DOMAIN pc = Thread /\ Pending(CONSINPUT) = Len(Waiting)
  BY WaitingLen DEF ConsoleInv, Always, Types
<1>2. CASE start_threads
  <2>1. /\ current = Idle /\ UNCHANGED <<ret, shellVars, cons, port, mb, held>>
        /\ \E to : pc' = [pc EXCEPT ![Idle] = to]
    BY <1>2 DEF start_threads, Goto, thread_run, thread_chpri, intr_enable, SetCcr, Syscall,
       Halt, ipcVars, vars
  <2>2. mode' = "run"
    BY <1>2, StartGoesOn
  <2>3. Waiting' = Waiting
    BY <2>1 DEF Waiting, shellVars
  <2> QED
    BY <1>1, <2>1, <2>2, <2>3, Names DEF Elsewhere
<1>3. ASSUME UNCHANGED <<vars, pc, ret, shellVars, cons>>,
             port' = port \/ Shows \/ \E c \in Char \ {LF} : Presses(c)
      PROVE  Elsewhere
  BY <1>3 DEF Elsewhere, Waiting, shellVars, vars, ipcVars
<1>4. CASE Transmit
  <2>1. /\ ~port.tdre /\ port' = [port EXCEPT !.tdre = TRUE, !.tdr = NoChar]
        /\ UNCHANGED <<vars, pc, ret, shellVars, cons>>
    BY <1>4 DEF Transmit, Sent
  <2>2. Shows
    BY <1>1, <2>1 DEF Shows, Port
  <2> QED
    BY <1>3, <2>1, <2>2
<1>5. ASSUME NEW c \in Char \ {LF}, PressKey(c) PROVE Elsewhere
  <2>1. /\ ~port.rdrf /\ port' = Received(port, c)
        /\ Len(cons.send) <= OutLimit
        /\ IF c = CR THEN cons.recv \in Lines /\ Pending(CONSINPUT) < TypeAhead
           ELSE \E l \in Lines : Seqs!IsPrefix(Append(cons.recv, c), l)
        /\ UNCHANGED <<vars, pc, ret, shellVars, cons>>
    BY <1>5, Zenon DEF PressKey
  <2>2. /\ port'.rdrf /\ port'.rdr = c /\ port'.tdre = port.tdre /\ port'.tdr = port.tdr
    BY <1>1, <2>1 DEF Received, Port
  <2>3. Presses(c)
    BY <1>1, <2>1, <2>2, Zenon DEF Presses
  <2> QED
    BY <1>3, <2>1, <2>3
<1>6. CASE UNCHANGED allVars
  <2>1. UNCHANGED <<vars, pc, ret, shellVars, cons>> /\ port' = port
    BY <1>6 DEF allVars
  <2> QED
    BY <1>3, <2>1
<1> QED
  BY <1>2, <1>4, <1>5, <1>6

(* Every step of the console is a move of one of them, *)
LEMMA Moves ==
  ASSUME ConsoleInv, [ConsoleNext]_allVars, mode = "run"
  PROVE  \/ Elsewhere
         \/ DriverAlone /\ DriverMoves
         \/ ShellAlone /\ ShellMoves
         \/ HandlerAlone /\ HandlerMoves
<1>1. KernelHolds'
  BY ConsoleKernel, NextHolds DEF ConsoleInv
<1>2. CASE consdrv_main \/ consdrv_command_use \/ consdrv_command_write
  BY <1>1, <1>2, MainMoves, UseMoves, WriteMoves DEF DriverMoves
<1>3. CASE command_main
  BY <1>1, <1>3, CommandMoves
<1>4. CASE consdrv_intr
  BY <1>1, <1>4, IntrMoves
<1>5. CASE start_threads \/ Transmit \/ (\E c \in Char \ {LF} : PressKey(c)) \/ UNCHANGED allVars
  BY <1>1, <1>5, ElsewhereMoves
<1> QED
  BY <1>2, <1>3, <1>4, <1>5 DEF ConsoleNext, Threads, Halted

(* unless it has stopped. *)
LEMMA DownAll ==
  ASSUME mode # "run", [ConsoleNext]_allVars
  PROVE  UNCHANGED allVars
<1>1. ~Threads
  BY DEF Threads, start_threads, consdrv_main, consdrv_command_use, consdrv_command_write,
     command_main, AllocWrite, SendWrite, SendMessage, Goto, intr_enable, intr_disable, SetCcr,
     thread_run, thread_chpri, thread_setintr, thread_recv, thread_kmfree, thread_kmalloc,
     thread_send, Syscall
<1>2. ~consdrv_intr /\ ~Transmit /\ ~\E c \in Char \ {LF} : PressKey(c)
  BY DEF consdrv_intr, Transmit, PressKey
<1> QED
  BY <1>1, <1>2 DEF ConsoleNext, Halted
-----------------------------------------------------------------------------
(* The blocks a thread needs at each of its labels, besides the two buffers of the
   driver. *)
DriverOwn ==
  {b \in {msg} : pc[Consdrv] \in {"use_recv", "use_init", "free"} \cup Section}
    \cup {b \in {ret[Consdrv]} : Told \/ Opening}

ShellOwn ==
  {b \in {ret[Command]} :
     pc[Command] \in {"use_send", "prompt_send", "reply_alloc", "reply_send", "end_send"}}
    \cup {b \in {str} : pc[Command] \in {"reply_send", "end_alloc", "end_send", "free"}}

(* They hold no others: nothing is forgotten.  While the port has no user there is
   nothing in the shell's box; and the driver works only on what the shell has
   just sent. *)
HeldInv ==
  /\ \A t \in Thread \ {Consdrv, Command} : held[t] = {}
  /\ held[Consdrv] \subseteq {cons.send_buf, cons.recv_buf} \cup DriverOwn
  /\ held[Command] \subseteq ShellOwn
  /\ BeforeUse \/ Opening =>
       /\ Waiting = <<>> /\ cons.recv_buf = NULL
       /\ pc[Command] \in {"use_alloc", "use_send", "prompt_alloc"}
  /\ BeforeUse \/ pc[Consdrv] = "use_recv" => cons.send_buf = NULL
  /\ ~DriverWaits => pc[Command] \in {"use_alloc", "prompt_alloc", "recv", "end_alloc", "free"}

(* The string the driver copies is the last in the buffer until that is sent. *)
CopyInv ==
  pc[Consdrv] \in {"write_test", "write_start"} =>
    \E u \in Seq(Char) : cons.send = u \o OnWire(Tail(text[msg]))

MovesInv == mode = "run" => HeldInv /\ CopyInv

(* What is known of a system that runs. *)
LEMMA RunsWith ==
  ASSUME ConsoleInv, mode = "run"
  PROVE  /\ KernelHolds /\ Always /\ Labels /\ Roles /\ DriverInv /\ UseInv /\ ShellInv
         /\ InputInv /\ PortInv /\ BlocksApart
         /\ ret \in [Thread -> Block \cup {NULL}] /\ text \in [Block -> Seq(Letter)]
         /\ held \in [Thread -> SUBSET Block] /\ cons \in Consreg /\ port \in Port(Char)
         /\ cons.send \in Seq(Char) /\ cons.recv \in Seq(Char) /\ DOMAIN pc = Thread
         /\ msg \in Block \cup {NULL} /\ str \in Block \cup {NULL}
<1>1. /\ KernelHolds /\ Always /\ Labels /\ Roles /\ DriverInv /\ UseInv /\ ShellInv
      /\ InputInv /\ PortInv /\ BlocksApart
  BY Apart DEF ConsoleInv, RunInv
<1> QED
  BY <1>1, Books DEF KernelHolds, Always, Types, Consreg

LEMMA HeldElsewhere ==
  ASSUME ConsoleInv, MovesInv, Elsewhere
  PROVE  MovesInv'
BY DEF MovesInv, HeldInv, CopyInv, Elsewhere, DriverOwn, ShellOwn, BeforeUse, Opening, Told,
   DriverWaits, shellVars

LEMMA HeldHandler ==
  ASSUME ConsoleInv, MovesInv, HandlerAlone, HandlerMoves
  PROVE  MovesInv'
<1>1. /\ DriverInv /\ ShellInv /\ HeldInv /\ ret \in [Thread -> Block \cup {NULL}]
      /\ held \in [Thread -> SUBSET Block] /\ mode = "run"
  BY RunsWith DEF MovesInv, HandlerAlone
<1>2. ret'[Consdrv] = ret[Consdrv] /\ \A t \in Thread \ {Command} : held'[t] = held[t]
  BY <1>1, Names DEF HandlerMoves, Quiet, Extends, Loses, Stores, Gives, ipcVars
<1>3. DriverOwn' = DriverOwn
  BY <1>2 DEF HandlerAlone, DriverOwn, Told, Opening
<1>4. ~BeforeUse' /\ ~Opening' /\ pc'[Consdrv] # "use_recv"
  BY <1>1, <1>2 DEF HandlerAlone, BeforeUse, Opening, Told, DriverInv, SameText
<1>5. CopyInv'
  BY DEF HandlerAlone, CopyInv, Section
<1>6. held'[Command] \subseteq ShellOwn'
  <2>1. CASE held' = held /\ ret' = ret
    BY <1>1, <2>1 DEF HeldInv, ShellOwn, HandlerAlone
  <2>2. CASE Gives
    <3>1. pc[Command] = "reply_alloc" /\ ret[Command] = NULL
      BY <1>1, <2>2 DEF Gives, ShellInv
    <3>2. held[Command] = {}
      BY <1>1, <3>1, Names DEF HeldInv, ShellOwn
    <3>3. PICK b \in Block : held'[Command] = {b} /\ ret'[Command] = b
      BY <1>1, <2>2, <3>2, Names DEF Gives
    <3> QED
      BY <3>1, <3>3 DEF ShellOwn, HandlerAlone
  <2> QED
    BY <2>1, <2>2 DEF HandlerMoves, Quiet, Extends, Loses, Stores, ipcVars
<1>7. HeldInv'
  BY <1>1, <1>2, <1>3, <1>4, <1>6, Names DEF HeldInv, HandlerAlone
<1> QED
  BY <1>5, <1>7 DEF MovesInv

LEMMA HeldShell ==
  ASSUME ConsoleInv, MovesInv, ShellAlone, ShellMoves
  PROVE  MovesInv'
<1>1. /\ ShellInv /\ HeldInv /\ ret \in [Thread -> Block \cup {NULL}]
      /\ text \in [Block -> Seq(Letter)] /\ held \in [Thread -> SUBSET Block] /\ mode = "run"
  BY RunsWith DEF MovesInv, ShellAlone
<1>2. /\ CopyInv' /\ ~Opening /\ ~Opening' /\ ~Told /\ DriverOwn = {}
      /\ pc'[Consdrv] # "use_recv" /\ cons' = cons /\ DriverWaits
  BY DEF CopyInv, ShellAlone, Opening, Told, DriverOwn, Section
<1>3. ASSUME NEW from, NEW to, Allocates(from, to), mode' = "run",
             from \in {"use_alloc", "prompt_alloc", "reply_alloc", "end_alloc"},
             to = IF from = "use_alloc" THEN "use_send" ELSE IF from = "prompt_alloc" THEN "prompt_send"
                  ELSE IF from = "reply_alloc" THEN "reply_send" ELSE "end_send"
      PROVE  HeldInv'
  <2>1. PICK b \in Block : /\ held' = [held EXCEPT ![Command] = @ \cup {b}]
                           /\ ret' = [ret EXCEPT ![Command] = b]
    BY <1>3 DEF Allocates, GainsOrNot, Gains, RunsOut
  <2>2. /\ held'[Command] = held[Command] \cup {b} /\ ret'[Command] = b
        /\ ret'[Consdrv] = ret[Consdrv] /\ \A t \in Thread \ {Command} : held'[t] = held[t]
    BY <1>1, <2>1, Names
  <2>3. /\ pc[Command] = from /\ pc'[Command] = to /\ DriverWaits' /\ Waiting' = Waiting
        /\ str' = IF from = "reply_alloc" THEN ret[Command] ELSE str
    BY <1>3 DEF Allocates, Goes
  <2>4. BeforeUse' => BeforeUse
    BY <1>3, <2>3 DEF BeforeUse, Told
  <2>5. held'[Command] \subseteq ShellOwn'
    BY <1>1, <1>3, <2>2, <2>3 DEF HeldInv, ShellOwn
  <2>6. BeforeUse' => pc'[Command] \in {"use_alloc", "use_send", "prompt_alloc"}
    BY <2>3 DEF BeforeUse, Told
  <2> QED
    BY <1>1, <1>2, <2>2, <2>3, <2>4, <2>5, <2>6, Names DEF HeldInv
<1>4. ASSUME NEW from, NEW to, NEW m, Sends(from, to, m), mode' = "run",
             from \in {"use_send", "prompt_send", "reply_send", "end_send"},
             m = <<"use">> => from = "use_send" /\ to = "prompt_alloc",
             to \in {"prompt_alloc", "recv", "end_alloc", "free"},
             to \in {"end_alloc", "free"} <=> from \in {"reply_send", "end_send"}
      PROVE  HeldInv'
  <2>1. PICK b \in Block : b = ret[Command]
    BY <1>1, <1>4, Names DEF Sends
  <2>2. /\ held' = [[held EXCEPT ![Command] = @ \ {b}] EXCEPT ![Consdrv] = @ \cup {b}]
        /\ ret' = [ret EXCEPT ![Consdrv] = b] /\ text' = [text EXCEPT ![b] = m]
        /\ ~DriverWaits' /\ pc[Command] = from /\ pc'[Command] = to /\ Waiting' = Waiting
        /\ str' = str
    BY <1>4, <2>1 DEF Sends, Goes, RunsOut
  <2>3. /\ held'[Command] = held[Command] \ {b} /\ held'[Consdrv] = held[Consdrv] \cup {b}
        /\ \A t \in Thread \ {Command, Consdrv} : held'[t] = held[t]
        /\ ret'[Consdrv] = b /\ ret'[Command] = b /\ text'[b] = m
    BY <1>1, <2>1, <2>2, Names
  <2>4. DriverOwn' = {b}
    BY <2>2, <2>3 DEF DriverOwn, Told, ShellAlone, Section
  <2>5. held'[Command] \subseteq ShellOwn'
    BY <1>1, <1>4, <2>1, <2>2, <2>3 DEF HeldInv, ShellOwn
  <2>6. BeforeUse' => from = "use_send" /\ to = "prompt_alloc" /\ BeforeUse
    BY <1>4, <2>2, <2>3 DEF BeforeUse
  <2> QED
    BY <1>1, <1>2, <1>4, <2>2, <2>3, <2>4, <2>5, <2>6, Names DEF HeldInv
<1>5. CASE Receives
  <2>1. /\ ~BeforeUse' /\ DriverWaits' /\ pc[Command] = "recv" /\ pc'[Command] = "reply_alloc"
    BY <1>5 DEF Receives, BeforeUse, Told, Goes
  <2>2. held[Command] = {}
    BY <1>1, <2>1 DEF HeldInv, ShellOwn
  <2>3. held'[Command] \subseteq {ret'[Command]} /\ \A t \in Thread \ {Command} : held'[t] = held[t]
    BY <1>1, <1>5, <2>2, Names DEF Receives
  <2>4. held'[Command] \subseteq ShellOwn'
    BY <2>1, <2>3 DEF ShellOwn
  <2> QED
    BY <1>1, <1>2, <2>1, <2>3, <2>4, Names DEF HeldInv, MovesInv
<1>6. CASE FreesLine
  <2>1. /\ ~BeforeUse' /\ DriverWaits' /\ pc[Command] = "free" /\ pc'[Command] = "prompt_alloc"
    BY <1>6 DEF FreesLine, BeforeUse, Told, Goes
  <2>2. held[Command] \subseteq {str}
    BY <1>1, <2>1 DEF HeldInv, ShellOwn
  <2>3. held'[Command] = {} /\ \A t \in Thread \ {Command} : held'[t] = held[t]
    BY <1>1, <1>6, <2>2, Names DEF FreesLine
  <2> QED
    BY <1>1, <1>2, <2>1, <2>3, Names DEF HeldInv, MovesInv
<1>7. \A s \in Written : <<"write">> \o s # <<"use">>
  BY MessageTyped
<1>8. CASE Sends("reply_send", IF Len(Reply(text[str])) = 1 THEN "free" ELSE "end_alloc",
                 <<"write">> \o Reply(text[str])[1]) /\ mode' = "run"
  <2>1. Reply(text[str])[1] \in Written
    BY <1>1, <1>8, WrittenTyped DEF Sends, Goes, ShellInv
  <2> QED
    BY <1>2, <1>4, <1>7, <1>8, <2>1 DEF MovesInv
<1>9. CASE mode' # "run"
  BY <1>9 DEF MovesInv
<1>10. CASE mode' = "run" /\ \/ Allocates("use_alloc", "use_send")
                             \/ Allocates("prompt_alloc", "prompt_send")
                             \/ Allocates("reply_alloc", "reply_send")
                             \/ Allocates("end_alloc", "end_send")
  BY <1>2, <1>3, <1>10 DEF MovesInv
<1>11. CASE mode' = "run" /\ \/ Sends("use_send", "prompt_alloc", <<"use">>)
                             \/ Sends("prompt_send", "recv", <<"write">> \o Prompt)
                             \/ Sends("end_send", "free", <<"write">> \o <<LF>>)
  BY <1>2, <1>4, <1>7, <1>11, WrittenTyped DEF MovesInv
<1> QED
  BY <1>2, <1>5, <1>6, <1>8, <1>9, <1>10, <1>11 DEF ShellMoves, MovesInv

LEMMA HeldDriver ==
  ASSUME ConsoleInv, MovesInv, DriverAlone, DriverMoves
  PROVE  MovesInv'
<1>1. /\ DriverInv /\ HeldInv /\ Roles /\ ret \in [Thread -> Block \cup {NULL}]
      /\ held \in [Thread -> SUBSET Block] /\ mode = "run" /\ cons \in Consreg
      /\ cons.send \in Seq(Char) /\ text \in [Block -> Seq(Letter)] /\ Labels
  BY RunsWith DEF MovesInv, DriverAlone
<1>2. /\ ~DriverWaits /\ pc'[Command] = pc[Command] /\ ret'[Command] = ret[Command] /\ str' = str
      /\ Waiting' = Waiting /\ \A t \in Thread \ {Consdrv} : held'[t] = held[t]
  BY DEF DriverAlone
<1>3. held'[Command] \subseteq ShellOwn' /\ \A t \in Thread \ {Consdrv, Command} : held'[t] = {}
  BY <1>1, <1>2, Names DEF HeldInv, ShellOwn
<1>4. pc'[Command] \in {"use_alloc", "prompt_alloc", "recv", "end_alloc", "free"}
  BY <1>1, <1>2 DEF HeldInv
<1>5. ASSUME NEW from, NEW to, Goes(Consdrv, from, to), to # "command" \/ DriverWaits'
      PROVE  /\ ~Told'
             /\ BeforeUse' => BeforeUse /\ from \in {"setintr", "recv"}
             /\ Opening' <=> to \in {"use_recv", "use_init"}
  BY <1>1, <1>2, <1>5 DEF Goes, Told, BeforeUse, Opening, DriverInv
(* Besides the memory of the driver there is only what concerns a port without a user. *)
<1>6. ASSUME held'[Consdrv] \subseteq {cons'.send_buf, cons'.recv_buf} \cup DriverOwn',
             BeforeUse' \/ Opening' => (BeforeUse \/ Opening) /\ cons'.recv_buf = NULL,
             BeforeUse' \/ pc'[Consdrv] = "use_recv" => cons'.send_buf = NULL
      PROVE  HeldInv'
  BY <1>1, <1>2, <1>3, <1>4, <1>6 DEF HeldInv
<1>7. ASSUME NEW from, NEW to, Goes(Consdrv, from, to), to # "command" \/ DriverWaits',
             from \notin {"use_recv", "use_init"}, to \notin {"use_recv", "use_init"},
             held'[Consdrv] \subseteq {cons.send_buf, cons.recv_buf} \cup DriverOwn',
             cons'.send_buf = cons.send_buf, cons'.recv_buf = cons.recv_buf
      PROVE  HeldInv'
  BY <1>1, <1>5, <1>6, <1>7 DEF HeldInv, Goes
<1>8. CASE SetsHandler \/ Awaits
  <2>1. PICK from, to : /\ Goes(Consdrv, from, to) /\ (to # "command" \/ DriverWaits')
                        /\ from \in {"setintr", "recv"} /\ to \in {"recv", "command"}
    BY <1>8 DEF SetsHandler, Awaits
  <2>2. DriverOwn = {} /\ held'[Consdrv] = held[Consdrv] /\ cons' = cons
    BY <1>8, <2>1 DEF SetsHandler, Awaits, DriverOwn, Goes, Told, Opening, Section
  <2>3. HeldInv'
    BY <1>1, <1>7, <2>1, <2>2 DEF HeldInv
  <2> QED
    BY <2>1, <2>3 DEF MovesInv, CopyInv, Goes
<1>9. CASE FreesMessage
  <2>1. Goes(Consdrv, "free", "recv") /\ cons' = cons /\ held'[Consdrv] = held[Consdrv] \ {msg}
    BY <1>1, <1>9, Names DEF FreesMessage
  <2>2. DriverOwn \subseteq {msg}
    BY <2>1 DEF DriverOwn, Goes, Told, Opening
  <2>3. held'[Consdrv] \subseteq {cons.send_buf, cons.recv_buf}
    BY <1>1, <2>1, <2>2 DEF HeldInv
  <2>4. HeldInv'
    BY <1>7, <2>1, <2>3
  <2> QED
    BY <2>1, <2>4 DEF MovesInv, CopyInv, Goes
<1>10. CASE TakesUser /\ mode' = "run"
  <2>1. PICK b \in Block : /\ held'[Consdrv] = held[Consdrv] \cup {b} /\ ret'[Consdrv] = b
    BY <1>1, <1>10, Names DEF TakesUser, GainsOrNot, Gains, RunsOut
  <2>2. /\ Goes(Consdrv, "command", "use_recv") /\ Told /\ BeforeUse /\ msg' = ret[Consdrv]
        /\ cons'.send_buf = cons.send_buf /\ cons'.recv_buf = cons.recv_buf
    BY <1>1, <1>2, <1>10 DEF TakesUser, Goes, Told, BeforeUse, Consreg
  <2>3. DriverOwn = {ret[Consdrv]} /\ DriverOwn' = {msg', b}
    BY <2>1, <2>2 DEF DriverOwn, Told, Opening, Goes, Section
  <2>4. HeldInv'
    BY <1>1, <1>6, <2>1, <2>2, <2>3 DEF HeldInv
  <2> QED
    BY <2>2, <2>4 DEF MovesInv, CopyInv, Goes
<1>11. CASE SetsSend /\ mode' = "run"
  <2>1. PICK b \in Block : /\ held'[Consdrv] = held[Consdrv] \cup {b} /\ ret'[Consdrv] = b
    BY <1>1, <1>11, Names DEF SetsSend, GainsOrNot, Gains, RunsOut
  <2>2. /\ Goes(Consdrv, "use_recv", "use_init") /\ Opening /\ msg' = msg
        /\ cons'.send_buf = ret[Consdrv] /\ cons'.recv_buf = cons.recv_buf
    BY <1>1, <1>11 DEF SetsSend, Goes, Opening, Consreg
  <2>3. DriverOwn = {msg, ret[Consdrv]} /\ DriverOwn' = {msg, b}
    BY <2>1, <2>2 DEF DriverOwn, Told, Opening, Goes, Section
  <2>4. cons.send_buf = NULL /\ cons.recv_buf = NULL /\ ~BeforeUse'
    BY <1>1, <1>5, <2>2 DEF HeldInv, Goes
  <2>5. held'[Consdrv] \subseteq {cons'.send_buf, cons'.recv_buf} \cup DriverOwn'
    BY <1>1, <2>1, <2>2, <2>3, <2>4, Names DEF HeldInv
  <2>6. HeldInv'
    BY <1>6, <2>2, <2>4, <2>5 DEF Goes
  <2> QED
    BY <2>2, <2>6 DEF MovesInv, CopyInv, Goes
<1>12. CASE SetsRecv
  <2>1. /\ Goes(Consdrv, "use_init", "free") /\ msg' = msg /\ held'[Consdrv] = held[Consdrv]
        /\ cons'.send_buf = cons.send_buf /\ cons'.recv_buf = ret[Consdrv] /\ Opening
    BY <1>1, <1>12 DEF SetsRecv, Goes, Opening, Consreg
  <2>2. DriverOwn = {msg, ret[Consdrv]} /\ DriverOwn' = {msg}
    BY <1>5, <2>1 DEF DriverOwn, Told, Opening, Goes, Section
  <2>3. cons.recv_buf = NULL /\ ~BeforeUse' /\ ~Opening'
    BY <1>1, <1>5, <2>1 DEF HeldInv, Goes
  <2>4. held'[Consdrv] \subseteq {cons'.send_buf, cons'.recv_buf} \cup DriverOwn'
    BY <1>1, <2>1, <2>2, <2>3, Names DEF HeldInv
  <2>5. HeldInv'
    BY <1>6, <2>1, <2>3, <2>4 DEF Goes
  <2> QED
    BY <2>1, <2>5 DEF MovesInv, CopyInv, Goes
<1>13. CASE Masks
  <2>1. /\ Goes(Consdrv, "command", "write_copy") /\ msg' = ret[Consdrv] /\ cons' = cons
        /\ held'[Consdrv] = held[Consdrv]
    BY <1>13 DEF Masks, InSection
  <2>2. DriverOwn = {ret[Consdrv]} /\ DriverOwn' = {msg'}
    BY <1>2, <2>1 DEF DriverOwn, Told, Opening, Goes, Section
  <2>3. HeldInv'
    BY <1>1, <1>7, <2>1, <2>2 DEF HeldInv
  <2> QED
    BY <2>1, <2>3 DEF MovesInv, CopyInv, Goes
<1>14. CASE Copies \/ Tests \/ Starts \/ Unmasks
  <2>1. PICK from, to : /\ Goes(Consdrv, from, to) /\ from \in Section
                        /\ to \in Section \cup {"free"} /\ msg' = msg
                        /\ held'[Consdrv] = held[Consdrv]
                        /\ cons'.send_buf = cons.send_buf /\ cons'.recv_buf = cons.recv_buf
    BY <1>1, <1>14 DEF Copies, Tests, Starts, Unmasks, InSection, Section, Consreg
  <2>2. DriverOwn = {msg} /\ DriverOwn' = {msg}
    BY <2>1 DEF DriverOwn, Told, Opening, Goes, Section
  <2>3. HeldInv'
    BY <1>1, <1>7, <2>1, <2>2 DEF HeldInv, Section
  <2>4. CopyInv'
    <3>1. CASE Copies
      <4>1. cons'.send = cons.send \o OnWire(Tail(text[msg])) /\ text' = text
        BY <1>1, <3>1 DEF Copies, InSection, Consreg
      <4> QED
        BY <1>1, <2>1, <4>1 DEF CopyInv
    <3>2. CASE Tests
      BY <1>1, <3>2 DEF Tests, InSection, Goes, CopyInv, MovesInv
    <3>3. CASE Starts \/ Unmasks
      BY <3>3 DEF Starts, Unmasks, InSection, Goes, CopyInv
    <3> QED
      BY <1>14, <3>1, <3>2, <3>3
  <2> QED
    BY <2>3, <2>4 DEF MovesInv
<1>15. CASE mode' # "run"
  BY <1>15 DEF MovesInv
<1> QED
  BY <1>8, <1>9, <1>10, <1>11, <1>12, <1>13, <1>14, <1>15 DEF DriverMoves

LEMMA HeldInit == ConsoleInit => MovesInv
<1> SUFFICES ASSUME ConsoleInit PROVE HeldInv /\ CopyInv
  BY DEF MovesInv
<1>1. /\ held = [t \in Thread |-> {}] /\ mb.head[CONSINPUT] = NULL
      /\ cons.send_buf = NULL /\ cons.recv_buf = NULL
  BY ConsoleAssumption DEF ConsoleInit, Init, EmptyBoxes
<1>2. pc[Consdrv] = "setintr" /\ pc[Command] = "use_alloc"
  BY Names DEF ConsoleInit, Start
<1>3. Waiting = <<>> /\ CopyInv /\ ~Opening
  BY <1>1, <1>2 DEF Waiting, CopyInv, Opening
<1> QED
  BY <1>1, <1>2, <1>3, Names DEF HeldInv

LEMMA MovesNext ==
  ASSUME ConsoleInv, MovesInv, [ConsoleNext]_allVars
  PROVE  MovesInv'
<1>1. CASE mode = "run"
  BY <1>1, Moves, HeldElsewhere, HeldDriver, HeldShell, HeldHandler
<1>2. CASE mode # "run"
  <2>1. UNCHANGED mode
    BY <1>2, DownAll DEF allVars, vars, threadVars
  <2> QED
    BY <1>2, <2>1 DEF MovesInv
<1> QED
  BY <1>1, <1>2

LEMMA MovesAlways == ConsoleSpec => [](ConsoleInv /\ MovesInv)
<1>1. ConsoleInit => MovesInv
  BY HeldInit
<1>2. ConsoleInv /\ MovesInv /\ [ConsoleNext]_allVars => MovesInv'
  BY MovesNext
<1> QED
  BY <1>1, <1>2, ConsoleAlways, PTL DEF ConsoleSpec
-----------------------------------------------------------------------------
(* Sets of no more than n elements. *)
Few(S, n) == IsFiniteSet(S) /\ Cardinality(S) <= n

LEMMA FewIn ==
  ASSUME NEW S, NEW n \in Nat, Few(S, n), NEW T \in SUBSET S
  PROVE  Few(T, n)
<1>1. IsFiniteSet(T) /\ Cardinality(T) <= Cardinality(S)
  BY FS_Subset DEF Few
<1>2. Cardinality(T) \in Nat /\ Cardinality(S) \in Nat
  BY <1>1, FS_CardinalityType DEF Few
<1> QED
  BY <1>1, <1>2 DEF Few

LEMMA FewMore ==
  ASSUME NEW S, NEW n \in Nat, Few(S, n), NEW x, NEW T \in SUBSET (S \cup {x})
  PROVE  Few(T, n + 1)
<1>1. /\ IsFiniteSet(S \cup {x}) /\ Cardinality(S) \in Nat
      /\ Cardinality(S \cup {x}) = IF x \in S THEN Cardinality(S) ELSE Cardinality(S) + 1
  BY FS_AddElement, FS_CardinalityType DEF Few
<1>2. Few(S \cup {x}, n + 1)
  BY <1>1 DEF Few
<1> QED
  <2>1. n + 1 \in Nat
    OBVIOUS
  <2> QED
    BY <1>2, <2>1, FewIn

LEMMA FewAnd ==
  ASSUME NEW S, NEW n \in Nat, Few(S, n), NEW x, NEW T, T = S \cup {x}
  PROVE  Few(T, n + 1)
BY FewMore

LEMMA FewListed ==
  /\ Few({}, 0)
  /\ \A a : Few({a}, 1)
  /\ \A a, b : Few({a, b}, 2)
  /\ \A a, b, c : Few({a, b, c}, 3)
  /\ \A a, b, c, d : Few({a, b, c, d}, 4)
  /\ \A a, b, c, d, e, f, g : Few({a, b, c, d, e, f, g}, 7)
<1>1. Few({}, 0)
  BY FS_EmptySet DEF Few
<1>2. ASSUME NEW a PROVE Few({a}, 1)
  <2>1. Few({a}, 0 + 1)
    BY <1>1, FewMore
  <2> QED
    BY <2>1
<1>3. ASSUME NEW a, NEW b PROVE Few({a, b}, 2)
  <2>1. Few({a, b}, 1 + 1)
    BY <1>2, FewMore
  <2> QED
    BY <2>1
<1>4. ASSUME NEW a, NEW b, NEW c PROVE Few({a, b, c}, 3)
  <2>1. {a, b, c} = {a, b} \cup {c}
    OBVIOUS
  <2>2. Few({a, b, c}, 2 + 1)
    BY <1>3, <2>1, FewAnd
  <2> QED
    BY <2>2
<1>5. ASSUME NEW a, NEW b, NEW c, NEW d PROVE Few({a, b, c, d}, 4)
  <2>1. {a, b, c, d} = {a, b, c} \cup {d}
    OBVIOUS
  <2>2. Few({a, b, c, d}, 3 + 1)
    BY <1>4, <2>1, FewAnd
  <2> QED
    BY <2>2
<1>6. ASSUME NEW a, NEW b, NEW c, NEW d, NEW e PROVE Few({a, b, c, d, e}, 5)
  <2>1. {a, b, c, d, e} = {a, b, c, d} \cup {e}
    OBVIOUS
  <2>2. Few({a, b, c, d, e}, 4 + 1)
    BY <1>5, <2>1, FewAnd
  <2> QED
    BY <2>2
<1>7. ASSUME NEW a, NEW b, NEW c, NEW d, NEW e, NEW f PROVE Few({a, b, c, d, e, f}, 6)
  <2>1. {a, b, c, d, e, f} = {a, b, c, d, e} \cup {f}
    OBVIOUS
  <2>2. Few({a, b, c, d, e, f}, 5 + 1)
    BY <1>6, <2>1, FewAnd
  <2> QED
    BY <2>2
<1>8. ASSUME NEW a, NEW b, NEW c, NEW d, NEW e, NEW f, NEW g PROVE Few({a, b, c, d, e, f, g}, 7)
  <2>1. {a, b, c, d, e, f, g} = {a, b, c, d, e, f} \cup {g}
    OBVIOUS
  <2>2. Few({a, b, c, d, e, f, g}, 6 + 1)
    BY <1>7, <2>1, FewAnd
  <2> QED
    BY <2>2
<1> QED
  BY <1>1, <1>2, <1>3, <1>4, <1>5, <1>8

(* The blocks of the shell's box: the buffers of the messages and the lines. *)
InBox ==
  LET ends == Ends(mb, CONSINPUT) IN ends \cup {mb.data[b] : b \in ends}

LEMMA BoxOf ==
  /\ InBox \subseteq {mb.head[CONSINPUT], mb.tail[CONSINPUT],
                      mb.data[mb.head[CONSINPUT]], mb.data[mb.tail[CONSINPUT]]}
  /\ Ends(mb, CONSINPUT) = {} => InBox = {}
BY DEF InBox, Ends

(* When the kernel finds no block, all that are large enough are in that box or with
   one of the two threads, or the kernel has them in its hands. *)
LEMMA AllTaken ==
  ASSUME ConsoleInv, MovesInv, mode = "run", MaxPending <= 2,
         NEW m, NEW used \in SUBSET Block, NEW loose, ExactLists(m, used),
         Accounted(used, loose, mb, held), NEW size, NoFit(m, size)
  PROVE  Fitting(size) \subseteq loose \cup InBox \cup held[Consdrv] \cup held[Command]
<1> SUFFICES ASSUME NEW b \in Fitting(size), b \notin loose
             PROVE  b \in InBox \/ b \in held[Consdrv] \/ b \in held[Command]
  OBVIOUS
<1>1. Lossless
  BY ConsoleAssumption DEF Lossless
<1>2. HeldInv /\ Roles /\ mb \in Boxes /\ BoxShape(mb)
  BY RunsWith, Books DEF MovesInv, KernelHolds
<1>3. b \in Block /\ b[1] \in Pool /\ size <= PoolSize[b[1]] - HEADER_SIZE
  BY BlockPool DEF Fitting
<1>4. m.free[b[1]] = NULL
  BY <1>3 DEF NoFit, Fits
<1>5. b \in used
  BY <1>3, <1>4, UsedUp
<1>6. PICK o : o \in Owners(mb, held, b)
  BY <1>1, <1>3, <1>5 DEF Accounted
<1>7. Ends(mb, CONSOUTPUT) = {}
  BY <1>2, Names DEF Roles, BoxShape, Ends
<1>8. InBoxes(mb) = Ends(mb, CONSINPUT)
  BY <1>7, Names DEF InBoxes
<1>9. CASE \E id \in MsgBox : b \in Ends(mb, id)
  BY <1>7, <1>9, Names DEF InBox
<1>10. CASE \E c \in InBoxes(mb) : mb.data[c] = b
  BY <1>8, <1>10 DEF InBox
<1>11. CASE \E t \in Thread : b \in held[t]
  BY <1>2, <1>11 DEF HeldInv
<1> QED
  BY <1>6, <1>9, <1>10, <1>11, OwnersAre

(* Then there are no more of them than these. *)
LEMMA NoRoomFor ==
  ASSUME ConsoleInv, MovesInv, mode = "run", MaxPending <= 2, NEW size, NoFit(mem, size),
         NEW n \in Nat, Few(InBox \cup held[Consdrv] \cup held[Command], n)
  PROVE  ~(Room(size) >= n + 1)
<1>1. PICK used \in SUBSET Block : ExactLists(mem, used) /\ Accounted(used, {}, mb, held)
  BY RunsWith, Books DEF KernelHolds
<1>2. Fitting(size) \subseteq InBox \cup held[Consdrv] \cup held[Command]
  BY <1>1, AllTaken
<1>3. Few(Fitting(size), n) /\ Cardinality(Fitting(size)) \in Nat
  BY <1>2, FewIn, FS_CardinalityType DEF Few
<1> QED
  BY <1>3 DEF Few, Room

LEMMA NoRoomAfter ==
  ASSUME ConsoleInv, MovesInv, mode = "run", MaxPending <= 2, NEW size,
         NEW i \in Pool, mem.free[i] # NULL, NoFit(kzmem_alloc(mem, i), size),
         NEW n \in Nat, Few(InBox \cup held[Consdrv] \cup held[Command], n)
  PROVE  ~(Room(size) >= n + 2)
<1>1. PICK used \in SUBSET Block : ExactLists(mem, used) /\ Accounted(used, {}, mb, held)
  BY RunsWith, Books DEF KernelHolds
<1>2. mem \in Pools
  BY RunsWith, Books DEF KernelHolds
<1>3. PICK all \in SUBSET Block :
        ExactLists(kzmem_alloc(mem, i), all) /\ Accounted(all, {} \cup {mem.free[i]}, mb, held)
  <2>1. /\ mem.free[i] \in Block \ used
        /\ ExactLists(kzmem_alloc(mem, i), used \cup {mem.free[i]})
        /\ Accounted(used \cup {mem.free[i]}, {} \cup {mem.free[i]}, mb, held)
    BY <1>1, <1>2, TakeBuffer
  <2> QED
    BY <2>1
<1>4. Fitting(size) \subseteq (InBox \cup held[Consdrv] \cup held[Command]) \cup {mem.free[i]}
  BY <1>3, AllTaken
<1>5. Few(Fitting(size), n + 1)
  BY <1>4, FewMore
<1>6. Cardinality(Fitting(size)) \in Nat
  BY <1>5, FS_CardinalityType DEF Few
<1> QED
  BY <1>5, <1>6 DEF Few, Room
-----------------------------------------------------------------------------
(* What the three have while the box is empty, and the most they have at all when
   the shell runs. *)
LEMMA EmptyBox ==
  ASSUME ConsoleInv, mode = "run", Waiting = <<>>
  PROVE  InBox = {} /\ mb.head[CONSINPUT] = NULL
<1>1. BoxShape(mb)
  BY RunsWith, Books DEF KernelHolds
<1>2. mb.head[CONSINPUT] = NULL
  BY DEF Waiting
<1>3. Ends(mb, CONSINPUT) = {}
  BY <1>1, <1>2, Names DEF BoxShape, Ends
<1> QED
  BY <1>2, <1>3, BoxOf

(* The driver's command to use the port has what it asks for, *)
LEMMA UserHasRoom ==
  ASSUME ConsoleInv, MovesInv, DriverAlone, EnoughBlocks, MaxPending <= 2, TakesUser \/ SetsSend
  PROVE  mode' = "run"
<1>1. /\ HeldInv /\ mode = "run" /\ DriverInv /\ held \in [Thread -> SUBSET Block] /\ ~DriverWaits
  BY RunsWith DEF MovesInv, DriverAlone
<1>2. \/ pc[Consdrv] = "command" /\ BeforeUse /\ Told
      \/ pc[Consdrv] = "use_recv" /\ Opening
  BY <1>1 DEF TakesUser, SetsSend, Goes, BeforeUse, Told, Opening
<1>3. InBox = {} /\ cons.send_buf = NULL /\ cons.recv_buf = NULL
  BY <1>1, <1>2, EmptyBox DEF HeldInv
<1>4. held[Command] = {}
  BY <1>1, <1>2 DEF HeldInv, ShellOwn
<1>5. DriverOwn \subseteq {msg, ret[Consdrv]}
  BY DEF DriverOwn
<1>6. InBox \cup held[Consdrv] \cup held[Command] \subseteq {NULL, msg, ret[Consdrv]}
  BY <1>1, <1>3, <1>4, <1>5 DEF HeldInv
<1>7. Few(InBox \cup held[Consdrv] \cup held[Command], 3)
  BY <1>6, FewListed, FewIn
<1>8. CASE NoFit(mem, CONS_SIZE)
  <2>1. ~(Room(CONS_SIZE) >= 3 + 1)
    BY <1>1, <1>7, <1>8, NoRoomFor
  <2>2. Cardinality(Fitting(CONS_SIZE)) \in Nat
    BY BlocksFinite, FS_Subset, FS_CardinalityType DEF Fitting
  <2> QED
    BY <2>1, <2>2 DEF EnoughBlocks, Room
<1> QED
  BY <1>8 DEF TakesUser, SetsSend, GainsOrNot, RunsOut

(* and so has the shell, whatever is in its box. *)
LEMMA ShellHasRoom ==
  ASSUME ConsoleInv, MovesInv, ShellAlone, EnoughBlocks, MaxPending <= 2,
         NEW from \in {"use_alloc", "prompt_alloc", "reply_alloc", "end_alloc"}, NEW to,
         Allocates(from, to)
  PROVE  mode' = "run"
<1>1. HeldInv /\ mode = "run" /\ pc[Command] = from
  BY DEF MovesInv, ShellAlone, Allocates, Goes
<1>2. DriverOwn = {}
  BY DEF ShellAlone, DriverOwn, Told, Opening, Section
<1>3. ShellOwn \subseteq {IF from = "reply_alloc" THEN ret[Command] ELSE str}
  BY <1>1 DEF ShellOwn
<1>4. InBox \cup held[Consdrv] \cup held[Command]
        \subseteq {mb.head[CONSINPUT], mb.tail[CONSINPUT],
                   mb.data[mb.head[CONSINPUT]], mb.data[mb.tail[CONSINPUT]],
                   cons.send_buf, cons.recv_buf,
                   IF from = "reply_alloc" THEN ret[Command] ELSE str}
  BY <1>1, <1>2, <1>3, BoxOf DEF HeldInv
<1>5. Few(InBox \cup held[Consdrv] \cup held[Command], 7)
  <2>1. Few({mb.head[CONSINPUT], mb.tail[CONSINPUT],
             mb.data[mb.head[CONSINPUT]], mb.data[mb.tail[CONSINPUT]],
             cons.send_buf, cons.recv_buf,
             IF from = "reply_alloc" THEN ret[Command] ELSE str}, 7)
    BY FewListed, Zenon
  <2> QED
    BY <1>4, <2>1, FewIn
<1>6. PICK s \in {<<"0">>} \cup Written : GainsOrNot(Command, Len(s) + 2)
  BY DEF Allocates
<1>7. PICK size : size = Len(s) + 2
  OBVIOUS
<1>8. Cardinality(Fitting(size)) \in Nat
  BY BlocksFinite, FS_Subset, FS_CardinalityType DEF Fitting
<1>9. CASE NoFit(mem, size)
  <2>1. ~(Room(size) >= 7 + 1)
    BY <1>1, <1>5, <1>9, NoRoomFor
  <2> QED
    BY <1>7, <1>8, <2>1 DEF EnoughBlocks, Room
<1> QED
  BY <1>6, <1>7, <1>9 DEF GainsOrNot, RunsOut

(* For a message of the shell there is no block only if a line waits. *)
LEMMA SendLacksRoom ==
  ASSUME ConsoleInv, MovesInv, ShellAlone, EnoughBlocks, MaxPending <= 2,
         NEW from, NEW to, NEW m, Sends(from, to, m), mode' # "run"
  PROVE  Waiting # <<>> /\ NoRoomForLine
<1>1. HeldInv /\ mode = "run" /\ NoFit(mem, MSGBUF_SIZE)
  BY DEF MovesInv, ShellAlone, Sends, RunsOut
<1>2. DriverOwn = {}
  BY DEF ShellAlone, DriverOwn, Told, Opening, Section
<1>3. ShellOwn \subseteq {ret[Command], str}
  BY DEF ShellOwn
<1>4. Waiting # <<>>
  <2> SUFFICES ASSUME Waiting = <<>> PROVE FALSE
    OBVIOUS
  <2>1. InBox \cup held[Consdrv] \cup held[Command]
          \subseteq {cons.send_buf, cons.recv_buf, ret[Command], str}
    BY <1>1, <1>2, <1>3, EmptyBox DEF HeldInv
  <2>2. Few(InBox \cup held[Consdrv] \cup held[Command], 4)
    <3>1. Few({cons.send_buf, cons.recv_buf, ret[Command], str}, 4)
      BY FewListed, Zenon
    <3> QED
      BY <2>1, <3>1, FewIn
  <2>3. ~(Room(MSGBUF_SIZE) >= 4 + 1)
    BY <1>1, <2>2, NoRoomFor
  <2> QED
    BY <2>3 DEF EnoughBlocks
<1>5. NoFit(mem, CONS_SIZE)
  <2> SUFFICES ASSUME NEW i \in Pool, Fits(mem, CONS_SIZE, i) PROVE FALSE
    BY DEF NoFit
  <2>1. PICK b \in Block : b[1] = i
    BY FirstBlock
  <2>2. b \in Fitting(CONS_SIZE)
    BY <2>1 DEF Fitting, Fits
  <2>3. Fits(mem, MSGBUF_SIZE, i)
    BY <2>1, <2>2 DEF EnoughBlocks, Fitting, Fits
  <2> QED
    BY <1>1, <2>3 DEF NoFit
<1> QED
  BY <1>4, <1>5 DEF NoRoomForLine

(* And for a complete line only if another is with the shell, or waits for it. *)
LineBefore ==
  \/ pc[Command] \in {"reply_send", "end_alloc", "end_send", "free"}
  \/ mb.head[CONSINPUT] # NULL
  \/ Arrived

LEMMA LineLacksRoom ==
  ASSUME ConsoleInv, MovesInv, HandlerAlone, EnoughBlocks, MaxPending <= 2, NoRoomForLine
  PROVE  LineBefore /\ (~Arrived /\ mb.head[CONSINPUT] = NULL => str # NULL)
<1>0. ASSUME LineBefore, ~Arrived, mb.head[CONSINPUT] = NULL PROVE str # NULL
  BY <1>0, RunsWith, Names DEF LineBefore, ShellInv, HandlerAlone
<1> SUFFICES ASSUME ~LineBefore PROVE FALSE
  BY <1>0
<1>1. /\ HeldInv /\ mode = "run" /\ ShellInv /\ DriverInv /\ held \in [Thread -> SUBSET Block]
      /\ KernelHolds /\ Labels
  BY RunsWith DEF MovesInv, HandlerAlone
<1>2. InBox = {}
  BY <1>1, EmptyBox DEF LineBefore, Waiting
<1>3. held[Command] \subseteq {ret[Command]} /\ (~DriverWaits => held[Command] = {})
  <2>1. pc[Command] \notin {"reply_send", "end_alloc", "end_send", "free"}
    BY DEF LineBefore
  <2>2. ShellOwn \subseteq {ret[Command]} /\ (pc[Command] = "reply_alloc" => ShellOwn = {NULL})
    BY <2>1 DEF ShellOwn, LineBefore, Arrived
  <2>3. ~DriverWaits => ShellOwn = {}
    BY <1>1, <2>1 DEF ShellOwn, HeldInv
  <2> QED
    BY <1>1, <2>2, <2>3 DEF HeldInv
<1>4. PICK d : DriverOwn \subseteq {d} /\ (DriverWaits => DriverOwn = {})
  <2>1. CASE Told
    BY <2>1 DEF DriverOwn, HandlerAlone, Told
  <2>2. CASE ~Told
    BY <1>1, <2>2 DEF DriverOwn, HandlerAlone, DriverInv
  <2> QED
    BY <2>1, <2>2
<1>5. \E c : InBox \cup held[Consdrv] \cup held[Command]
               \subseteq {cons.send_buf, cons.recv_buf, c}
  <2>1. CASE DriverWaits
    <3>1. InBox \cup held[Consdrv] \cup held[Command]
            \subseteq {cons.send_buf, cons.recv_buf, ret[Command]}
      BY <1>1, <1>2, <1>3, <1>4, <2>1 DEF HeldInv
    <3> QED
      BY <3>1
  <2>2. CASE ~DriverWaits
    <3>1. InBox \cup held[Consdrv] \cup held[Command]
            \subseteq {cons.send_buf, cons.recv_buf, d}
      BY <1>1, <1>2, <1>3, <1>4, <2>2 DEF HeldInv
    <3> QED
      BY <3>1
  <2> QED
    BY <2>1, <2>2
<1>6. Few(InBox \cup held[Consdrv] \cup held[Command], 3)
  <2>1. PICK c : InBox \cup held[Consdrv] \cup held[Command]
                   \subseteq {cons.send_buf, cons.recv_buf, c}
    BY <1>5
  <2>2. Few({cons.send_buf, cons.recv_buf, c}, 3)
    BY FewListed, Zenon
  <2> QED
    BY <2>1, <2>2, FewIn
<1>7. Cardinality(Fitting(CONS_SIZE)) \in Nat
  BY BlocksFinite, FS_Subset, FS_CardinalityType DEF Fitting
<1>8. CASE NoFit(mem, CONS_SIZE)
  <2>1. ~(Room(CONS_SIZE) >= 3 + 1)
    BY <1>1, <1>6, <1>8, NoRoomFor
  <2> QED
    BY <1>7, <2>1 DEF EnoughBlocks, Room
<1>9. ASSUME NEW i \in Pool, FirstFit(mem, CONS_SIZE, i), NoFit(kzmem_alloc(mem, i), MSGBUF_SIZE)
      PROVE  FALSE
  <2>1. mem.free[i] # NULL
    BY <1>9 DEF FirstFit, Fits
  <2>2. ~(Room(MSGBUF_SIZE) >= 3 + 2)
    BY <1>1, <1>6, <1>9, <2>1, NoRoomAfter
  <2> QED
    BY <2>2 DEF EnoughBlocks
<1> QED
  BY <1>8, <1>9 DEF NoRoomForLine

LEMMA DownStep ==
  ASSUME EnoughBlocks, MaxPending <= 2, ConsoleInv, MovesInv, DownByTypeAhead,
         [ConsoleNext]_allVars
  PROVE  DownByTypeAhead'
<1> SUFFICES ASSUME mode' # "run" PROVE DownByTypeAhead'
  BY DEF DownByTypeAhead
<1>1. CASE mode # "run"
  BY <1>1, DownAll DEF DownByTypeAhead, NoRoomForLine, allVars, vars, threadVars, ipcVars, shellVars
<1>2. CASE mode = "run" /\ ShellAlone /\ ShellMoves
  <2>1. PICK from, to, m : Sends(from, to, m)
    <3>1. ~FreesLine /\ ~Receives
      BY DEF FreesLine, Receives
    <3> QED
      BY <1>2, <3>1, ShellHasRoom DEF ShellMoves
  <2>2. Waiting # <<>> /\ NoRoomForLine /\ mb.head[CONSINPUT] # NULL
    BY <1>2, <2>1, SendLacksRoom DEF Waiting
  <2>3. mode' = "down" /\ mem' = mem /\ mb' = mb
    BY <2>1 DEF Sends, RunsOut, ipcVars
  <2> QED
    BY <2>2, <2>3 DEF DownByTypeAhead, NoRoomForLine
<1>3. CASE mode = "run" /\ HandlerAlone /\ HandlerMoves
  <2>1. Loses
    BY <1>3 DEF HandlerMoves, Quiet, Extends, Stores, Gives
  <2>2. NoRoomForLine /\ (str # NULL \/ mb.head[CONSINPUT] # NULL \/ Arrived)
    BY <1>3, <2>1, LineLacksRoom DEF Loses
  <2>3. mode' = "down" /\ UNCHANGED <<mem, mb, ret, pc, str>>
    BY <1>3, <2>1 DEF Loses, ipcVars, HandlerAlone
  <2> QED
    BY <2>2, <2>3 DEF DownByTypeAhead, NoRoomForLine, Arrived
<1>4. CASE mode = "run" /\ DriverAlone /\ DriverMoves
  BY <1>4, UserHasRoom
     DEF DriverMoves, SetsHandler, Awaits, FreesMessage, SetsRecv, Masks, Copies, Tests, Starts,
         Unmasks, InSection
<1> QED
  BY <1>1, <1>2, <1>3, <1>4, Moves DEF Elsewhere

(* With no more than two messages in a box and as many blocks as EnoughBlocks says,
   the console goes down in one case only: a line has been entered while one before
   it was still with the shell, and there is no block for it. *)
THEOREM ConsoleDownByTypeAhead ==
  ASSUME EnoughBlocks, MaxPending <= 2
  PROVE  ConsoleSpec => []DownByTypeAhead
<1>1. ConsoleInit => DownByTypeAhead
  BY DEF ConsoleInit, Init, DownByTypeAhead
<1>2. ConsoleInv /\ MovesInv /\ DownByTypeAhead /\ [ConsoleNext]_allVars => DownByTypeAhead'
  BY DownStep
<1> QED
  BY <1>1, <1>2, MovesAlways, PTL DEF ConsoleSpec
-----------------------------------------------------------------------------
(* The steps of the terminal, in terms of the console. *)
Owed  == AtDriver \o AtShell
First == IF Arrived THEN <<text[ret[Command]]>> ELSE <<>>

ScreenStep == [Screen!Next]_(Screen!vars)

LEMMA ScreenStill ==
  ASSUME mode = "run", mode' = "run", Out' = Out, cons'.recv = cons.recv, Inbox' = Inbox,
         Owed' = Owed
  PROVE  ScreenStep
BY DEF ScreenStep, Screen!vars, Owed

LEMMA ScreenWrite ==
  ASSUME mode = "run", mode' = "run", Owed # <<>>, Out' = Out \o OnWire(Head(Owed)),
         Owed' = Tail(Owed), cons'.recv = cons.recv, Inbox' = Inbox
  PROVE  ScreenStep
BY DEF ScreenStep, Screen!Next, Screen!Write, Owed

LEMMA ScreenRead ==
  ASSUME mode = "run", mode' = "run", Owed = <<>>, Inbox # <<>>, Inbox' = Tail(Inbox),
         Owed' = Append(Reply(Head(Inbox)), Prompt), Out' = Out, cons'.recv = cons.recv
  PROVE  ScreenStep
BY DEF ScreenStep, Screen!Next, Screen!Read, Owed

LEMMA ScreenShow ==
  ASSUME mode = "run", mode' = "run", Out # <<>>, Out' = Tail(Out), cons'.recv = cons.recv,
         Inbox' = Inbox, Owed' = Owed
  PROVE  ScreenStep
BY DEF ScreenStep, Screen!Next, Screen!Show, Owed

LEMMA ScreenType ==
  ASSUME mode = "run", mode' = "run", NEW c \in Char \ {CR}, Out' = Out \o OnWire(<<c>>),
         IF c = LF THEN cons'.recv = <<>> /\ Inbox' = Append(Inbox, cons.recv)
         ELSE cons'.recv = Append(cons.recv, c) /\ Inbox' = Inbox,
         Owed' = Owed
  PROVE  ScreenStep
<1>1. c \in (Char \ {CR, LF}) \cup {LF}
  OBVIOUS
<1>2. Screen!Type(c)
  BY DEF Screen!Type, Owed
<1> QED
  BY <1>1, <1>2 DEF ScreenStep, Screen!Next

LEMMA ScreenOverrun ==
  ASSUME mode = "run", mode' # "run", Inbox' = Inbox,
         \/ /\ Inbox # <<>> \/ Owed # <<>>
            /\ Out' = Out \o OnWire(<<LF>>) /\ cons'.recv \in {cons.recv, <<>>} /\ Owed' = Owed
         \/ /\ Inbox # <<>> /\ Owed # <<>> /\ Owed' = Tail(Owed)
            /\ Out' = Out /\ cons'.recv = cons.recv
  PROVE  ScreenStep
<1>1. Screen!Overrun
  BY DEF Screen!Overrun, Owed
<1> QED
  BY <1>1 DEF ScreenStep, Screen!Next

(* What the mapping is in a system that runs. *)
OutRead == ~Copying /\ cons.send \in Seq(Char) => Out = OnTheWay

LEMMA OutIs == OutRead
<1> SUFFICES ASSUME ~Copying, cons.send \in Seq(Char) PROVE Unsent = cons.send
  BY DEF OutRead, Out, OnTheWay
<1>1. Unsent = SubSeq(cons.send, 1, Len(cons.send) - 0)
  BY DEF Unsent
<1>2. Len(cons.send) - 0 = Len(cons.send)
  BY LenProperties
<1> QED
  BY <1>1, <1>2

LEMMA OutNext == OutRead'
BY OutIs, PTL

Keeps == Inbox = First \o Waiting

LEMMA InboxIs == KernelHolds => Keeps
BY TextsAre DEF WaitingRead, Inbox, First, Keeps

LEMMA InboxNext == KernelHolds' => Keeps'
BY TextsNext DEF WaitingRead, Inbox, First, Keeps

LEMMA AppendToTwo ==
  ASSUME NEW x, NEW y, NEW z
  PROVE  Append(<<x, y>>, z) = <<x, y, z>>
<1>1. PICK r, s, t : r = <<x, y>> /\ s = Append(<<x, y>>, z) /\ t = <<x, y, z>>
  OBVIOUS
<1>2. /\ r \in Seq({x, y, z}) /\ Len(r) = 2 /\ r[1] = x /\ r[2] = y
      /\ t \in Seq({x, y, z}) /\ Len(t) = 3 /\ t[1] = x /\ t[2] = y /\ t[3] = z
  BY <1>1
<1>3. s \in Seq({x, y, z}) /\ Len(s) = 3 /\ s[1] = x /\ s[2] = y /\ s[3] = z
  BY <1>1, <1>2, AppendProperties
<1>4. \A i \in 1 .. 3 : i = 1 \/ i = 2 \/ i = 3
  OBVIOUS
<1>5. \A i \in 1 .. Len(s) : s[i] = t[i]
  BY <1>2, <1>3, <1>4
<1>6. s = t
  BY <1>2, <1>3, <1>5, SeqEqual
<1> QED
  BY <1>1, <1>6

LEMMA Joined ==
  ASSUME NEW x, NEW y, NEW z
  PROVE  /\ <<x>> \o <<>> = <<x>> /\ <<x>> \o <<y>> = <<x, y>>
         /\ <<x>> \o <<y, z>> = <<x, y, z>>
<1>1. PICK S : S = {x, y, z}
  OBVIOUS
<1>2. /\ <<x>> \in Seq(S) /\ <<y>> \in Seq(S) /\ <<z>> \in Seq(S) /\ <<x, y>> \in Seq(S)
      /\ y \in S /\ z \in S
  BY <1>1
<1>3. \A u \in Seq(S), w \in S : u \o <<w>> = Append(u, w)
  OBVIOUS
<1>4. <<x>> \o <<y>> = <<x, y>> /\ <<y>> \o <<z>> = <<y, z>> /\ <<x, y>> \o <<z>> = <<x, y, z>>
  BY <1>2, <1>3, AppendToOne, AppendToTwo
<1>5. (<<x>> \o <<y>>) \o <<z>> = <<x>> \o (<<y>> \o <<z>>)
  BY <1>2, ConcatAssociative
<1>6. <<x>> \o <<>> = <<x>>
  BY <1>2
<1> QED
  BY <1>4, <1>5, <1>6

LEMMA ReplyIs ==
  ASSUME NEW l \in Lines
  PROVE  /\ Reply(l)[1] \in Seq(Char)
         /\ Append(Reply(l), Prompt) = IF Len(Reply(l)) = 1 THEN <<Reply(l)[1], Prompt>>
                                       ELSE <<Reply(l)[1], <<LF>>, Prompt>>
<1>1. Reply(l)[1] \in Seq(Char)
  BY WrittenTyped
<1>2. CASE Seqs!IsPrefix(EchoWord, l)
  <2>1. Reply(l) = <<EchoReply(l), <<LF>>>>
    BY <1>2 DEF Reply
  <2>2. Len(Reply(l)) = 2 /\ Reply(l)[1] = EchoReply(l)
    BY <2>1
  <2> QED
    BY <1>1, <2>1, <2>2, AppendToTwo
<1>3. CASE ~Seqs!IsPrefix(EchoWord, l)
  <2>1. Reply(l) = <<Unknown>>
    BY <1>3 DEF Reply
  <2>2. Len(Reply(l)) = 1 /\ Reply(l)[1] = Unknown
    BY <2>1
  <2> QED
    BY <1>1, <2>1, <2>2, AppendToOne
<1> QED
  BY <1>2, <1>3

LEMMA ScreenTyped ==
  ASSUME ConsoleInv, mode = "run"
  PROVE  /\ Waiting \in Seq(Seq(Letter)) /\ First \in Seq(Seq(Letter))
         /\ AtShell \in Seq(Seq(Char))
         /\ AtDriver = <<>> => Owed = AtShell
<1>1. /\ ShellInv /\ InputInv /\ text \in [Block -> Seq(Letter)] /\ mb \in Boxes /\ BoxShape(mb)
      /\ Labels /\ held \in [Thread -> SUBSET Block] /\ ret \in [Thread -> Block \cup {NULL}]
  BY RunsWith, Books DEF KernelHolds
<1>2. Waiting \in Seq(Seq(Letter))
  <2>1. mb.head[CONSINPUT] # NULL =>
          {mb.data[mb.head[CONSINPUT]], mb.data[mb.tail[CONSINPUT]]} \subseteq Block
    BY <1>1, Names DEF BoxShape, Ends, InputInv
  <2>2. mb.head[CONSINPUT] # NULL =>
          /\ text[mb.data[mb.head[CONSINPUT]]] \in Seq(Letter)
          /\ text[mb.data[mb.tail[CONSINPUT]]] \in Seq(Letter)
    BY <1>1, <2>1
  <2>3. \A x, y \in Seq(Letter) : <<x>> \in Seq(Seq(Letter)) /\ <<x, y>> \in Seq(Seq(Letter))
    OBVIOUS
  <2> QED
    BY <2>2, <2>3 DEF Waiting
<1>3. First \in Seq(Seq(Letter))
  <2>1. Arrived => text[ret[Command]] \in Seq(Letter)
    BY <1>1, Names DEF Arrived
  <2> QED
    BY <2>1 DEF First
<1>4. AtShell \in Seq(Seq(Char))
  <2>1. Prompt \in Seq(Char) /\ <<LF>> \in Seq(Char)
    BY Chars
  <2>2. <<Prompt>> \in Seq(Seq(Char)) /\ <<<<LF>>, Prompt>> \in Seq(Seq(Char))
    BY <2>1
  <2>3. CASE pc[Command] = "reply_send"
    <3>1. text[str] \in Lines
      BY <1>1, <2>3 DEF ShellInv
    <3>2. PICK r \in Seq(Char) : r = Reply(text[str])[1]
      BY <3>1, ReplyIs
    <3>3. <<r, Prompt>> \in Seq(Seq(Char)) /\ <<r, <<LF>>, Prompt>> \in Seq(Seq(Char))
      BY <2>1
    <3>4. Append(Reply(text[str]), Prompt) \in Seq(Seq(Char))
      BY <3>1, <3>2, <3>3, ReplyIs
    <3> QED
      BY <2>3, <3>4 DEF AtShell
  <2>4. CASE pc[Command] # "reply_send"
    BY <1>1, <2>2, <2>4 DEF AtShell, Labels
  <2> QED
    BY <2>3, <2>4
<1>5. AtDriver = <<>> => Owed = AtShell
  BY <1>4 DEF Owed
<1> QED
  BY <1>2, <1>3, <1>4, <1>5

TypedScreen ==
  ConsoleInv /\ mode = "run" => AtShell \in Seq(Seq(Char)) /\ (AtDriver = <<>> => Owed = AtShell)

LEMMA ScreenTypedNext == TypedScreen'
<1>1. TypedScreen
  BY ScreenTyped DEF TypedScreen
<1> QED
  BY <1>1, PTL

(* What has been copied is the end of the buffer. *)
LEMMA Begun ==
  ASSUME NEW u \in Seq(Char), NEW w \in Seq(Char)
  PROVE  SubSeq(u \o w, 1, Len(u \o w) - Len(w)) = u
<1>1. PICK s : s = u \o w
  OBVIOUS
<1>2. /\ s \in Seq(Char) /\ Len(s) = Len(u) + Len(w) /\ Len(u) \in Nat /\ Len(w) \in Nat
      /\ \A i \in 1 .. Len(u) : s[i] = u[i]
  BY <1>1, ConcatProperties, LenProperties
<1>3. Len(s) - Len(w) = Len(u)
  BY <1>2
<1>4. PICK v : v = SubSeq(s, 1, Len(u))
  OBVIOUS
<1>5. v \in Seq(Char) /\ Len(v) = Len(u) /\ \A i \in 1 .. Len(u) : v[i] = s[i]
  BY <1>2, <1>4
<1>6. v = u
  BY <1>2, <1>5, SeqEqual
<1> QED
  BY <1>1, <1>3, <1>4, <1>6

LEMMA UnsentIs ==
  ASSUME ConsoleInv, MovesInv, mode = "run"
  PROVE  /\ Unsent \in Seq(Char)
         /\ pc[Consdrv] \in {"write_copy", "write_test", "write_start"} =>
              OnWire(Tail(text[msg])) \in Seq(Char) /\ Tail(text[msg]) \in Seq(Char)
         /\ cons.send = IF Copying THEN Unsent \o OnWire(Tail(text[msg])) ELSE Unsent
<1>1. cons.send \in Seq(Char) /\ DriverInv /\ CopyInv
  BY RunsWith DEF MovesInv
<1>2. pc[Consdrv] \in {"write_copy", "write_test", "write_start"} =>
        OnWire(Tail(text[msg])) \in Seq(Char) /\ Tail(text[msg]) \in Seq(Char)
  BY <1>1, MessageTyped, WrittenTyped, OnWireTyped DEF DriverInv, WriteOf
<1>3. CASE Copying
  <2>1. PICK u \in Seq(Char) : cons.send = u \o OnWire(Tail(text[msg]))
    BY <1>1, <1>3 DEF CopyInv, Copying
  <2>2. Unsent = u
    BY <1>2, <1>3, <2>1, Begun DEF Unsent, Copying
  <2> QED
    BY <1>2, <1>3, <2>1, <2>2
<1>4. CASE ~Copying
  <2>1. Unsent = SubSeq(cons.send, 1, Len(cons.send) - 0)
    BY <1>4 DEF Unsent
  <2>2. Len(cons.send) - 0 = Len(cons.send)
    BY <1>1, LenProperties
  <2> QED
    BY <1>1, <1>2, <1>4, <2>1, <2>2
<1> QED
  BY <1>3, <1>4

(* Idle, the person and the line. *)
LEMMA ElsewhereScreen ==
  ASSUME ConsoleInv, ConsoleInv', MovesInv, Elsewhere
  PROVE  ScreenStep
<1>1. /\ mode = "run" /\ mode' = "run" /\ cons' = cons /\ First' = First /\ AtShell' = AtShell
      /\ AtDriver' = AtDriver /\ Copying' = Copying /\ Unsent' = Unsent
  BY DEF Elsewhere, shellVars, First, Arrived, AtShell, AtDriver, Copying, Unsent
<1>2. Inbox' = Inbox /\ Owed' = Owed
  BY <1>1, InboxIs, InboxNext DEF Keeps, ConsoleInv, Elsewhere, Owed
<1>3. CASE port'.tdre = port.tdre /\ port'.tdr = port.tdr
  <2>1. Out' = Out
    BY <1>1, <1>3 DEF Out
  <2> QED
    BY <1>1, <1>2, <2>1, ScreenStill
<1>4. CASE Shows
  <2>1. Unsent \in Seq(Char \cup {port.tdr})
    BY <1>1, UnsentIs
  <2>2. Out = <<port.tdr>> \o Unsent /\ Out' = Unsent
    BY <1>1, <1>4, <2>1 DEF Shows, Out
  <2>3. Out # <<>> /\ Out' = Tail(Out)
    BY <2>1, <2>2
  <2> QED
    BY <1>1, <1>2, <2>3, ScreenShow
<1> QED
  BY <1>3, <1>4 DEF Elsewhere, Presses

LEMMA InFront ==
  ASSUME NEW S, NEW x \in S, NEW u \in Seq(S)
  PROVE  /\ <<x>> \o u \in Seq(S) /\ <<x>> \o u # <<>>
         /\ Head(<<x>> \o u) = x /\ Tail(<<x>> \o u) = u
OBVIOUS

(* The driver's thread: a string is on its way once sending has been taken care of. *)
LEMMA DriverKeeps ==
  ASSUME ConsoleInv, ConsoleInv', MovesInv, DriverAlone, DriverMoves
  PROVE  /\ mode = "run" /\ AtShell' = AtShell /\ Inbox' = Inbox /\ cons'.recv = cons.recv
<1>1. /\ mode = "run" /\ HeldInv /\ UseInv /\ cons \in Consreg /\ Labels
  BY RunsWith DEF MovesInv, DriverAlone
<1>2. pc[Command] \notin {"reply_send", "reply_alloc"} /\ pc'[Command] = pc[Command]
  BY <1>1 DEF HeldInv, DriverAlone
<1>3. AtShell' = AtShell /\ First' = First
  BY <1>1, <1>2 DEF AtShell, First, Arrived
<1>4. Inbox' = Inbox
  BY <1>3, InboxIs, InboxNext DEF Keeps, ConsoleInv, DriverAlone
<1>5. cons'.recv = cons.recv
  <2>1. CASE SetsSend
    <3>1. Opening
      BY <2>1 DEF SetsSend, Goes, Opening
    <3>2. cons'.recv = <<>> /\ cons.recv = <<>>
      BY <1>1, <2>1, <3>1 DEF SetsSend, UseInv, Consreg
    <3> QED
      BY <3>2
  <2>2. CASE ~SetsSend
    <3>1. \/ cons' = cons
          \/ \E new : cons' = [cons EXCEPT !.recv_buf = new]
          \/ \E new : cons' = [cons EXCEPT !.send = new]
          \/ cons' = [cons EXCEPT !.sender = Command, !.send = <<>>]
      BY <2>2 DEF DriverMoves, SetsHandler, Awaits, FreesMessage, TakesUser, SetsRecv, Masks,
                  Copies, Tests, Starts, Unmasks, InSection
    <3> QED
      BY <1>1, <3>1 DEF Consreg
  <2> QED
    BY <2>1, <2>2
<1> QED
  BY <1>1, <1>3, <1>4, <1>5

LEMMA DriverScreen ==
  ASSUME ConsoleInv, ConsoleInv', MovesInv, EnoughBlocks, MaxPending <= 2, DriverAlone,
         DriverMoves
  PROVE  ScreenStep
<1>1. /\ mode = "run" /\ AtShell' = AtShell /\ Inbox' = Inbox /\ cons'.recv = cons.recv
      /\ mode' = "run"
  BY DriverKeeps, UserHasRoom
     DEF DriverMoves, SetsHandler, Awaits, FreesMessage, SetsRecv, Masks, Copies, Tests, Starts,
         Unmasks, InSection
<1>2. /\ DriverInv /\ UseInv /\ PortInv /\ Always /\ cons \in Consreg /\ cons.send \in Seq(Char)
      /\ port \in Port(Char) /\ held \in [Thread -> SUBSET Block] /\ ~DriverWaits
      /\ ret \in [Thread -> Block \cup {NULL}] /\ AtShell \in Seq(Seq(Char))
      /\ text \in [Block -> Seq(Letter)] /\ cons'.send \in Seq(Char)
  BY <1>1, RunsWith, ScreenTyped DEF DriverAlone, ConsoleInv, Always, Types, Consreg
<1>3. ASSUME Out' = Out, AtDriver' = AtDriver PROVE ScreenStep
  BY <1>1, <1>3, ScreenStill DEF Owed
<1>4. ASSUME ~Copying, ~Copying', OnTheWay' = OnTheWay, AtDriver' = AtDriver PROVE ScreenStep
  BY <1>2, <1>3, <1>4, OutIs, OutNext DEF OutRead
<1>5. ASSUME NEW s \in Seq(Char), AtDriver = <<s>>, AtDriver' = <<>>, Out' = Out \o OnWire(s)
      PROVE  ScreenStep
  <2>1. Owed = <<s>> \o AtShell /\ Owed' = AtShell
    BY <1>1, <1>2, <1>5 DEF Owed
  <2>2. Owed # <<>> /\ Head(Owed) = s /\ Owed' = Tail(Owed)
    BY <1>2, <2>1, InFront
  <2> QED
    BY <1>1, <1>5, <2>2, ScreenWrite
<1>6. CASE SetsHandler \/ Awaits \/ FreesMessage
  <2>1. PICK from, to : Goes(Consdrv, from, to) /\ from \in {"setintr", "recv", "free"}
                        /\ to \in {"recv", "command"} /\ (to = "command" => ret'[Consdrv] = NULL)
    BY <1>2, <1>6, Names DEF SetsHandler, Awaits, FreesMessage
  <2>2. AtDriver = <<>> /\ AtDriver' = <<>>
    BY <2>1 DEF Goes, AtDriver
  <2>3. ~Copying /\ ~Copying' /\ OnTheWay' = OnTheWay
    BY <1>6, <2>1 DEF Goes, Copying, OnTheWay, SetsHandler, Awaits, FreesMessage
  <2> QED
    BY <1>4, <2>2, <2>3
<1>7. CASE TakesUser \/ SetsSend \/ SetsRecv
  <2>1. PICK from, to : Goes(Consdrv, from, to) /\ from \in {"command", "use_recv", "use_init"}
                        /\ to \in {"use_recv", "use_init", "free"}
                        /\ (from = "command" => text[ret[Consdrv]] = <<"use">>)
    BY <1>7 DEF TakesUser, SetsSend, SetsRecv
  <2>2. AtDriver = <<>> /\ AtDriver' = <<>>
    <3>1. Head(<<"use">>) # "write"
      OBVIOUS
    <3> QED
      BY <2>1, <3>1 DEF Goes, AtDriver
  <2>3. ~Copying /\ ~Copying' /\ (BeforeUse \/ Opening)
    BY <1>2, <2>1 DEF Goes, Copying, BeforeUse, Opening, Told
  <2>4. cons.send = <<>> /\ cons'.send = <<>> /\ port.tdre /\ port'.tdre
    <3>1. cons.send = <<>> /\ port = serial_init /\ serial_init.tdre
      BY <1>2, <2>3 DEF UseInv, serial_init
    <3>2. CASE TakesUser \/ SetsSend
      BY <1>2, <3>1, <3>2 DEF TakesUser, SetsSend, Consreg
    <3>3. CASE SetsRecv
      <4>1. cons'.send = cons.send /\ port' = [serial_init EXCEPT !.rie = TRUE]
        BY <1>2, <3>3 DEF SetsRecv, Consreg, serial_intr_recv_enable
      <4>2. port'.tdre
        BY <4>1 DEF serial_init
      <4> QED
        BY <3>1, <4>1, <4>2
    <3> QED
      BY <1>7, <3>2, <3>3
  <2> QED
    BY <1>4, <2>2, <2>3, <2>4 DEF OnTheWay
<1>8. CASE Masks
  <2>1. /\ Goes(Consdrv, "command", "write_copy") /\ Head(text[ret[Consdrv]]) = "write"
        /\ msg' = ret[Consdrv] /\ UNCHANGED <<cons, port, text>>
    BY <1>8 DEF Masks, InSection
  <2>2. ret[Consdrv] # NULL
    BY <1>2, <2>1, Names DEF DriverInv, Told, Goes
  <2>3. AtDriver' = AtDriver
    BY <2>1, <2>2 DEF AtDriver, Goes
  <2> QED
    BY <1>4, <2>1, <2>3 DEF Copying, Goes, OnTheWay
<1>9. CASE Unmasks
  BY <1>4, <1>9 DEF Unmasks, InSection, Goes, Copying, OnTheWay, AtDriver
<1>10. CASE Copies
  <2>1. /\ pc[Consdrv] = "write_copy" /\ pc'[Consdrv] = "write_test"
        /\ cons'.send = cons.send \o OnWire(Tail(text[msg])) /\ UNCHANGED <<msg, port, text>>
    BY <1>2, <1>10 DEF Copies, InSection, Goes, Consreg
  <2>2. Unsent' = cons.send
    <3>1. PICK w \in Seq(Char) : w = OnWire(Tail(text[msg]))
      BY <1>1, <2>1, UnsentIs
    <3>2. Unsent' = SubSeq(cons.send \o w, 1, Len(cons.send \o w) - Len(w))
      BY <2>1, <3>1 DEF Unsent, Copying
    <3> QED
      BY <1>2, <3>1, <3>2, Begun
  <2>3. Unsent = cons.send
    BY <1>1, <2>1, UnsentIs DEF Copying
  <2>4. AtDriver' = AtDriver
    BY <2>1 DEF AtDriver
  <2> QED
    BY <1>3, <2>1, <2>2, <2>3, <2>4 DEF Out
<1>11. CASE Tests \/ Starts
  <2>1. pc[Consdrv] \in {"write_test", "write_start"} /\ UNCHANGED <<msg, text>>
    BY <1>11 DEF Tests, Starts, InSection, Goes
  <2>2. PICK s \in Seq(Char) : s = Tail(text[msg]) /\ OnWire(s) \in Seq(Char)
    BY <1>1, <2>1, UnsentIs
  <2>3. AtDriver = <<s>> /\ cons.send = Unsent \o OnWire(s) /\ Unsent \in Seq(Char)
    BY <1>1, <2>1, <2>2, UnsentIs DEF AtDriver, Copying
  <2>4. PICK p \in Seq(Char \cup {port.tdr}) : p = IF port.tdre THEN <<>> ELSE <<port.tdr>>
    <3>1. <<>> \in Seq(Char \cup {port.tdr}) /\ <<port.tdr>> \in Seq(Char \cup {port.tdr})
      OBVIOUS
    <3> QED
      BY <3>1
  <2>5. Out = p \o Unsent /\ Out \o OnWire(s) = p \o cons.send
    <3>1. Out = p \o Unsent
      BY <2>4 DEF Out
    <3>2. Unsent \in Seq(Char \cup {port.tdr}) /\ OnWire(s) \in Seq(Char \cup {port.tdr})
      BY <2>2, <2>3
    <3>3. (p \o Unsent) \o OnWire(s) = p \o (Unsent \o OnWire(s))
      BY <3>2, ConcatAssociative, SMTT(30)
    <3> QED
      BY <2>3, <3>1, <3>3
  <2>6. CASE pc'[Consdrv] = "write_start"
    <3>1. Tests /\ UNCHANGED <<cons, port>> /\ Copying /\ Copying'
      BY <1>11, <2>1, <2>6 DEF Tests, Starts, InSection, Goes, Copying
    <3>2. Out' = Out /\ AtDriver' = AtDriver
      BY <2>1, <2>6, <3>1 DEF Out, Unsent, AtDriver
    <3> QED
      BY <1>3, <3>2
  <2>7. CASE Tests /\ pc'[Consdrv] # "write_start"
    <3>1. pc'[Consdrv] = "write_enable" /\ UNCHANGED <<cons, port>>
      BY <2>7 DEF Tests, InSection, Goes
    <3>2. AtDriver' = <<>> /\ ~Copying'
      BY <3>1 DEF AtDriver, Copying
    <3>3. Out' = p \o cons.send
      BY <1>2, <2>4, <3>1, <3>2, OutNext DEF OutRead, OnTheWay
    <3> QED
      BY <1>5, <2>3, <2>5, <3>2, <3>3
  <2>8. CASE Starts
    <3>1. /\ pc[Consdrv] = "write_start" /\ pc'[Consdrv] = "write_enable"
          /\ cons'.send = Tail(cons.send) /\ ~port'.tdre /\ port'.tdr = Head(cons.send)
      BY <1>2, <2>8 DEF Starts, InSection, Goes, Consreg
    <3>2. cons.send # <<>> /\ port.tdre
      BY <1>2, <3>1 DEF PortInv, Always
    <3>3. AtDriver' = <<>> /\ ~Copying'
      BY <3>1 DEF AtDriver, Copying
    <3>4. Out' = <<Head(cons.send)>> \o Tail(cons.send)
      BY <1>2, <3>1, <3>3, OutNext DEF OutRead, OnTheWay
    <3>5. <<Head(cons.send)>> \o Tail(cons.send) = p \o cons.send
      BY <1>2, <2>4, <3>2
    <3> QED
      BY <1>5, <2>3, <2>5, <3>3, <3>4, <3>5
  <2> QED
    BY <1>11, <2>6, <2>7, <2>8 DEF Starts, InSection, Goes
<1> QED
  BY <1>6, <1>7, <1>8, <1>9, <1>10, <1>11 DEF DriverMoves

(* The shell: it reads a line, and hands its strings to the driver. *)
LEMMA ShellKeeps ==
  ASSUME ConsoleInv, ConsoleInv', MovesInv, ShellAlone
  PROVE  /\ mode = "run" /\ AtDriver = <<>> /\ Owed = AtShell /\ Out' = Out
         /\ cons'.recv = cons.recv
<1>1. /\ mode = "run" /\ cons.send \in Seq(Char) /\ pc[Consdrv] = "command"
      /\ pc'[Consdrv] = "command" /\ ret[Consdrv] = NULL /\ UNCHANGED <<cons, port>>
  BY RunsWith DEF ShellAlone
<1>2. AtDriver = <<>> /\ ~Copying /\ ~Copying'
  BY <1>1 DEF AtDriver, Copying
<1>3. Out' = Out
  BY <1>1, <1>2, OutIs, OutNext DEF OutRead, OnTheWay
<1> QED
  BY <1>1, <1>2, <1>3, ScreenTyped

LEMMA AllocatesScreen ==
  ASSUME ConsoleInv, ConsoleInv', MovesInv, EnoughBlocks, MaxPending <= 2, ShellAlone,
         NEW from \in {"use_alloc", "prompt_alloc", "reply_alloc", "end_alloc"}, NEW to,
         to = IF from = "use_alloc" THEN "use_send" ELSE IF from = "prompt_alloc" THEN "prompt_send"
              ELSE IF from = "reply_alloc" THEN "reply_send" ELSE "end_send",
         Allocates(from, to)
  PROVE  ScreenStep
<1>1. /\ mode = "run" /\ AtDriver = <<>> /\ Owed = AtShell /\ Out' = Out
      /\ cons'.recv = cons.recv /\ mode' = "run"
  BY ShellKeeps, ShellHasRoom
<1>2. /\ ShellInv /\ ret \in [Thread -> Block \cup {NULL}] /\ ~ShellWaits
      /\ held \in [Thread -> SUBSET Block] /\ pc'[Consdrv] = "command" /\ ret[Consdrv] = NULL
      /\ Waiting \in Seq(Seq(Letter)) /\ text \in [Block -> Seq(Letter)]
  BY <1>1, RunsWith, ScreenTyped DEF ShellAlone
<1>3. /\ pc[Command] = from /\ pc'[Command] = to /\ text' = text /\ Waiting' = Waiting
      /\ str' = IF from = "reply_alloc" THEN ret[Command] ELSE str
  BY DEF Allocates, Goes
<1>4. ret'[Consdrv] = ret[Consdrv]
  BY <1>1, <1>2, Names DEF Allocates, GainsOrNot, Gains, RunsOut
<1>5. AtDriver' = <<>> /\ Owed' = AtShell'
  <2>1. AtDriver' = <<>>
    BY <1>2, <1>4 DEF AtDriver
  <2> QED
    BY <1>1, <2>1, ScreenTypedNext DEF TypedScreen
<1>6. Inbox = First \o Waiting /\ Inbox' = Waiting
  <2>1. First' = <<>>
    BY <1>3 DEF First, Arrived
  <2> QED
    BY <1>2, <1>3, <2>1, InboxIs, InboxNext DEF Keeps, ConsoleInv
<1>7. CASE from # "reply_alloc"
  <2>1. First = <<>>
    BY <1>3, <1>7 DEF First, Arrived
  <2>2. Inbox' = Inbox
    BY <1>2, <1>6, <2>1
  <2>3. AtShell' = AtShell
    BY <1>3, <1>7 DEF AtShell
  <2> QED
    BY <1>1, <1>5, <2>2, <2>3, ScreenStill
<1>8. CASE from = "reply_alloc"
  <2>1. PICK l \in Seq(Letter) : l = text[ret[Command]] /\ First = <<l>>
    BY <1>2, <1>3, <1>8, Names DEF ShellInv, First, Arrived
  <2>2. Inbox # <<>> /\ Head(Inbox) = l /\ Inbox' = Tail(Inbox)
    BY <1>2, <1>6, <2>1, InFront
  <2>3. AtShell = <<>> /\ AtShell' = Append(Reply(l), Prompt)
    BY <1>3, <1>8, <2>1 DEF AtShell
  <2> QED
    BY <1>1, <1>5, <2>2, <2>3, ScreenRead
<1> QED
  BY <1>7, <1>8

(* A string the shell sends is then with the driver; or it is lost. *)
LEMMA WriteScreen ==
  ASSUME ConsoleInv, ConsoleInv', MovesInv, EnoughBlocks, MaxPending <= 2, ShellAlone,
         NEW from, NEW to, NEW s \in Written, Sends(from, to, <<"write">> \o s),
         from # "reply_alloc", to # "reply_alloc",
         AtShell' \in Seq(Seq(Char)), AtShell = <<s>> \o AtShell'
  PROVE  ScreenStep
<1>1. /\ mode = "run" /\ AtDriver = <<>> /\ Owed = AtShell /\ Out' = Out
      /\ cons'.recv = cons.recv
  BY ShellKeeps
<1>2. /\ ret \in [Thread -> Block \cup {NULL}] /\ held \in [Thread -> SUBSET Block]
      /\ pc'[Consdrv] = "command" /\ ret[Consdrv] = NULL
      /\ Waiting \in Seq(Seq(Letter)) /\ text \in [Block -> Seq(Letter)]
  BY <1>1, RunsWith, ScreenTyped DEF ShellAlone
<1>3. /\ pc[Command] = from /\ pc'[Command] = to /\ Waiting' = Waiting
      /\ ret[Command] \in Block /\ text' = [text EXCEPT ![ret[Command]] = <<"write">> \o s]
  BY <1>2, Names DEF Sends, Goes
<1>4. First = <<>> /\ First' = <<>>
  BY <1>3 DEF First, Arrived
<1>5. Inbox = Waiting /\ Inbox' = Inbox
  BY <1>2, <1>3, <1>4, InboxIs, InboxNext DEF Keeps, ConsoleInv
<1>6. s \in Seq(Char)
  BY WrittenTyped
<1>7. CASE mode' = "run"
  <2>1. PICK b \in Block : /\ b = ret[Command] /\ ret'[Consdrv] = b
                           /\ text'[b] = <<"write">> \o s
    BY <1>2, <1>3, <1>7, Names DEF Sends, RunsOut
  <2>2. Head(text'[b]) = "write" /\ Tail(text'[b]) = s
    BY <2>1, MessageTyped
  <2>3. AtDriver' = <<s>>
    BY <1>2, <2>1, <2>2, Names DEF AtDriver
  <2>4. Owed' = Owed
    BY <1>1, <2>3 DEF Owed
  <2> QED
    BY <1>1, <1>5, <1>7, <2>4, ScreenStill
<1>8. CASE mode' # "run"
  <2>1. Waiting # <<>>
    BY <1>8, SendLacksRoom
  <2>2. ret' = ret
    BY <1>8 DEF Sends, RunsOut
  <2>3. AtDriver' = <<>>
    BY <1>2, <2>2 DEF AtDriver
  <2>4. Owed' = AtShell'
    BY <2>3 DEF Owed
  <2>5. Owed # <<>> /\ Owed' = Tail(Owed)
    BY <1>1, <1>6, <2>4, InFront
  <2> QED
    BY <1>1, <1>5, <1>8, <2>1, <2>5, ScreenOverrun
<1> QED
  BY <1>7, <1>8

LEMMA UseScreen ==
  ASSUME ConsoleInv, ConsoleInv', MovesInv, EnoughBlocks, MaxPending <= 2, ShellAlone,
         Sends("use_send", "prompt_alloc", <<"use">>)
  PROVE  ScreenStep
<1>1. /\ mode = "run" /\ AtDriver = <<>> /\ Owed = AtShell /\ Out' = Out
      /\ cons'.recv = cons.recv
  BY ShellKeeps
<1>2. /\ ret \in [Thread -> Block \cup {NULL}] /\ held \in [Thread -> SUBSET Block]
      /\ pc'[Consdrv] = "command" /\ ret[Consdrv] = NULL /\ HeldInv
      /\ Waiting \in Seq(Seq(Letter)) /\ text \in [Block -> Seq(Letter)]
  BY <1>1, RunsWith, ScreenTyped DEF ShellAlone, MovesInv
<1>3. /\ pc[Command] = "use_send" /\ pc'[Command] = "prompt_alloc" /\ Waiting' = Waiting
      /\ ret[Command] \in Block /\ text' = [text EXCEPT ![ret[Command]] = <<"use">>]
  BY <1>2, Names DEF Sends, Goes
<1>4. First = <<>> /\ First' = <<>> /\ AtShell' = AtShell
  BY <1>3 DEF First, Arrived, AtShell
<1>5. Inbox' = Inbox
  BY <1>3, <1>4, InboxIs, InboxNext DEF Keeps, ConsoleInv
<1>6. mode' = "run"
  BY <1>2, <1>3, SendLacksRoom DEF HeldInv, BeforeUse
<1>7. PICK b \in Block : ret'[Consdrv] = b /\ text'[b] = <<"use">>
  BY <1>2, <1>3, <1>6, Names DEF Sends, RunsOut
<1>8. AtDriver' = <<>>
  <2>1. Head(<<"use">>) # "write"
    OBVIOUS
  <2> QED
    BY <1>2, <1>7, <2>1 DEF AtDriver
<1>9. Owed' = Owed
  BY <1>1, <1>4, <1>6, <1>8, ScreenTypedNext DEF TypedScreen
<1> QED
  BY <1>1, <1>5, <1>6, <1>9, ScreenStill

LEMMA ShellScreen ==
  ASSUME ConsoleInv, ConsoleInv', MovesInv, EnoughBlocks, MaxPending <= 2, ShellAlone,
         ShellMoves
  PROVE  ScreenStep
<1>1. /\ mode = "run" /\ AtDriver = <<>> /\ Owed = AtShell /\ Out' = Out
      /\ cons'.recv = cons.recv
  BY ShellKeeps
<1>2. /\ ShellInv /\ ret \in [Thread -> Block \cup {NULL}] /\ held \in [Thread -> SUBSET Block]
      /\ pc'[Consdrv] = "command" /\ ret[Consdrv] = NULL
      /\ Waiting \in Seq(Seq(Letter)) /\ text \in [Block -> Seq(Letter)]
  BY <1>1, RunsWith, ScreenTyped DEF ShellAlone
<1>3. Prompt \in Seq(Char) /\ <<LF>> \in Seq(Char)
  BY Chars
<1>4. /\ <<>> \in Seq(Seq(Char)) /\ <<Prompt>> \in Seq(Seq(Char))
      /\ <<<<LF>>, Prompt>> \in Seq(Seq(Char))
      /\ <<Prompt>> \o <<>> = <<Prompt>> /\ <<<<LF>>>> \o <<Prompt>> = <<<<LF>>, Prompt>>
  <2>1. /\ <<>> \in Seq(Seq(Char)) /\ <<Prompt>> \in Seq(Seq(Char))
        /\ <<<<LF>>, Prompt>> \in Seq(Seq(Char))
    BY <1>3
  <2>2. <<Prompt>> \o <<>> = <<Prompt>>
    BY Joined
  <2>3. <<<<LF>>>> \o <<Prompt>> = <<<<LF>>, Prompt>>
    BY Joined
  <2> QED
    BY <2>1, <2>2, <2>3
<1>5. CASE Sends("prompt_send", "recv", <<"write">> \o Prompt)
  <2>1. AtShell = <<Prompt>> /\ AtShell' = <<>>
    BY <1>5 DEF Sends, Goes, AtShell
  <2> QED
    BY <1>4, <1>5, <2>1, WriteScreen, WrittenTyped
<1>6. CASE Sends("end_send", "free", <<"write">> \o <<LF>>)
  <2>1. AtShell = <<<<LF>>, Prompt>> /\ AtShell' = <<Prompt>>
    BY <1>6 DEF Sends, Goes, AtShell
  <2> QED
    BY <1>4, <1>6, <2>1, WriteScreen, WrittenTyped
<1>7. CASE Sends("reply_send", IF Len(Reply(text[str])) = 1 THEN "free" ELSE "end_alloc",
                 <<"write">> \o Reply(text[str])[1])
  <2>1. pc[Command] = "reply_send" /\ text[str] \in Lines
    BY <1>2, <1>7 DEF Sends, Goes, ShellInv
  <2>2. PICK r \in Seq(Char) : r = Reply(text[str])[1] /\ r \in Written
    BY <2>1, ReplyIs, WrittenTyped
  <2>3. PICK to : to = IF Len(Reply(text[str])) = 1 THEN "free" ELSE "end_alloc"
    OBVIOUS
  <2>4. AtShell = Append(Reply(text[str]), Prompt) /\ pc'[Command] = to
    BY <1>7, <2>1, <2>3 DEF AtShell, Sends, Goes
  <2>5. /\ AtShell = IF to = "free" THEN <<r, Prompt>> ELSE <<r, <<LF>>, Prompt>>
        /\ AtShell' = IF to = "free" THEN <<Prompt>> ELSE <<<<LF>>, Prompt>>
    <3>1. CASE to = "free"
      BY <2>1, <2>2, <2>3, <2>4, <3>1, ReplyIs DEF AtShell
    <3>2. CASE to = "end_alloc"
      BY <2>1, <2>2, <2>3, <2>4, <3>2, ReplyIs DEF AtShell
    <3> QED
      BY <2>3, <3>1, <3>2
  <2>6. <<r>> \o <<Prompt>> = <<r, Prompt>> /\ <<r>> \o <<<<LF>>, Prompt>> = <<r, <<LF>>, Prompt>>
    BY Joined
  <2> QED
    BY <1>4, <1>7, <2>2, <2>3, <2>5, <2>6, WriteScreen
<1>8. CASE Receives
  <2>1. pc[Command] = "recv" /\ pc'[Command] = "reply_alloc" /\ mode' = "run"
        /\ UNCHANGED <<str, text>> /\ ret'[Consdrv] = NULL
    BY <1>2, <1>8, Names DEF Receives, Goes
  <2>2. AtShell = <<>> /\ AtShell' = <<>> /\ AtDriver' = <<>> /\ First = <<>>
    BY <1>2, <2>1 DEF AtShell, AtDriver, First, Arrived
  <2>3. Inbox = Waiting /\ Inbox' = First' \o Waiting'
    BY <1>2, <2>2, InboxIs, InboxNext DEF Keeps, ConsoleInv
  <2>4. First' \o Waiting' = Waiting
    <3>1. CASE Waiting = <<>>
      <4>1. ret'[Command] = NULL /\ Waiting' = <<>>
        BY <1>2, <1>8, <3>1, Names DEF Receives
      <4> QED
        BY <3>1, <4>1 DEF First, Arrived
    <3>2. CASE Waiting # <<>>
      <4>1. PICK d \in Block : text[d] = Head(Waiting) /\ ret'[Command] = d /\ Waiting' = Tail(Waiting)
        BY <1>2, <1>8, <3>2, Names DEF Receives
      <4>2. First' = <<Head(Waiting)>>
        BY <2>1, <4>1, Names DEF First, Arrived
      <4> QED
        BY <1>2, <3>2, <4>1, <4>2
    <3> QED
      BY <3>1, <3>2
  <2>5. Owed' = Owed
    BY <1>1, <2>1, <2>2, ScreenTypedNext DEF TypedScreen
  <2> QED
    BY <1>1, <2>1, <2>3, <2>4, <2>5, ScreenStill
<1>9. CASE FreesLine
  <2>1. /\ pc[Command] = "free" /\ pc'[Command] = "prompt_alloc" /\ mode' = "run"
        /\ ret' = ret /\ Waiting' = Waiting
    BY <1>9 DEF FreesLine, Goes
  <2>2. AtShell' = AtShell /\ AtDriver' = <<>> /\ First' = First
    BY <1>2, <2>1 DEF AtShell, AtDriver, First, Arrived
  <2>3. Inbox' = Inbox
    BY <2>1, <2>2, InboxIs, InboxNext DEF Keeps, ConsoleInv
  <2>4. Owed' = Owed
    BY <1>1, <2>1, <2>2, ScreenTypedNext DEF TypedScreen
  <2> QED
    BY <1>1, <2>1, <2>3, <2>4, ScreenStill
<1> QED
  BY <1>5, <1>6, <1>7, <1>8, <1>9, AllocatesScreen, UseScreen DEF ShellMoves

LEMMA OwedIs ==
  ASSUME ConsoleInv, MovesInv, mode = "run", AtShell # <<>>
  PROVE  Owed # <<>>
<1>1. AtShell \in Seq(Seq(Char)) /\ Labels /\ DriverInv
  BY RunsWith, ScreenTyped
<1>2. CASE AtDriver = <<>>
  BY <1>2, ScreenTyped
<1>3. CASE AtDriver # <<>>
  <2>1. PICK s : AtDriver = <<s>>
    BY <1>3 DEF AtDriver
  <2>2. <<s>> \in Seq({s} \cup Seq(Char)) /\ AtShell \in Seq({s} \cup Seq(Char))
    BY <1>1
  <2>3. <<s>> \o AtShell # <<>>
    BY <2>2
  <2> QED
    BY <2>1, <2>3 DEF Owed
<1> QED
  BY <1>2, <1>3

LEMMA AppendBehind ==
  ASSUME NEW S, NEW u \in Seq(S), NEW v \in Seq(S), NEW x \in S
  PROVE  u \o Append(v, x) = Append(u \o v, x)
<1>1. <<x>> \in Seq(S) /\ u \o v \in Seq(S)
  OBVIOUS
<1>2. \A w \in Seq(S) : Append(w, x) = w \o <<x>>
  OBVIOUS
<1>3. (u \o v) \o <<x>> = u \o (v \o <<x>>)
  BY <1>1, ConcatAssociative
<1> QED
  BY <1>1, <1>2, <1>3

(* The handler: a key is a key of the terminal. *)
LEMMA HandlerScreen ==
  ASSUME ConsoleInv, ConsoleInv', MovesInv, EnoughBlocks, MaxPending <= 2, HandlerAlone,
         HandlerMoves
  PROVE  ScreenStep
<1>1. /\ mode = "run" /\ ShellInv /\ DriverInv /\ PortInv /\ KernelHolds /\ Labels
      /\ ret \in [Thread -> Block \cup {NULL}] /\ held \in [Thread -> SUBSET Block]
      /\ cons.send \in Seq(Char) /\ cons'.send \in Seq(Char) /\ cons.recv \in Seq(Char)
      /\ Waiting \in Seq(Seq(Letter)) /\ First \in Seq(Seq(Letter))
      /\ text \in [Block -> Seq(Letter)] /\ port \in Port(Char)
  BY RunsWith, ScreenTyped DEF HandlerAlone, ConsoleInv, Always, Types, Consreg
<1>2. /\ UNCHANGED <<pc, msg, str>> /\ pc[Consdrv] \notin Section /\ DriverWaits' = DriverWaits
      /\ SameText(held[Consdrv]) /\ SameText(held[Command])
  BY DEF HandlerAlone
<1>3. Out = OnTheWay /\ Out' = OnTheWay'
  <2>1. ~Copying /\ ~Copying'
    BY <1>2 DEF Copying, Section
  <2> QED
    BY <1>1, <2>1, OutIs, OutNext DEF OutRead
<1>4. AtShell' = AtShell
  <2>1. pc[Command] = "reply_send" => text'[str] = text[str]
    BY <1>1, <1>2 DEF ShellInv, SameText
  <2> QED
    BY <1>1, <1>2, <2>1 DEF AtShell, Labels
<1>5. ret'[Consdrv] = ret[Consdrv]
  BY <1>1, Names DEF HandlerMoves, Quiet, Extends, Loses, Stores, Gives
<1>6. Owed' = Owed
  <2>1. pc[Consdrv] = "command" /\ ret[Consdrv] # NULL =>
          text'[ret[Consdrv]] = text[ret[Consdrv]]
    BY <1>1, <1>2 DEF DriverInv, Told, SameText
  <2>2. AtDriver' = AtDriver
    BY <1>2, <1>5, <2>1 DEF AtDriver, Section
  <2> QED
    BY <1>4, <2>2 DEF Owed
<1>7. Inbox = First \o Waiting /\ Inbox' = First' \o Waiting'
  BY InboxIs, InboxNext DEF Keeps, ConsoleInv
<1>8. ret' = ret => First' = First
  <2>1. Arrived => text'[ret[Command]] = text[ret[Command]]
    BY <1>1, <1>2 DEF ShellInv, SameText, Arrived
  <2> QED
    BY <1>2, <2>1 DEF First, Arrived
<1>9. CASE Quiet
  BY <1>1, <1>3, <1>6, <1>7, <1>8, <1>9, ScreenStill DEF Quiet
<1>10. CASE Extends
  <2>1. Typed(port) \in Char \ {CR} /\ Typed(port) # LF
    BY <1>1, <1>10, ConsoleAssumption DEF Extends, Echoes, Typed, PortInv
  <2>2. /\ Out' = Out \o OnWire(<<Typed(port)>>) /\ cons'.recv = Append(cons.recv, Typed(port))
        /\ Inbox' = Inbox /\ mode' = "run"
    BY <1>1, <1>3, <1>7, <1>8, <1>10 DEF Extends, Echoes
  <2> QED
    BY <1>1, <1>6, <2>1, <2>2, ScreenType
<1>11. ASSUME LineEnds PROVE Out' = Out \o OnWire(<<LF>>) /\ LF \in Char \ {CR}
  BY <1>3, <1>11, Chars DEF LineEnds, Echoes
<1>12. CASE Loses
  <2>1. LineBefore
    BY <1>12, LineLacksRoom DEF Loses
  <2>2. Inbox' = Inbox
    BY <1>7, <1>8, <1>12 DEF Loses
  <2>3. Inbox # <<>> \/ Owed # <<>>
    <3>1. CASE pc[Command] \in {"reply_send", "end_alloc", "end_send", "free"}
      <4>1. AtShell # <<>>
        <5>1. CASE pc[Command] = "reply_send"
          <6>1. text[str] \in Lines
            BY <1>1, <5>1 DEF ShellInv
          <6> QED
            BY <5>1, <6>1, ReplyIs DEF AtShell
        <5>2. CASE pc[Command] # "reply_send"
          BY <3>1, <5>2 DEF AtShell
        <5> QED
          BY <5>1, <5>2
      <4>2. Owed # <<>>
        BY <1>1, <4>1, OwedIs
      <4> QED
        BY <4>2
    <3>2. CASE mb.head[CONSINPUT] # NULL
      <4>1. Waiting # <<>>
        BY <3>2 DEF Waiting
      <4> QED
        BY <1>1, <1>7, <4>1
    <3>3. CASE Arrived
      <4>1. First # <<>>
        BY <3>3 DEF First
      <4> QED
        BY <1>1, <1>7, <4>1
    <3> QED
      BY <2>1, <3>1, <3>2, <3>3 DEF LineBefore
  <2> QED
    BY <1>1, <1>6, <1>11, <1>12, <2>2, <2>3, ScreenOverrun DEF Loses
<1>13. CASE Stores
  <2>1. Waiting' = Append(Waiting, cons.recv) /\ First' = First
    BY <1>8, <1>13 DEF Stores
  <2>2. cons.recv \in Seq(Letter)
    BY <1>1 DEF Letter
  <2>3. First \o Append(Waiting, cons.recv) = Append(First \o Waiting, cons.recv)
    BY <1>1, <2>2, AppendBehind, SMTT(30)
  <2> QED
    BY <1>1, <1>6, <1>7, <1>11, <1>13, <2>1, <2>3, ScreenType DEF Stores
<1>14. CASE Gives
  <2>1. Waiting = <<>> /\ Waiting' = <<>> /\ pc[Command] = "reply_alloc" /\ ret[Command] = NULL
    BY <1>1, <1>14 DEF Gives, ShellInv
  <2>2. First = <<>>
    BY <2>1 DEF First, Arrived
  <2>3. PICK b \in Block : ret'[Command] = b /\ text'[b] = cons.recv
    BY <1>1, <1>14, Names DEF Gives
  <2>4. First' = <<cons.recv>>
    BY <1>2, <2>1, <2>3, Names DEF First, Arrived
  <2>5. Inbox = <<>> /\ Inbox' = <<cons.recv>> /\ Append(<<>>, cons.recv) = <<cons.recv>>
    BY <1>1, <1>7, <2>1, <2>2, <2>4
  <2> QED
    BY <1>1, <1>6, <1>11, <1>14, <2>5, ScreenType DEF Gives
<1> QED
  BY <1>9, <1>10, <1>12, <1>13, <1>14 DEF HandlerMoves

LEMMA ScreenNext ==
  ASSUME EnoughBlocks, MaxPending <= 2, ConsoleInv, ConsoleInv', MovesInv,
         [ConsoleNext]_allVars
  PROVE  ScreenStep
<1>1. CASE mode = "run"
  BY <1>1, Moves, ElsewhereScreen, DriverScreen, ShellScreen, HandlerScreen
<1>2. CASE mode # "run"
  <2>1. UNCHANGED allVars
    BY <1>2, DownAll
  <2>2. UNCHANGED <<Out, cons, Inbox, AtDriver, AtShell, mode>>
    BY <2>1 DEF allVars, vars, threadVars, ipcVars, shellVars, Out, Unsent, Copying, Inbox,
                Arrived, Texts, AtDriver, AtShell
  <2> QED
    BY <2>2 DEF ScreenStep, Screen!vars
<1> QED
  BY <1>1, <1>2

(* Whatever the constants, under the same condition on the memory: every key is
   echoed and every line answered once, in order and with the reply to its own text;
   what is written reaches the screen whole and in order, or the system goes down
   because a line came too early. *)
THEOREM ConsoleImplementsTerminal ==
  ASSUME EnoughBlocks, MaxPending <= 2
  PROVE  ConsoleSpec => ImplementsTerminal
<1>1. ConsoleInit => Screen!Init
  <2> SUFFICES ASSUME ConsoleInit PROVE Screen!Init
    OBVIOUS
  <2>1. ConsoleInv
    BY InitConsole
  <2>2. /\ mode = "run" /\ pc[Consdrv] = "setintr" /\ pc[Command] = "use_alloc"
        /\ cons.send = <<>> /\ cons.recv = <<>> /\ port.tdre /\ mb.head[CONSINPUT] = NULL
    BY Names, ConsoleAssumption DEF ConsoleInit, Init, Start, serial_init, EmptyBoxes
  <2>3. AtDriver = <<>> /\ AtShell = <<Prompt>> /\ ~Copying /\ First = <<>> /\ Waiting = <<>>
    BY <2>2 DEF AtDriver, AtShell, Copying, First, Arrived, Waiting
  <2>4. Inbox = <<>>
    BY <2>1, <2>3, InboxIs DEF Keeps, ConsoleInv
  <2>5. AtDriver \o AtShell = <<Prompt>>
    BY <2>1, <2>2, <2>3, ScreenTyped DEF Owed
  <2>6. Out = <<>>
    BY <2>1, <2>2, <2>3, OutIs, RunsWith DEF OutRead, OnTheWay
  <2> QED
    BY <2>2, <2>4, <2>5, <2>6 DEF Screen!Init
<1>2. ConsoleInv /\ ConsoleInv' /\ MovesInv /\ [ConsoleNext]_allVars => [Screen!Next]_(Screen!vars)
  BY ScreenNext DEF ScreenStep
<1> QED
  BY <1>1, <1>2, MovesAlways, PTL DEF ConsoleSpec, ImplementsTerminal, Screen!Spec
-----------------------------------------------------------------------------
(* What is still to come into the send buffer: the string the driver has been given,
   the rest of what the shell writes before it reads again, the echo of the key, and n
   characters for each line that has not been looked at.  It is counted together with
   what is there. *)
Cost(s) == Len(OnWire(s))

ToDriver ==
  IF pc[Consdrv] = "write_copy" THEN Cost(Tail(text[msg]))
  ELSE IF Told /\ Head(text[ret[Consdrv]]) = "write" THEN Cost(Tail(text[ret[Consdrv]]))
  ELSE 0

FromShell(n) ==
  IF pc[Command] = "reply_send" THEN AnswerLen(text[str])
  ELSE IF pc[Command] \in {"end_alloc", "end_send"} THEN Cost(<<LF>>) + Cost(Prompt)
  ELSE IF pc[Command] \in {"recv", "reply_alloc"} THEN (IF Arrived THEN n ELSE 0)
  ELSE Cost(Prompt)

KeyCost(n) == IF ~port.rdrf THEN 0 ELSE IF port.rdr = CR THEN n + 2 ELSE 1

KeyRoom == IF port.rdrf /\ port.rdr # CR THEN 1 ELSE 0

Load(n)  == Len(cons.send) + (ToDriver + FromShell(n)) + KeyCost(n) + Len(Waiting) * n
Limit(n) == OutLimit + (TypeAhead + 1) * n + 2

RoomInv(n) ==
  mode = "run" =>
    /\ ToDriver + FromShell(n) <= n
    /\ Len(Waiting) <= TypeAhead
    /\ Load(n) <= Limit(n)
    /\ Len(cons.recv) + KeyRoom <= CONS_SIZE

LEMMA CostTyped ==
  /\ \A s \in Seq(Char) : Cost(s) \in Nat
  /\ Cost(Prompt) \in Nat /\ Cost(<<LF>>) \in Nat
  /\ \A l \in Lines : /\ AnswerLen(l) \in Nat /\ Cost(Reply(l)[1]) \in Nat
                      /\ AnswerLen(l) = Cost(Reply(l)[1]) + (IF Len(Reply(l)) = 1 THEN 0 ELSE Cost(<<LF>>))
                                          + Cost(Prompt)
<1>1. ASSUME NEW s \in Seq(Char) PROVE Cost(s) \in Nat
  BY OnWireTyped, LenProperties DEF Cost
<1>2. Cost(Prompt) \in Nat /\ Cost(<<LF>>) \in Nat
  BY <1>1, WrittenTyped
<1>3. ASSUME NEW l \in Lines
      PROVE  /\ AnswerLen(l) \in Nat /\ Cost(Reply(l)[1]) \in Nat
             /\ AnswerLen(l) = Cost(Reply(l)[1]) + (IF Len(Reply(l)) = 1 THEN 0 ELSE Cost(<<LF>>))
                                 + Cost(Prompt)
  <2>1. Cost(Reply(l)[1]) \in Nat
    BY <1>1, WrittenTyped
  <2>2. CASE Seqs!IsPrefix(EchoWord, l)
    <3>1. Reply(l) = <<EchoReply(l), <<LF>>>>
      BY <2>2 DEF Reply
    <3>2. Len(Reply(l)) = 2 /\ Reply(l)[1] = EchoReply(l)
      BY <3>1
    <3>3. AnswerLen(l) = Cost(Prompt) + (Cost(EchoReply(l)) + Cost(<<LF>>))
      BY <2>2 DEF AnswerLen, Cost, EchoReply
    <3> QED
      BY <1>2, <2>1, <3>2, <3>3
  <2>3. CASE ~Seqs!IsPrefix(EchoWord, l)
    <3>1. Reply(l) = <<Unknown>>
      BY <2>3 DEF Reply
    <3>2. Len(Reply(l)) = 1 /\ Reply(l)[1] = Unknown
      BY <3>1
    <3>3. AnswerLen(l) = Cost(Prompt) + Cost(Unknown)
      BY <2>3 DEF AnswerLen, Cost
    <3> QED
      BY <1>2, <2>1, <3>2, <3>3
  <2> QED
    BY <2>2, <2>3
<1> QED
  BY <1>1, <1>2, <1>3

LoadParts(n) ==
  ConsoleInv /\ mode = "run" =>
    /\ ToDriver \in Nat /\ FromShell(n) \in Nat /\ KeyCost(n) \in Nat /\ Len(Waiting) \in Nat
    /\ Len(cons.send) \in Nat /\ Len(cons.recv) \in Nat /\ KeyRoom \in {0, 1}

LEMMA LoadTyped == \A n \in Nat : LoadParts(n)
<1> SUFFICES ASSUME NEW n \in Nat, ConsoleInv, mode = "run" PROVE LoadParts(n)
  BY DEF LoadParts
<1>1. /\ DriverInv /\ ShellInv /\ Waiting \in Seq(Seq(Letter)) /\ cons.send \in Seq(Char)
      /\ cons.recv \in Seq(Char)
  BY RunsWith, ScreenTyped
<1>2. ToDriver \in Nat
  <2>1. ASSUME NEW t, WriteOf(t) PROVE Cost(Tail(t)) \in Nat
    <3>1. PICK s \in Written : t = <<"write">> \o s
      BY <2>1 DEF WriteOf
    <3>2. Tail(t) = s /\ s \in Seq(Char)
      BY <3>1, MessageTyped, WrittenTyped
    <3> QED
      BY <3>2, CostTyped
  <2>2. Head(<<"use">>) # "write"
    OBVIOUS
  <2>3. Told /\ Head(text[ret[Consdrv]]) = "write" => WriteOf(text[ret[Consdrv]])
    BY <1>1, <2>2 DEF DriverInv
  <2>4. pc[Consdrv] = "write_copy" => WriteOf(text[msg])
    BY <1>1 DEF DriverInv
  <2> QED
    BY <2>1, <2>3, <2>4 DEF ToDriver
<1>3. FromShell(n) \in Nat
  <2>1. pc[Command] = "reply_send" => AnswerLen(text[str]) \in Nat
    BY <1>1, CostTyped DEF ShellInv
  <2>2. Cost(<<LF>>) + Cost(Prompt) \in Nat
    BY CostTyped
  <2> QED
    BY <2>1, <2>2, CostTyped DEF FromShell
<1>4. KeyCost(n) \in Nat /\ KeyRoom \in {0, 1}
  BY DEF KeyCost, KeyRoom
<1> QED
  BY <1>1, <1>2, <1>3, <1>4, LenProperties DEF LoadParts

LEMMA LoadTypedNext == \A n \in Nat : LoadParts(n)'
<1>1. (\A n \in Nat : LoadParts(n))'
  BY LoadTyped, PTL
<1> QED
  BY <1>1

(* Numbers of lines and of characters for them. *)
LEMMA ForLines ==
  ASSUME NEW n \in Nat, NEW k \in Nat, NEW m \in Nat
  PROVE  /\ k * n \in Nat /\ (k + 1) * n = k * n + n
         /\ k <= m => k * n <= m * n
<1>1. k * n \in Nat /\ (k + 1) * n = k * n + n
  OBVIOUS
<1>2. ASSUME k <= m PROVE k * n <= m * n
  <2>1. PICK d \in Nat : m = k + d
    <3>1. m - k \in Nat /\ m = k + (m - k)
      BY <1>2
    <3> QED
      BY <3>1
  <2>2. (k + d) * n = k * n + d * n /\ d * n \in Nat
    OBVIOUS
  <2> QED
    BY <1>1, <2>1, <2>2
<1> QED
  BY <1>1, <1>2

LEMMA Limits ==
  ASSUME NEW n, BuffersSuffice(n)
  PROVE  /\ n \in Nat /\ OutLimit \in Nat /\ TypeAhead \in Nat /\ CONS_SIZE \in Int
         /\ TypeAhead * n \in Nat /\ Limit(n) = OutLimit + (TypeAhead * n + n) + 2
         /\ Limit(n) \in Nat /\ Limit(n) <= CONS_SIZE
         /\ Cost(Prompt) <= n /\ \A l \in Lines : AnswerLen(l) <= n /\ Len(l) < CONS_SIZE
<1>1. n \in Nat /\ OutLimit \in Nat /\ TypeAhead \in Nat
  BY ConsoleAssumption DEF BuffersSuffice
<1>2. TypeAhead * n \in Nat /\ (TypeAhead + 1) * n = TypeAhead * n + n
  BY <1>1, ForLines
<1>3. CONS_SIZE \in Int
  BY KozosAssumption
<1>4. Limit(n) = OutLimit + (TypeAhead * n + n) + 2 /\ Limit(n) <= CONS_SIZE
  BY <1>2 DEF Limit, BuffersSuffice
<1> QED
  BY <1>1, <1>2, <1>3, <1>4 DEF BuffersSuffice, Cost

LEMMA LoadIs ==
  ASSUME NEW n
  PROVE  Load(n) = Len(cons.send) + (ToDriver + FromShell(n)) + KeyCost(n) + Len(Waiting) * n
BY Zenon DEF Load

LEMMA LoadNext ==
  ASSUME NEW n
  PROVE  Load(n)' = Len(cons'.send) + (ToDriver' + FromShell(n)') + KeyCost(n)' + Len(Waiting') * n
BY Zenon DEF Load

LEMMA Sums ==
  ASSUME NEW s \in Nat, NEW t \in Nat, NEW f \in Nat, NEW k \in Nat, NEW w \in Nat
  PROVE  /\ s + (t + f) + k + w \in Nat /\ s + (t + f) + k \in Nat
         /\ s + (t + f) + k <= s + (t + f) + k + w
         /\ s <= s + (t + f) + k
OBVIOUS

LEMMA AtMost ==
  ASSUME NEW a \in Nat, NEW b \in Nat, NEW c \in Int, a <= b, b <= c
  PROVE  a <= c
OBVIOUS

(* Nothing is added by a step that brings no more than it takes. *)
LEMMA RoomKept ==
  ASSUME NEW n, BuffersSuffice(n), ConsoleInv, ConsoleInv', RoomInv(n), mode = "run",
         Len(cons'.send) <= Len(cons.send) + (ToDriver + FromShell(n)) + KeyCost(n),
         Len(cons'.recv) <= CONS_SIZE,
         mode' = "run" => /\ ToDriver' + FromShell(n)' <= n /\ Len(Waiting') <= TypeAhead
                          /\ Load(n)' <= Load(n) /\ Len(cons'.recv) + KeyRoom' <= CONS_SIZE
  PROVE  RoomInv(n)' /\ PortBuffersHold'
<1>1. /\ n \in Nat /\ Limit(n) \in Nat /\ Limit(n) <= CONS_SIZE /\ CONS_SIZE \in Int
  BY Limits
<1>2. /\ ToDriver \in Nat /\ FromShell(n) \in Nat /\ KeyCost(n) \in Nat /\ Len(Waiting) \in Nat
      /\ Len(cons.send) \in Nat /\ Load(n) <= Limit(n)
  BY <1>1, LoadTyped DEF LoadParts, RoomInv
<1>3. Len(Waiting) * n \in Nat
  BY <1>1, <1>2, ForLines
<1>4. Len(cons'.send) \in Nat /\ Len(cons'.send) <= Load(n) /\ Load(n) \in Nat
  <2> DEFINE before == Len(cons.send) + (ToDriver + FromShell(n)) + KeyCost(n)
  <2>1. before \in Nat /\ before <= Load(n) /\ Load(n) \in Nat
    BY <1>2, <1>3, Sums, LoadIs, Zenon
  <2>2. Len(cons'.send) <= before
    OBVIOUS
  <2>3. Len(cons'.send) \in Nat
    BY LenProperties DEF ConsoleInv, Always, Types, Consreg
  <2> HIDE DEF before
  <2> QED
    BY <2>1, <2>2, <2>3, AtMost
<1>5. Len(cons'.send) <= CONS_SIZE
  <2>1. Len(cons'.send) <= Limit(n)
    BY <1>1, <1>2, <1>4, AtMost
  <2> QED
    BY <1>1, <2>1, AtMost
<1>6. mode' = "run" => Load(n)' <= Limit(n)
  <2> SUFFICES ASSUME mode' = "run" PROVE Load(n)' <= Limit(n)
    OBVIOUS
  <2>1. Load(n)' \in Nat
    <3>1. /\ ToDriver' \in Nat /\ FromShell(n)' \in Nat /\ KeyCost(n)' \in Nat
          /\ Len(Waiting') \in Nat /\ Len(cons'.send) \in Nat
      BY <1>1, LoadTypedNext DEF LoadParts
    <3>2. Len(Waiting') * n \in Nat
      BY <1>1, <3>1, ForLines
    <3> QED
      BY <3>1, <3>2, Sums, LoadNext, Zenon
  <2> QED
    BY <1>1, <1>2, <1>4, <2>1, AtMost
<1>7. Limit(n)' = Limit(n)
  BY DEF Limit
<1> QED
  BY <1>5, <1>6, <1>7 DEF RoomInv, PortBuffersHold

LEMMA KeyFits ==
  ASSUME NEW o \in Nat, NEW n \in Nat, NEW s \in Nat, NEW t \in Nat, NEW f \in Nat,
         NEW k \in Nat, NEW w \in Nat, NEW m \in Nat,
         s <= o, t + f <= n, k + w <= m + 2
  PROVE  s + (t + f) + k + w <= o + (m + n) + 2 /\ s <= o + (m + n) + 2
OBVIOUS

LEMMA LessToKeep ==
  ASSUME NEW r \in Nat, NEW q \in Nat, NEW q1 \in Nat, NEW c \in Int, q1 <= q, r + q <= c
  PROVE  r <= c /\ r + q1 <= c
OBVIOUS

LEMMA ElsewhereRoom ==
  ASSUME NEW n, BuffersSuffice(n), ConsoleInv, ConsoleInv', RoomInv(n), Elsewhere
  PROVE  RoomInv(n)' /\ PortBuffersHold'
<1>1. /\ mode = "run" /\ mode' = "run" /\ cons' = cons /\ Waiting' = Waiting
      /\ UNCHANGED <<ret, msg, str, text, mb>> /\ pc'[Consdrv] = pc[Consdrv]
      /\ pc'[Command] = pc[Command]
  BY DEF Elsewhere, shellVars
<1>2. ToDriver' = ToDriver /\ FromShell(n)' = FromShell(n)
  BY <1>1 DEF ToDriver, FromShell, Told, DriverWaits, Arrived
<1>3. /\ n \in Nat /\ OutLimit \in Nat /\ TypeAhead \in Nat /\ CONS_SIZE \in Int
      /\ Limit(n) = OutLimit + (TypeAhead * n + n) + 2 /\ TypeAhead * n \in Nat
      /\ Limit(n) \in Nat /\ Limit(n) <= CONS_SIZE
  BY Limits
<1>4. /\ ToDriver \in Nat /\ FromShell(n) \in Nat /\ KeyCost(n) \in Nat /\ KeyCost(n)' \in Nat
      /\ Len(Waiting) \in Nat /\ Len(cons.send) \in Nat /\ Len(cons.recv) \in Nat
      /\ KeyRoom \in {0, 1}
  BY <1>1, <1>3, LoadTyped, LoadTypedNext DEF LoadParts
<1>5. /\ ToDriver + FromShell(n) <= n /\ Len(Waiting) <= TypeAhead /\ Load(n) <= Limit(n)
      /\ Len(cons.recv) + KeyRoom <= CONS_SIZE
  BY <1>1 DEF RoomInv
<1>6. Len(Waiting) * n \in Nat /\ Len(Waiting) * n <= TypeAhead * n
  BY <1>3, <1>4, <1>5, ForLines
<1>7. Load(n)' = Len(cons.send) + (ToDriver + FromShell(n)) + KeyCost(n)' + Len(Waiting) * n
  BY <1>1, <1>2, LoadNext, Zenon
<1>8. Len(cons.recv) <= CONS_SIZE
  <2>1. KeyRoom \in Nat
    BY DEF KeyRoom
  <2> QED
    BY <1>3, <1>4, <1>5, <2>1, LessToKeep
<1>9. CASE port'.rdrf = port.rdrf /\ port'.rdr = port.rdr
  <2>1. KeyCost(n)' = KeyCost(n) /\ KeyRoom' = KeyRoom
    BY <1>9, Zenon DEF KeyCost, KeyRoom
  <2>2. Load(n)' = Load(n)
    BY <1>7, <2>1, LoadIs, Zenon
  <2>3. Load(n)' \in Nat /\ Load(n)' <= Load(n)
    <3>1. Load(n) \in Nat
      BY <1>4, <1>6, Sums, LoadIs, Zenon
    <3> QED
      BY <2>2, <3>1
  <2>4. Len(cons.send) <= Len(cons.send) + (ToDriver + FromShell(n)) + KeyCost(n)
    BY <1>4, Sums
  <2> QED
    BY <1>1, <1>2, <1>4, <1>5, <1>8, <2>1, <2>3, <2>4, RoomKept, Zenon
<1>10. ASSUME NEW c \in Char \ {LF}, Presses(c) PROVE RoomInv(n)' /\ PortBuffersHold'
  <2>1. Len(cons.send) <= OutLimit /\ port'.rdrf /\ port'.rdr = c
    BY <1>10 DEF Presses
  <2>2. KeyCost(n)' + Len(Waiting) * n <= TypeAhead * n + 2
    <3>1. CASE c = CR
      <4>1. Len(Waiting) < TypeAhead
        BY <1>10, <3>1 DEF Presses
      <4>2. KeyCost(n)' = n + 2
        BY <2>1, <3>1 DEF KeyCost
      <4>3. (Len(Waiting) + 1) * n <= TypeAhead * n /\ (Len(Waiting) + 1) * n = Len(Waiting) * n + n
        BY <1>3, <1>4, <4>1, ForLines
      <4> QED
        BY <1>3, <1>6, <4>2, <4>3
    <3>2. CASE c # CR
      <4>1. KeyCost(n)' = 1
        BY <2>1, <3>2 DEF KeyCost
      <4> QED
        BY <1>3, <1>6, <4>1
    <3> QED
      BY <3>1, <3>2
  <2>3. Load(n)' <= Limit(n) /\ Len(cons.send) <= Limit(n)
    <3>1. PICK w \in Nat, m \in Nat, k \in Nat, s \in Nat, t \in Nat, f \in Nat :
            /\ s <= OutLimit /\ t + f <= n /\ k + w <= m + 2 /\ s = Len(cons.send)
            /\ Limit(n) = OutLimit + (m + n) + 2 /\ Load(n)' = s + (t + f) + k + w
      BY <1>3, <1>4, <1>5, <1>6, <1>7, <2>1, <2>2, Zenon
    <3>2. s + (t + f) + k + w <= OutLimit + (m + n) + 2 /\ s <= OutLimit + (m + n) + 2
      BY <1>3, <3>1, KeyFits
    <3> QED
      BY <3>1, <3>2, Zenon
  <2>4. Len(cons.recv) + KeyRoom' <= CONS_SIZE
    <3>1. CASE c = CR
      <4>1. KeyRoom' = 0
        BY <2>1, <3>1 DEF KeyRoom
      <4> QED
        BY <1>4, <1>8, <4>1
    <3>2. CASE c # CR
      <4>1. KeyRoom' = 1
        BY <2>1, <3>2 DEF KeyRoom
      <4>2. PICK l \in Lines : Seqs!IsPrefix(Append(cons.recv, c), l)
        BY <1>10, <3>2, Zenon DEF Presses
      <4>3. Len(Append(cons.recv, c)) <= Len(l)
        BY <4>2 DEF Seqs!IsPrefix
      <4>4. cons.recv \in Seq(Char)
        BY <1>1, RunsWith
      <4>5. Len(Append(cons.recv, c)) = Len(cons.recv) + 1
        BY <4>4, AppendProperties
      <4>6. Len(l) < CONS_SIZE /\ Len(l) \in Nat
        BY Limits, Chars, LenProperties
      <4> QED
        BY <1>3, <1>4, <4>1, <4>3, <4>5, <4>6
    <3> QED
      BY <3>1, <3>2
  <2>5. Len(cons.send) <= CONS_SIZE
    BY <1>3, <1>4, <2>3, AtMost
  <2>6. Limit(n)' = Limit(n)
    BY DEF Limit
  <2> QED
    BY <1>1, <1>2, <1>5, <1>8, <2>3, <2>4, <2>5, <2>6 DEF RoomInv, PortBuffersHold
<1> QED
  BY <1>9, <1>10, Zenon DEF Elsewhere, Shows

(* Numbers: a step that adds nothing to what is said and to what is there. *)
LEMMA NoMore ==
  ASSUME NEW s \in Nat, NEW t \in Nat, NEW f \in Nat, NEW k \in Nat, NEW w \in Nat, NEW n \in Nat,
         NEW s1 \in Nat, NEW t1 \in Nat, NEW f1 \in Nat, NEW k1 \in Nat,
         t + f <= n, t1 + f1 <= t + f, s1 + (t1 + f1) + k1 <= s + (t + f) + k
  PROVE  /\ t1 + f1 <= n /\ s1 + (t1 + f1) + k1 + w <= s + (t + f) + k + w
OBVIOUS

LEMMA RoomSame ==
  ASSUME NEW n, BuffersSuffice(n), ConsoleInv, ConsoleInv', RoomInv(n), mode = "run",
         Len(cons'.send) <= Len(cons.send) + (ToDriver + FromShell(n)) + KeyCost(n),
         Len(cons'.recv) <= CONS_SIZE,
         mode' = "run" =>
           /\ Waiting' = Waiting /\ ToDriver' + FromShell(n)' <= ToDriver + FromShell(n)
           /\ Len(cons'.send) + (ToDriver' + FromShell(n)') + KeyCost(n)'
                <= Len(cons.send) + (ToDriver + FromShell(n)) + KeyCost(n)
           /\ Len(cons'.recv) + KeyRoom' <= CONS_SIZE
  PROVE  RoomInv(n)' /\ PortBuffersHold'
<1>1. /\ n \in Nat /\ ToDriver \in Nat /\ FromShell(n) \in Nat /\ KeyCost(n) \in Nat
      /\ Len(Waiting) \in Nat /\ Len(cons.send) \in Nat
      /\ ToDriver + FromShell(n) <= n /\ Len(Waiting) <= TypeAhead
  BY Limits, LoadTyped DEF LoadParts, RoomInv
<1>2. ASSUME mode' = "run" PROVE ToDriver' + FromShell(n)' <= n /\ Load(n)' <= Load(n)
  <2>1. /\ ToDriver' \in Nat /\ FromShell(n)' \in Nat /\ KeyCost(n)' \in Nat
        /\ Len(cons'.send) \in Nat /\ Len(Waiting) * n \in Nat
    BY <1>1, <1>2, LoadTypedNext, ForLines DEF LoadParts
  <2>2. PICK s \in Nat, t \in Nat, f \in Nat, k \in Nat, w \in Nat,
             s1 \in Nat, t1 \in Nat, f1 \in Nat, k1 \in Nat :
          /\ t + f <= n /\ t1 + f1 <= t + f /\ s1 + (t1 + f1) + k1 <= s + (t + f) + k
          /\ t1 + f1 = ToDriver' + FromShell(n)'
          /\ Load(n) = s + (t + f) + k + w /\ Load(n)' = s1 + (t1 + f1) + k1 + w
    BY <1>1, <1>2, <2>1, LoadIs, LoadNext, ZenonT(30)
  <2>3. t1 + f1 <= n /\ s1 + (t1 + f1) + k1 + w <= s + (t + f) + k + w
    BY <1>1, <2>2, NoMore
  <2> QED
    BY <2>2, <2>3, Zenon
<1> QED
  BY <1>1, <1>2, RoomKept, Zenon

LEMMA LessToSay ==
  ASSUME NEW s \in Nat, NEW t \in Nat, NEW f \in Nat, NEW k \in Nat, NEW s1 \in Nat,
         NEW t1 \in Nat, NEW k1 \in Nat, t1 <= t, s1 + t1 <= s + t, k1 <= k
  PROVE  /\ s1 <= s + (t + f) + k /\ t1 + f <= t + f
         /\ s1 + (t1 + f) + k1 <= s + (t + f) + k
OBVIOUS

LEMMA DriverRoom ==
  ASSUME NEW n, BuffersSuffice(n), ConsoleInv, ConsoleInv', MovesInv, RoomInv(n),
         DriverAlone, DriverMoves
  PROVE  RoomInv(n)' /\ PortBuffersHold'
<1>1. /\ mode = "run" /\ HeldInv /\ DriverInv /\ UseInv /\ PortInv /\ Labels
      /\ cons.send \in Seq(Char) /\ cons'.send \in Seq(Char)
      /\ text \in [Block -> Seq(Letter)] /\ ret \in [Thread -> Block \cup {NULL}]
      /\ cons'.recv = cons.recv /\ cons \in Consreg /\ port \in Port(Char)
  BY RunsWith, DriverKeeps DEF MovesInv, ConsoleInv, Always, Types, Consreg
<1>2. /\ n \in Nat /\ CONS_SIZE \in Int /\ ToDriver \in Nat /\ FromShell(n) \in Nat
      /\ KeyCost(n) \in Nat /\ Len(cons.send) \in Nat /\ Len(cons.recv) \in Nat
      /\ KeyRoom \in Nat /\ Len(cons.recv) + KeyRoom <= CONS_SIZE
  <2>1. n \in Nat /\ CONS_SIZE \in Int
    BY Limits
  <2>2. KeyRoom \in Nat
    BY DEF KeyRoom
  <2> QED
    BY <1>1, <2>1, <2>2, LoadTyped DEF LoadParts, RoomInv
<1>3. FromShell(n)' = FromShell(n) /\ Waiting' = Waiting
  <2>1. pc[Command] \notin {"reply_send", "reply_alloc"} /\ pc'[Command] = pc[Command]
    BY <1>1 DEF HeldInv, DriverAlone
  <2> QED
    BY <2>1 DEF FromShell, DriverAlone, Arrived
<1>4. KeyCost(n)' <= KeyCost(n) /\ KeyRoom' <= KeyRoom /\ KeyCost(n)' \in Nat /\ KeyRoom' \in Nat
  <2>1. \/ port'.rdrf = port.rdrf /\ port'.rdr = port.rdr
        \/ ~port'.rdrf
    BY <1>1 DEF DriverMoves, SetsHandler, Awaits, FreesMessage, TakesUser, SetsSend, SetsRecv, Masks,
                Copies, Tests, Starts, Unmasks, InSection, serial_intr_recv_enable, serial_init
  <2>2. CASE port'.rdrf = port.rdrf /\ port'.rdr = port.rdr
    <3>1. KeyCost(n)' = KeyCost(n) /\ KeyRoom' = KeyRoom
      BY <2>2, Zenon DEF KeyCost, KeyRoom
    <3> QED
      BY <1>2, <3>1
  <2>3. CASE ~port'.rdrf
    <3>1. KeyCost(n)' = 0 /\ KeyRoom' = 0
      BY <2>3, Zenon DEF KeyCost, KeyRoom
    <3> QED
      BY <1>2, <3>1
  <2> QED
    BY <2>1, <2>2, <2>3
<1>5. ASSUME NEW t1 \in Nat, Len(cons'.send) \in Nat, mode' = "run" => ToDriver' = t1,
             t1 <= ToDriver, Len(cons'.send) + t1 <= Len(cons.send) + ToDriver
      PROVE  RoomInv(n)' /\ PortBuffersHold'
  <2>1. PICK s \in Nat, t \in Nat, f \in Nat, k \in Nat, s1 \in Nat, k1 \in Nat :
          /\ s = Len(cons.send) /\ t = ToDriver /\ f = FromShell(n) /\ k = KeyCost(n)
          /\ s1 = Len(cons'.send) /\ k1 = KeyCost(n)'
          /\ t1 <= t /\ s1 + t1 <= s + t /\ k1 <= k
    BY <1>2, <1>4, <1>5, Zenon
  <2>2. t1 <= t /\ s1 + t1 <= s + t /\ k1 <= k
    BY <2>1, Zenon
  <2>3. /\ s1 <= s + (t + f) + k /\ t1 + f <= t + f
        /\ s1 + (t1 + f) + k1 <= s + (t + f) + k
    BY <2>2, LessToSay
  <2>4. /\ Len(cons'.send) <= Len(cons.send) + (ToDriver + FromShell(n)) + KeyCost(n)
        /\ t1 + FromShell(n) <= ToDriver + FromShell(n)
        /\ Len(cons'.send) + (t1 + FromShell(n)) + KeyCost(n)'
             <= Len(cons.send) + (ToDriver + FromShell(n)) + KeyCost(n)
    BY <2>1, <2>3, Zenon
  <2>5. Len(cons'.recv) <= CONS_SIZE /\ Len(cons'.recv) + KeyRoom' <= CONS_SIZE
    BY <1>1, <1>2, <1>4, LessToKeep, Zenon
  <2> QED
    BY <1>1, <1>3, <1>5, <2>4, <2>5, RoomSame, Zenon
<1>6. CASE SetsHandler \/ Awaits \/ FreesMessage \/ SetsSend \/ SetsRecv \/ Tests \/ Unmasks
  <2>1. cons'.send = cons.send
    BY <1>1, <1>6 DEF SetsHandler, Awaits, FreesMessage, SetsSend, SetsRecv, Tests, Unmasks, Consreg
  <2>2. ToDriver' = 0
    <3>1. pc'[Consdrv] # "write_copy" /\ ~Told'
      BY <1>1, <1>6, Zenon
         DEF SetsHandler, Awaits, FreesMessage, SetsSend, SetsRecv, Tests, Unmasks, InSection, Goes, Told
    <3> QED
      BY <3>1 DEF ToDriver
  <2>3. 0 \in Nat /\ 0 <= ToDriver /\ Len(cons'.send) + 0 <= Len(cons.send) + ToDriver
        /\ Len(cons'.send) \in Nat
    BY <1>2, <2>1
  <2> QED
    BY <1>5, <2>2, <2>3, Zenon
<1>7. CASE TakesUser
  <2>1. cons'.send = <<>> /\ Len(<<>>) = 0
    BY <1>1, <1>7 DEF TakesUser, Consreg
  <2>2. mode' = "run" => ToDriver' = 0
    <3>1. pc'[Consdrv] = "use_recv"
      BY <1>7 DEF TakesUser, Goes
    <3> QED
      BY <3>1 DEF ToDriver, Told
  <2>3. 0 \in Nat /\ 0 <= ToDriver /\ Len(cons'.send) + 0 <= Len(cons.send) + ToDriver
        /\ Len(cons'.send) \in Nat
    BY <1>2, <2>1
  <2> QED
    BY <1>5, <2>2, <2>3, Zenon
<1>8. CASE Masks
  <2>1. cons'.send = cons.send
    BY <1>8 DEF Masks
  <2>2. Told /\ ToDriver' = ToDriver
    <3>1. /\ pc[Consdrv] = "command" /\ pc'[Consdrv] = "write_copy" /\ text' = text
          /\ Head(text[ret[Consdrv]]) = "write" /\ msg' = ret[Consdrv] /\ ~DriverWaits
      BY <1>8 DEF Masks, InSection, Goes, DriverAlone
    <3>2. ToDriver' = Cost(Tail(text[ret[Consdrv]]))
      BY <3>1 DEF ToDriver
    <3>3. ToDriver = Cost(Tail(text[ret[Consdrv]]))
      BY <3>1 DEF ToDriver, Told
    <3> QED
      BY <3>1, <3>2, <3>3 DEF Told
  <2>3. ToDriver <= ToDriver /\ Len(cons'.send) + ToDriver <= Len(cons.send) + ToDriver
        /\ Len(cons'.send) \in Nat
    BY <1>2, <2>1
  <2> QED
    BY <1>2, <1>5, <2>2, <2>3, Zenon
<1>9. CASE Copies
  <2>1. PICK s \in Written : text[msg] = <<"write">> \o s
    BY <1>1, <1>9 DEF Copies, InSection, Goes, DriverInv, WriteOf
  <2>2. Tail(text[msg]) = s /\ OnWire(s) \in Seq(Char)
    BY <2>1, MessageTyped, WrittenTyped, OnWireTyped
  <2>3. ToDriver = Len(OnWire(s)) /\ ToDriver' = 0
    <3>1. pc[Consdrv] = "write_copy" /\ pc'[Consdrv] = "write_test"
      BY <1>9 DEF Copies, InSection, Goes
    <3> QED
      BY <2>2, <3>1 DEF ToDriver, Told, Cost
  <2>4. cons'.send = cons.send \o OnWire(s)
    BY <1>1, <1>9, <2>2 DEF Copies, Consreg
  <2>5. Len(cons'.send) = Len(cons.send) + Len(OnWire(s))
    BY <1>1, <2>2, <2>4
  <2>6. 0 \in Nat /\ 0 <= ToDriver /\ Len(cons'.send) + 0 <= Len(cons.send) + ToDriver
        /\ Len(cons'.send) \in Nat
    BY <1>2, <2>3, <2>5
  <2> QED
    BY <1>5, <2>3, <2>6, Zenon
<1>10. CASE Starts
  <2>1. cons'.send = Tail(cons.send) /\ cons.send # <<>>
    BY <1>1, <1>10 DEF Starts, InSection, Goes, Consreg, PortInv
  <2>2. Len(cons'.send) = Len(cons.send) - 1 /\ Len(cons'.send) \in Nat
    BY <1>1, <2>1, LenProperties
  <2>3. ToDriver' = 0
    <3>1. pc'[Consdrv] = "write_enable"
      BY <1>10 DEF Starts, InSection, Goes
    <3> QED
      BY <3>1 DEF ToDriver, Told
  <2>4. 0 \in Nat /\ 0 <= ToDriver /\ Len(cons'.send) + 0 <= Len(cons.send) + ToDriver
        /\ Len(cons'.send) \in Nat
    BY <1>2, <2>2
  <2> QED
    BY <1>5, <2>3, <2>4, Zenon
<1> QED
  BY <1>6, <1>7, <1>8, <1>9, <1>10 DEF DriverMoves

LEMMA ShellRoom ==
  ASSUME NEW n, BuffersSuffice(n), ConsoleInv, ConsoleInv', RoomInv(n), ShellAlone, ShellMoves
  PROVE  RoomInv(n)' /\ PortBuffersHold'
<1>1. /\ mode = "run" /\ DriverWaits /\ ~ShellWaits /\ pc[Consdrv] = "command"
      /\ pc'[Consdrv] = "command" /\ cons' = cons /\ port' = port /\ ShellInv /\ Labels
      /\ text \in [Block -> Seq(Letter)] /\ ret \in [Thread -> Block \cup {NULL}]
      /\ held \in [Thread -> SUBSET Block]
  BY RunsWith DEF ShellAlone
<1>2. /\ n \in Nat /\ CONS_SIZE \in Int /\ ToDriver \in Nat /\ FromShell(n) \in Nat
      /\ KeyCost(n) \in Nat /\ Len(Waiting) \in Nat /\ Len(cons.send) \in Nat
      /\ Len(cons.recv) \in Nat /\ Len(cons.recv) + KeyRoom <= CONS_SIZE
  BY <1>1, Limits, LoadTyped DEF LoadParts, RoomInv
<1>3. ToDriver = 0 /\ KeyCost(n)' = KeyCost(n) /\ KeyRoom' = KeyRoom
  BY <1>1 DEF ToDriver, Told, KeyCost, KeyRoom
<1>4. /\ Len(cons'.send) <= Len(cons.send) + (ToDriver + FromShell(n)) + KeyCost(n)
      /\ Len(cons'.recv) <= CONS_SIZE /\ Len(cons'.recv) + KeyRoom' <= CONS_SIZE
  <2>1. Len(cons.send) <= Len(cons.send) + (ToDriver + FromShell(n)) + KeyCost(n)
    BY <1>2, Sums
  <2>2. KeyRoom \in Nat
    BY DEF KeyRoom
  <2>3. Len(cons.recv) <= CONS_SIZE
    BY <1>2, <2>2, LessToKeep
  <2> QED
    BY <1>1, <1>2, <1>3, <2>1, <2>3, Zenon
<1>5. ASSUME mode' = "run" => /\ Waiting' = Waiting /\ ToDriver' \in Nat /\ FromShell(n)' \in Nat
                              /\ ToDriver' + FromShell(n)' <= FromShell(n)
      PROVE  RoomInv(n)' /\ PortBuffersHold'
  <2>1. ASSUME mode' = "run"
        PROVE  /\ ToDriver' + FromShell(n)' <= ToDriver + FromShell(n)
               /\ Len(cons'.send) + (ToDriver' + FromShell(n)') + KeyCost(n)'
                    <= Len(cons.send) + (ToDriver + FromShell(n)) + KeyCost(n)
    <3>1. PICK s \in Nat, f \in Nat, k \in Nat, t1 \in Nat, f1 \in Nat :
            /\ s = Len(cons.send) /\ f = FromShell(n) /\ k = KeyCost(n) /\ t1 = ToDriver'
            /\ f1 = FromShell(n)' /\ t1 + f1 <= f
      BY <1>2, <1>5, <2>1, Zenon
    <3>2. t1 + f1 <= f
      BY <3>1, Zenon
    <3>3. t1 + f1 <= 0 + f /\ s + (t1 + f1) + k <= s + (0 + f) + k
      BY <3>2
    <3> QED
      BY <1>1, <1>3, <3>1, <3>3, Zenon
  <2> QED
    BY <1>1, <1>4, <1>5, <2>1, RoomSame, Zenon
<1>6. mode' = "run" => /\ ToDriver' \in Nat /\ FromShell(n)' \in Nat /\ Len(Waiting') \in Nat
                       /\ KeyCost(n)' \in Nat
  BY <1>2, LoadTypedNext DEF LoadParts
<1>7. DriverWaits' => ToDriver' = 0
  BY <1>1 DEF ToDriver, Told
<1>8. ASSUME NEW from, NEW to, Allocates(from, to), mode' = "run" => FromShell(n)' <= FromShell(n)
      PROVE  RoomInv(n)' /\ PortBuffersHold'
  <2>1. mode' = "run" => /\ Waiting' = Waiting /\ ToDriver' \in Nat /\ FromShell(n)' \in Nat
                         /\ ToDriver' = 0
    BY <1>6, <1>7, <1>8 DEF Allocates
  <2>2. mode' = "run" => ToDriver' + FromShell(n)' <= FromShell(n)
    BY <1>2, <1>8, <2>1
  <2> QED
    BY <1>5, <2>1, <2>2, Zenon
<1>9. CASE Allocates("use_alloc", "use_send") \/ Allocates("prompt_alloc", "prompt_send")
           \/ Allocates("end_alloc", "end_send")
  <2>1. FromShell(n)' = FromShell(n)
    BY <1>9 DEF Allocates, Goes, FromShell, Arrived
  <2> QED
    BY <1>2, <1>8, <1>9, <2>1
<1>10. CASE Allocates("reply_alloc", "reply_send")
  <2>1. /\ pc[Command] = "reply_alloc" /\ pc'[Command] = "reply_send" /\ str' = ret[Command]
        /\ text' = text
    BY <1>10 DEF Allocates, Goes
  <2>2. ret[Command] \in held[Command] /\ text[ret[Command]] \in Lines /\ ret[Command] # NULL
    BY <1>1, <2>1, Names DEF ShellInv
  <2>3. FromShell(n) = n /\ FromShell(n)' = AnswerLen(text[ret[Command]])
    BY <2>1, <2>2 DEF FromShell, Arrived
  <2>4. FromShell(n)' <= FromShell(n)
    BY <2>2, <2>3, Limits, Zenon
  <2> QED
    BY <1>8, <1>10, <2>4
<1>11. CASE FreesLine
  <2>1. FromShell(n)' = FromShell(n)
    BY <1>11 DEF FreesLine, Goes, FromShell, Arrived
  <2>2. Waiting' = Waiting /\ DriverWaits' /\ mode' = "run"
    BY <1>11 DEF FreesLine
  <2>3. ToDriver' + FromShell(n)' <= FromShell(n)
    BY <1>2, <1>7, <2>1, <2>2
  <2> QED
    BY <1>5, <1>6, <2>2, <2>3, Zenon
<1>12. ASSUME NEW from, NEW to, NEW m, Sends(from, to, m), mode' = "run"
       PROVE  /\ Waiting' = Waiting
              /\ ToDriver' = IF Head(m) = "write" THEN Cost(Tail(m)) ELSE 0
  <2>1. /\ text' = [text EXCEPT ![ret[Command]] = m] /\ ret[Command] \in held[Command]
        /\ Waiting' = Waiting
    BY <1>12 DEF Sends
  <2>2. ~DriverWaits' /\ ret' = [ret EXCEPT ![Consdrv] = ret[Command]]
    BY <1>12 DEF Sends, RunsOut
  <2>3. ret[Command] \in Block /\ ret'[Consdrv] = ret[Command]
    BY <1>1, <2>1, <2>2, Names
  <2>4. text'[ret'[Consdrv]] = m
    BY <1>1, <2>1, <2>3
  <2>5. Told'
    BY <1>1, <2>2 DEF Told
  <2> QED
    BY <1>1, <2>1, <2>4, <2>5 DEF ToDriver
<1>13. ASSUME NEW from, NEW to, NEW s \in Written, Sends(from, to, <<"write">> \o s),
              mode' = "run" => Cost(s) + FromShell(n)' <= FromShell(n)
       PROVE  RoomInv(n)' /\ PortBuffersHold'
  <2>1. Head(<<"write">> \o s) = "write" /\ Tail(<<"write">> \o s) = s
    BY MessageTyped
  <2>2. mode' = "run" => Waiting' = Waiting /\ ToDriver' = Cost(s)
    BY <1>12, <1>13, <2>1, Zenon
  <2> QED
    BY <1>5, <1>6, <1>13, <2>2, Zenon
<1>14. CASE Sends("use_send", "prompt_alloc", <<"use">>)
  <2>1. FromShell(n)' = FromShell(n)
    BY <1>14 DEF Sends, Goes, FromShell
  <2>2. Head(<<"use">>) # "write"
    OBVIOUS
  <2>3. mode' = "run" => Waiting' = Waiting /\ ToDriver' = 0
    BY <1>12, <1>14, <2>2
  <2>4. 0 + FromShell(n) <= FromShell(n)
    BY <1>2
  <2> QED
    BY <1>5, <1>6, <2>1, <2>3, <2>4, Zenon
<1>15. CASE Sends("prompt_send", "recv", <<"write">> \o Prompt)
  <2>1. FromShell(n)' = 0 /\ FromShell(n) = Cost(Prompt)
    BY <1>15 DEF Sends, Goes, FromShell, Arrived
  <2>2. Cost(Prompt) + 0 <= Cost(Prompt)
    BY CostTyped
  <2> QED
    BY <1>13, <1>15, <2>1, <2>2, WrittenTyped, Zenon
<1>16. CASE Sends("end_send", "free", <<"write">> \o <<LF>>)
  <2>1. FromShell(n)' = Cost(Prompt) /\ FromShell(n) = Cost(<<LF>>) + Cost(Prompt)
    BY <1>16 DEF Sends, Goes, FromShell, Arrived
  <2>2. Cost(<<LF>>) + Cost(Prompt) <= Cost(<<LF>>) + Cost(Prompt)
    BY CostTyped
  <2> QED
    BY <1>13, <1>16, <2>1, <2>2, WrittenTyped, Zenon
<1>17. CASE Sends("reply_send", IF Len(Reply(text[str])) = 1 THEN "free" ELSE "end_alloc",
                  <<"write">> \o Reply(text[str])[1])
  <2>1. /\ pc[Command] = "reply_send"
        /\ pc'[Command] = IF Len(Reply(text[str])) = 1 THEN "free" ELSE "end_alloc"
    BY <1>17 DEF Sends, Goes
  <2>2. text[str] \in Lines
    BY <1>1, <2>1 DEF ShellInv
  <2>3. FromShell(n) = AnswerLen(text[str])
    BY <2>1 DEF FromShell
  <2>4. PICK l \in Lines : l = text[str]
    BY <2>2
  <2>5. FromShell(n)' = (IF Len(Reply(l)) = 1 THEN 0 ELSE Cost(<<LF>>)) + Cost(Prompt)
    <3>1. CASE Len(Reply(l)) = 1
      <4>1. FromShell(n)' = Cost(Prompt)
        BY <2>1, <2>4, <3>1 DEF FromShell, Arrived
      <4>2. 0 + Cost(Prompt) = Cost(Prompt)
        BY CostTyped
      <4> QED
        BY <3>1, <4>1, <4>2, Zenon
    <3>2. CASE Len(Reply(l)) # 1
      BY <2>1, <2>4, <3>2 DEF FromShell
    <3> QED
      BY <3>1, <3>2
  <2>6. Cost(Reply(l)[1]) + ((IF Len(Reply(l)) = 1 THEN 0 ELSE Cost(<<LF>>)) + Cost(Prompt))
          <= AnswerLen(l)
    <3>1. PICK a \in Nat, b \in Nat, c \in Nat :
            /\ a = Cost(Reply(l)[1]) /\ b = Cost(Prompt)
            /\ c = (IF Len(Reply(l)) = 1 THEN 0 ELSE Cost(<<LF>>)) /\ AnswerLen(l) = a + c + b
      BY CostTyped
    <3>2. a + (c + b) <= a + c + b
      OBVIOUS
    <3> QED
      BY <3>1, <3>2, Zenon
  <2>7. Reply(l)[1] \in Written
    BY WrittenTyped
  <2> QED
    BY <1>13, <1>17, <2>3, <2>4, <2>5, <2>6, <2>7, Zenon
<1>18. CASE Receives
  <2>1. /\ pc[Command] = "recv" /\ pc'[Command] = "reply_alloc" /\ mode' = "run" /\ DriverWaits'
    BY <1>18 DEF Receives, Goes
  <2>2. ToDriver' = 0 /\ FromShell(n) = 0
    BY <1>7, <2>1 DEF FromShell, Arrived
  <2>3. CASE Waiting = <<>>
    <3>1. Waiting' = Waiting /\ ret' = [ret EXCEPT ![Command] = NULL]
      BY <1>18, <2>3 DEF Receives
    <3>2. FromShell(n)' = 0
      BY <1>1, <2>1, <3>1, Names DEF FromShell, Arrived
    <3>3. 0 + 0 <= 0
      OBVIOUS
    <3> QED
      BY <1>5, <1>6, <2>1, <2>2, <3>1, <3>2, <3>3, Zenon
  <2>4. CASE Waiting # <<>>
    <3>1. Waiting' = Tail(Waiting) /\ \E d \in Block : ret' = [ret EXCEPT ![Command] = d]
      BY <1>18, <2>4 DEF Receives
    <3>2. FromShell(n)' = n
      BY <1>1, <2>1, <3>1, Names DEF FromShell, Arrived
    <3>3. Len(Waiting) = Len(Waiting') + 1
      BY <1>1, <2>4, <3>1, ScreenTyped
    <3>4. /\ Len(Waiting) * n = Len(Waiting') * n + n
          /\ Len(Waiting') * n \in Nat /\ Len(Waiting') <= TypeAhead
      <4>1. Len(Waiting') \in Nat
        BY <1>6, <2>1
      <4>2. Len(Waiting) <= TypeAhead /\ TypeAhead \in Nat
        BY <1>1, Limits DEF RoomInv
      <4> QED
        BY <1>2, <3>3, <4>1, <4>2, ForLines
    <3>5. Load(n)' <= Load(n)
      <4>1. PICK s \in Nat, k \in Nat, w \in Nat :
              /\ Load(n) = s + (0 + 0) + k + (w + n) /\ Load(n)' = s + (0 + n) + k + w
        BY <1>1, <1>2, <1>3, <2>2, <3>2, <3>4, LoadIs, LoadNext, Zenon
      <4>2. s + (0 + n) + k + w <= s + (0 + 0) + k + (w + n)
        BY <1>2
      <4> QED
        BY <4>1, <4>2, Zenon
    <3>6. ToDriver' + FromShell(n)' <= n
      BY <1>2, <2>2, <3>2
    <3> QED
      BY <1>1, <1>4, <3>4, <3>5, <3>6, RoomKept, Zenon
  <2> QED
    BY <2>3, <2>4
<1> QED
  BY <1>9, <1>10, <1>11, <1>14, <1>15, <1>16, <1>17, <1>18 DEF ShellMoves

LEMMA HandlerRoom ==
  ASSUME NEW n, BuffersSuffice(n), ConsoleInv, ConsoleInv', MovesInv, RoomInv(n),
         HandlerAlone, HandlerMoves
  PROVE  RoomInv(n)' /\ PortBuffersHold'
<1>1. /\ mode = "run" /\ ShellInv /\ DriverInv /\ PortInv /\ Labels /\ HeldInv
      /\ ret \in [Thread -> Block \cup {NULL}] /\ cons.send \in Seq(Char)
      /\ cons'.send \in Seq(Char) /\ cons.recv \in Seq(Char) /\ Pending(CONSINPUT) = Len(Waiting)
  BY RunsWith, WaitingLen DEF HandlerAlone, MovesInv, ConsoleInv, Always, Types, Consreg
<1>2. /\ pc' = pc /\ msg' = msg /\ str' = str /\ pc[Consdrv] \notin Section
      /\ DriverWaits' = DriverWaits /\ ~port'.rdrf
      /\ SameText(held[Consdrv]) /\ SameText(held[Command])
  BY DEF HandlerAlone
<1>3. /\ n \in Nat /\ CONS_SIZE \in Int /\ TypeAhead \in Nat /\ ToDriver \in Nat
      /\ FromShell(n) \in Nat /\ KeyCost(n) \in Nat /\ Len(Waiting) \in Nat
      /\ Len(cons.send) \in Nat /\ Len(cons'.send) \in Nat /\ Len(cons.recv) \in Nat
      /\ Len(cons.recv) + KeyRoom <= CONS_SIZE /\ ToDriver + FromShell(n) <= n
  BY <1>1, Limits, LoadTyped, LenProperties DEF LoadParts, RoomInv
<1>4. KeyCost(n)' = 0 /\ KeyRoom' = 0
  BY <1>2 DEF KeyCost, KeyRoom
<1>5. ToDriver' = ToDriver
  <2>1. ret'[Consdrv] = ret[Consdrv]
    BY <1>1, Names DEF HandlerMoves, Quiet, Extends, Loses, Stores, Gives
  <2>2. Told => text'[ret[Consdrv]] = text[ret[Consdrv]]
    BY <1>1, <1>2 DEF DriverInv, SameText
  <2> QED
    BY <1>2, <2>1, <2>2 DEF ToDriver, Told, Section
<1>6. ret' = ret => FromShell(n)' = FromShell(n)
  <2>1. pc[Command] = "reply_send" => text'[str] = text[str]
    BY <1>1, <1>2 DEF ShellInv, SameText
  <2> QED
    BY <1>2, <2>1 DEF FromShell, Arrived
<1>7. Len(cons.recv) <= CONS_SIZE
  <2>1. KeyRoom \in Nat
    BY DEF KeyRoom
  <2> QED
    BY <1>3, <2>1, LessToKeep
<1>8. CASE Quiet
  <2>1. /\ Len(cons'.send) <= Len(cons.send) /\ cons'.recv = cons.recv /\ Waiting' = Waiting
        /\ ret' = ret /\ KeyCost(n) = 0
    BY <1>8 DEF Quiet, KeyCost
  <2>2. PICK s \in Nat, s1 \in Nat, t \in Nat, f \in Nat :
          /\ s = Len(cons.send) /\ s1 = Len(cons'.send) /\ t = ToDriver /\ f = FromShell(n)
          /\ s1 <= s
    BY <1>3, <2>1, Zenon
  <2>3. s1 <= s + (t + f) + 0 /\ t + f <= t + f /\ s1 + (t + f) + 0 <= s + (t + f) + 0
    <3>1. s1 <= s
      BY <2>2, Zenon
    <3> QED
      BY <3>1
  <2>4. Len(cons.recv) + 0 <= CONS_SIZE
    BY <1>3, <1>7
  <2> QED
    BY <1>1, <1>4, <1>5, <1>6, <1>7, <2>1, <2>2, <2>3, <2>4, RoomSame, Zenon
<1>9. CASE Extends
  <2>1. /\ port.rdrf /\ Typed(port) # LF /\ Typed(port) \in Char
        /\ Len(cons'.send) <= Len(cons.send) + Len(OnWire(<<Typed(port)>>))
        /\ cons'.recv = Append(cons.recv, Typed(port)) /\ Waiting' = Waiting /\ ret' = ret
    BY <1>9 DEF Extends, Echoes
  <2>2. port.rdr # CR
    BY <2>1 DEF Typed
  <2>3. KeyCost(n) = 1 /\ KeyRoom = 1
    BY <2>1, <2>2 DEF KeyCost, KeyRoom
  <2>4. Len(OnWire(<<Typed(port)>>)) = 1
    BY <2>1, OnWireOne
  <2>5. Len(cons'.recv) + 0 <= CONS_SIZE /\ Len(cons'.recv) <= CONS_SIZE
    <3>1. Len(cons'.recv) = Len(cons.recv) + 1
      BY <1>1, <2>1, AppendProperties
    <3> QED
      BY <1>3, <2>3, <3>1
  <2>6. PICK s \in Nat, s1 \in Nat, t \in Nat, f \in Nat :
          /\ s = Len(cons.send) /\ s1 = Len(cons'.send) /\ t = ToDriver /\ f = FromShell(n)
          /\ s1 <= s + 1
    BY <1>3, <2>1, <2>4, Zenon
  <2>7. s1 <= s + (t + f) + 1 /\ t + f <= t + f /\ s1 + (t + f) + 0 <= s + (t + f) + 1
    <3>1. s1 <= s + 1
      BY <2>6, Zenon
    <3> QED
      BY <3>1
  <2> QED
    BY <1>1, <1>4, <1>5, <1>6, <2>1, <2>3, <2>5, <2>6, <2>7, RoomSame, Zenon
<1>10. ASSUME LineEnds
       PROVE  /\ KeyCost(n) = n + 2 /\ Len(Waiting) < TypeAhead
              /\ Len(cons'.send) <= Len(cons.send) + 2
              /\ Len(cons'.send) <= Len(cons.send) + (ToDriver + FromShell(n)) + KeyCost(n)
  <2>1. port.rdrf /\ LF = Typed(port) /\ Len(cons'.send) <= Len(cons.send) + Len(OnWire(<<LF>>))
    BY <1>10 DEF LineEnds, Echoes
  <2>2. port.rdr = CR
    BY <1>1, <2>1 DEF Typed, PortInv
  <2>3. KeyCost(n) = n + 2 /\ Len(Waiting) < TypeAhead
    BY <1>1, <2>1, <2>2 DEF KeyCost, PortInv
  <2>4. Len(OnWire(<<LF>>)) = 2
    BY Chars, OnWireOne
  <2>5. Len(cons'.send) <= Len(cons.send) + 2
    BY <2>1, <2>4
  <2>6. PICK s \in Nat, s1 \in Nat, t \in Nat, f \in Nat :
          /\ s = Len(cons.send) /\ s1 = Len(cons'.send) /\ t = ToDriver /\ f = FromShell(n)
          /\ s1 <= s + 2
    BY <1>3, <2>5, Zenon
  <2>7. s1 <= s + (t + f) + (n + 2)
    <3>1. s1 <= s + 2 /\ n \in Nat
      BY <1>3, <2>6, Zenon
    <3> QED
      BY <3>1
  <2> QED
    BY <2>3, <2>5, <2>6, <2>7, Zenon
<1>11. CASE Loses
  <2>1. LineEnds /\ mode' = "down" /\ cons'.recv \in {cons.recv, <<>>}
    BY <1>11 DEF Loses
  <2>2. Len(cons'.recv) <= CONS_SIZE
    <3>1. Len(<<>>) <= CONS_SIZE
      BY <1>3, <1>7
    <3> QED
      BY <1>7, <2>1, <3>1
  <2>3. mode' # "run"
    BY <2>1
  <2> QED
    BY <1>1, <1>10, <2>1, <2>2, <2>3, RoomKept, Zenon
<1>12. CASE Stores
  <2>1. /\ LineEnds /\ cons'.recv = <<>> /\ ret' = ret /\ Len(Waiting') <= Len(Waiting) + 1
        /\ mode' = "run"
    BY <1>12 DEF Stores
  <2>2. /\ Len(Waiting') \in Nat /\ Len(Waiting') <= TypeAhead
        /\ Len(Waiting) * n \in Nat /\ Len(Waiting') * n \in Nat
        /\ Len(Waiting') * n <= Len(Waiting) * n + n
    <3>1. Len(Waiting') \in Nat
      BY <1>3, <2>1, LoadTypedNext DEF LoadParts
    <3>2. Len(Waiting) < TypeAhead
      BY <1>10, <2>1
    <3>3. Len(Waiting') <= TypeAhead /\ Len(Waiting) + 1 \in Nat
      <4>1. PICK a \in Nat, b \in Nat :
              a = Len(Waiting) /\ b = Len(Waiting') /\ b <= a + 1 /\ a < TypeAhead
        BY <1>3, <2>1, <3>1, <3>2, Zenon
      <4>2. b <= a + 1 /\ a < TypeAhead /\ TypeAhead \in Nat
        BY <1>3, <4>1, Zenon
      <4>3. b <= TypeAhead /\ a + 1 \in Nat
        BY <4>2
      <4> QED
        BY <4>1, <4>3, Zenon
    <3> QED
      BY <1>3, <2>1, <3>1, <3>3, ForLines
  <2>3. Load(n)' <= Load(n)
    <3>1. PICK s \in Nat, t \in Nat, f \in Nat, w \in Nat, s1 \in Nat, w1 \in Nat :
            /\ s1 <= s + 2 /\ w1 <= w + n
            /\ Load(n) = s + (t + f) + (n + 2) + w /\ Load(n)' = s1 + (t + f) + 0 + w1
      BY <1>3, <1>4, <1>5, <1>6, <1>10, <2>1, <2>2, LoadIs, LoadNext, Zenon
    <3>2. s1 + (t + f) + 0 + w1 <= s + (t + f) + (n + 2) + w
      BY <1>3, <3>1
    <3> QED
      BY <3>1, <3>2, Zenon
  <2>4. Len(cons'.recv) <= CONS_SIZE /\ Len(cons'.recv) + 0 <= CONS_SIZE
    BY <1>3, <1>7, <2>1
  <2> QED
    BY <1>1, <1>3, <1>4, <1>5, <1>6, <1>10, <2>1, <2>2, <2>3, <2>4, RoomKept, Zenon
<1>13. CASE Gives
  <2>1. /\ LineEnds /\ cons'.recv = <<>> /\ ShellWaits /\ Waiting' = Waiting /\ mode' = "run"
        /\ \E b \in Block : ret' = [ret EXCEPT ![Command] = b]
    BY <1>13 DEF Gives
  <2>2. pc[Command] = "reply_alloc" /\ ret[Command] = NULL
    BY <1>1, <2>1 DEF ShellInv
  <2>3. DriverWaits /\ pc[Consdrv] = "command"
    BY <1>1, <2>2 DEF HeldInv, DriverInv
  <2>4. ToDriver = 0
    BY <2>3 DEF ToDriver, Told
  <2>5. FromShell(n) = 0 /\ FromShell(n)' = n
    BY <1>1, <1>2, <2>1, <2>2, Names DEF FromShell, Arrived
  <2>6. Load(n)' <= Load(n)
    <3>1. Len(Waiting) * n \in Nat
      BY <1>3, ForLines
    <3>2. PICK s \in Nat, w \in Nat, s1 \in Nat :
            /\ s1 <= s + 2
            /\ Load(n) = s + (0 + 0) + (n + 2) + w /\ Load(n)' = s1 + (0 + n) + 0 + w
      BY <1>3, <1>4, <1>5, <1>10, <2>1, <2>4, <2>5, <3>1, LoadIs, LoadNext, Zenon
    <3>3. s1 + (0 + n) + 0 + w <= s + (0 + 0) + (n + 2) + w
      BY <1>3, <3>2
    <3> QED
      BY <3>2, <3>3, Zenon
  <2>7. /\ Len(cons'.recv) <= CONS_SIZE /\ Len(cons'.recv) + 0 <= CONS_SIZE
        /\ 0 + n <= n /\ Len(Waiting) <= TypeAhead
    BY <1>1, <1>3, <1>7, <2>1 DEF RoomInv
  <2> QED
    BY <1>1, <1>4, <1>5, <1>10, <2>1, <2>4, <2>5, <2>6, <2>7, RoomKept, Zenon
<1> QED
  BY <1>8, <1>9, <1>11, <1>12, <1>13 DEF HandlerMoves

(* At the start there is the first prompt to come. *)
LEMMA RoomInit ==
  ASSUME NEW n, BuffersSuffice(n), ConsoleInit
  PROVE  RoomInv(n) /\ PortBuffersHold
<1>1. /\ mode = "run" /\ pc = Start /\ cons.send = <<>> /\ cons.recv = <<>> /\ ~port.rdrf
      /\ ret = [t \in Thread |-> NULL]
  BY DEF ConsoleInit, Init, serial_init
<1>2. pc[Consdrv] = "setintr" /\ pc[Command] = "use_alloc"
  BY <1>1, Names DEF Start
<1>3. Waiting = <<>> /\ Len(<<>>) = 0
  BY ConsoleAssumption DEF ConsoleInit, Init, EmptyBoxes, Waiting
<1>4. ToDriver = 0 /\ FromShell(n) = Cost(Prompt) /\ KeyCost(n) = 0 /\ KeyRoom = 0
  BY <1>1, <1>2 DEF ToDriver, Told, FromShell, KeyCost, KeyRoom
<1>5. /\ n \in Nat /\ OutLimit \in Nat /\ TypeAhead \in Nat /\ CONS_SIZE \in Int
      /\ Limit(n) = OutLimit + (TypeAhead * n + n) + 2 /\ TypeAhead * n \in Nat
      /\ Limit(n) \in Nat /\ Limit(n) <= CONS_SIZE /\ Cost(Prompt) <= n /\ Cost(Prompt) \in Nat
  BY Limits, CostTyped
<1>6. Load(n) = 0 + (0 + Cost(Prompt)) + 0 + 0
  <2>1. 0 * n = 0
    BY <1>5
  <2> QED
    BY <1>1, <1>3, <1>4, <2>1, LoadIs, Zenon
<1>7. Load(n) <= Limit(n) /\ 0 <= CONS_SIZE
  <2>1. PICK m \in Nat : m = TypeAhead * n /\ Limit(n) = OutLimit + (m + n) + 2
    BY <1>5
  <2>2. Cost(Prompt) <= OutLimit + (m + n) + 2
    BY <1>5
  <2> QED
    BY <1>5, <1>6, <2>1, <2>2
<1>8. 0 + Cost(Prompt) <= n /\ 0 <= TypeAhead /\ 0 + 0 <= CONS_SIZE
  BY <1>5, <1>7
<1> QED
  BY <1>1, <1>3, <1>4, <1>7, <1>8 DEF RoomInv, PortBuffersHold

LEMMA RoomNext ==
  ASSUME NEW n, BuffersSuffice(n), ConsoleInv, ConsoleInv', MovesInv, RoomInv(n), PortBuffersHold,
         [ConsoleNext]_allVars
  PROVE  RoomInv(n)' /\ PortBuffersHold'
<1>1. CASE mode = "run"
  BY <1>1, Moves, ElsewhereRoom, DriverRoom, ShellRoom, HandlerRoom
<1>2. CASE mode # "run"
  BY <1>2, DownAll DEF allVars, vars, RoomInv, PortBuffersHold
<1> QED
  BY <1>1, <1>2

(* The lines are those of the person, and shorter than their blocks. *)
LEMMA LineRoom ==
  ASSUME NEW n, BuffersSuffice(n), ConsoleInv
  PROVE  TerminatorFits
<1> SUFFICES ASSUME mode = "run", pc[Command] = "reply_alloc", ret[Command] # NULL
             PROVE  Len(text[ret[Command]]) + 1 <= CONS_SIZE
  BY DEF TerminatorFits
<1>1. text[ret[Command]] \in Lines
  BY RunsWith DEF ShellInv
<1>2. PICK l \in Lines : l = text[ret[Command]]
  BY <1>1
<1>3. Len(l) \in Nat /\ Len(l) < CONS_SIZE /\ CONS_SIZE \in Int
  BY Limits, Chars, LenProperties
<1>4. Len(l) + 1 <= CONS_SIZE
  BY <1>3
<1> QED
  BY <1>2, <1>4, Zenon

(* The buffers of the port hold what they are given, and a line its terminator,
   whatever the words, the lines and the order in which keys, characters on the line
   and the two threads come: if lines are shorter than their blocks, and the send
   buffer has room for what was there when the person typed, and for as many answers
   as there may be lines waiting, and one.  (os/consdrv.c does not compare the lengths
   with the size of the buffers, nor command_main the size with that of the block.) *)
THEOREM ConsoleBuffersHold ==
  ASSUME NEW n, BuffersSuffice(n)
  PROVE  ConsoleSpec => []BuffersHold
<1>1. ConsoleInit => RoomInv(n) /\ PortBuffersHold
  BY RoomInit
<1>2. ConsoleInv /\ ConsoleInv' /\ MovesInv /\ RoomInv(n) /\ PortBuffersHold /\ [ConsoleNext]_allVars
        => (RoomInv(n) /\ PortBuffersHold)'
  BY RoomNext
<1>3. ConsoleInv /\ PortBuffersHold => BuffersHold
  BY LineRoom DEF BuffersHold
<1> QED
  BY <1>1, <1>2, <1>3, MovesAlways, PTL DEF ConsoleSpec
=============================================================================
