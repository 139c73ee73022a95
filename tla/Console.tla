------------------------------ MODULE Console ------------------------------
(***************************************************************************)
(* The system os/main.c starts: the threads "idle" (start_threads),        *)
(* "consdrv" (os/consdrv.c) and "command" (os/command.c) on the kernel of  *)
(* Kozos, the serial port, and a person who types.  Every kernel call of a *)
(* thread is the kernel's own action; pc is where each thread goes on.     *)
(***************************************************************************)
EXTENDS Kozos, Serial
Seqs == INSTANCE SequencesExt

CONSTANTS
  CR, LF,            \* '\r' and '\n'
  Prompt,            \* "command> "
  EchoWord,          \* "echo "
  Unknown,           \* "unkown\n"
  CONSINPUT, CONSOUTPUT,  \* the message boxes
  (* What the person does. *)
  Lines,             \* the lines that may be typed
  TypeAhead,         \* lines typed before the shell has read the first
  OutLimit           \* one types only when no more than this is unsent

Char == {CR, LF} \cup UNION {{l[k] : k \in 1 .. Len(l)} :
                               l \in Lines \cup {Prompt, EchoWord, Unknown}}

Consdrv == THREAD_NUM - 2
Command == THREAD_NUM - 3

(* The words are strings, and what these three threads and the handler do with
   the kernel is this. *)
ASSUME ConsoleAssumption ==
  /\ THREAD_NUM >= 3 /\ PRIORITY_NUM >= 16 /\ CR # LF
  /\ CONSINPUT # CONSOUTPUT /\ {CONSINPUT, CONSOUTPUT} = MsgBox
  /\ {Prompt, EchoWord, Unknown} \cup Lines \subseteq Seq(Char)
  /\ Calls = {"RUN", "CHPRI", "CCR", "SETINTR", "KMALLOC", "KMFREE", "SEND", "RECV"}
  /\ RunPriorities = {1, 8} /\ NewPriorities = {15} /\ IntrTypes = {SERINTR}
  /\ HandlerCalls = {"NONE", "SEND"} /\ ~WakeReady
  /\ TypeAhead \in Nat /\ TypeAhead <= MaxPending

VARIABLES
  pc,        \* the next step of each thread
  ret,       \* the pointer its last kz_kmalloc or kz_recv has returned
  msg, str,  \* `buf' of consdrv_main, `str' of command_main
  text,      \* the string in each block that holds a message or a line
  cons,      \* consreg[0]: its user, buffers and their contents
  port       \* the serial port

shellVars  == <<msg, str, text>>
allVars    == <<vars, pc, ret, shellVars, cons, port>>

Start == [t \in Thread |-> CASE t = Idle    -> "run_consdrv"
                             [] t = Consdrv -> "setintr"
                             [] t = Command -> "use_alloc"
                             [] OTHER       -> "none"]

ConsoleInit ==
  /\ Init
  /\ pc = Start
  /\ ret = [t \in Thread |-> NULL]
  /\ msg = NULL /\ str = NULL
  /\ text = [b \in Block |-> <<>>]
  /\ cons = [sender |-> NULL, send_buf |-> NULL, recv_buf |-> NULL,
             send |-> <<>>, recv |-> <<>>]
  /\ port = serial_init

(* Thread t goes from one label to the next. *)
Goto(t, from, to) == current = t /\ pc[t] = from /\ pc' = [pc EXCEPT ![t] = to]

(* A thread that gains a block has been returned its address. *)
Returned(before) ==
  ret' = [t \in Thread |->
            LET gained == held'[t] \ held[t]
            IN  IF gained = {} THEN before[t] ELSE CHOOSE b \in gained : TRUE]
-----------------------------------------------------------------------------
(* Mutant: INTR_DISABLE is missing. *)
intr_disable_Not == SetCcr(FALSE)

intr_disable == SetCcr(TRUE)

(* Mutant: interrupts stay masked. *)
intr_enable_Not == SetCcr(TRUE)

intr_enable == SetCcr(FALSE)

(* start_threads. *)
start_threads ==
  /\ \/ Goto(Idle, "run_consdrv", "run_command") /\ thread_run(1)
     \/ Goto(Idle, "run_command", "chpri") /\ thread_run(8)
     \/ Goto(Idle, "chpri", "enable") /\ thread_chpri(15)
     \/ Goto(Idle, "enable", "sleep") /\ intr_enable
     \/ Goto(Idle, "sleep", "sleep") /\ mode = "run" /\ UNCHANGED vars
  /\ UNCHANGED <<ret, shellVars, cons, port>>
-----------------------------------------------------------------------------
(* The console driver.  d is consreg[0] together with the port. *)
Driver == [cons |-> cons, port |-> port]

(* send_string turns every '\n' into "\r\n". *)
OnWire(s) ==
  LET sent[k \in 0 .. Len(s)] ==
        IF k = 0 THEN <<>>
        ELSE sent[k - 1] \o (IF s[k] = LF THEN <<CR, LF>> ELSE <<s[k]>>)
  IN  sent[Len(s)]

send_char(d) ==
  [d EXCEPT !.port = serial_send_byte(d.port, Head(d.cons.send)),
            !.cons.send = Tail(@)]

(* The two halves of send_string: the string is copied to the buffer, which is
   not checked to be large enough; and sending is started, if it is not under
   way. *)
Copied(d, s)  == [d EXCEPT !.cons.send = @ \o OnWire(s)]
MustStart(d)  == d.cons.send # <<>> /\ ~d.port.tie
Started(d)    == LET sent == send_char(d)
                 IN  [sent EXCEPT !.port = serial_intr_send_enable(@)]

(* Mutant: the interrupt that sends the rest is not enabled. *)
send_string_NoEnable(d, s) ==
  LET full == Copied(d, s)
  IN  IF MustStart(full) THEN send_char(full) ELSE full

send_string(d, s) ==
  LET full == Copied(d, s) IN IF MustStart(full) THEN Started(full) ELSE full

(* Mutant: sending stops one character early. *)
consdrv_send_intrproc_StopsEarly(d) ==
  IF Len(d.cons.send) <= 1
  THEN [d EXCEPT !.port = serial_intr_send_disable(@)]
  ELSE send_char(d)

consdrv_send_intrproc(d) ==
  IF d.cons.send = <<>>
  THEN [d EXCEPT !.port = serial_intr_send_disable(@)]
  ELSE send_char(d)

(* Mutant: the register is read after it has been released. *)
Typed_TooLate(s) == IF s.rdr = CR THEN LF ELSE serial_recv_byte(s).rdr

(* The character received, and the echo of it. *)
Typed(s) == IF s.rdr = CR THEN LF ELSE s.rdr

Echoed(d) ==
  send_string([d EXCEPT !.port = serial_recv_byte(@)], <<Typed(d.port)>>)

(* Mutant: the handler does not look whether the port can take a character. *)
SendPart_NoTest(d) == consdrv_send_intrproc(d)

SendPart(d) == IF d.port.tdre THEN consdrv_send_intrproc(d) ELSE d

SetDriver(d) == cons' = d.cons /\ port' = d.port

(* The serial interrupt.  consdrv_recv_intrproc stores a character, or sends a
   complete line to the shell. *)
consdrv_intr ==
  /\ mode = "run" /\ ~ccr[current] /\ SERINTR \in handlers
  /\ Requests(port) /\ cons.sender # NULL
  /\ UNCHANGED <<threadVars, syscall, handlers, pc, msg, str>>
  /\ LET d == SendPart(Driver)
         e == Echoed(d)
     IN  \/ /\ ~port.rdrf
            /\ SetDriver(d)
            /\ Dispatch(rq)
            /\ UNCHANGED <<ipcVars, ret, text>>
         \/ /\ port.rdrf /\ Typed(port) # LF
            /\ SetDriver([e EXCEPT !.cons.recv = Append(@, Typed(port))])
            /\ Dispatch(rq)
            /\ UNCHANGED <<ipcVars, ret, text>>
         \/ /\ port.rdrf /\ Typed(port) = LF
            /\ NoFit(mem, CONS_SIZE) /\ Halt("down")
            /\ SetDriver(e)
            /\ UNCHANGED <<ret, text>>
         \/ /\ port.rdrf /\ Typed(port) = LF
            /\ SetDriver([e EXCEPT !.cons.recv = <<>>])
            /\ \E i \in Pool :
                 /\ FirstFit(mem, CONS_SIZE, i)
                 /\ text' = [text EXCEPT ![mem.free[i]] = cons.recv]
                 /\ Post(rq, kzmem_alloc(mem, i), held, NULL, CONSINPUT, mem.free[i])
            /\ Returned(ret)

-----------------------------------------------------------------------------
(* The thread of the driver.  consdrv_main waits for a message, ... *)
consdrv_main ==
  /\ \/ /\ Goto(Consdrv, "setintr", "recv") /\ thread_setintr(SERINTR)
        /\ UNCHANGED <<ret, msg>>
     \/ /\ Goto(Consdrv, "recv", "command") /\ thread_recv(CONSOUTPUT)
        /\ Returned([ret EXCEPT ![Consdrv] = NULL])
        /\ UNCHANGED msg
     \/ /\ Goto(Consdrv, "free", "recv") /\ thread_kmfree(msg)
        /\ msg' = NULL
        /\ UNCHANGED ret
  /\ text' = IF msg' = msg THEN text ELSE [text EXCEPT ![msg] = <<>>]
  /\ UNCHANGED <<str, cons, port>>

(* ... which CONSDRV_CMD_USE makes the driver the sender's: two buffers are
   allocated, and only then does the port ask for interrupts.  ("use" and
   "write" stand for the two commands at the front of a message.) *)
consdrv_command_use ==
  /\ \/ /\ Goto(Consdrv, "command", "use_recv")
        /\ text[ret[Consdrv]] = <<"use">>
        /\ msg' = ret[Consdrv]
        /\ thread_kmalloc(CONS_SIZE)
        /\ cons' = [cons EXCEPT !.sender = Command, !.send = <<>>]
        /\ UNCHANGED port
     \/ /\ Goto(Consdrv, "use_recv", "use_init")
        /\ thread_kmalloc(CONS_SIZE)
        /\ cons' = [cons EXCEPT !.send_buf = ret[Consdrv], !.recv = <<>>]
        /\ UNCHANGED <<msg, port>>
     \/ /\ Goto(Consdrv, "use_init", "free")
        /\ mode = "run"
        /\ cons' = [cons EXCEPT !.recv_buf = ret[Consdrv]]
        /\ port' = serial_intr_recv_enable(serial_init)
        /\ UNCHANGED <<vars, msg>>
  /\ Returned(ret)
  /\ UNCHANGED <<str, text>>

(* CONSDRV_CMD_WRITE: send_string with interrupts masked, which an interrupt
   could otherwise split between the steps below. *)
consdrv_command_write ==
  /\ \/ /\ Goto(Consdrv, "command", "write_copy")
        /\ Head(text[ret[Consdrv]]) = "write"
        /\ msg' = ret[Consdrv]
        /\ intr_disable
        /\ UNCHANGED <<cons, port>>
     \/ /\ Goto(Consdrv, "write_copy", "write_test")
        /\ mode = "run"
        /\ SetDriver(Copied(Driver, Tail(text[msg])))
        /\ UNCHANGED <<vars, msg>>
     \/ /\ Goto(Consdrv, "write_test",
                IF MustStart(Driver) THEN "write_start" ELSE "write_enable")
        /\ mode = "run"
        /\ UNCHANGED <<vars, msg, cons, port>>
     \/ /\ Goto(Consdrv, "write_start", "write_enable")
        /\ mode = "run"
        /\ SetDriver(Started(Driver))
        /\ UNCHANGED <<vars, msg>>
     \/ /\ Goto(Consdrv, "write_enable", "free")
        /\ intr_enable
        /\ UNCHANGED <<msg, cons, port>>
  /\ UNCHANGED <<ret, str, text>>
-----------------------------------------------------------------------------
(* The shell. *)
(* Mutant: the word "echo" is repeated too. *)
EchoReply_WithWord(line) == line

EchoReply(line) == SubSeq(line, Len(EchoWord) + 1, Len(line))

(* What command_main writes in answer to a line: strncmp looks at the first
   characters only. *)
Reply(line) ==
  IF Seqs!IsPrefix(EchoWord, line) THEN <<EchoReply(line), <<LF>>>> ELSE <<Unknown>>

(* Everything the shell writes, and the sizes of all blocks allocated ("use" is
   sent in a block of its own). *)
Written == {Prompt, <<LF>>} \cup {Reply(l)[1] : l \in Lines}

ASSUME AllocAssumption ==
  AllocSizes = {CONS_SIZE} \cup {Len(s) + 2 : s \in {<<"0">>} \cup Written}

(* send_write in two kernel calls: a buffer two characters longer than the
   string is allocated, filled and sent. *)
AllocWrite(from, to, s) ==
  /\ Goto(Command, from, to)
  /\ thread_kmalloc(Len(s) + 2)
  /\ Returned(ret)
  /\ UNCHANGED text

SendMessage(from, to, m) ==
  /\ Goto(Command, from, to)
  /\ thread_send(CONSOUTPUT, ret[Command])
  /\ text' = [text EXCEPT ![ret[Command]] = m]
  /\ Returned(ret)

SendWrite(from, to, s) == SendMessage(from, to, <<"write">> \o s)

(* `text' is what stands before the '\0' that is stored when a line has come:
   see TerminatorFits. *)
command_main ==
  /\ \/ AllocWrite("use_alloc", "use_send", <<"0">>) /\ UNCHANGED str
     \/ SendMessage("use_send", "prompt_alloc", <<"use">>) /\ UNCHANGED str
     \/ AllocWrite("prompt_alloc", "prompt_send", Prompt) /\ UNCHANGED str
     \/ SendWrite("prompt_send", "recv", Prompt) /\ UNCHANGED str
     \/ /\ Goto(Command, "recv", "reply_alloc")
        /\ thread_recv(CONSINPUT)
        /\ Returned([ret EXCEPT ![Command] = NULL])
        /\ UNCHANGED <<str, text>>
     \/ /\ str' = ret[Command]
        /\ AllocWrite("reply_alloc", "reply_send", Reply(text[str'])[1])
     \/ /\ SendWrite("reply_send",
                      IF Len(Reply(text[str])) = 1 THEN "free" ELSE "end_alloc",
                      Reply(text[str])[1])
        /\ UNCHANGED str
     \/ AllocWrite("end_alloc", "end_send", <<LF>>) /\ UNCHANGED str
     \/ SendWrite("end_send", "free", <<LF>>) /\ UNCHANGED str
     \/ /\ Goto(Command, "free", "prompt_alloc")
        /\ thread_kmfree(str)
        /\ text' = [text EXCEPT ![str] = <<>>]
        /\ str' = NULL
        /\ UNCHANGED ret
  /\ UNCHANGED <<msg, cons, port>>
-----------------------------------------------------------------------------
(* The line and the person.  A character leaves the port; a key is pressed when
   the one before has been taken, within the limits of the constants.  No key
   sends '\n'. *)
Transmit ==
  /\ mode = "run" /\ ~port.tdre
  /\ port' = Sent(port)
  /\ UNCHANGED <<vars, pc, ret, shellVars, cons>>

PressKey(c) ==
  /\ mode = "run" /\ port.rie /\ ~port.rdrf
  /\ Len(cons.send) <= OutLimit
  /\ IF c = CR THEN cons.recv \in Lines /\ Pending(CONSINPUT) < TypeAhead
     ELSE \E l \in Lines : Seqs!IsPrefix(Append(cons.recv, c), l)
  /\ port' = Received(port, c)
  /\ UNCHANGED <<vars, pc, ret, shellVars, cons>>

Threads == start_threads \/ consdrv_main \/ consdrv_command_use
           \/ consdrv_command_write \/ command_main

Halted == Spin /\ UNCHANGED allVars

ConsoleNext ==
  \/ Threads
  \/ consdrv_intr
  \/ Transmit
  \/ \E c \in Char \ {LF} : PressKey(c)
  \/ Halted

ConsoleSpec == ConsoleInit /\ [][ConsoleNext]_allVars

(* The processor executes the running thread, takes interrupts that are not
   masked, and the port sends what it has been given. *)
ConsoleFairSpec ==
  /\ ConsoleSpec
  /\ WF_allVars(Threads) /\ WF_allVars(consdrv_intr) /\ WF_allVars(Transmit)
-----------------------------------------------------------------------------
ConsoleTypeOK ==
  /\ TypeOK
  /\ DOMAIN pc = Thread
  /\ ret \in [Thread -> Block \cup {NULL}]
  /\ msg \in Block \cup {NULL} /\ str \in Block \cup {NULL}
  /\ text \in [Block -> Seq(Char \cup {"use", "write"})]
  /\ cons.sender \in ThreadPtr
  /\ cons.send_buf \in Block \cup {NULL} /\ cons.recv_buf \in Block \cup {NULL}
  /\ cons.send \in Seq(Char) /\ cons.recv \in Seq(Char)
  /\ port \in Port(Char)

(* Outside the section of consdrv_command with interrupts masked, characters
   wait in the send buffer only while the transmit interrupt is enabled, which
   is what will take them out: sending never stalls. *)
Writing == pc[Consdrv] \in {"write_copy", "write_test", "write_start", "write_enable"}

SendingGoesOn == mode = "run" /\ ~Writing /\ cons.send # <<>> => port.tie

(* serial_send_byte finds the port ready whenever the driver calls it: the
   processor never spins in its loop with interrupts masked. *)
NeverSpins == ~port.waited

(* The port interrupts only when the driver has a user and both buffers: the
   handler never stores through a pointer that has not been set. *)
BuffersFirst ==
  port.tie \/ port.rie =>
    /\ cons.sender # NULL /\ NULL \notin {cons.send_buf, cons.recv_buf}
    /\ cons.send_buf # cons.recv_buf
    /\ {cons.send_buf, cons.recv_buf} \subseteq held[Consdrv]

(* The characters that should answer a line - what follows the word "echo", or the
   complaint - with the prompt after it. *)
AnswerLen(l) ==
  LET words == SubSeq(l, Len(EchoWord) + 1, Len(l))
  IN  Len(OnWire(Prompt)) + (IF Seqs!IsPrefix(EchoWord, l)
                             THEN Len(OnWire(words)) + Len(OnWire(<<LF>>))
                             ELSE Len(OnWire(Unknown)))

(* Lines are shorter than the blocks they are in; and the send buffer is as large
   as the answers, of no more than n characters each, to all the lines typed ahead
   and one more, and what was there with the echo of '\n'. *)
BuffersSuffice(n) ==
  /\ n \in Nat /\ OutLimit \in Nat
  /\ Len(OnWire(Prompt)) <= n
  /\ \A l \in Lines : AnswerLen(l) <= n /\ Len(l) < CONS_SIZE
  /\ OutLimit + (TypeAhead + 1) * n + 2 <= CONS_SIZE

(* The code compares neither send_len nor recv_len with the size of a buffer.
   When the person waits for the echo before the next key, and has no more than
   TypeAhead lines waiting, the buffers hold what they are given, if they
   suffice in the sense above; and a line that the shell has been handed leaves
   room in its block for the '\0' that command_main stores behind it. *)
PortBuffersHold == Len(cons.send) <= CONS_SIZE /\ Len(cons.recv) <= CONS_SIZE

TerminatorFits ==
  mode = "run" /\ pc[Command] = "reply_alloc" /\ ret[Command] # NULL =>
    Len(text[ret[Command]]) + 1 <= CONS_SIZE

BuffersHold == PortBuffersHold /\ TerminatorFits

(* The blocks that can take `size' bytes, and how many they are. *)
Fitting(size) == {b \in Block : size <= PoolSize[b[1]] - HEADER_SIZE}
Room(size)    == Cardinality(Fitting(size))

(* Enough of them for all the threads hold while the shell's box is empty, and
   for everything the shell asks for itself also while it is full. *)
EnoughBlocks ==
  /\ Room(MSGBUF_SIZE) >= 5 /\ Room(CONS_SIZE) >= 5
  /\ Fitting(CONS_SIZE) \subseteq Fitting(MSGBUF_SIZE)
  /\ \A s \in {<<"0">>} \cup Written : Room(Len(s) + 2) >= 8

(* No block for a line that is complete, or none for the message it goes in. *)
NoRoomForLine ==
  \/ NoFit(mem, CONS_SIZE)
  \/ \E i \in Pool : FirstFit(mem, CONS_SIZE, i) /\ NoFit(kzmem_alloc(mem, i), MSGBUF_SIZE)

(* The system goes down in one case only: a line has been typed while the one
   before it is still with the shell, and no block is left for it.  Without that,
   replies never run it out of memory, whatever is waiting to be written; and no
   box ever has two receivers, and some thread is always ready. *)
DownByTypeAhead ==
  mode # "run" =>
    /\ mode = "down" /\ NoRoomForLine
    /\ str # NULL \/ mb.head[CONSINPUT] # NULL
       \/ (pc[Command] = "reply_alloc" /\ ret[Command] # NULL)

(* send_write copies its string into the block it has allocated for it, and
   not beyond: two characters in front, and as many from the string as the
   length, which counts these two again. *)
MessageFits ==
  \A b \in Block : text[b] # <<>> /\ Head(text[b]) = "write" =>
    Len(Tail(text[b])) + 4 <= PoolSize[b[1]] - HEADER_SIZE

(* Every key pressed is taken by the handler. *)
KeysAreTaken == (mode = "run" /\ port.rdrf) ~> (mode # "run" \/ ~port.rdrf)

(* A line that has arrived in the shell's box is read. *)
LinesAreRead ==
  (mode = "run" /\ mb.head[CONSINPUT] # NULL)
    ~> (mode # "run" \/ pc[Command] = "reply_send")

(* What is in the send buffer gets sent. *)
OutputMoves ==
  (mode = "run" /\ cons.send # <<>>) ~> (mode # "run" \/ cons.send = <<>>)
=============================================================================
