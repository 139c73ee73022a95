----------------------------- MODULE BootLoader -----------------------------
(***************************************************************************)
(* The boot loader's command loop (bootload/main.c) and elf_load           *)
(* (bootload/elf.c).  The headers of an ELF file are three bytes each: of  *)
(* the file, MAGIC for all that elf_check tests, the number of program     *)
(* headers, and the entry point; of a segment, its address, where it is in *)
(* the file, and its type and two sizes.                                   *)
(***************************************************************************)
EXTENDS Xmodem
LOCAL INSTANCE SequencesExt

CONSTANTS
  MAGIC,
  RAM_SIZE,  \* bytes of memory below the buffer, where programs are loaded
  NULL

ASSUME LoaderAssumption == RAM_SIZE \in Nat \ {0} /\ MAGIC \in Byte

VARIABLES
  loadbuf,   \* NULL, or the buffer
  at,        \* where main is: "gets", "wait", "exit"; or "deaf", see wait
  program,   \* NULL, or where a program has been started
  ram        \* memory below the buffer

vars == <<xvars, loadbuf, at, program, ram>>

LoaderInit ==
  /\ Init /\ loadbuf = NULL /\ at = "gets" /\ program = NULL
  /\ ram = [a \in 0 .. RAM_SIZE - 1 |-> Unset]

(* main waits for a command. *)
Prompt == pc = "done" /\ at = "gets" /\ program = NULL

load ==
  /\ Prompt /\ Start
  /\ loadbuf' = "buffer" /\ at' = "wait" /\ UNCHANGED <<program, ram>>

(* Mutant: the port keeps no character. *)
wait_KeepsNone ==
  /\ at = "wait" /\ pc = "done"
  /\ IF down # <<>> THEN at' = "deaf" /\ down' = <<>>
                     ELSE at' = "gets" /\ UNCHANGED down
  /\ UNCHANGED <<board, host, line, up, loadbuf, program, ram>>

(* After the transfer main is busy for a while.  Of what the host still sends
   the port keeps one character; another sets ORER, which nothing clears, and
   serial_recv_byte waits for ever. *)
wait ==
  /\ at = "wait" /\ pc = "done"
  /\ IF Len(down) > 1 THEN at' = "deaf" /\ down' = <<>>
                      ELSE at' = "gets" /\ UNCHANGED down
  /\ UNCHANGED <<board, host, line, up, loadbuf, program, ram>>

(* gets reads what the host still sends as part of a command, "unknown.", and
   echoes it: the host takes one of the characters for an answer. *)
unknown ==
  /\ Prompt /\ down # <<>> /\ down' = <<>>
  /\ \E k \in DOMAIN down : up' = Append(up, down[k])
  /\ UNCHANGED <<board, host, line, loadbuf, at, program, ram>>

(* The command "exit": startup.s loops for ever. *)
exit ==
  /\ Prompt /\ down = <<>> /\ at' = "exit"
  /\ UNCHANGED <<xvars, loadbuf, program, ram>>
-----------------------------------------------------------------------------
(* Memory: what programs are loaded to, and behind it the buffer.  Nothing
   knows how much of that has been received. *)
Memory == [a \in 0 .. RAM_SIZE + BUFFER_SIZE - 1 |->
             IF a < RAM_SIZE THEN ram[a] ELSE buffer[a - RAM_SIZE]]

Fetch(m, a) == IF a \in DOMAIN m THEN m[a] ELSE Unset

Store(m, a, c) == IF a \in DOMAIN m THEN [m EXCEPT ![a] = c] ELSE m

FirstTo(n) == [j \in 1 .. n |-> j - 1]

(* memcpy and memset of misc/lib.c: memcpy copies from the first byte to the
   last. *)
memcpy(m, dst, src, len) ==
  FoldLeft(LAMBDA s, j : Store(s, dst + j, Fetch(s, src + j)), m, FirstTo(len))

memset(m, dst, c, len) ==
  [a \in DOMAIN m |-> IF a \in dst .. dst + len - 1 THEN c ELSE m[a]]

(* Memory in which bytes that were never written decide what is written where:
   nothing is known of it any more. *)
Wild == [a \in DOMAIN Memory |-> Unset]

FileSize(s) == s % 4
BssSize(s)  == (s \div 4) % 4
IsLoad(s)   == s \div 16 = 1

(* Mutant: the bss is cleared where the segment begins. *)
elf_load_header_ClearsFirst(m, phdr) ==
  LET field(k) == Fetch(m, phdr + k)
  IN  IF Unset \in {field(0), field(1), field(2)} THEN Wild
      ELSE IF ~IsLoad(field(2)) THEN m
      ELSE memset(memcpy(m, field(0), RAM_SIZE + field(1), FileSize(field(2))),
                  field(0), 0, BssSize(field(2)))

(* A segment to be loaded is copied, and the memory behind it cleared; the size
   of what has been copied is read again from the header after that. *)
elf_load_header(m, phdr) ==
  LET field(k) == Fetch(m, phdr + k)
      copied == memcpy(m, field(0), RAM_SIZE + field(1), FileSize(field(2)))
      again  == Fetch(copied, phdr + 2)
  IN  IF Unset \in {field(0), field(1), field(2)} THEN Wild
      ELSE IF ~IsLoad(field(2)) THEN m
      ELSE IF again = Unset THEN Wild
      ELSE memset(copied, field(0) + FileSize(again), 0, BssSize(field(2)))

(* The number of headers is read again for each of them.  If it was never written,
   or one of them is not in the buffer, nothing is known. *)
elf_load_program(m) ==
  FoldLeft(LAMBDA s, k : LET num == Fetch(s, RAM_SIZE + 1)
                         IN  IF num = Unset THEN Wild
                             ELSE IF k < num THEN elf_load_header(s, RAM_SIZE + 3 * (k + 1))
                             ELSE s,
           m, FirstTo(BUFFER_SIZE \div 3))

(* A byte that was never written may be the right one. *)
elf_check == loadbuf # NULL /\ buffer[0] \in {MAGIC, Unset}

(* What memory is like afterwards, and the entry point, read from there; when
   elf_check fails all is as before, and the answer is NULL. *)
elf_load ==
  LET m == IF elf_check THEN elf_load_program(Memory) ELSE Memory
  IN  [memory |-> m, entry_point |-> IF elf_check THEN Fetch(m, RAM_SIZE + 2) ELSE 0]

(* The command "run".  Where the entry point is NULL nothing is started, "run
   error!", but what has been copied stays. *)
run ==
  /\ Prompt /\ down = <<>>
  /\ LET l == elf_load
     IN  /\ ram' = [a \in DOMAIN ram |-> l.memory[a]]
         /\ buffer' = [k \in DOMAIN buffer |-> l.memory[RAM_SIZE + k]]
         /\ \E e \in IF l.entry_point = Unset THEN {0, Unset} ELSE {l.entry_point} :
              program' = IF e = 0 THEN NULL ELSE e
  /\ UNCHANGED <<pc, receiving, block_number, got, i, check_sum, size, host, line,
                 down, up, loadbuf, at>>

Transferring == (Board \/ Host \/ Line) /\ UNCHANGED <<loadbuf, at, program, ram>>

Next == load \/ wait \/ unknown \/ exit \/ run \/ Transferring

Spec == LoaderInit /\ [][Next]_vars

(* The board executes, and the host reads answers and repeats what has not been
   answered; nothing makes it stop. *)
LoaderFair ==
  /\ WF_vars(Board /\ UNCHANGED <<loadbuf, at, program, ram>>)
  /\ WF_vars((HostReads \/ HostTimeout) /\ UNCHANGED <<loadbuf, at, program, ram>>)
-----------------------------------------------------------------------------
LoaderTypeOK ==
  /\ TypeOK
  /\ loadbuf \in {NULL, "buffer"} /\ at \in {"gets", "wait", "exit", "deaf"}
  /\ program \in {NULL, Unset} \cup (Byte \ {0})
  /\ ram \in [0 .. RAM_SIZE - 1 -> Byte \cup {Unset}]

(* The blocks received are those of the file, once and in order, as long as the
   transfer lasts (run may write over them later), and xmodem_recv returns
   a size only when it has received them all. *)
Blocks(n) ==
  [k \in 1 .. n |-> [j \in 1 .. BLOCK_SIZE |-> buffer[(k - 1) * BLOCK_SIZE + j - 1]]]

Loading == INSTANCE Transfer WITH
  received <- IF pc = "done" THEN <<>> ELSE Blocks(got \div BLOCK_SIZE),
  outcome  <- IF pc # "done" THEN "open" ELSE IF size = -1 THEN "failed" ELSE "complete"

ImplementsTransfer == Loading!Spec

(* When the host has seen its file acknowledged, the board has it: no answer is
   counted for another block than the one it belongs to.  But when the board
   has given up, gets echoes what the host still sends, and an ACK in that is
   an answer to it. *)
HoldsAck == \E k \in 1 .. Len(file) : ACK \in {Packet(k)[j] : j \in DOMAIN Packet(k)}

HostIsRight ==
  hostpc = "done" =>
    /\ pc = "done"
    /\ size = Len(file) * BLOCK_SIZE \/ (size = -1 /\ HoldsAck)

(* A program that is started has every segment of its file that is to be loaded
   in memory, and is started at the entry point of the file; a file without one
   is not started.  This holds whatever transfers and programs have been in
   memory before, also when the transfer has failed and when segments are copied
   over the buffer, as long as the bytes elf_load reads had been received, and no
   segment is copied over headers or over what is still to be copied. *)
Contents(f) == FlattenSeq(f)
Phdr(f, k)  == SubSeq(Contents(f), 3 * k + 1, 3 * k + 3)
Phdrs(f)    == 1 .. Contents(f)[2]
Loads(f)    == {k \in Phdrs(f) : IsLoad(Phdr(f, k)[3])}

Copied(p)  == p[1] .. p[1] + FileSize(p[3]) - 1
Written(p) == p[1] .. p[1] + FileSize(p[3]) + BssSize(p[3]) - 1
Source(p)  == RAM_SIZE + p[2] .. RAM_SIZE + p[2] + FileSize(p[3]) - 1
Headers(f) == RAM_SIZE + 1 .. RAM_SIZE + 2 + 3 * Contents(f)[2]

ReceivedProgram(f) ==
  /\ got >= 3 /\ got >= 3 + 3 * Contents(f)[2]
  /\ \A k \in Loads(f) : Phdr(f, k)[2] + FileSize(Phdr(f, k)[3]) <= got

Undisturbed(f) ==
  \A k \in Loads(f) :
    /\ Written(Phdr(f, k)) \cap Headers(f) = {}
    /\ Copied(Phdr(f, k)) \cap Source(Phdr(f, k)) # {} => Phdr(f, k)[1] <= RAM_SIZE + Phdr(f, k)[2]
    /\ \A l \in Loads(f) :
         /\ l > k => Written(Phdr(f, k)) \cap Source(Phdr(f, l)) = {}
         /\ l # k => Written(Phdr(f, k)) \cap Written(Phdr(f, l)) = {}

HoldsSegment(f, p) ==
  \A j \in 0 .. FileSize(p[3]) + BssSize(p[3]) - 1 :
    Fetch(Memory, p[1] + j) = IF j < FileSize(p[3]) THEN Contents(f)[p[2] + j + 1] ELSE 0

StartsWhatWasSent ==
  program # NULL /\ ReceivedProgram(file) /\ Undisturbed(file) =>
    /\ \A k \in Loads(file) : HoldsSegment(file, Phdr(file, k))
    /\ program = Contents(file)[3] /\ program # 0

(* A transfer on which both agree leaves the boot loader able to take the next
   command: only a host that goes on after the end of it makes it deaf. *)
SuccessIsHeard == at = "deaf" => hostpc # "done" \/ size = -1

(* A transfer ends, unless the host stops. *)
TransferEnds == (pc # "done") ~> (pc = "done" \/ hostpc = "stopped")

(* xmodem_recv returns the size of the file, or -1. *)
ReturnsFileSize == pc = "done" /\ size # -1 => size = Len(file) * BLOCK_SIZE
=============================================================================
