------------------------------- MODULE Xmodem -------------------------------
(***************************************************************************)
(* xmodem_recv of bootload/xmodem.c, one step per byte it reads, with the  *)
(* host that sends a file to it (sx, as writer/kermitrc starts it) and the *)
(* serial line between them, which may garble bytes and lose answers.      *)
(***************************************************************************)
EXTENDS Integers, Sequences
LOCAL INSTANCE SequencesExt

CONSTANTS
  BYTE,                     \* the number of values of a byte, 2^8
  BLOCK_SIZE,               \* data bytes of a block, XMODEM_BLOCK_SIZE
  BUFFER_SIZE,              \* bytes from buffer_start on
  SOH, EOT, CAN, ACK, NAK,  \* the control characters
  Unset,                    \* what a byte of memory holds before it is written
  (* The host and the line. *)
  Files,                    \* the files it may send, as sequences of blocks
  Garbled,                  \* what a byte may be garbled into
  MaxNoise, MaxLost,        \* bytes garbled, answers lost
  MaxWait,                  \* answers on the line when xmodem_wait repeats NAK
  MaxLoads                  \* files sent

Byte == 0 .. BYTE - 1

ASSUME XmodemAssumption ==
  /\ BYTE \in Nat /\ BLOCK_SIZE \in Nat \ {0} /\ BUFFER_SIZE \in Nat
  /\ {SOH, EOT, CAN, ACK, NAK} \subseteq Byte /\ ACK # NAK
  /\ SOH # EOT /\ SOH # CAN /\ EOT # CAN
  /\ Unset \notin Byte
  /\ Garbled \subseteq Byte /\ {MaxNoise, MaxLost, MaxWait, MaxLoads} \subseteq Nat
  /\ \A f \in Files : /\ f \in Seq([1 .. BLOCK_SIZE -> Byte])
                      /\ Len(f) * BLOCK_SIZE <= BUFFER_SIZE

VARIABLES
  pc,            \* where xmodem_recv is: "head" of a block, its "number", the
                 \* "inverse" of that, its "data" or "sum"; or it is "done"
  receiving,     \* has a block begun?
  block_number,  \* the block it expects
  got,           \* its `size': bytes received
  i, check_sum,  \* of xmodem_read_block
  buffer,        \* memory from buffer_start on
  size,          \* what xmodem_recv has returned last; -1 at first
  hostpc,        \* the host: "idle", "sending", "done" or "stopped"
  unit,          \* the block it is sending; the one behind the last is EOT
  file,          \* what it sends; of no meaning before the first transfer
  down, up,      \* bytes on their way to the board, answers to the host
  noise, lost, loads

board == <<pc, receiving, block_number, got, i, check_sum, buffer, size>>
host  == <<hostpc, unit, file, loads>>
line  == <<noise, lost>>
xvars == <<board, host, line, down, up>>

Init ==
  /\ pc = "done" /\ receiving = FALSE /\ block_number = 1 /\ got = 0
  /\ i = 0 /\ check_sum = 0 /\ size = -1
  /\ buffer = [k \in 0 .. BUFFER_SIZE - 1 |-> Unset]
  /\ hostpc = "stopped" /\ unit = 1 /\ file = CHOOSE f \in Files : TRUE
  /\ down = <<>> /\ up = <<>>
  /\ noise = 0 /\ lost = 0 /\ loads = 0

(* xmodem_recv is called, and the host told to send a file.  What came before is
   off the line. *)
Start ==
  /\ pc = "done" /\ hostpc \in {"done", "stopped"} /\ down = <<>>
  /\ loads < MaxLoads /\ loads' = loads + 1
  /\ pc' = "head" /\ receiving' = FALSE /\ block_number' = 1 /\ got' = 0
  /\ hostpc' = "idle" /\ unit' = 1 /\ file' \in Files
  /\ up' = <<>>
  /\ UNCHANGED <<i, check_sum, buffer, size, line, down>>
-----------------------------------------------------------------------------
(* The board. *)
Answer(a) == up' = Append(up, a)

Return(r) == pc' = "done" /\ size' = r

(* It waits for a byte, and reads it. *)
Arrived == IF down = <<>> THEN {} ELSE {Head(down)}

Reads(at) == pc = at /\ down # <<>> /\ down' = Tail(down)

(* Mutant: the test of `receiving' is the wrong way round. *)
xmodem_wait_WhenReceiving ==
  /\ pc = "head" /\ receiving /\ down = <<>>
  /\ Len(up) < MaxWait /\ Answer(NAK)
  /\ UNCHANGED <<board, host, line, down>>

(* xmodem_wait asks for the file again and again. *)
xmodem_wait ==
  /\ pc = "head" /\ ~receiving /\ down = <<>>
  /\ Len(up) < MaxWait /\ Answer(NAK)
  /\ UNCHANGED <<board, host, line, down>>

(* The first byte of what the host sends next.  What is no control character
   is skipped before the first block and ends the transfer after it. *)
xmodem_recv ==
  /\ \E c \in Arrived :
       /\ Reads("head")
       /\ \/ c = EOT /\ Return(got) /\ Answer(ACK) /\ UNCHANGED receiving
          \/ c = CAN /\ Return(-1) /\ UNCHANGED <<up, receiving>>
          \/ c = SOH /\ pc' = "number" /\ receiving' = TRUE /\ UNCHANGED <<up, size>>
          \/ /\ c \notin {EOT, CAN, SOH}
             /\ IF receiving THEN Return(-1) ELSE UNCHANGED <<pc, size>>
             /\ UNCHANGED <<up, receiving>>
  /\ UNCHANGED <<block_number, got, i, check_sum, buffer, host, line>>

(* Mutant: the two answers are exchanged. *)
Reject_WithAck == Answer(ACK) /\ pc' = "head"

(* xmodem_read_block fails: what is left of the block stays on the line. *)
Reject == Answer(NAK) /\ pc' = "head"

read_number ==
  /\ \E c \in Arrived :
       /\ Reads("number")
       /\ IF c = block_number THEN pc' = "inverse" /\ UNCHANGED up ELSE Reject
  /\ UNCHANGED <<receiving, block_number, got, i, check_sum, buffer, size, host, line>>

read_inverse ==
  /\ \E c \in Arrived :
       /\ Reads("inverse")
       /\ IF c = BYTE - 1 - block_number
          THEN pc' = "data" /\ i' = 0 /\ check_sum' = 0 /\ UNCHANGED up
          ELSE Reject /\ UNCHANGED <<i, check_sum>>
  /\ UNCHANGED <<receiving, block_number, got, buffer, size, host, line>>

read_data ==
  /\ \E c \in Arrived :
       /\ Reads("data")
       /\ buffer' = [buffer EXCEPT ![got + i] = c]
       /\ check_sum' = (check_sum + c) % BYTE
  /\ i' = i + 1
  /\ pc' = IF i' = BLOCK_SIZE THEN "sum" ELSE "data"
  /\ UNCHANGED <<receiving, block_number, got, size, up, host, line>>

(* The block is good: the next one goes behind it. *)
Accept ==
  /\ pc' = "head"
  /\ block_number' = (block_number + 1) % BYTE
  /\ got' = got + BLOCK_SIZE
  /\ Answer(ACK)

(* Mutant: the checksum is read and not looked at. *)
read_sum_NoTest ==
  /\ Reads("sum")
  /\ Accept
  /\ UNCHANGED <<receiving, i, check_sum, buffer, size, host, line>>

read_sum ==
  /\ \E c \in Arrived :
       /\ Reads("sum")
       /\ IF c = check_sum THEN Accept ELSE Reject /\ UNCHANGED <<block_number, got>>
  /\ UNCHANGED <<receiving, i, check_sum, buffer, size, host, line>>

Board == xmodem_wait \/ xmodem_recv \/ read_number \/ read_inverse
         \/ read_data \/ read_sum
-----------------------------------------------------------------------------
(* The host. *)
Sum(block) == FoldLeft(LAMBDA s, c : (s + c) % BYTE, 0, block)

Packet(k) ==
  IF k > Len(file) THEN <<EOT>>
  ELSE <<SOH, k % BYTE, BYTE - 1 - (k % BYTE)>> \o file[k] \o <<Sum(file[k])>>

(* It begins at a NAK, goes on at an ACK and repeats at anything else, ... *)
HostReads ==
  /\ hostpc \in {"idle", "sending"} /\ up # <<>> /\ up' = Tail(up)
  /\ \/ /\ hostpc = "idle" /\ Head(up) # NAK
        /\ UNCHANGED <<hostpc, unit, down>>
     \/ /\ hostpc = "idle" /\ Head(up) = NAK
        /\ hostpc' = "sending" /\ down' = down \o Packet(unit)
        /\ UNCHANGED unit
     \/ /\ hostpc = "sending" /\ Head(up) # ACK
        /\ down' = down \o Packet(unit)
        /\ UNCHANGED <<hostpc, unit>>
     \/ /\ hostpc = "sending" /\ Head(up) = ACK
        /\ IF unit > Len(file)
           THEN hostpc' = "done" /\ UNCHANGED <<unit, down>>
           ELSE unit' = unit + 1 /\ down' = down \o Packet(unit') /\ UNCHANGED hostpc
  /\ UNCHANGED <<board, line, file, loads>>

(* ... and when no answer comes to what has been sent. *)
HostTimeout ==
  /\ hostpc = "sending" /\ up = <<>> /\ down = <<>>
  /\ down' = Packet(unit)
  /\ UNCHANGED <<board, line, host, up>>

(* It gives up, with a CAN while it is sending. *)
HostStops ==
  /\ hostpc \in {"idle", "sending"}
  /\ hostpc' = "stopped"
  /\ down' = IF hostpc = "sending" THEN Append(down, CAN) ELSE down
  /\ UNCHANGED <<board, line, unit, file, loads, up>>

(* The line. *)
Garble ==
  /\ noise < MaxNoise /\ noise' = noise + 1
  /\ \E k \in DOMAIN down, c \in Garbled :
       c # down[k] /\ down' = [down EXCEPT ![k] = c]
  /\ UNCHANGED <<board, host, lost, up>>

Lose ==
  /\ up # <<>> /\ up' = Tail(up)
  /\ lost < MaxLost /\ lost' = lost + 1
  /\ UNCHANGED <<board, host, noise, down>>

Host == HostReads \/ HostTimeout \/ HostStops

Line == Garble \/ Lose
-----------------------------------------------------------------------------
TypeOK ==
  /\ pc \in {"head", "number", "inverse", "data", "sum", "done"}
  /\ receiving \in BOOLEAN /\ block_number \in Byte
  /\ got \in 0 .. BUFFER_SIZE /\ size \in -1 .. BUFFER_SIZE
  /\ i \in 0 .. BLOCK_SIZE /\ check_sum \in Byte
  /\ buffer \in [0 .. BUFFER_SIZE - 1 -> Byte \cup {Unset}]
  /\ hostpc \in {"idle", "sending", "done", "stopped"}
  /\ file \in Files /\ unit \in 1 .. Len(file) + 1
  /\ down \in Seq(Byte) /\ up \in Seq(Byte)
  /\ noise \in 0 .. MaxNoise /\ lost \in 0 .. MaxLost /\ loads \in 0 .. MaxLoads
=============================================================================
