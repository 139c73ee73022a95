------------------------------ MODULE H8Write ------------------------------
(***************************************************************************)
(* writer/h8write.c as "make write" runs it, for the H8/3069F: the         *)
(* dialogue with the program in the boot ROM of the board, the reading of  *)
(* the S-records and the writing of pages.  With it the boot program, as   *)
(* far as the dialogue tells, and the line, which may garble a byte.       *)
(*                                                                         *)
(* An address or a number is one byte here.  `step' names the answer that  *)
(* getbyte waits for, for ever if need be; the command it answers is sent  *)
(* on the way to it.                                                       *)
(***************************************************************************)
EXTENDS Integers, Sequences, FiniteSets
LOCAL INSTANCE SequencesExt
LOCAL INSTANCE FiniteSetsExt

CONSTANTS
  ROM_SIZE, PAGE_SIZE,    \* bytes of the flash memory and of a page of it
  ROMBUF_SIZE,            \* bytes of rombuf
  MAX_TRIES,              \* of query_device
  Programs,               \* the files that may be written, by their names
  OldByte,                \* what the flash memory holds at first
  Glitch, MaxGlitches,    \* what a byte may be garbled into, and how often
  MaxPairs,               \* errors answered to the bytes that match the rate
  MaxRuns                 \* runs of the program

VARIABLES
  step,                      \* see above; or "file", "done", "fatal", "killed"
  status,                    \* the exit status
  tries,                     \* `i' of query_device
  startrom, endrom, pagesize,
  rombuf, enable, skipped,   \* the image, its pages, the records left out
  page,                      \* the page being written
  mot,                       \* the name of the file
  wrate,                     \* the rate the line is open at, in 100 bps
  rom, brate, flash,         \* the board: its mode, its rate, its memory
  tx, rx,                    \* commands on their way to it, bytes it has sent
  glitches, runs

area  == <<startrom, endrom, pagesize>>
image == <<rombuf, enable, skipped, page>>
chip  == <<rom, brate, flash>>
world == <<mot, chip, glitches, runs>>
wvars == <<step, status, tries, area, image, wrate, world, tx, rx>>

Byte == 0 .. 255

(* A file: its lines, and whether the last one ends. *)
Line == [type : {"S0", "S1", "S2", "S3", "S7"}, addr : Byte, data : Seq(Byte)]
File == [lines : Seq(Line), newline : BOOLEAN]

(* What is assumed of the constants. *)
WriterAssumption ==
  /\ {ROM_SIZE, PAGE_SIZE, ROMBUF_SIZE, MAX_TRIES} \subseteq Byte \ {0}
  /\ ROM_SIZE <= ROMBUF_SIZE /\ ROM_SIZE % PAGE_SIZE = 0
  /\ OldByte \in Byte /\ Glitch \subseteq Byte
  /\ {MaxGlitches, MaxPairs, MaxRuns} \subseteq Nat
  /\ \A f \in DOMAIN Programs : Programs[f] \in File /\ Programs[f].lines # <<>>

BIT_SET_CODE     == \h00
BIT_SET_CHEK     == \h55
BIT_SET_FIN      == \h00
BIT_SET_RES_3069 == \hE6
BIT_SET_RES_NG   == \hFF
QUERY_DEV_COM    == \h20
QUERY_DEV_RES    == \h30
SEL_DEV_COM      == \h10
SEL_DEV_ERR_RES  == \h90
QUERY_CLK_COM    == \h21
QUERY_CLK_RES    == \h31
SEL_CLK_COM      == \h11
SEL_CLK_ERR_RES  == \h91
SEL_CLK_ERR_SUM  == \h11
SEL_CLK_ERR_MODE == \h22
QUERY_SCL_COM    == \h22
QUERY_SCL_RES    == \h32
QUERY_FRQ_COM    == \h23
QUERY_FRQ_RES    == \h33
QUERY_PAGE_SIZE_COM == \h27
QUERY_PAGE_SIZE_RES == \h37
QUERY_AREA_COM   == \h25
QUERY_AREA_RES   == \h35
SET_RATE_COM     == \h3F
SET_RATE_ERR_RES == \hBF
SET_RATE_CK_COM  == \h06
QUERY_ERR_RES    == \h80
NON_ERR_RES      == \h06
SWITCH_TO_ERASE_COM == \h40
SEL_WRITE_FORMAT == \h43
WRITE_128_COM    == \h50
WRITE_128_ERR_ADD == \h28
WRITE_128_ERR_WRT == \h53

ERR_TEST      == 0
ERR_INPUTFILE == 2
ERR_H8_DATA   == 7
ERR_GET_3096ID == 12
ERR_BOOT_SUM  == 13
ERR_SET_QUERYMODE == 15
ERR_DEV_CODE  == 16
ERR_SET_RATE  == 18
ERR_WRITE     == 19
RUNNING       == -1
KILLED        == 139   \* not an exit of the program's

SumOf(bytes)   == FoldLeft(LAMBDA s, c : (s + c) % 256, 0, bytes)
WithSum(bytes) == Append(bytes, (256 - SumOf(bytes)) % 256)

Device  == 69             \* HD64F3069
Erased  == \hFF
End     == \hFF           \* the address that ends the writing

Ended == step \in {"done", "fatal", "killed"}
-----------------------------------------------------------------------------
(* The dialogue. *)
Command ==
  [device |-> <<QUERY_DEV_COM>>,
   seldev |-> WithSum(<<SEL_DEV_COM, 1, Device>>),
   clock  |-> <<QUERY_CLK_COM>>,
   selclk |-> WithSum(<<SEL_CLK_COM, 1, 0>>),
   scale  |-> <<QUERY_SCL_COM>>,
   freq   |-> <<QUERY_FRQ_COM>>,
   setrate |-> WithSum(<<SET_RATE_COM, 1, 192>>),
   rateck |-> <<SET_RATE_CK_COM>>,
   area   |-> <<QUERY_AREA_COM>>,
   pagesize |-> <<QUERY_PAGE_SIZE_COM>>,
   erase  |-> <<SWITCH_TO_ERASE_COM>>,
   format |-> <<SEL_WRITE_FORMAT>>]

Go(next) == step' = next /\ tx' = Append(tx, Command[next]) /\ UNCHANGED status

Take(n) == rx' = SubSeq(rx, n + 1, Len(rx))

(* error_print of a FATAL error: the program exits, which closes the line. *)
Fatal(code) == step' = "fatal" /\ status' = code /\ rx' = <<>> /\ UNCHANGED tx

Answer(at) == step = at /\ rx # <<>>

bytecheck(res) == rx[1] # res /\ Fatal(ERR_H8_DATA)

(* An answer of a size, as much data and a checksum. *)
Size == rx[2] + 3
Whole(res) == rx[1] = res /\ Len(rx) >= 2 /\ Len(rx) >= Size
Sound == SumOf(SubSeq(rx, 1, Size)) = 0

Summed(at, res) ==
  /\ Answer(at)
  /\ bytecheck(res) \/ (Whole(res) /\ ~Sound /\ Fatal(ERR_BOOT_SUM))

(* One that is checked and not used. *)
Query(at, res, next) ==
  /\ \/ Summed(at, res)
     \/ Answer(at) /\ Whole(res) /\ Sound /\ Go(next) /\ Take(Size)
  /\ UNCHANGED <<tries, area, image, wrate, world>>

simple_command(at, next) ==
  /\ Answer(at)
  /\ bytecheck(NON_ERR_RES) \/ (rx[1] = NON_ERR_RES /\ Go(next) /\ Take(1))
  /\ UNCHANGED <<tries, area, image, wrate, world>>

(* A command that may be refused, with a reason: one of those that are taken for
   a wrong checksum, or another. *)
Refused(at, err, sums, other) ==
  /\ Answer(at)
  /\ \/ rx[1] \notin {NON_ERR_RES, err} /\ Fatal(ERR_H8_DATA)
     \/ rx[1] = err /\ Len(rx) >= 2
        /\ Fatal(IF rx[2] \in sums THEN ERR_BOOT_SUM ELSE other)

Accepted(at) == Answer(at) /\ rx[1] = NON_ERR_RES /\ Take(1)

Selected(at, err, sums, other, next) ==
  /\ Refused(at, err, sums, other) \/ (Accepted(at) /\ Go(next))
  /\ UNCHANGED <<tries, area, image, wrate, world>>

(* The bit rate is matched; or the board has done that before, and answers
   errors to the bytes that should do it. *)
match_rate ==
  /\ \/ /\ Answer("rate") /\ rx[1] = BIT_SET_FIN
        /\ step' = "check" /\ tx' = Append(tx, <<BIT_SET_CHEK>>)
        /\ Take(1) /\ UNCHANGED status
     \/ /\ Answer("rate") /\ rx[1] = QUERY_ERR_RES /\ Len(rx) >= 2
        /\ Go("device") /\ Take(2)
     \/ /\ Answer("rate") /\ rx[1] \notin {BIT_SET_FIN, QUERY_ERR_RES}
        /\ Fatal(ERR_SET_QUERYMODE)
     \/ Answer("check") /\ bytecheck(BIT_SET_RES_3069)
     \/ Answer("check") /\ rx[1] = BIT_SET_RES_3069 /\ Go("device") /\ Take(1)
  /\ UNCHANGED <<tries, area, image, wrate, world>>

(* More of those errors are read here, each for one more query: the answers to
   these are left for the functions that follow. *)
query_device ==
  /\ \/ /\ Answer("device") /\ rx[1] \notin {QUERY_DEV_RES, QUERY_ERR_RES}
        /\ Fatal(ERR_TEST) /\ UNCHANGED tries
     \/ /\ Answer("device") /\ rx[1] = QUERY_ERR_RES /\ Len(rx) >= 2
        /\ tries' = tries + 1
        /\ IF tries' = MAX_TRIES THEN Fatal(ERR_H8_DATA) ELSE Go("device") /\ Take(2)
     \/ /\ Answer("device") /\ rx[1] = QUERY_DEV_RES
        /\ Summed("device", QUERY_DEV_RES) /\ UNCHANGED tries
     \/ /\ Answer("device") /\ Whole(QUERY_DEV_RES) /\ Sound
        /\ IF \E k \in 3 .. Size - 1 : rx[k] = Device
           THEN Go("seldev") /\ Take(Size)
           ELSE Fatal(ERR_GET_3096ID)
        /\ UNCHANGED tries
  /\ UNCHANGED <<area, image, wrate, world>>

select_device ==
  Selected("seldev", SEL_DEV_ERR_RES, {SEL_CLK_ERR_SUM}, ERR_DEV_CODE, "clock")
query_clock   == Query("clock", QUERY_CLK_RES, "selclk")
select_clock  ==
  Selected("selclk", SEL_CLK_ERR_RES, {SEL_CLK_ERR_SUM, SEL_CLK_ERR_MODE}, ERR_H8_DATA,
           "scale")
query_scale   == Query("scale", QUERY_SCL_RES, "freq")
query_freq    == Query("freq", QUERY_FRQ_RES, "setrate")

RateRefused == Refused("setrate", SET_RATE_ERR_RES, {SEL_CLK_ERR_SUM}, ERR_SET_RATE)

(* Mutant: the line is not opened again. *)
set_rate_OldRate ==
  /\ RateRefused \/ (Accepted("setrate") /\ Go("rateck"))
  /\ UNCHANGED <<tries, area, image, wrate, world>>

(* The line is closed and opened again at the new rate. *)
set_rate ==
  /\ \/ RateRefused /\ UNCHANGED wrate
     \/ Accepted("setrate") /\ Go("rateck") /\ wrate' = 192
  /\ UNCHANGED <<tries, area, image, world>>

check_rate == simple_command("rateck", "area")

(* Mutant: addresses have no sign. *)
Long_Unsigned(b) == b

(* An address: the first byte of it has the sign. *)
Long(b) == IF b < 128 THEN b ELSE b - 256

(* The number of areas, and where the first starts and ends.  What the answer
   is too short for is not initialised.  The checksum is read and not added. *)
query_area ==
  /\ \/ Answer("area") /\ bytecheck(QUERY_AREA_RES) /\ UNCHANGED area
     \/ /\ Answer("area") /\ Whole(QUERY_AREA_RES)
        /\ \E u \in Glitch :
             LET field(k) == IF k < rx[2] THEN rx[3 + k] ELSE u
             IN  startrom' = Long(field(1)) /\ endrom' = Long(field(2))
        /\ Go("pagesize") /\ Take(Size) /\ UNCHANGED pagesize
  /\ UNCHANGED <<tries, image, wrate, world>>

query_pagesize ==
  /\ \/ Summed("pagesize", QUERY_PAGE_SIZE_RES) /\ UNCHANGED pagesize
     \/ /\ Answer("pagesize") /\ Whole(QUERY_PAGE_SIZE_RES) /\ Sound
        /\ pagesize' = rx[3]
        /\ Go("erase") /\ Take(Size)
  /\ UNCHANGED <<tries, startrom, endrom, image, wrate, world>>

switch_to_erase == simple_command("erase", "format")

select_format ==
  /\ Answer("format")
  /\ \/ bytecheck(NON_ERR_RES)
     \/ rx[1] = NON_ERR_RES /\ step' = "file" /\ Take(1) /\ UNCHANGED <<status, tx>>
  /\ UNCHANGED <<tries, area, image, wrate, world>>
-----------------------------------------------------------------------------
(* The file.  A line that does not end is not looked at. *)
LinesRead ==
  LET f == Programs[mot] IN IF f.newline THEN f.lines ELSE Front(f.lines)

IsData(r) == r.type \in {"S1", "S2", "S3"}

OutOfRange(r) == r.addr < startrom \/ r.addr + Len(r.data) > endrom

Pagebit == CHOOSE b \in 0 .. 16 :
             2 ^ b >= pagesize /\ \A c \in 0 .. b - 1 : 2 ^ c < pagesize

Covers(r, a) == a - r.addr + 1 \in DOMAIN r.data

Stored(m, r) ==
  [a \in DOMAIN m |-> IF Covers(r, a) THEN r.data[a - r.addr + 1] ELSE m[a]]

(* Mutant: the number of the page is sent for its address. *)
PageFrame_Number(p) ==
  WithSum(<<WRITE_128_COM, p>>
            \o [j \in 1 .. pagesize |-> rombuf'[p * pagesize + j - 1]])

(* What is sent for page p. *)
PageFrame(p) ==
  WithSum(<<WRITE_128_COM, p * 2 ^ Pagebit>>
            \o [j \in 1 .. pagesize |-> rombuf'[p * pagesize + j - 1]])

(* Page p is written, or the next one that is enabled; at last the end. *)
WritePages(p) ==
  LET left == {q \in enable' : q >= p}
  IN  IF left = {}
      THEN step' = "end" /\ tx' = Append(tx, WithSum(<<WRITE_128_COM, End>>))
           /\ UNCHANGED page
      ELSE step' = "write" /\ page' = Min(left) /\ tx' = Append(tx, PageFrame(page'))

(* The file is opened, when the memory has been erased already, and its S-records
   are read into rombuf, which an address of the board's may run over. *)
read_file ==
  /\ step = "file"
  /\ \/ Fatal(ERR_INPUTFILE) /\ UNCHANGED image
     \/ endrom >= ROMBUF_SIZE /\ Fatal(KILLED) /\ UNCHANGED image
     \/ LET data == SelectSeq(LinesRead, IsData)
            kept == SelectSeq(data, LAMBDA r : ~OutOfRange(r))
            blank == [a \in 0 .. ROMBUF_SIZE - 1 |-> IF a <= endrom THEN Erased ELSE 0]
        IN  /\ endrom < ROMBUF_SIZE
            /\ skipped' = {r \in ToSet(data) : OutOfRange(r)}
            /\ rombuf' = FoldLeft(Stored, blank, kept)
            /\ enable' = {a \div 2 ^ Pagebit : a \in {b \in DOMAIN blank :
                               \E r \in ToSet(kept) : Covers(r, b)}}
            /\ WritePages(0)
            /\ UNCHANGED <<status, rx>>
  /\ UNCHANGED <<tries, area, wrate, world>>

(* What is answered to a page or to the end; the sum of it was wrong, or it was
   not written for another reason. *)
NotWritten == Fatal(IF rx[1] = SEL_CLK_ERR_SUM THEN ERR_BOOT_SUM ELSE ERR_WRITE)

(* Mutant: the answer is read and not looked at. *)
write_pages_NoTest ==
  /\ Answer("write")
  /\ UNCHANGED <<rombuf, enable, skipped, status>>
  /\ WritePages(page + 1) /\ Take(1)
  /\ UNCHANGED <<tries, area, wrate, world>>

(* The pages, each after the one before has been acknowledged. *)
write_pages ==
  /\ Answer("write")
  /\ IF rx[1] = NON_ERR_RES
     THEN /\ UNCHANGED <<rombuf, enable, skipped, status>>
          /\ WritePages(page + 1) /\ Take(1)
     ELSE NotWritten /\ UNCHANGED image
  /\ UNCHANGED <<tries, area, wrate, world>>

end_writing ==
  /\ Answer("end")
  /\ IF rx[1] = NON_ERR_RES
     THEN step' = "done" /\ status' = 0 /\ rx' = <<>> /\ UNCHANGED tx
     ELSE NotWritten
  /\ UNCHANGED <<tries, area, image, wrate, world>>

Writer ==
  \/ match_rate \/ query_device \/ select_device \/ query_clock \/ select_clock
  \/ query_scale \/ query_freq \/ set_rate \/ check_rate \/ query_area
  \/ query_pagesize \/ switch_to_erase \/ select_format \/ read_file
  \/ write_pages \/ end_writing
-----------------------------------------------------------------------------
(* The board. *)
Framed(res, data) == WithSum(<<res, Len(data)>> \o data)

Inquiries ==
  {<<QUERY_DEV_COM, Framed(QUERY_DEV_RES, <<Device>>)>>,
   <<QUERY_CLK_COM, Framed(QUERY_CLK_RES, <<0>>)>>,
   <<QUERY_SCL_COM, Framed(QUERY_SCL_RES, <<1>>)>>,
   <<QUERY_FRQ_COM, Framed(QUERY_FRQ_RES, <<1>>)>>,
   <<QUERY_AREA_COM, Framed(QUERY_AREA_RES, <<1, 0, ROM_SIZE - 1>>)>>,
   <<QUERY_PAGE_SIZE_COM, Framed(QUERY_PAGE_SIZE_RES, <<PAGE_SIZE>>)>>,
   <<SET_RATE_CK_COM, <<NON_ERR_RES>>>>}

(* What is sent at another rate than that of the line is not understood. *)
Junk == \hFF
Says(bytes) ==
  rx' = rx \o [k \in DOMAIN bytes |-> IF brate = wrate THEN bytes[k] ELSE Junk]

Error(c)  == <<QUERY_ERR_RES, c[1]>>
Refuse(c) == <<(c[1] + 128) % 256, SEL_CLK_ERR_SUM>>

(* It matches its rate to that of the first bytes. *)
Match(c) ==
  /\ \/ rom = "match" /\ c = <<BIT_SET_CODE>> /\ rom' = "matched"
        /\ brate' = wrate /\ rx' = Append(rx, BIT_SET_FIN)
     \/ rom = "match" /\ c # <<BIT_SET_CODE>> /\ UNCHANGED <<rom, brate, rx>>
     \/ rom = "matched" /\ c = <<BIT_SET_CHEK>> /\ rom' = "query"
        /\ Says(<<BIT_SET_RES_3069>>) /\ UNCHANGED brate
     \/ rom = "matched" /\ c # <<BIT_SET_CHEK>> /\ rom' = "match"
        /\ Says(<<BIT_SET_RES_NG>>) /\ UNCHANGED brate
  /\ UNCHANGED flash

Inquire(c) ==
  /\ rom = "query"
  /\ \/ \E q \in Inquiries : c = <<q[1]>> /\ Says(q[2])
     \/ Len(c) > 1 /\ Says(IF SumOf(c) = 0 THEN <<NON_ERR_RES>> ELSE Refuse(c))
     \/ /\ c \notin {<<q[1]>> : q \in Inquiries}
        /\ c # <<SWITCH_TO_ERASE_COM>> /\ Len(c) = 1
        /\ Says(Error(c))
  /\ brate' = IF c[1] = SET_RATE_COM /\ SumOf(c) = 0 THEN c[3] ELSE brate
  /\ UNCHANGED <<rom, flash>>

EraseAll(c) ==
  /\ rom = "query" /\ c = <<SWITCH_TO_ERASE_COM>>
  /\ rom' = "erase" /\ Says(<<NON_ERR_RES>>)
  /\ flash' = [a \in DOMAIN flash |-> Erased]
  /\ UNCHANGED brate

Format(c) ==
  /\ rom = "erase"
  /\ IF c = <<SEL_WRITE_FORMAT>>
     THEN rom' = "write" /\ Says(<<NON_ERR_RES>>)
     ELSE Says(Error(c)) /\ UNCHANGED rom
  /\ UNCHANGED <<brate, flash>>

(* A page of memory that is erased can be programmed. *)
ProgramPage(c) ==
  /\ rom = "write"
  /\ LET cells == {a \in DOMAIN flash : a \div PAGE_SIZE = c[2] \div PAGE_SIZE}
         good  == Len(c) = PAGE_SIZE + 3 /\ SumOf(c) = 0
     IN  \/ /\ c = WithSum(<<WRITE_128_COM, End>>)
            /\ rom' = "erase" /\ Says(<<NON_ERR_RES>>) /\ UNCHANGED flash
         \/ /\ c[1] = WRITE_128_COM /\ SumOf(c) # 0
            /\ Says(<<SEL_CLK_ERR_SUM>>) /\ UNCHANGED <<rom, flash>>
         \/ /\ c[1] = WRITE_128_COM /\ good /\ cells = {}
            /\ Says(<<WRITE_128_ERR_ADD>>) /\ UNCHANGED <<rom, flash>>
         \/ /\ c[1] = WRITE_128_COM /\ good /\ \E a \in cells : flash[a] # Erased
            /\ Says(<<WRITE_128_ERR_WRT>>) /\ UNCHANGED <<rom, flash>>
         \/ /\ c[1] = WRITE_128_COM /\ good /\ cells # {}
            /\ \A a \in cells : flash[a] = Erased
            /\ flash' = [a \in DOMAIN flash |->
                           IF a \in cells THEN c[3 + (a % PAGE_SIZE)] ELSE flash[a]]
            /\ Says(<<NON_ERR_RES>>) /\ UNCHANGED rom
         \/ /\ c[1] # WRITE_128_COM
            /\ Says(Error(c)) /\ UNCHANGED <<rom, flash>>
  /\ UNCHANGED brate

(* Bytes that should match the rate, and bytes at another rate, are errors to a
   board that has matched it, of which it may lose some: it has no queue. *)
Errors(c) ==
  /\ \E n \in (IF brate = wrate THEN 1 ELSE 0) .. MaxPairs :
       Says(FlattenSeq([k \in 1 .. n |-> Error(c)]))
  /\ UNCHANGED chip

Obeys(c) == Inquire(c) \/ EraseAll(c) \/ Format(c) \/ ProgramPage(c)

BootProgram ==
  /\ tx # <<>> /\ tx' = Tail(tx)
  /\ LET c == Head(tx)
     IN  \/ rom \in {"match", "matched"} /\ Match(c)
         \/ rom \notin {"match", "matched"} /\ IF brate = wrate /\ c # <<BIT_SET_CODE>>
                                               THEN Obeys(c) ELSE Errors(c)
  /\ UNCHANGED <<step, status, tries, area, image, wrate, mot, glitches, runs>>

(* Of two commands one may be lost. *)
Overrun ==
  /\ Len(tx) > 1 /\ tx' = Tail(tx)
  /\ UNCHANGED <<step, status, tries, area, image, wrate, world, rx>>
-----------------------------------------------------------------------------
(* The line and the person. *)
GarbleByte ==
  /\ glitches < MaxGlitches /\ glitches' = glitches + 1 /\ ~Ended
  /\ \/ \E k \in DOMAIN rx, g \in Glitch :
          g # rx[k] /\ rx' = [rx EXCEPT ![k] = g] /\ UNCHANGED tx
     \/ \E k \in DOMAIN tx, g \in Glitch : \E j \in DOMAIN tx[k] :
          g # tx[k][j] /\ tx' = [tx EXCEPT ![k][j] = g] /\ UNCHANGED rx
  /\ UNCHANGED <<step, status, tries, area, image, wrate, mot, chip, runs>>

(* The program is stopped, perhaps in the middle of a command. *)
Kill ==
  /\ ~Ended /\ runs < MaxRuns
  /\ step' = "killed" /\ status' = KILLED /\ rx' = <<>>
  /\ tx' \in {tx, <<>>}
  /\ UNCHANGED <<tries, area, image, wrate, world>>

Begin(f) ==
  /\ step' = "rate" /\ status' = RUNNING /\ tries' = 0
  /\ startrom' = 0 /\ endrom' = 0 /\ pagesize' = 256
  /\ rombuf' = <<>> /\ enable' = {} /\ skipped' = {} /\ page' = 0
  /\ mot' = f /\ wrate' = 96
  /\ tx' = <<<<BIT_SET_CODE>>>> /\ rx' = <<>>

(* It is run again, after a reset of the board or without. *)
Rerun ==
  /\ Ended /\ tx = <<>> /\ runs < MaxRuns /\ runs' = runs + 1
  /\ \E f \in DOMAIN Programs : Begin(f)
  /\ rom' \in {rom, "match"}
  /\ UNCHANGED <<brate, flash, glitches>>

(* The program has ended, and nothing but the board is left. *)
Gone ==
  /\ tries' = 0 /\ startrom' = 0 /\ endrom' = 0 /\ pagesize' = 256
  /\ rombuf' = <<>> /\ enable' = {} /\ page' = 0
  /\ tx' = <<>> /\ rx' = <<>> /\ glitches' = 0 /\ runs' = 1
  /\ wrate' = 96 /\ rom' = "match" /\ brate' = 96
  /\ UNCHANGED <<step, status, skipped, mot, flash>>

WriterInit ==
  /\ step = "rate" /\ status = RUNNING /\ tries = 0
  /\ startrom = 0 /\ endrom = 0 /\ pagesize = 256
  /\ rombuf = <<>> /\ enable = {} /\ skipped = {} /\ page = 0
  /\ mot \in DOMAIN Programs /\ wrate = 96
  /\ tx = <<<<BIT_SET_CODE>>>> /\ rx = <<>>
  /\ rom = "match" /\ brate = 96
  /\ flash = [a \in 0 .. ROM_SIZE - 1 |-> OldByte]
  /\ glitches = 0 /\ runs = 1

WriterNext == Writer \/ BootProgram \/ Overrun \/ GarbleByte \/ Kill \/ Rerun

(* The program and the board execute, by turns; no byte need be garbled. *)
WriterFair == WF_wvars(Writer \/ BootProgram)
-----------------------------------------------------------------------------
WriterTypeOK ==
  /\ step \in DOMAIN Command
              \cup {"rate", "check", "file", "write", "end", "done", "fatal", "killed"}
  /\ status \in {RUNNING, ERR_TEST, ERR_INPUTFILE, ERR_H8_DATA, ERR_GET_3096ID,
                 ERR_BOOT_SUM, ERR_SET_QUERYMODE, ERR_DEV_CODE, ERR_SET_RATE, ERR_WRITE, KILLED}
  /\ tries \in 0 .. MAX_TRIES
  /\ {startrom, endrom} \subseteq -128 .. 127 /\ pagesize \in 1 .. 256
  /\ rombuf = <<>> \/ rombuf \in [0 .. ROMBUF_SIZE - 1 -> Byte]
  /\ enable \subseteq 0 .. ROMBUF_SIZE /\ skipped \subseteq ToSet(Programs[mot].lines)
  /\ page \in 0 .. ROMBUF_SIZE /\ mot \in DOMAIN Programs
  /\ wrate \in {96, 192} /\ brate \in {96, 192}
  /\ rom \in {"match", "matched", "query", "erase", "write"}
  /\ flash \in [0 .. ROM_SIZE - 1 -> Byte]
  /\ tx \in Seq(Seq(Byte)) /\ rx \in Seq(Byte)
  /\ glitches \in 0 .. MaxGlitches /\ runs \in 1 .. MaxRuns

(* The memory holds what the file says, but for the records that a WARNING has
   been printed of, whenever the program says that it has succeeded; nothing
   but pages of the file is ever written, and only to erased memory.  This is
   so whatever one garbled byte does to the dialogue, and when the program is
   stopped and run again on a board that is in the middle of it. *)
Flashed == INSTANCE Flashing WITH
  Records  <- [f \in DOMAIN Programs |-> SelectSeq(Programs[f].lines, IsData)],
  name     <- mot,
  reported <- skipped,
  ERASED   <- Erased,
  outcome  <- IF ~Ended THEN "open" ELSE IF step = "done" THEN "complete" ELSE "failed"

ImplementsFlashing == Flashed!Spec

(* A first run ends on a line that garbles nothing: every answer that getbyte
   waits for comes. *)
FlashingEnds == (~Ended /\ runs = 1) ~> (Ended \/ glitches > 0)
=============================================================================
