------------------------------ MODULE Install ------------------------------
(***************************************************************************)
(* From an empty board to a program running on it: "make write" writes the *)
(* boot loader to the flash memory (H8Write), the board is started from    *)
(* it, and the boot loader loads and starts programs (BootLoader).         *)
(***************************************************************************)
EXTENDS BootLoader

CONSTANTS
  ROM_SIZE, PAGE_SIZE, ROMBUF_SIZE, MAX_TRIES, Programs, OldByte,
  Glitch, MaxGlitches, MaxPairs, MaxRuns,   \* of H8Write
  Kzload   \* the name of the boot loader's file

VARIABLES
  step, status, tries, startrom, endrom, pagesize, rombuf, enable, skipped,
  page, mot, wrate, rom, brate, flash, tx, rx, glitches, runs,   \* of H8Write
  running   \* has the board been started?

W == INSTANCE H8Write

ASSUME InstallAssumption == W!WriterAssumption /\ Kzload \in DOMAIN Programs

wvars == <<step, status, tries, startrom, endrom, pagesize, rombuf, enable, skipped,
           page, mot, wrate, rom, brate, flash, tx, rx, glitches, runs>>
ivars == <<vars, wvars, running>>

InstallInit == W!WriterInit /\ LoaderInit /\ running = FALSE

WriteFiles == ~running /\ W!WriterNext /\ UNCHANGED <<vars, running>>

(* When the program has said that it succeeded, and has left nothing out, the
   board is started.  What init copies and clears is all the boot loader's. *)
init ==
  /\ ~running /\ step = "done" /\ mot = Kzload /\ skipped = {}
  /\ running' = TRUE
  /\ W!Gone
  /\ UNCHANGED vars

LoadFiles == running /\ Next /\ UNCHANGED <<wvars, running>>

InstallNext == WriteFiles \/ init \/ LoadFiles

InstallSpec == InstallInit /\ [][InstallNext]_ivars

InstallFairSpec == InstallSpec /\ W!WriterFair /\ LoaderFair
-----------------------------------------------------------------------------
(* The types of both parts; of what the writer gets from the board, too. *)
InstallTypeOK == LoaderTypeOK /\ (running \/ W!WriterTypeOK)

(* The flash memory holds what the file says whenever the program ends with
   success, and pages are only written to erased memory: see H8Write. *)
ImplementsFlashing == W!ImplementsFlashing

(* Over a line that garbles nothing the first run of the writer ends: no answer
   is waited for that does not come. *)
FlashingEnds == W!FlashingEnds

(* A board that is started has the boot loader in its flash memory, all of it
   and nothing else. *)
StartsKzload ==
  [][running' # running =>
       flash' = W!Flashed!Image(SelectSeq(Programs[Kzload].lines, W!IsData))]_running
=============================================================================
