------------------------------ MODULE Flashing ------------------------------
(***************************************************************************)
(* What writing a program to a board promises: the flash memory is erased, *)
(* its pages get the bytes of the program's records, and the attempt       *)
(* succeeds only with every record there but those it has reported.  No    *)
(* commands, answers, modes or bit rates.                                  *)
(***************************************************************************)
EXTENDS Naturals, Sequences
LOCAL INSTANCE SequencesExt

CONSTANTS
  ROM_SIZE, PAGE_SIZE,   \* bytes of the flash memory and of a page of it
  ERASED,                \* what an erased byte holds
  Records                \* the records of each program: [addr, data]

VARIABLES
  name,      \* of the program
  reported,  \* records of it that are said to be left out
  flash,     \* the bytes of the memory
  outcome    \* of the last attempt, or "open"

vars == <<name, reported, flash, outcome>>

Erased == [a \in 0 .. ROM_SIZE - 1 |-> ERASED]

(* Record r is stored in memory m, where m goes that far. *)
Stored(m, r) ==
  [a \in DOMAIN m |->
     IF a - r.addr + 1 \in DOMAIN r.data THEN r.data[a - r.addr + 1] ELSE m[a]]

Image(rs) == FoldLeft(Stored, Erased, rs)

Wanted(left) == Image(SelectSeq(Records[name], LAMBDA r : r \notin left))

Page(p) == {a \in DOMAIN flash : a \div PAGE_SIZE = p}

Init == reported = {} /\ outcome = "open"

Start ==
  /\ outcome # "open" /\ outcome' = "open"
  /\ name' \in DOMAIN Records /\ reported' = {}
  /\ UNCHANGED flash

(* What has been sent may still arrive after an attempt has failed. *)
Erase ==
  /\ outcome # "complete" /\ flash' = Erased
  /\ UNCHANGED <<name, reported, outcome>>

Report ==
  /\ outcome = "open" /\ flash = Erased
  /\ \E left \in SUBSET ToSet(Records[name]) : reported' = left
  /\ UNCHANGED <<name, flash, outcome>>

Program ==
  /\ outcome # "complete"
  /\ \E p \in {a \div PAGE_SIZE : a \in DOMAIN flash} :
       /\ \A a \in Page(p) : flash[a] = ERASED
       /\ flash' = [a \in DOMAIN flash |->
                      IF a \in Page(p) THEN Wanted(reported)[a] ELSE flash[a]]
  /\ UNCHANGED <<name, reported, outcome>>

Complete ==
  /\ outcome = "open" /\ flash = Wanted(reported)
  /\ outcome' = "complete"
  /\ UNCHANGED <<name, reported, flash>>

Fail ==
  /\ outcome = "open" /\ outcome' = "failed"
  /\ UNCHANGED <<name, reported, flash>>

Next == Start \/ Erase \/ Report \/ Program \/ Complete \/ Fail

Spec == Init /\ [][Next]_vars
=============================================================================
