------------------------------ MODULE Terminal ------------------------------
(***************************************************************************)
(* What the console promises to the person at the terminal: every key is   *)
(* echoed, every line is answered, once and in order, by the reply to that *)
(* very line followed by the prompt, and what is written reaches the       *)
(* screen whole and in the order of writing.  It may fail only when a line *)
(* is entered before it has done with the one before.  No threads,         *)
(* messages, buffers or interrupts.                                        *)
(***************************************************************************)
EXTENDS Sequences

CONSTANTS
  LF,         \* the end of a line, as the shell sees it
  Key,        \* the characters that can be typed
  Prompt,     \* what the shell writes when it is ready for a line
  Reply(_),   \* the strings it writes in answer to a line
  OnWire(_)   \* the characters sent for a string

VARIABLES
  out,        \* characters on their way to the screen
  line,       \* what has been typed of the current line
  inbox,      \* the lines the shell has not read yet
  owed,       \* the strings the shell has to write before it reads again
  up          \* is it working?

vars == <<out, line, inbox, owed, up>>

Init == out = <<>> /\ line = <<>> /\ inbox = <<>> /\ owed = <<Prompt>> /\ up = TRUE

Type(c) ==
  /\ out' = out \o OnWire(<<c>>)
  /\ IF c = LF
     THEN line' = <<>> /\ inbox' = Append(inbox, line)
     ELSE line' = Append(line, c) /\ UNCHANGED inbox
  /\ UNCHANGED <<owed, up>>

(* A line is entered too early: it is lost, or a string to be written is. *)
Overrun ==
  /\ up' = FALSE
  /\ \/ /\ inbox # <<>> \/ owed # <<>>
        /\ out' = out \o OnWire(<<LF>>)
        /\ line' \in {line, <<>>}
        /\ UNCHANGED owed
     \/ /\ inbox # <<>> /\ owed # <<>>
        /\ owed' = Tail(owed)
        /\ UNCHANGED <<out, line>>
  /\ UNCHANGED inbox

Write ==
  /\ owed # <<>>
  /\ out' = out \o OnWire(Head(owed))
  /\ owed' = Tail(owed)
  /\ UNCHANGED <<line, inbox, up>>

Read ==
  /\ owed = <<>> /\ inbox # <<>>
  /\ inbox' = Tail(inbox)
  /\ owed' = Append(Reply(Head(inbox)), Prompt)
  /\ UNCHANGED <<out, line, up>>

Show == out # <<>> /\ out' = Tail(out) /\ UNCHANGED <<line, inbox, owed, up>>

Next ==
  up /\ ((\E c \in Key \cup {LF} : Type(c)) \/ Overrun \/ Write \/ Read \/ Show)

Spec == Init /\ [][Next]_vars
=============================================================================
