----------------------------- MODULE MCConsole -----------------------------
(* A console with short words, so that few characters are on their way, and
   the real ones for the run about the length of messages. *)
EXTENDS ConsoleRefinement

RealPoolSize == <<16, 32, 64>>
RealPoolNum  == <<8, 8, 4>>
FewBlocks    == <<4, 4, 1>>
ItsCalls == {"RUN", "CHPRI", "CCR", "SETINTR", "KMALLOC", "KMFREE", "SEND", "RECV"}
ItsSizes == {CONS_SIZE} \cup {Len(s) + 2 : s \in {<<"0">>} \cup Written}

ShortPrompt  == <<">">>
ShortEcho    == <<"e">>
ShortUnknown == <<"u", "LF">>
ShortLines   == {<<"e", "x">>, <<"x">>}

(* What the theorems about the console assume of the constants: both
   consoles have the blocks, and the short one the buffers. *)
ASSUME ItsMemory == EnoughBlocks /\ MaxPending <= 2 /\ (Prompt = ShortPrompt => BuffersSuffice(4))

Times(n, c) == [k \in 1 .. n |-> c]
RealPrompt  == Append(Times(8, "p"), " ")
RealEcho    == Append(Times(4, "e"), " ")
RealUnknown == Append(Times(6, "u"), "LF")
Echo5       == {RealEcho \o Times(5, "x")}
=============================================================================
