----------------------------- MODULE MCInstall -----------------------------
(* A memory of three pages.  kzload.mot has a record that crosses a page and
   ends with a line that does not; the other file has one that ends where the
   memory ends. *)
EXTENDS MCBootLoader, Install

Record(t, a, d) == [type |-> t, addr |-> a, data |-> d]

KzloadMot ==
  [newline |-> FALSE,
   lines   |-> <<Record("S0", 0, <<9>>), Record("S1", 0, <<1, 2, 3>>),
                 Record("S2", 4, <<7>>), Record("S7", 0, <<>>)>>]
OtherMot ==
  [newline |-> TRUE, lines |-> <<Record("S3", 1, <<5>>), Record("S1", 4, <<8, 8>>)>>]

MotFiles == [kzload |-> KzloadMot, other |-> OtherMot]
Glitches == {6, 64, 144}
=============================================================================
