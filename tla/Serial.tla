------------------------------- MODULE Serial -------------------------------
(***************************************************************************)
(* A port of misc/serial.c, as operators on one value s:                   *)
(*   s.tie, s.rie    SCR: transmit and receive interrupts enabled;         *)
(*   s.tdre, s.tdr   SSR and TDR: the transmit register is empty, its last *)
(*                   character;                                            *)
(*   s.rdrf, s.rdr   SSR and RDR: a character has been received;           *)
(*   s.waited        has a caller of serial_send_byte had to wait?         *)
(* The settings of the line (baud rate, format) are left out.              *)
(***************************************************************************)
CONSTANTS
  NoChar   \* what the registers hold before the first character

Port(Char) ==
  [tie : BOOLEAN, rie : BOOLEAN, waited : BOOLEAN,
   tdre : BOOLEAN, tdr : Char \cup {NoChar},
   rdrf : BOOLEAN, rdr : Char \cup {NoChar}]

(* serial_init: no interrupts, both directions enabled.  The hardware holds
   TDRE set while the transmitter is disabled. *)
serial_init ==
  [tie |-> FALSE, rie |-> FALSE, waited |-> FALSE,
   tdre |-> TRUE, tdr |-> NoChar, rdrf |-> FALSE, rdr |-> NoChar]

(* serial_send_byte waits for TDRE: the character before this one is gone when
   it returns. *)
serial_send_byte(s, c) ==
  [s EXCEPT !.waited = @ \/ ~s.tdre, !.tdr = c, !.tdre = FALSE]

(* What serial_recv_byte does to the port, when a character is there. *)
serial_recv_byte(s) == [s EXCEPT !.rdrf = FALSE, !.rdr = NoChar]

serial_intr_send_enable(s)  == [s EXCEPT !.tie = TRUE]
serial_intr_send_disable(s) == [s EXCEPT !.tie = FALSE]
serial_intr_recv_enable(s)  == [s EXCEPT !.rie = TRUE]

(* The port asks for an interrupt. *)
Requests(s) == (s.tie /\ s.tdre) \/ (s.rie /\ s.rdrf)

(* The hardware: the character in TDR has been sent; one has been received. *)
Sent(s)        == [s EXCEPT !.tdre = TRUE, !.tdr = NoChar]
Received(s, c) == [s EXCEPT !.rdrf = TRUE, !.rdr = c]
=============================================================================
