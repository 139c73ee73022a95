----------------------------- MODULE Processors -----------------------------
(***************************************************************************)
(* What the entry and exit code of the kernel promises: every thread has a *)
(* processor of its own, with registers, a stack and an interrupt mask     *)
(* that nobody else touches, of which one runs at a time.  It stops by a   *)
(* trap or, when it does not mask them, by an interrupt, the request it    *)
(* stopped for is served, and in the end it goes on where it stopped.      *)
(***************************************************************************)
CONSTANTS
  NULL, Thread,
  RUN, EXIT,    \* the calls that start and end a processor
  SOFTERR,      \* the trap that ends one
  SYSCALL, SERINTR,
  Fresh(_, _),  \* the processor of a new thread, interrupts masked or not
  Past(_)       \* where a processor goes on after a trap

VARIABLES
  processor,    \* of each thread that exists
  running,      \* the one that runs, or NULL
  request       \* why the last one stopped (at first, the start of the
                \* system), until that has been served

vars == <<processor, running, request>>

Alive == DOMAIN processor

Served == [type |-> NULL, from |-> NULL]

(* The system is started by a call that nobody made. *)
Init ==
  /\ processor = [t \in {} |-> NULL]
  /\ running = NULL
  /\ request = [type |-> SYSCALL, from |-> NULL]

(* An instruction, of which only the running processor sees anything. *)
Compute ==
  /\ running # NULL
  /\ Alive' = Alive
  /\ \A t \in Alive \ {running} : processor'[t] = processor[t]
  /\ UNCHANGED <<running, request>>

Trap(type) ==
  /\ running # NULL
  /\ processor' = [processor EXCEPT ![running] = Past(@)]
  /\ request' = [type |-> type, from |-> running]
  /\ running' = NULL

Interrupt ==
  /\ running # NULL /\ ~processor[running].masked
  /\ request' = [type |-> SERINTR, from |-> running]
  /\ running' = NULL
  /\ UNCHANGED processor

(* A call is named by the first register of the caller. *)
Calls(c) ==
  /\ request.type = SYSCALL /\ request.from # NULL
  /\ processor[request.from].er[0] = c

Starts == (request.type = SYSCALL /\ request.from = NULL) \/ Calls(RUN)
Ends   == request.type = SOFTERR \/ Calls(EXIT)

Start(t, masked) ==
  processor' = [u \in Alive \cup {t} |-> IF u = t THEN Fresh(t, masked) ELSE processor[u]]

End(t) == processor' = [u \in Alive \ {t} |-> processor[u]]

Serve ==
  /\ request.type # NULL
  /\ \/ Starts /\ \E t \in Thread \ Alive, masked \in BOOLEAN : Start(t, masked)
     \/ Ends /\ End(request.from)
     \/ ~Starts /\ ~Ends /\ UNCHANGED processor
  /\ request' = Served
  /\ UNCHANGED running

Resume ==
  /\ running = NULL /\ request.type = NULL
  /\ running' \in Alive
  /\ UNCHANGED <<processor, request>>

Next ==
  \/ Compute
  \/ \E type \in {SYSCALL, SOFTERR} : Trap(type)
  \/ Interrupt
  \/ Serve
  \/ Resume

Spec == Init /\ [][Next]_vars
=============================================================================
