--------------------------- MODULE FifoScheduler ---------------------------
(***************************************************************************)
(* What the kernel promises about scheduling: a queue of ready threads for *)
(* each priority, the head of the most urgent nonempty queue running, and  *)
(* every thread that becomes ready going to the back of a queue.  No       *)
(* pointers, flags or control blocks.                                      *)
(***************************************************************************)
EXTENDS Integers, Sequences

CONSTANTS
  Thread,
  Priority,  \* numbers, the least being the most urgent
  First      \* the thread the system starts with, at priority 0

VARIABLES
  queue,     \* the ready threads of each priority, in the order they will run
  running,
  up         \* FALSE once the system has stopped

vars == <<queue, running, up>>

Queued(q) == {t \in Thread : \E p \in Priority : \E i \in 1 .. Len(q[p]) : q[p][i] = t}

Append1(q, t, p) == [q EXCEPT ![p] = Append(@, t)]

(* The head of the most urgent nonempty queue runs; with no thread left the
   system stops. *)
Resume(q) ==
  /\ queue' = q
  /\ \/ \E p \in Priority :
          /\ q[p] # <<>>
          /\ \A h \in Priority : h < p => q[h] = <<>>
          /\ running' = Head(q[p])
          /\ UNCHANGED up
     \/ /\ \A p \in Priority : q[p] = <<>>
        /\ up' = FALSE
        /\ UNCHANGED running

(* At most one thread that was not ready goes to the back of some queue. *)
ResumeOrWake(q) ==
  \/ Resume(q)
  \/ \E t \in Thread \ Queued(q), p \in Priority : Resume(Append1(q, t, p))

Init ==
  /\ queue = [p \in Priority |-> IF p = 0 THEN <<First>> ELSE <<>>]
  /\ running = First
  /\ up = TRUE

(* A call of the running thread: it leaves the front of its queue, and either
   stays away or goes to the back of a queue, ahead of a thread it wakes. *)
Call ==
  /\ up
  /\ \E p \in Priority :
       /\ queue[p] # <<>> /\ Head(queue[p]) = running
       /\ LET rest == [queue EXCEPT ![p] = Tail(@)]
          IN  \/ Resume(rest)
              \/ \E r \in Priority : ResumeOrWake(Append1(rest, running, r))

(* An interrupt leaves the running thread where it is. *)
Interrupt == up /\ ResumeOrWake(queue)

Stop == up /\ up' = FALSE /\ UNCHANGED <<queue, running>>

Next == Call \/ Interrupt \/ Stop

Spec == Init /\ [][Next]_vars
=============================================================================
