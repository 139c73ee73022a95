------------------------------ MODULE KzReady ------------------------------
(***************************************************************************)
(* The ready queues of os/kozos.c, as operators on one value:              *)
(*   q.head[p], q.tail[p]  readyque[p].head and .tail;                     *)
(*   q.next[t]             threads[t].next;                                *)
(*   q.ready[t]            threads[t].flag.bit.ready;                      *)
(*   q.priority[t]         threads[t].priority, 0 being the most urgent.   *)
(* A thread is the index of its task control block in threads[].           *)
(***************************************************************************)
EXTENDS LinkedList

CONSTANTS
  THREAD_NUM,    \* size of threads[]
  PRIORITY_NUM   \* size of readyque[]

Thread   == 0 .. THREAD_NUM - 1
Priority == 0 .. PRIORITY_NUM - 1

ASSUME ReadyAssumption ==
  /\ THREAD_NUM \in Nat \ {0} /\ PRIORITY_NUM \in Nat \ {0}
  /\ NULL \notin Thread

ThreadPtr == Thread \cup {NULL}

ReadyQueues == [head : [Priority -> ThreadPtr], tail : [Priority -> ThreadPtr],
                next : [Thread -> ThreadPtr], ready : [Thread -> BOOLEAN],
                priority : [Thread -> Priority]]

(* get(priority): take the first thread off its queue.  The removed thread
   keeps its `next' pointer.  On an empty queue the last test of the function
   reads through NULL, where the vector table begins with the non-null entry
   `start': nothing changes. *)
get(q, p) ==
  LET result == q.head[p] IN
  IF result = NULL THEN q
  ELSE [q EXCEPT !.head[p] = IF q.ready[result] THEN q.next[result] ELSE result,
                 !.ready[result] = FALSE,
                 !.tail[p] = IF q.next[result] = NULL THEN NULL ELSE @]

(* Mutant: the thread is linked behind the head instead of the tail. *)
link_AfterHead(q, t) ==
  LET p == q.priority[t] IN
  IF q.ready[t] THEN q
  ELSE IF q.head[p] = NULL THEN [q EXCEPT !.head[p] = t]
  ELSE [q EXCEPT !.next[q.head[p]] = t]

(* The middle branches of put: a thread that is not ready becomes the head of
   an empty queue or the successor of the tail. *)
link(q, t) ==
  LET p == q.priority[t] IN
  IF q.ready[t] THEN q
  ELSE IF q.head[p] = NULL THEN [q EXCEPT !.head[p] = t]
  ELSE [q EXCEPT !.next[q.tail[p]] = t]

(* Mutant: put leaves the old `next' of the thread in place. *)
put_KeepsNext(q, t) ==
  IF t = NULL THEN q
  ELSE [link(q, t) EXCEPT !.tail[q.priority[t]] = t, !.ready[t] = TRUE]

(* put(thread).  The last three assignments are made for every thread, the
   one that was ready already included. *)
put(q, t) ==
  IF t = NULL THEN q
  ELSE [link(q, t) EXCEPT !.next[t] = NULL,
                          !.tail[q.priority[t]] = t,
                          !.ready[t] = TRUE]

(* The memset that clears a task control block, for a set of them at once. *)
clear(q, ts) ==
  [q EXCEPT !.next     = [t \in Thread |-> IF t \in ts THEN NULL ELSE @[t]],
            !.ready    = [t \in Thread |-> IF t \in ts THEN FALSE ELSE @[t]],
            !.priority = [t \in Thread |-> IF t \in ts THEN 0 ELSE @[t]]]

(* Mutant: the loop of schedule() does not stop at the first thread it finds. *)
TopQueue_Last(q, p) == q.head[p] # NULL /\ \A h \in p + 1 .. PRIORITY_NUM - 1 : q.head[h] = NULL

(* The loop of schedule() stops at queue p. *)
TopQueue(q, p) == q.head[p] # NULL /\ \A h \in 0 .. p - 1 : q.head[h] = NULL

NothingReady(q) == \A p \in Priority : q.head[p] = NULL
=============================================================================
