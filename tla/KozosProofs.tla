---------------------------- MODULE KozosProofs ----------------------------
(***************************************************************************)
(* Theorems about the kernel, for any number of threads, priorities, boxes *)
(* and blocks, and any applications, the ones that wake threads which are  *)
(* ready included.  The invariant has three parts, each kept by every      *)
(* kernel entry: of the scheduler, of messages and memory, and the types   *)
(* of the rest.                                                            *)
(*                                                                         *)
(* QInv, the invariant of the ready queues, speaks of single pointers only *)
(* and survives the damage put does when it is given a thread that is      *)
(* already ready.  What it cannot say, and what does not survive, is that  *)
(* every ready thread can be reached from a head.                          *)
(***************************************************************************)
EXTENDS Kozos, KzPoolProofs

(* The head of a queue is ready and of the priority of the queue. *)
HeadOK(q) ==
  \A p \in Priority : q.head[p] # NULL =>
    /\ q.ready[q.head[p]] /\ q.priority[q.head[p]] = p
    /\ q.tail[p] # NULL

(* The tail is too, and nothing follows it. *)
TailOK(q) ==
  \A p \in Priority : q.tail[p] # NULL =>
    /\ q.ready[q.tail[p]] /\ q.priority[q.tail[p]] = p
    /\ q.next[q.tail[p]] = NULL

(* What follows a ready thread is a ready thread of the same priority, *)
LinkOK(q) ==
  \A t \in Thread : q.ready[t] /\ q.next[t] # NULL =>
    q.ready[q.next[t]] /\ q.priority[q.next[t]] = q.priority[t]

(* but not the head of a queue, *)
NothingBeforeHead(q) ==
  \A t \in Thread, p \in Priority :
    q.ready[t] /\ q.next[t] # NULL => q.next[t] # q.head[p]

(* and no two ready threads are followed by the same one. *)
NoJoin(q) ==
  \A t, u \in Thread :
    q.ready[t] /\ q.ready[u] /\ q.next[t] = q.next[u] /\ q.next[t] # NULL => t = u

QInv(q) ==
  q \in ReadyQueues /\ HeadOK(q) /\ TailOK(q) /\ LinkOK(q)
  /\ NothingBeforeHead(q) /\ NoJoin(q)
-----------------------------------------------------------------------------
(* get, field by field. *)
LEMMA GetFields ==
  ASSUME NEW q, QInv(q), NEW p \in Priority, q.head[p] # NULL
  PROVE  LET h == q.head[p]
             r == get(q, p)
         IN  /\ h \in Thread /\ r \in ReadyQueues
             /\ r.head = [q.head EXCEPT ![p] = q.next[h]]
             /\ r.tail = [q.tail EXCEPT ![p] = IF q.next[h] = NULL THEN NULL ELSE q.tail[p]]
             /\ r.next = q.next
             /\ r.ready = [q.ready EXCEPT ![h] = FALSE]
             /\ r.priority = q.priority
<1>1. PICK h \in Thread : h = q.head[p]
  BY DEF QInv, ReadyQueues, ThreadPtr
<1>2. q.ready[h] = TRUE
  BY <1>1 DEF QInv, HeadOK, ReadyQueues
<1>3. PICK n \in ThreadPtr : n = q.next[h]
  BY DEF QInv, ReadyQueues
<1>4. PICK e \in ThreadPtr : e = IF n = NULL THEN NULL ELSE q.tail[p]
  BY DEF QInv, ReadyQueues, ThreadPtr
<1> DEFINE s == [q EXCEPT !.head[p] = n, !.ready[h] = FALSE, !.tail[p] = e]
<1>5. get(q, p) = s
  BY <1>1, <1>2, <1>3, <1>4 DEF get
<1>6. s \in ReadyQueues
  BY DEF QInv, ReadyQueues
<1>7. /\ s.head = [q.head EXCEPT ![p] = n] /\ s.tail = [q.tail EXCEPT ![p] = e]
      /\ s.next = q.next /\ s.ready = [q.ready EXCEPT ![h] = FALSE]
      /\ s.priority = q.priority
  BY DEF QInv, ReadyQueues
<1> QED
  BY <1>1, <1>3, <1>4, <1>5, <1>6, <1>7

(* get takes away one thread and keeps the invariant. *)
LEMMA GetInv ==
  ASSUME NEW q, QInv(q), NEW p \in Priority, q.head[p] # NULL
  PROVE  QInv(get(q, p))
<1>1. PICK h \in Thread : h = q.head[p]
  BY GetFields
<1>2. PICK r \in ReadyQueues : r = get(q, p)
  BY GetFields
<1>3. /\ r.head = [q.head EXCEPT ![p] = q.next[h]]
      /\ r.tail = [q.tail EXCEPT ![p] = IF q.next[h] = NULL THEN NULL ELSE q.tail[p]]
      /\ r.next = q.next
      /\ r.ready = [q.ready EXCEPT ![h] = FALSE]
      /\ r.priority = q.priority
  BY <1>1, <1>2, GetFields
<1>4. /\ q.ready[h] /\ q.priority[h] = p /\ q.tail[p] # NULL
      /\ q \in ReadyQueues /\ HeadOK(q) /\ TailOK(q) /\ LinkOK(q)
      /\ NothingBeforeHead(q) /\ NoJoin(q)
  BY <1>1 DEF QInv, HeadOK
<1>5. \A t \in Thread : r.ready[t] <=> q.ready[t] /\ t # h
  BY <1>3, <1>4 DEF ReadyQueues
<1>6. \A o \in Priority :
        /\ r.head[o] = IF o = p THEN q.next[h] ELSE q.head[o]
        /\ r.tail[o] = IF o = p /\ q.next[h] = NULL THEN NULL ELSE q.tail[o]
  BY <1>3, <1>4 DEF ReadyQueues
<1>7. q.next[h] # NULL => /\ q.next[h] \in Thread /\ q.next[h] # h /\ q.ready[q.next[h]]
                          /\ q.priority[q.next[h]] = p
  BY <1>1, <1>4 DEF ReadyQueues, ThreadPtr, LinkOK, NothingBeforeHead
<1>8. HeadOK(r)
  <2> SUFFICES ASSUME NEW o \in Priority, r.head[o] # NULL
               PROVE  /\ r.ready[r.head[o]] /\ r.priority[r.head[o]] = o
                      /\ r.tail[o] # NULL
    BY DEF HeadOK
  <2>1. CASE o = p
    BY <2>1, <1>3, <1>4, <1>5, <1>6, <1>7
  <2>2. CASE o # p
    <3>1. q.head[o] \in Thread /\ q.ready[q.head[o]] /\ q.priority[q.head[o]] = o
          /\ q.tail[o] # NULL
      BY <2>2, <1>4, <1>6 DEF HeadOK, ReadyQueues, ThreadPtr
    <3> QED
      BY <2>2, <3>1, <1>3, <1>4, <1>5, <1>6
  <2> QED
    BY <2>1, <2>2
<1>9. TailOK(r)
  <2> SUFFICES ASSUME NEW o \in Priority, r.tail[o] # NULL
               PROVE  /\ r.ready[r.tail[o]] /\ r.priority[r.tail[o]] = o
                      /\ r.next[r.tail[o]] = NULL
    BY DEF TailOK
  <2>1. /\ r.tail[o] = q.tail[o] /\ q.tail[o] \in Thread
        /\ q.ready[q.tail[o]] /\ q.priority[q.tail[o]] = o /\ q.next[q.tail[o]] = NULL
    BY <1>4, <1>6 DEF TailOK, ReadyQueues, ThreadPtr
  <2>2. q.tail[o] # h
    BY <2>1, <1>4, <1>6
  <2> QED
    BY <2>1, <2>2, <1>3, <1>5
<1>10. LinkOK(r)
  BY <1>1, <1>3, <1>4, <1>5 DEF LinkOK, NothingBeforeHead, ReadyQueues, ThreadPtr
<1>11. NothingBeforeHead(r)
  BY <1>3, <1>4, <1>5, <1>6 DEF NothingBeforeHead, NoJoin
<1>12. NoJoin(r)
  BY <1>3, <1>4, <1>5 DEF NoJoin
<1> QED
  BY <1>2, <1>8, <1>9, <1>10, <1>11, <1>12 DEF QInv
-----------------------------------------------------------------------------
(* put, field by field. *)
LEMMA PutFields ==
  ASSUME NEW q, QInv(q), NEW t \in Thread
  PROVE  LET r == put(q, t)
             p == q.priority[t]
         IN  /\ p \in Priority /\ r \in ReadyQueues
             /\ r.priority = q.priority
             /\ r.ready = [q.ready EXCEPT ![t] = TRUE]
             /\ r.tail = [q.tail EXCEPT ![p] = t]
             /\ r.head = IF ~q.ready[t] /\ q.head[p] = NULL
                         THEN [q.head EXCEPT ![p] = t] ELSE q.head
             /\ \A u \in Thread : r.next[u] =
                  IF u = t THEN NULL
                  ELSE IF ~q.ready[t] /\ q.head[p] # NULL /\ u = q.tail[p] THEN t
                  ELSE q.next[u]
<1>1. PICK p \in Priority : p = q.priority[t]
  BY DEF QInv, ReadyQueues
<1>2. q \in ReadyQueues /\ t # NULL
  BY ReadyAssumption DEF QInv
<1>3. PICK k \in ReadyQueues :
        /\ k = link(q, t)
        /\ k.priority = q.priority /\ k.ready = q.ready /\ k.tail = q.tail
        /\ k.head = IF ~q.ready[t] /\ q.head[p] = NULL
                    THEN [q.head EXCEPT ![p] = t] ELSE q.head
        /\ \A u \in Thread : k.next[u] =
             IF ~q.ready[t] /\ q.head[p] # NULL /\ u = q.tail[p] THEN t ELSE q.next[u]
  <2>1. CASE q.ready[t]
    BY <2>1, <1>2 DEF link
  <2>2. CASE ~q.ready[t] /\ q.head[p] = NULL
    <3>1. link(q, t) = [q EXCEPT !.head[p] = t]
      BY <2>2, <1>1 DEF link
    <3> QED
      BY <2>2, <3>1, <1>2 DEF ReadyQueues, ThreadPtr
  <2>3. CASE ~q.ready[t] /\ q.head[p] # NULL
    <3>1. PICK e \in Thread : e = q.tail[p]
      BY <2>3, <1>2 DEF QInv, HeadOK, ReadyQueues, ThreadPtr
    <3>2. link(q, t) = [q EXCEPT !.next[e] = t]
      BY <2>3, <3>1, <1>1 DEF link
    <3> QED
      BY <2>3, <3>1, <3>2, <1>2 DEF ReadyQueues, ThreadPtr
  <2> QED
    BY <2>1, <2>2, <2>3
<1> DEFINE r == [k EXCEPT !.next[t] = NULL, !.tail[p] = t, !.ready[t] = TRUE]
<1>4. put(q, t) = r
  BY <1>1, <1>2, <1>3 DEF put
<1>5. r \in ReadyQueues
  BY DEF ReadyQueues, ThreadPtr
<1>6. /\ r.next = [k.next EXCEPT ![t] = NULL] /\ r.tail = [k.tail EXCEPT ![p] = t]
      /\ r.ready = [k.ready EXCEPT ![t] = TRUE] /\ r.head = k.head
      /\ r.priority = k.priority
  BY DEF ReadyQueues
<1> HIDE DEF r
<1>7. \A u \in Thread : r.next[u] = IF u = t THEN NULL ELSE k.next[u]
  BY <1>6 DEF ReadyQueues
<1> QED
  BY <1>1, <1>3, <1>4, <1>5, <1>6, <1>7

(* The same, pointer by pointer. *)
LEMMA PutPointers ==
  ASSUME NEW q, QInv(q), NEW t \in Thread, NEW p, p = q.priority[t], NEW r, r = put(q, t)
  PROVE  /\ p \in Priority /\ r \in ReadyQueues /\ r.priority = q.priority
         /\ \A u \in Thread : r.ready[u] <=> u = t \/ q.ready[u]
         /\ \A o \in Priority :
              /\ r.tail[o] = IF o = p THEN t ELSE q.tail[o]
              /\ r.head[o] = IF o = p /\ ~q.ready[t] /\ q.head[p] = NULL THEN t ELSE q.head[o]
         /\ \A u \in Thread : r.next[u] =
              IF u = t THEN NULL
              ELSE IF ~q.ready[t] /\ q.head[p] # NULL /\ u = q.tail[p] THEN t
              ELSE q.next[u]
<1>1. /\ p \in Priority /\ r \in ReadyQueues
      /\ r.priority = q.priority
      /\ r.ready = [q.ready EXCEPT ![t] = TRUE]
      /\ r.tail = [q.tail EXCEPT ![p] = t]
      /\ r.head = IF ~q.ready[t] /\ q.head[p] = NULL
                  THEN [q.head EXCEPT ![p] = t] ELSE q.head
      /\ \A u \in Thread : r.next[u] =
           IF u = t THEN NULL
           ELSE IF ~q.ready[t] /\ q.head[p] # NULL /\ u = q.tail[p] THEN t
           ELSE q.next[u]
  BY PutFields
<1>2. /\ q.ready \in [Thread -> BOOLEAN] /\ q.tail \in [Priority -> ThreadPtr]
      /\ q.head \in [Priority -> ThreadPtr]
  BY DEF QInv, ReadyQueues
<1> QED
  BY <1>1, <1>2

(* put keeps the invariant, whether or not the thread was ready. *)
LEMMA PutInv ==
  ASSUME NEW q, QInv(q), NEW t \in Thread
  PROVE  QInv(put(q, t))
<1>1. PICK p \in Priority : p = q.priority[t]
  BY PutFields
<1>2. PICK r \in ReadyQueues : r = put(q, t)
  BY PutFields
<1>3. /\ q \in ReadyQueues /\ HeadOK(q) /\ TailOK(q) /\ LinkOK(q)
      /\ NothingBeforeHead(q) /\ NoJoin(q) /\ NULL \notin Thread
  BY ReadyAssumption DEF QInv
<1>4. /\ r.priority = q.priority
      /\ \A u \in Thread : r.ready[u] <=> u = t \/ q.ready[u]
      /\ \A o \in Priority :
           /\ r.tail[o] = IF o = p THEN t ELSE q.tail[o]
           /\ r.head[o] = IF o = p /\ ~q.ready[t] /\ q.head[p] = NULL THEN t ELSE q.head[o]
      /\ \A u \in Thread : r.next[u] =
           IF u = t THEN NULL
           ELSE IF ~q.ready[t] /\ q.head[p] # NULL /\ u = q.tail[p] THEN t
           ELSE q.next[u]
  BY <1>1, <1>2, PutPointers
<1>5. /\ \A u \in Thread : q.next[u] \in Thread \cup {NULL} /\ q.ready[u] \in BOOLEAN
      /\ \A o \in Priority : /\ q.head[o] \in Thread \cup {NULL}
                             /\ q.tail[o] \in Thread \cup {NULL}
  BY <1>3 DEF ReadyQueues, ThreadPtr
<1>6. HeadOK(r)
  BY <1>1, <1>3, <1>4, <1>5 DEF HeadOK
<1>7. TailOK(r)
  <2> SUFFICES ASSUME NEW o \in Priority, r.tail[o] # NULL
               PROVE  /\ r.ready[r.tail[o]] /\ r.priority[r.tail[o]] = o
                      /\ r.next[r.tail[o]] = NULL
    BY DEF TailOK
  <2>1. CASE o = p
    BY <2>1, <1>1, <1>4
  <2>2. CASE o # p
    <3>1. /\ r.tail[o] = q.tail[o] /\ q.tail[o] \in Thread /\ q.ready[q.tail[o]]
          /\ q.priority[q.tail[o]] = o /\ q.next[q.tail[o]] = NULL
      BY <2>2, <1>3, <1>4, <1>5 DEF TailOK
    <3>2. q.head[p] # NULL => q.tail[o] # q.tail[p]
      BY <2>2, <3>1, <1>3, <1>5 DEF HeadOK, TailOK
    <3> QED
      BY <3>1, <3>2, <1>4
  <2> QED
    BY <2>1, <2>2
<1>8. LinkOK(r)
  <2> SUFFICES ASSUME NEW u \in Thread, r.ready[u], r.next[u] # NULL
               PROVE  r.ready[r.next[u]] /\ r.priority[r.next[u]] = r.priority[u]
    BY DEF LinkOK
  <2>1. u # t /\ q.ready[u]
    BY <1>4
  <2>2. CASE ~q.ready[t] /\ q.head[p] # NULL /\ u = q.tail[p]
    <3>1. r.next[u] = t /\ r.ready[t]
      BY <2>1, <2>2, <1>4
    <3>2. q.priority[u] = p
      BY <2>2, <1>3 DEF TailOK
    <3> QED
      BY <3>1, <3>2, <1>1, <1>4
  <2>3. CASE ~(~q.ready[t] /\ q.head[p] # NULL /\ u = q.tail[p])
    BY <2>1, <2>3, <1>3, <1>4, <1>5 DEF LinkOK
  <2> QED
    BY <2>2, <2>3
<1>9. NothingBeforeHead(r)
  <2> SUFFICES ASSUME NEW u \in Thread, NEW o \in Priority,
                      r.ready[u], r.next[u] # NULL, r.next[u] = r.head[o]
               PROVE  FALSE
    BY DEF NothingBeforeHead
  <2>1. u # t /\ q.ready[u]
    BY <1>4
  <2>2. CASE ~q.ready[t] /\ q.head[p] # NULL /\ u = q.tail[p]
    <3>1. r.next[u] = t /\ r.head[o] = q.head[o]
      BY <2>1, <2>2, <1>4
    <3> QED
      BY <3>1, <2>2, <1>3, <1>5, ZenonT(60) DEF HeadOK
  <2>3. CASE ~(~q.ready[t] /\ q.head[p] # NULL /\ u = q.tail[p])
    <3>1. r.next[u] = q.next[u] /\ q.ready[q.next[u]]
      BY <2>1, <2>3, <1>3, <1>4, <1>5 DEF LinkOK
    <3>2. CASE r.head[o] = q.head[o]
      BY <2>1, <3>1, <3>2, <1>3 DEF NothingBeforeHead
    <3>3. CASE r.head[o] = t /\ ~q.ready[t]
      BY <3>1, <3>3
    <3> QED
      BY <3>2, <3>3, <1>4
  <2> QED
    BY <2>2, <2>3
<1>10. NoJoin(r)
  <2> SUFFICES ASSUME NEW u \in Thread, NEW v \in Thread, r.ready[u], r.ready[v],
                      r.next[u] = r.next[v], r.next[u] # NULL, u # v
               PROVE  FALSE
    BY DEF NoJoin
  <2>1. u # t /\ v # t /\ q.ready[u] /\ q.ready[v]
    BY <1>4
  <2>2. \A w \in {u, v} : q.next[w] # NULL => q.ready[q.next[w]]
    BY <2>1, <1>3 DEF LinkOK
  <2> QED
    BY <2>1, <2>2, <1>3, <1>4 DEF NoJoin
<1> QED
  BY <1>2, <1>6, <1>7, <1>8, <1>9, <1>10 DEF QInv

(* put leaves a queue that has a head with that head, and a queue that was empty
   with at most the thread it was given. *)
LEMMA PutHead ==
  ASSUME NEW q, QInv(q), NEW t \in Thread, NEW p \in Priority
  PROVE  put(q, t).head[p] = q.head[p] \/ (q.head[p] = NULL /\ put(q, t).head[p] = t)
<1>1. q.head \in [Priority -> ThreadPtr]
  BY DEF QInv, ReadyQueues
<1>2. PICK o \in Priority : o = q.priority[t]
  BY PutFields
<1>3. put(q, t).head = IF ~q.ready[t] /\ q.head[o] = NULL
                       THEN [q.head EXCEPT ![o] = t] ELSE q.head
  BY <1>2, PutFields
<1> QED
  BY <1>1, <1>3
-----------------------------------------------------------------------------
(* Threads that are not ready can be changed at will. *)
LEMMA SameReadyInv ==
  ASSUME NEW q, QInv(q), NEW r \in ReadyQueues,
         r.head = q.head, r.tail = q.tail, r.ready = q.ready,
         \A t \in Thread : q.ready[t] =>
           r.next[t] = q.next[t] /\ r.priority[t] = q.priority[t]
  PROVE  QInv(r)
<1>1. /\ q \in ReadyQueues /\ HeadOK(q) /\ TailOK(q) /\ LinkOK(q)
      /\ NothingBeforeHead(q) /\ NoJoin(q)
      /\ \A u \in Thread : q.next[u] \in Thread \cup {NULL}
      /\ \A o \in Priority : /\ q.head[o] \in Thread \cup {NULL}
                             /\ q.tail[o] \in Thread \cup {NULL}
  BY DEF QInv, ReadyQueues, ThreadPtr
<1>2. HeadOK(r)
  BY <1>1 DEF HeadOK
<1>3. TailOK(r)
  BY <1>1 DEF TailOK
<1>4. LinkOK(r)
  BY <1>1 DEF LinkOK
<1>5. NothingBeforeHead(r)
  BY <1>1 DEF NothingBeforeHead
<1>6. NoJoin(r)
  BY <1>1 DEF NoJoin
<1> QED
  BY <1>2, <1>3, <1>4, <1>5, <1>6 DEF QInv

LEMMA ClearInv ==
  ASSUME NEW q, QInv(q), NEW ts \in SUBSET Thread, \A t \in ts : ~q.ready[t]
  PROVE  QInv(clear(q, ts)) /\ clear(q, ts).ready = q.ready
<1> DEFINE nx == [t \in Thread |-> IF t \in ts THEN NULL ELSE q.next[t]]
           rd == [t \in Thread |-> IF t \in ts THEN FALSE ELSE q.ready[t]]
           pr == [t \in Thread |-> IF t \in ts THEN 0 ELSE q.priority[t]]
           r  == [q EXCEPT !.next = nx, !.ready = rd, !.priority = pr]
<1>1. clear(q, ts) = r
  BY DEF clear
<1>2. q \in ReadyQueues /\ 0 \in Priority
  BY ReadyAssumption DEF QInv, Priority
<1>3. /\ nx \in [Thread -> ThreadPtr] /\ rd = q.ready
      /\ pr \in [Thread -> Priority]
  BY <1>2 DEF ReadyQueues, ThreadPtr
<1>4. \A t \in Thread : q.ready[t] => nx[t] = q.next[t] /\ pr[t] = q.priority[t]
  OBVIOUS
<1> HIDE DEF nx, rd, pr
<1>5. /\ r \in ReadyQueues /\ r.head = q.head /\ r.tail = q.tail
      /\ r.ready = rd /\ r.next = nx /\ r.priority = pr
  BY <1>2, <1>3 DEF ReadyQueues
<1> HIDE DEF r
<1> QED
  BY <1>1, <1>3, <1>4, <1>5, SameReadyInv

LEMMA PriorityInv ==
  ASSUME NEW q, QInv(q), NEW t \in Thread, ~q.ready[t], NEW p \in Priority
  PROVE  LET r == [q EXCEPT !.priority[t] = p]
         IN  QInv(r) /\ r.ready = q.ready
<1> DEFINE r == [q EXCEPT !.priority[t] = p]
<1>1. /\ r \in ReadyQueues /\ r.head = q.head /\ r.tail = q.tail
      /\ r.ready = q.ready /\ r.next = q.next
      /\ r.priority = [q.priority EXCEPT ![t] = p]
  BY DEF QInv, ReadyQueues
<1> HIDE DEF r
<1>2. \A u \in Thread : q.ready[u] => r.next[u] = q.next[u] /\ r.priority[u] = q.priority[u]
  BY <1>1 DEF QInv, ReadyQueues
<1>3. QInv(r)
  BY <1>1, <1>2, SameReadyInv
<1> QED
  BY <1>1, <1>3 DEF r
-----------------------------------------------------------------------------
SchedInv ==
  /\ current \in Thread /\ QInv(rq)
  /\ func \subseteq Thread
  /\ \A t \in Thread : rq.ready[t] => t \in func
  /\ mode \in {"run", "down", "wild"}
  /\ CallerIsHead

(* A box has a first message if and only if it has a last one. *)
BoxEnds(x) == \A id \in MsgBox : x.head[id] = NULL <=> x.tail[id] = NULL

(* A box somebody waits at is empty. *)
WaitsEmpty(x) == \A id \in MsgBox : x.reciever[id] # NULL => x.head[id] = NULL

IpcInv ==
  /\ mb \in Boxes /\ BoxEnds(mb) /\ WaitsEmpty(mb)
  /\ mem \in Pools
  /\ held \in [Thread -> SUBSET Block]

RestOK ==
  /\ syscall \in [Thread -> [type : Blocking \cup {"OTHER"}, id : MsgBox \cup {NULL}]]
  /\ ccr \in [Thread -> BOOLEAN]
  /\ stacks \in 0 .. STACK_NUM
  /\ handlers \subseteq 0 .. SOFTVEC_TYPE_NUM - 1

KernelInv == SchedInv /\ IpcInv /\ RestOK

LEMMA KernelTypes == KernelInv => TypeOK
BY DEF KernelInv, SchedInv, IpcInv, RestOK, TypeOK, QInv
-----------------------------------------------------------------------------
LEMMA IdleThread == Idle \in Thread
BY ReadyAssumption DEF Idle, Thread

(* Before the first thread is put on its queue all queues are empty. *)
LEMMA InitSched == Init => SchedInv
<1> SUFFICES ASSUME Init PROVE SchedInv
  OBVIOUS
<1> DEFINE empty == [head     |-> [p \in Priority |-> NULL],
                     tail     |-> [p \in Priority |-> NULL],
                     next     |-> [t \in Thread |-> NULL],
                     ready    |-> [t \in Thread |-> FALSE],
                     priority |-> [t \in Thread |-> 0]]
<1>1. 0 \in Priority
  BY ReadyAssumption DEF Priority
<1>2. QInv(empty)
  BY <1>1 DEF QInv, HeadOK, TailOK, LinkOK, NothingBeforeHead, NoJoin,
              ReadyQueues, ThreadPtr
<1>3. /\ \A p \in Priority : empty.head[p] = NULL
      /\ \A t \in Thread : empty.ready[t] = FALSE /\ empty.priority[t] = 0
      /\ empty \in ReadyQueues
  BY <1>2 DEF QInv
<1> HIDE DEF empty
<1>4. rq = put(empty, Idle) /\ current = Idle /\ func = {Idle} /\ mode = "run"
  BY DEF Init, empty
<1>5. QInv(rq)
  BY <1>2, <1>4, IdleThread, PutInv
<1>6. /\ rq.head = [empty.head EXCEPT ![0] = Idle]
      /\ rq.ready = [empty.ready EXCEPT ![Idle] = TRUE]
      /\ rq.priority = empty.priority
  <2>1. ~empty.ready[Idle] /\ empty.head[0] = NULL /\ empty.priority[Idle] = 0
    BY <1>1, <1>3, IdleThread
  <2>2. PICK r : r = put(empty, Idle)
    OBVIOUS
  <2>3. /\ r.head = IF ~empty.ready[Idle] /\ empty.head[empty.priority[Idle]] = NULL
                    THEN [empty.head EXCEPT ![empty.priority[Idle]] = Idle]
                    ELSE empty.head
        /\ r.ready = [empty.ready EXCEPT ![Idle] = TRUE]
        /\ r.priority = empty.priority
    BY <1>2, <2>2, IdleThread, PutFields
  <2> QED
    BY <2>1, <2>2, <2>3, <1>4
<1>7. /\ \A t \in Thread : rq.ready[t] => t = Idle
      /\ rq.ready[Idle] /\ rq.priority[Idle] = 0 /\ rq.head[0] = Idle
  BY <1>1, <1>3, <1>6, IdleThread DEF ReadyQueues
<1> QED
  BY <1>4, <1>5, <1>7, IdleThread, ReadyAssumption DEF SchedInv, CallerIsHead, Priority

LEMMA InitKernel == Init => KernelInv
<1> SUFFICES ASSUME Init PROVE KernelInv
  OBVIOUS
<1>1. IpcInv
  BY InitPools DEF Init, IpcInv, EmptyBoxes, Boxes, BoxEnds, WaitsEmpty, ThreadPtr
<1>2. RestOK
  BY KozosAssumption DEF Init, RestOK, NoCall, Blocking, SOFTVEC_TYPE_NUM, SOFTERR, SYSCALL
<1> QED
  BY <1>1, <1>2, InitSched DEF KernelInv
-----------------------------------------------------------------------------
(* syscall_proc takes the caller, and nobody else, off the ready queues. *)
LEMMA RemovedCaller ==
  ASSUME SchedInv, mode = "run"
  PROVE  /\ current \in func /\ QInv(Removed) /\ Removed.priority = rq.priority
         /\ \A t \in Thread : Removed.ready[t] <=> rq.ready[t] /\ t # current
<1>1. /\ QInv(rq) /\ current \in Thread /\ current \in func
      /\ rq.head[rq.priority[current]] = current
      /\ rq.priority[current] \in Priority /\ current # NULL
  BY ReadyAssumption DEF SchedInv, CallerIsHead, QInv, ReadyQueues
<1>2. QInv(Removed)
  BY <1>1, GetInv DEF Removed
<1>3. /\ Removed.ready = [rq.ready EXCEPT ![current] = FALSE]
      /\ Removed.priority = rq.priority
  <2>1. PICK p \in Priority : p = rq.priority[current] /\ rq.head[p] = current
    BY <1>1
  <2>2. /\ get(rq, p).ready = [rq.ready EXCEPT ![rq.head[p]] = FALSE]
        /\ get(rq, p).priority = rq.priority
    BY <1>1, <2>1, GetFields
  <2> QED
    BY <2>1, <2>2 DEF Removed
<1> QED
  BY <1>1, <1>2, <1>3 DEF QInv, ReadyQueues

(* What put does to the ready flags. *)
LEMMA PutReady ==
  ASSUME NEW q, QInv(q), NEW t \in Thread
  PROVE  /\ QInv(put(q, t))
         /\ \A u \in Thread : put(q, t).ready[u] <=> q.ready[u] \/ u = t
<1>1. put(q, t).ready = [q.ready EXCEPT ![t] = TRUE]
  BY PutFields
<1> QED
  BY <1>1, PutInv DEF QInv, ReadyQueues

(* schedule() and dispatch() from good queues lead to a good state. *)
LEMMA DispatchInv ==
  ASSUME NEW q, QInv(q), Dispatch(q), current \in Thread, mode = "run",
         func' \subseteq Thread,
         \A t \in Thread : q.ready[t] => t \in func'
  PROVE  SchedInv'
<1>1. rq' = q
  BY DEF Dispatch
<1>2. CASE \E p \in Priority : TopQueue(q, p) /\ current' = q.head[p] /\ UNCHANGED mode
  <2>1. PICK p \in Priority : TopQueue(q, p) /\ current' = q.head[p] /\ mode' = "run"
    BY <1>2
  <2>2. current' \in Thread /\ q.ready[current'] /\ q.priority[current'] = p
    BY <2>1 DEF TopQueue, QInv, HeadOK, ReadyQueues, ThreadPtr
  <2>3. \A o \in Priority : o < p => q.head[o] = NULL
    BY <2>1, ReadyAssumption DEF TopQueue, Priority
  <2> QED
    BY <1>1, <2>1, <2>2, <2>3 DEF SchedInv, CallerIsHead
<1>3. CASE NothingReady(q) /\ mode' = "down" /\ UNCHANGED current
  BY <1>1, <1>3 DEF SchedInv, CallerIsHead
<1> QED
  BY <1>2, <1>3 DEF Dispatch

(* A kernel that does not return changes nothing else. *)
LEMMA HaltInv ==
  ASSUME SchedInv, IpcInv, NEW how \in {"down", "wild"}, Halt(how), func' = func
  PROVE  SchedInv' /\ IpcInv'
BY DEF Halt, SchedInv, IpcInv, CallerIsHead, ipcVars

(* The queues after the caller has been put back: everybody is ready who was. *)
LEMMA CallerBack ==
  ASSUME SchedInv, mode = "run"
  PROVE  /\ QInv(put(Removed, current))
         /\ \A t \in Thread : put(Removed, current).ready[t] => t \in func
<1>1. current \in Thread
  BY DEF SchedInv
<1> QED
  BY <1>1, RemovedCaller, PutReady DEF SchedInv

(* A further thread in use may be put. *)
LEMMA AlsoPut ==
  ASSUME NEW q, QInv(q), NEW S \in SUBSET Thread,
         \A t \in Thread : q.ready[t] => t \in S,
         NEW u \in S
  PROVE  /\ QInv(put(q, u))
         /\ \A t \in Thread : put(q, u).ready[t] => t \in S
BY PutReady

(* kz_syscall writes a well-formed record into the TCB. *)
LEMMA SyscallTypes ==
  ASSUME SchedInv, RestOK, NEW type, NEW id \in MsgBox \cup {NULL}, Syscall(type, id)
  PROVE  /\ mode = "run" /\ current \in Thread
         /\ syscall' \in [Thread -> [type : Blocking \cup {"OTHER"}, id : MsgBox \cup {NULL}]]
BY DEF Syscall, SchedInv, RestOK, NoCall

(* A call that changes queues only. *)
LEMMA QueueCall ==
  ASSUME KernelInv, NEW type, Syscall(type, NULL),
         NEW q, QInv(q), \A t \in Thread : q.ready[t] => t \in func,
         Dispatch(q), UNCHANGED <<threadVars, ipcVars>>,
         handlers' \subseteq 0 .. SOFTVEC_TYPE_NUM - 1
  PROVE  KernelInv'
<1> USE DEF KernelInv
<1>1. /\ func' = func /\ ccr' = ccr /\ stacks' = stacks
      /\ mb' = mb /\ mem' = mem /\ held' = held
  BY DEF threadVars, ipcVars
<1>2. mode = "run" /\ current \in Thread /\ func \subseteq Thread
  BY DEF Syscall, SchedInv
<1>3. SchedInv'
  BY <1>1, <1>2, DispatchInv
<1>4. IpcInv'
  BY <1>1 DEF IpcInv
<1>5. RestOK'
  BY <1>1, SyscallTypes DEF RestOK
<1> QED
  BY <1>3, <1>4, <1>5
-----------------------------------------------------------------------------
LEMMA WaitStep == KernelInv /\ thread_wait => KernelInv'
BY CallerBack, QueueCall DEF thread_wait, Syscall, KernelInv, RestOK

LEMMA GetidStep == KernelInv /\ thread_getid => KernelInv'
BY CallerBack, QueueCall DEF thread_getid, Syscall, KernelInv, RestOK

LEMMA SleepStep == KernelInv /\ thread_sleep => KernelInv'
<1> SUFFICES ASSUME KernelInv, thread_sleep PROVE KernelInv'
  OBVIOUS
<1>1. QInv(Removed) /\ \A t \in Thread : Removed.ready[t] => t \in func
  BY RemovedCaller DEF thread_sleep, Syscall, KernelInv, SchedInv
<1> QED
  BY <1>1, QueueCall DEF thread_sleep, KernelInv, RestOK

LEMMA WakeupStep == ASSUME KernelInv, NEW u \in Thread, thread_wakeup(u) PROVE KernelInv'
<1>1. u \in func /\ func \subseteq Thread /\ mode = "run"
  BY DEF thread_wakeup, Wakeable, Syscall, KernelInv, SchedInv
<1>2. /\ QInv(put(put(Removed, current), u))
      /\ \A t \in Thread : put(put(Removed, current), u).ready[t] => t \in func
  BY <1>1, CallerBack, AlsoPut DEF KernelInv
<1> QED
  BY <1>2, QueueCall DEF thread_wakeup, KernelInv, RestOK

LEMMA ChpriStep == ASSUME KernelInv, NEW p \in NewPriorities, thread_chpri(p) PROVE KernelInv'
<1> DEFINE changed == IF p \in Priority THEN [Removed EXCEPT !.priority[current] = p]
                      ELSE Removed
<1>1. current \in func /\ current \in Thread /\ func \subseteq Thread /\ mode = "run"
  BY RemovedCaller DEF thread_chpri, Syscall, KernelInv, SchedInv
<1>2. /\ QInv(Removed) /\ ~Removed.ready[current]
      /\ \A t \in Thread : Removed.ready[t] => t \in func
  BY <1>1, RemovedCaller DEF KernelInv, SchedInv
<1>3. QInv(changed) /\ changed.ready = Removed.ready
  BY <1>1, <1>2, PriorityInv
<1> HIDE DEF changed
<1>4. /\ QInv(put(changed, current))
      /\ \A t \in Thread : put(changed, current).ready[t] => t \in func
  BY <1>1, <1>2, <1>3, AlsoPut
<1>5. Dispatch(put(changed, current))
  BY DEF thread_chpri, changed
<1> QED
  BY <1>4, <1>5, QueueCall DEF thread_chpri, KernelInv, RestOK

LEMMA SetintrStep == ASSUME KernelInv, NEW v \in IntrTypes, thread_setintr(v) PROVE KernelInv'
<1>1. mode = "run"
  BY DEF thread_setintr, Syscall
<1>2. CASE IsVector(v) /\ handlers' = handlers \cup {v} /\ Dispatch(put(Removed, current))
  BY <1>1, <1>2, CallerBack, QueueCall DEF thread_setintr, KernelInv, RestOK, IsVector
<1>3. CASE ~IsVector(v) /\ Dispatch(Removed) /\ UNCHANGED handlers
  <2>1. QInv(Removed) /\ \A t \in Thread : Removed.ready[t] => t \in func
    BY <1>1, RemovedCaller DEF KernelInv, SchedInv
  <2> QED
    BY <1>3, <2>1, QueueCall DEF thread_setintr, KernelInv, RestOK
<1> QED
  BY <1>2, <1>3 DEF thread_setintr
-----------------------------------------------------------------------------
LEMMA RunStep == ASSUME KernelInv, NEW p \in RunPriorities, thread_run(p) PROVE KernelInv'
<1> USE DEF KernelInv
<1>1. /\ mode = "run" /\ current \in func /\ current \in Thread /\ func \subseteq Thread
      /\ syscall' \in [Thread -> [type : Blocking \cup {"OTHER"}, id : MsgBox \cup {NULL}]]
      /\ stacks < STACK_NUM /\ handlers' = handlers
  BY RemovedCaller, SyscallTypes DEF thread_run, Syscall, SchedInv
<1>2. ASSUME NEW t \in Thread \ func,
             func' = func \cup {t}, ccr' = [ccr EXCEPT ![t] = (p = 0)],
             stacks' = stacks + 1, UNCHANGED ipcVars,
             LET fresh == [clear(Removed, Thread \ func) EXCEPT !.priority[t] = p]
             IN  Dispatch(put(put(fresh, current), t))
      PROVE  KernelInv'
  <2> DEFINE cleared == clear(Removed, Thread \ func)
             fresh   == [cleared EXCEPT !.priority[t] = p]
  <2>1. /\ QInv(Removed)
        /\ \A u \in Thread : Removed.ready[u] => u \in func
    BY <1>1, RemovedCaller DEF SchedInv
  <2>2. QInv(cleared) /\ cleared.ready = Removed.ready
    BY <2>1, ClearInv
  <2> HIDE DEF cleared
  <2>3. p \in Priority
    BY KozosAssumption
  <2>4. ~cleared.ready[t]
    BY <2>1, <2>2
  <2>5. QInv(fresh) /\ fresh.ready = cleared.ready
    BY <2>2, <2>3, <2>4, PriorityInv
  <2> HIDE DEF fresh
  <2>6. /\ QInv(put(fresh, current))
        /\ \A u \in Thread : put(fresh, current).ready[u] => u \in func
    BY <1>1, <2>1, <2>2, <2>5, AlsoPut
  <2>7. /\ QInv(put(put(fresh, current), t))
        /\ \A u \in Thread : put(put(fresh, current), t).ready[u] => u \in func'
    BY <1>1, <1>2, <2>6, PutReady
  <2>8. Dispatch(put(put(fresh, current), t))
    BY <1>2 DEF fresh, cleared
  <2>9. SchedInv'
    BY <1>1, <1>2, <2>7, <2>8, DispatchInv
  <2>10. IpcInv'
    BY <1>2 DEF IpcInv, ipcVars
  <2>11. stacks' \in 0 .. STACK_NUM
    BY <1>1, <1>2, KozosAssumption DEF RestOK
  <2> QED
    BY <1>1, <1>2, <2>9, <2>10, <2>11 DEF RestOK
<1>3. CASE Halt("wild") /\ UNCHANGED threadVars
  <2>1. func' = func /\ ccr' = ccr /\ stacks' = stacks
    BY <1>3 DEF threadVars
  <2> QED
    BY <1>1, <1>3, <2>1, HaltInv DEF RestOK
<1> QED
  BY <1>2, <1>3 DEF thread_run

LEMMA TerminateStep ==
  ASSUME KernelInv, mode = "run", Terminate,
         syscall' \in [Thread -> [type : Blocking \cup {"OTHER"}, id : MsgBox \cup {NULL}]]
  PROVE  KernelInv'
<1> USE DEF KernelInv
<1>1. /\ current \in Thread /\ func \subseteq Thread /\ QInv(Removed)
      /\ \A t \in Thread : Removed.ready[t] <=> rq.ready[t] /\ t # current
      /\ \A t \in Thread : rq.ready[t] => t \in func
  BY RemovedCaller DEF SchedInv
<1>2. /\ QInv(clear(Removed, {current}))
      /\ clear(Removed, {current}).ready = Removed.ready
  BY <1>1, ClearInv
<1>3. \A t \in Thread : clear(Removed, {current}).ready[t] => t \in func'
  BY <1>1, <1>2 DEF Terminate
<1>4. SchedInv'
  BY <1>1, <1>2, <1>3, DispatchInv DEF Terminate
<1>5. IpcInv' /\ RestOK'
  BY DEF Terminate, IpcInv, RestOK
<1> QED
  BY <1>4, <1>5

LEMMA ExitStep == KernelInv /\ thread_exit => KernelInv'
BY TerminateStep, SyscallTypes DEF thread_exit, KernelInv, Syscall

LEMMA SofterrStep == KernelInv /\ softerr_intr => KernelInv'
<1> SUFFICES ASSUME KernelInv, softerr_intr PROVE KernelInv'
  OBVIOUS
<1>1. NoCall \in [type : Blocking \cup {"OTHER"}, id : MsgBox \cup {NULL}]
  BY DEF NoCall
<1> QED
  BY <1>1, TerminateStep DEF softerr_intr, KernelInv, RestOK
-----------------------------------------------------------------------------
(* A call of a thread that changes messages or memory and lets it go on. *)
LEMMA MemoryCall ==
  ASSUME KernelInv, NEW type, Syscall(type, NULL),
         Dispatch(put(Removed, current)), UNCHANGED <<threadVars, handlers, mb>>,
         mem' \in Pools, held' \in [Thread -> SUBSET Block]
  PROVE  KernelInv'
<1> USE DEF KernelInv
<1>1. func' = func /\ ccr' = ccr /\ stacks' = stacks
  BY DEF threadVars
<1>2. SchedInv'
  BY <1>1, CallerBack, DispatchInv DEF Syscall, SchedInv
<1>3. IpcInv'
  BY DEF IpcInv
<1>4. RestOK'
  BY <1>1, SyscallTypes DEF RestOK
<1> QED
  BY <1>2, <1>3, <1>4

LEMMA KmallocStep ==
  ASSUME KernelInv, NEW size \in AllocSizes, thread_kmalloc(size) PROVE KernelInv'
<1>1. ASSUME NEW i \in Pool, FirstFit(mem, size, i), mem' = kzmem_alloc(mem, i),
             held' = [held EXCEPT ![current] = @ \cup {mem.free[i]}],
             Dispatch(put(Removed, current)), UNCHANGED mb
      PROVE  KernelInv'
  <2>1. mem.free[i] \in Block /\ mem' \in Pools
    BY <1>1, AllocPools DEF FirstFit, Fits, KernelInv, IpcInv
  <2>2. held' \in [Thread -> SUBSET Block]
    BY <1>1, <2>1 DEF KernelInv, IpcInv
  <2> QED
    BY <1>1, <2>1, <2>2, MemoryCall DEF thread_kmalloc
<1>2. CASE Halt("down")
  <2>1. func' = func /\ ccr' = ccr /\ stacks' = stacks /\ handlers' = handlers
    BY DEF thread_kmalloc, threadVars
  <2> QED
    BY <1>2, <2>1, HaltInv, SyscallTypes DEF thread_kmalloc, KernelInv, RestOK
<1> QED
  BY <1>1, <1>2 DEF thread_kmalloc

LEMMA KmfreeStep == ASSUME KernelInv, NEW b \in Block, thread_kmfree(b) PROVE KernelInv'
<1>1. mem' \in Pools
  BY FreePools DEF thread_kmfree, KernelInv, IpcInv
<1>2. held' \in [Thread -> SUBSET Block]
  BY DEF thread_kmfree, KernelInv, IpcInv
<1> QED
  BY <1>1, <1>2, MemoryCall DEF thread_kmfree
-----------------------------------------------------------------------------
(* sendmsg puts a message into one box, *)
LEMMA SendmsgBoxes ==
  ASSUME NEW x \in Boxes, BoxEnds(x), NEW id \in MsgBox, NEW b \in Block,
         NEW from \in ThreadPtr, NEW data \in Block \cup {STATIC}
  PROVE  LET y == sendmsg(x, id, b, from, data)
         IN  /\ y \in Boxes /\ BoxEnds(y) /\ y.reciever = x.reciever
             /\ y.head[id] \in Block
             /\ \A k \in MsgBox : k # id => y.head[k] = x.head[k]
<1>0. b # NULL
  BY PoolAssumption
<1> DEFINE z == [x EXCEPT !.next[b] = NULL, !.sender[b] = from, !.data[b] = data]
<1>1. /\ z \in Boxes /\ z.head = x.head /\ z.tail = x.tail /\ z.reciever = x.reciever
  BY DEF Boxes
<1>2. sendmsg(x, id, b, from, data) = enque(z, id, b)
  BY DEF sendmsg
<1> HIDE DEF z
<1>3. CASE z.tail[id] = NULL
  <2> DEFINE y == [z EXCEPT !.head[id] = b, !.tail[id] = b]
  <2>1. enque(z, id, b) = y
    BY <1>3 DEF enque
  <2>2. /\ y \in Boxes /\ y.reciever = z.reciever
        /\ y.head = [z.head EXCEPT ![id] = b] /\ y.tail = [z.tail EXCEPT ![id] = b]
    BY <1>1 DEF Boxes
  <2> HIDE DEF y
  <2>3. \A k \in MsgBox :
          /\ y.head[k] = IF k = id THEN b ELSE x.head[k]
          /\ y.tail[k] = IF k = id THEN b ELSE x.tail[k]
    BY <1>1, <2>2 DEF Boxes
  <2>4. BoxEnds(y)
    BY <1>0, <2>3 DEF BoxEnds
  <2> QED
    BY <1>1, <1>2, <2>1, <2>2, <2>3, <2>4
<1>4. CASE z.tail[id] # NULL
  <2>1. PICK h \in Block : h = z.head[id]
    BY <1>1, <1>4 DEF Boxes, BoxEnds
  <2> DEFINE y == [z EXCEPT !.next[h] = b, !.tail[id] = b]
  <2>2. enque(z, id, b) = y
    BY <1>4, <2>1 DEF enque
  <2>3. /\ y \in Boxes /\ y.reciever = z.reciever
        /\ y.head = z.head /\ y.tail = [z.tail EXCEPT ![id] = b]
    BY <1>1 DEF Boxes
  <2> HIDE DEF y
  <2>4. \A k \in MsgBox :
          /\ y.head[k] = x.head[k]
          /\ y.tail[k] = IF k = id THEN b ELSE x.tail[k]
    BY <1>1, <2>3 DEF Boxes
  <2>5. BoxEnds(y)
    BY <1>0, <1>1, <2>1, <2>4, PoolAssumption DEF BoxEnds
  <2> QED
    BY <1>1, <1>2, <2>1, <2>2, <2>3, <2>4, <2>5
<1> QED
  BY <1>3, <1>4

(* and recvmsg takes the first message out of one and lets the receiver go. *)
LEMMA RecvmsgBoxes ==
  ASSUME NEW x \in Boxes, BoxEnds(x), NEW id \in MsgBox, x.head[id] \in Block
  PROVE  LET y == recvmsg(x, id)
         IN  /\ y \in Boxes /\ BoxEnds(y)
             /\ y.reciever = [x.reciever EXCEPT ![id] = NULL]
             /\ \A k \in MsgBox : k # id => y.head[k] = x.head[k]
<1>1. PICK f \in Block : f = x.head[id]
  OBVIOUS
<1>2. PICK n \in Block \cup {NULL} : n = x.next[f]
  BY DEF Boxes
<1>3. PICK e \in Block \cup {NULL} : e = IF n = NULL THEN NULL ELSE x.tail[id]
  BY DEF Boxes
<1> DEFINE z == [x EXCEPT !.head[id] = n, !.tail[id] = e, !.next[f] = NULL]
<1>4. deque(x, id) = z
  BY <1>1, <1>2, <1>3 DEF deque
<1>5. /\ z \in Boxes /\ z.reciever = x.reciever
      /\ z.head = [x.head EXCEPT ![id] = n] /\ z.tail = [x.tail EXCEPT ![id] = e]
  BY DEF Boxes
<1> HIDE DEF z
<1> DEFINE y == [z EXCEPT !.reciever[id] = NULL, !.sender[f] = NULL, !.data[f] = NULL]
<1>6. recvmsg(x, id) = y
  BY <1>1, <1>4 DEF recvmsg
<1>7. /\ y \in Boxes /\ y.reciever = [z.reciever EXCEPT ![id] = NULL]
      /\ y.head = z.head /\ y.tail = z.tail
  BY <1>5 DEF Boxes, ThreadPtr
<1> HIDE DEF y
<1>8. \A k \in MsgBox :
          /\ y.head[k] = IF k = id THEN n ELSE x.head[k]
          /\ y.tail[k] = IF k = id THEN e ELSE x.tail[k]
  BY <1>5, <1>7 DEF Boxes
<1>9. x.tail[id] # NULL
  BY PoolAssumption DEF BoxEnds
<1>10. BoxEnds(y)
  BY <1>3, <1>8, <1>9 DEF BoxEnds
<1> QED
  BY <1>5, <1>6, <1>7, <1>8, <1>10

(* Whatever a message carries, what the receiver gets is blocks. *)
LEMMA DeliverTypes ==
  ASSUME NEW h \in [Thread -> SUBSET Block], NEW x, NEW id, NEW r
  PROVE  Deliver(h, x, id, r) \in [Thread -> SUBSET Block]
BY DEF Deliver

(* Sending keeps the invariant, from a call and from a handler. *)
LEMMA PostInv ==
  ASSUME SchedInv, IpcInv, mode = "run", func' = func,
         NEW q, QInv(q), \A t \in Thread : q.ready[t] => t \in func,
         NEW m \in Pools, NEW h \in [Thread -> SUBSET Block],
         NEW from \in ThreadPtr, NEW id \in MsgBox, NEW data \in Block \cup {STATIC},
         Post(q, m, h, from, id, data)
  PROVE  SchedInv' /\ IpcInv'
<1>1. CASE Halt("down") \/ Halt("wild")
  BY <1>1, HaltInv
<1>2. ASSUME NEW i \in Pool, FirstFit(m, MSGBUF_SIZE, i),
             LET r == mb.reciever[id]
                 x == sendmsg(mb, id, m.free[i], from, data)
             IN  \/ /\ r = NULL
                    /\ mb' = x
                    /\ mem' = kzmem_alloc(m, i)
                    /\ held' = h
                    /\ Dispatch(q)
                 \/ /\ r # NULL
                    /\ InRecvOf(syscall', r, id)
                    /\ mb' = recvmsg(x, id)
                    /\ mem' = kzmem_free(kzmem_alloc(m, i), x.head[id])
                    /\ held' = Deliver(h, x, id, r)
                    /\ Dispatch(put(q, r))
      PROVE  SchedInv' /\ IpcInv'
  <2>1. m.free[i] \in Block /\ kzmem_alloc(m, i) \in Pools
    BY <1>2, AllocPools DEF FirstFit, Fits
  <2>2. PICK x : x = sendmsg(mb, id, m.free[i], from, data)
    OBVIOUS
  <2>3. /\ mb \in Boxes /\ BoxEnds(mb) /\ WaitsEmpty(mb)
        /\ x \in Boxes /\ BoxEnds(x) /\ x.reciever = mb.reciever /\ x.head[id] \in Block
        /\ \A k \in MsgBox : k # id => x.head[k] = mb.head[k]
    BY <2>1, <2>2, SendmsgBoxes DEF IpcInv
  <2>4. current \in Thread /\ func \subseteq Thread
    BY DEF SchedInv
  <2>5. CASE /\ mb.reciever[id] = NULL /\ mb' = x /\ mem' = kzmem_alloc(m, i)
             /\ held' = h /\ Dispatch(q)
    <3>1. SchedInv'
      BY <2>4, <2>5, DispatchInv
    <3>2. WaitsEmpty(x)
      BY <2>3, <2>5 DEF WaitsEmpty
    <3> QED
      BY <2>1, <2>3, <2>5, <3>1, <3>2 DEF IpcInv
  <2>6. CASE /\ mb.reciever[id] # NULL /\ InRecvOf(syscall', mb.reciever[id], id)
             /\ mb' = recvmsg(x, id)
             /\ mem' = kzmem_free(kzmem_alloc(m, i), x.head[id])
             /\ held' = Deliver(h, x, id, mb.reciever[id])
             /\ Dispatch(put(q, mb.reciever[id]))
    <3>1. mb.reciever[id] \in func
      BY <2>6 DEF InRecvOf
    <3>2. /\ QInv(put(q, mb.reciever[id]))
          /\ \A t \in Thread : put(q, mb.reciever[id]).ready[t] => t \in func
      BY <2>4, <3>1, AlsoPut
    <3>3. SchedInv'
      BY <2>4, <2>6, <3>2, DispatchInv
    <3>4. PICK y : y = recvmsg(x, id)
      OBVIOUS
    <3>5. /\ y \in Boxes /\ BoxEnds(y)
          /\ y.reciever = [x.reciever EXCEPT ![id] = NULL]
          /\ \A k \in MsgBox : k # id => y.head[k] = x.head[k]
      BY <2>3, <3>4, RecvmsgBoxes
    <3>6. \A k \in MsgBox : y.reciever[k] = IF k = id THEN NULL ELSE mb.reciever[k]
      BY <2>3, <3>5 DEF Boxes
    <3>7. WaitsEmpty(y)
      BY <2>3, <3>5, <3>6 DEF WaitsEmpty
    <3>8. mem' \in Pools
      BY <2>1, <2>3, <2>6, FreePools
    <3>9. held' \in [Thread -> SUBSET Block]
      BY <2>6, DeliverTypes
    <3> QED
      BY <2>6, <3>3, <3>4, <3>5, <3>7, <3>8, <3>9 DEF IpcInv
  <2> QED
    BY <1>2, <2>2, <2>5, <2>6
<1> QED
  BY <1>1, <1>2 DEF Post

LEMMA SendStep ==
  ASSUME KernelInv, NEW id \in MsgBox, NEW data \in Block \cup {STATIC}, thread_send(id, data)
  PROVE  KernelInv'
<1> USE DEF KernelInv
<1>1. /\ mode = "run" /\ current \in Thread
      /\ syscall' \in [Thread -> [type : Blocking \cup {"OTHER"}, id : MsgBox \cup {NULL}]]
  BY SyscallTypes DEF thread_send
<1>2. func' = func /\ ccr' = ccr /\ stacks' = stacks /\ handlers' = handlers
  BY DEF thread_send, threadVars
<1>3. PICK h \in [Thread -> SUBSET Block] : h = [held EXCEPT ![current] = @ \ {data}]
  BY <1>1 DEF IpcInv
<1>4. Post(put(Removed, current), mem, h, current, id, data)
  BY <1>3 DEF thread_send
<1>5. mem \in Pools /\ current \in ThreadPtr
  BY <1>1 DEF IpcInv, ThreadPtr
<1>6. SchedInv' /\ IpcInv'
  BY <1>1, <1>2, <1>4, <1>5, CallerBack, PostInv
<1> QED
  BY <1>1, <1>2, <1>6 DEF RestOK

LEMMA RecvStep == ASSUME KernelInv, NEW id \in MsgBox, thread_recv(id) PROVE KernelInv'
<1> USE DEF KernelInv
<1>1. /\ mode = "run" /\ current \in Thread /\ func \subseteq Thread
      /\ syscall' \in [Thread -> [type : Blocking \cup {"OTHER"}, id : MsgBox \cup {NULL}]]
  BY SyscallTypes DEF thread_recv, SchedInv
<1>2. func' = func /\ ccr' = ccr /\ stacks' = stacks /\ handlers' = handlers
  BY DEF thread_recv, threadVars
<1>3. RestOK'
  BY <1>1, <1>2 DEF RestOK
<1>4. mb \in Boxes /\ BoxEnds(mb) /\ WaitsEmpty(mb) /\ mem \in Pools
  BY DEF IpcInv
<1>5. CASE Halt("down")
  BY <1>2, <1>3, <1>5, HaltInv
<1>6. CASE /\ mb.reciever[id] = NULL /\ wait_msg_of(id)
           /\ mb' = recvmsg(mb, id) /\ mem' = kzmem_free(mem, mb.head[id])
           /\ held' = Deliver(held, mb, id, current)
           /\ Dispatch(put(Removed, current))
  <2>1. mb.head[id] \in Block
    BY <1>4, <1>6 DEF wait_msg_of, Boxes
  <2>2. PICK y : y = recvmsg(mb, id)
    OBVIOUS
  <2>3. /\ y \in Boxes /\ BoxEnds(y)
        /\ y.reciever = [mb.reciever EXCEPT ![id] = NULL]
        /\ \A k \in MsgBox : k # id => y.head[k] = mb.head[k]
    BY <1>4, <2>1, <2>2, RecvmsgBoxes
  <2>4. \A k \in MsgBox : y.reciever[k] = IF k = id THEN NULL ELSE mb.reciever[k]
    BY <1>4, <2>3 DEF Boxes
  <2>5. WaitsEmpty(y)
    BY <1>4, <2>3, <2>4 DEF WaitsEmpty
  <2>6. mem' \in Pools /\ held' \in [Thread -> SUBSET Block]
    BY <1>4, <1>6, <2>1, FreePools, DeliverTypes DEF IpcInv
  <2>7. SchedInv'
    BY <1>1, <1>2, <1>6, CallerBack, DispatchInv
  <2> QED
    BY <1>3, <1>6, <2>2, <2>3, <2>5, <2>6, <2>7 DEF IpcInv
<1>7. CASE /\ mb.reciever[id] = NULL /\ ~wait_msg_of(id)
           /\ mb' = [mb EXCEPT !.reciever[id] = current]
           /\ Dispatch(Removed) /\ UNCHANGED <<mem, held>>
  <2>1. /\ mb' \in Boxes /\ mb'.head = mb.head /\ mb'.tail = mb.tail
        /\ mb'.reciever = [mb.reciever EXCEPT ![id] = current]
    BY <1>1, <1>4, <1>7 DEF Boxes, ThreadPtr
  <2>2. BoxEnds(mb')
    BY <1>4, <2>1 DEF BoxEnds
  <2>3. \A k \in MsgBox : k # id => mb'.reciever[k] = mb.reciever[k]
    BY <1>4, <2>1 DEF Boxes
  <2>4. WaitsEmpty(mb')
    BY <1>4, <1>7, <2>1, <2>3 DEF WaitsEmpty, wait_msg_of
  <2>5. QInv(Removed) /\ \A t \in Thread : Removed.ready[t] => t \in func
    BY <1>1, RemovedCaller DEF SchedInv
  <2>6. SchedInv'
    BY <1>1, <1>2, <1>7, <2>5, DispatchInv
  <2> QED
    BY <1>3, <1>7, <2>1, <2>2, <2>4, <2>6 DEF IpcInv
<1> QED
  BY <1>5, <1>6, <1>7 DEF thread_recv
-----------------------------------------------------------------------------
LEMMA SetCcrStep == ASSUME KernelInv, NEW masked \in BOOLEAN, SetCcr(masked) PROVE KernelInv'
<1> USE DEF KernelInv
<1>1. SchedInv' /\ IpcInv'
  BY DEF SetCcr, SchedInv, IpcInv, CallerIsHead, ipcVars
<1>2. RestOK'
  BY DEF SetCcr, RestOK
<1> QED
  BY <1>1, <1>2

(* The queues as the scheduler finds them after an interrupt. *)
LEMMA QueuesAtInterrupt ==
  ASSUME KernelInv, mode = "run"
  PROVE  /\ QInv(rq) /\ current \in Thread /\ func \subseteq Thread
         /\ \A t \in Thread : rq.ready[t] => t \in func
BY DEF KernelInv, SchedInv

LEMMA IntrStep == KernelInv /\ thread_intr => KernelInv'
<1> SUFFICES ASSUME KernelInv, thread_intr PROVE KernelInv'
  OBVIOUS
<1> USE DEF KernelInv
<1>1. /\ mode = "run" /\ current \in Thread /\ func \subseteq Thread /\ QInv(rq)
      /\ \A t \in Thread : rq.ready[t] => t \in func
  BY QueuesAtInterrupt DEF thread_intr
<1>2. /\ func' = func /\ ccr' = ccr /\ stacks' = stacks /\ handlers' = handlers
      /\ syscall' = syscall
  BY DEF thread_intr, threadVars
<1>3. RestOK'
  BY <1>2 DEF RestOK
<1>4. CASE Dispatch(rq) /\ UNCHANGED ipcVars
  <2>1. SchedInv'
    BY <1>1, <1>2, <1>4, DispatchInv
  <2> QED
    BY <1>3, <1>4, <2>1 DEF IpcInv, ipcVars
<1>5. ASSUME NEW u \in Wakeable, Dispatch(put(rq, u)), UNCHANGED ipcVars
      PROVE  KernelInv'
  <2>1. u \in func
    BY DEF Wakeable
  <2>2. /\ QInv(put(rq, u))
        /\ \A t \in Thread : put(rq, u).ready[t] => t \in func
    BY <1>1, <2>1, AlsoPut
  <2>3. SchedInv'
    BY <1>1, <1>2, <1>5, <2>2, DispatchInv
  <2> QED
    BY <1>3, <1>5, <2>3 DEF IpcInv, ipcVars
<1>6. CASE Halt("down")
  BY <1>2, <1>3, <1>6, HaltInv
<1>7. ASSUME NEW i \in Pool, NEW id \in MsgBox, FirstFit(mem, CONS_SIZE, i),
             Post(rq, kzmem_alloc(mem, i), held, NULL, id, mem.free[i])
      PROVE  KernelInv'
  <2>1. /\ mem.free[i] \in Block /\ kzmem_alloc(mem, i) \in Pools
        /\ held \in [Thread -> SUBSET Block] /\ NULL \in ThreadPtr
    BY <1>7, AllocPools DEF FirstFit, Fits, IpcInv, ThreadPtr
  <2>2. SchedInv' /\ IpcInv'
    BY <1>1, <1>2, <1>7, <2>1, PostInv
  <2> QED
    BY <1>3, <2>2
<1> QED
  BY <1>4, <1>5, <1>6, <1>7 DEF thread_intr

LEMMA StutterStep == KernelInv /\ UNCHANGED vars => KernelInv'
BY DEF vars, KernelInv, SchedInv, IpcInv, RestOK, CallerIsHead

LEMMA NextKernel == KernelInv /\ [Next]_vars => KernelInv'
<1> SUFFICES ASSUME KernelInv, [Next]_vars PROVE KernelInv'
  OBVIOUS
<1>1. CASE SystemCall
  BY <1>1, RunStep, ExitStep, WaitStep, SleepStep, WakeupStep, GetidStep, ChpriStep,
     KmallocStep, KmfreeStep, SendStep, RecvStep, SetintrStep DEF SystemCall
<1>2. CASE softerr_intr
  BY <1>2, SofterrStep
<1>3. CASE \E masked \in BOOLEAN : SetCcr(masked)
  BY <1>3, SetCcrStep
<1>4. CASE thread_intr
  BY <1>4, IntrStep
<1>5. CASE Spin \/ UNCHANGED vars
  BY <1>5, StutterStep DEF Spin
<1> QED
  BY <1>1, <1>2, <1>3, <1>4, <1>5 DEF Next
-----------------------------------------------------------------------------
(* Every kernel entry keeps the invariant. *)
THEOREM KernelInvariant == Spec => []KernelInv
BY InitKernel, NextKernel, PTL DEF Spec

(* The kernel's variables keep their types. *)
THEOREM KernelTypeCorrect == Spec => []TypeOK
BY KernelInvariant, KernelTypes, PTL

(* The thread that traps is the one the kernel takes off the queue: `current'
   always is the ready thread at the head of the most urgent nonempty queue. *)
THEOREM KernelCallerIsHead == Spec => []CallerIsHead
<1>1. KernelInv => CallerIsHead
  BY DEF KernelInv, SchedInv
<1> QED
  BY KernelInvariant, <1>1, PTL

(* No message lies in a box somebody waits at. *)
THEOREM KernelNoMessageWaits == Spec => []NoMessageWaits
<1>1. KernelInv => NoMessageWaits
  BY DEF KernelInv, IpcInv, WaitsEmpty, NoMessageWaits
<1> QED
  BY KernelInvariant, <1>1, PTL

(* After an interrupt, the scheduler picks the interrupted thread again or one
   of strictly higher priority. *)
LEMMA DispatchAtInterrupt ==
  ASSUME SchedInv, mode = "run", NEW q, QInv(q), q.priority = rq.priority,
         q.head[rq.priority[current]] = current, Dispatch(q)
  PROVE  \/ current' = current
         \/ mode' # "run"
         \/ rq'.priority[current'] < rq.priority[current]
<1>1. CASE NothingReady(q) /\ mode' = "down"
  BY <1>1
<1>2. CASE \E p \in Priority : TopQueue(q, p) /\ current' = q.head[p]
  <2>1. PICK p \in Priority : TopQueue(q, p) /\ current' = q.head[p]
    BY <1>2
  <2>2. PICK c \in Priority : c = rq.priority[current] /\ q.head[c] = current
    BY DEF SchedInv, QInv, ReadyQueues
  <2>3. current # NULL /\ p \in Int /\ c \in Int /\ c >= 0
    BY ReadyAssumption DEF SchedInv, Priority
  <2>4. ~(c < p)
    BY <2>1, <2>2, <2>3 DEF TopQueue
  <2>5. CASE p = c
    BY <2>1, <2>2, <2>5
  <2>6. CASE p < c
    <3>1. rq'.priority[current'] = p
      BY <2>1 DEF Dispatch, QInv, HeadOK, TopQueue
    <3> QED
      BY <2>2, <2>6, <3>1
  <2> QED
    BY <2>3, <2>4, <2>5, <2>6
<1> QED
  BY <1>1, <1>2 DEF Dispatch

LEMMA PutAtInterrupt ==
  ASSUME KernelInv, mode = "run", NEW u \in func
  PROVE  LET q == put(rq, u)
         IN  /\ QInv(q) /\ q.priority = rq.priority
             /\ q.head[rq.priority[current]] = current
<1>1. /\ QInv(rq) /\ u \in Thread /\ rq.priority[current] \in Priority
      /\ rq.head[rq.priority[current]] = current /\ current # NULL
  BY ReadyAssumption DEF KernelInv, SchedInv, CallerIsHead, QInv, ReadyQueues
<1>2. put(rq, u).priority = rq.priority
  BY <1>1, PutFields
<1> QED
  BY <1>1, <1>2, PutInv, PutHead

(* An interrupt takes the processor from the running thread only to give it to a
   more urgent one: thread_intr leaves the interrupted thread at the head of its
   queue, and what the handler wakes comes behind it. *)
THEOREM KernelPreemption == Spec => PreemptionOnlyByHigher
<1>1. ASSUME KernelInv, thread_intr
      PROVE  \/ current' = current
             \/ mode' # "run"
             \/ rq'.priority[current'] < rq.priority[current]
  <2>1. /\ mode = "run" /\ SchedInv /\ QInv(rq)
        /\ rq.head[rq.priority[current]] = current
    BY <1>1 DEF thread_intr, KernelInv, SchedInv, CallerIsHead
  <2>2. CASE Dispatch(rq)
    BY <2>1, <2>2, DispatchAtInterrupt
  <2>3. ASSUME NEW u \in func, Dispatch(put(rq, u))
        PROVE  \/ current' = current
               \/ mode' # "run"
               \/ rq'.priority[current'] < rq.priority[current]
    BY <1>1, <2>1, <2>3, PutAtInterrupt, DispatchAtInterrupt
  <2>4. CASE Halt("down") \/ Halt("wild")
    BY <2>4 DEF Halt
  <2>5. ASSUME NEW i \in Pool, NEW id \in MsgBox,
               Post(rq, kzmem_alloc(mem, i), held, NULL, id, mem.free[i])
        PROVE  \/ Dispatch(rq) \/ Halt("down") \/ Halt("wild")
               \/ \E u \in func : Dispatch(put(rq, u))
    BY <2>5 DEF Post, InRecvOf
  <2> QED
    BY <1>1, <2>2, <2>3, <2>4, <2>5 DEF thread_intr, Wakeable
<1>2. KernelInv => [thread_intr => \/ current' = current
                                  \/ mode' # "run"
                                  \/ rq'.priority[current'] < rq.priority[current]]_vars
  BY <1>1
<1> QED
  BY KernelInvariant, <1>2, PTL DEF PreemptionOnlyByHigher
=============================================================================
