-------------------------- MODULE KozosQueueProofs --------------------------
(***************************************************************************)
(* The ready queues as lists, for any number of threads, priorities and    *)
(* boxes: what get, put and clear do to the sequence of threads a queue    *)
(* stands for; that no thread is lost, blocked for no reason or woken by   *)
(* the wrong message; and that the kernel is the scheduler of              *)
(* FifoScheduler.                                                          *)
(*                                                                         *)
(* KozosProofs speaks of single pointers, and of any applications.  Whole  *)
(* queues last only as long as nobody wakes a thread that is not asleep:   *)
(* put then gets threads only that are not ready, as its author meant.     *)
(***************************************************************************)
EXTENDS KozosRefinement, KozosProofs

ReadyAt(q, p) == {t \in Thread : q.ready[t] /\ q.priority[t] = p}

(* Queue p is the list s: all ready threads of that priority, once each, and
   the tail is the last of them. *)
QueueIs(q, p, s) ==
  /\ s \in Seq(Thread)
  /\ IsList(q.next, q.head[p], s)
  /\ Nodes(s) = ReadyAt(q, p)
  /\ q.tail[p] = IF s = <<>> THEN NULL ELSE s[Len(s)]

Holds(q, Q) == \A p \in Priority : QueueIs(q, p, Q[p])

QueuesInv == Holds(rq, [p \in Priority |-> QueueSeq(p)])

(* WaiterIsBlocked and OnlyBlockingCallsBlock hold when the kernel is down, too. *)
WaitersInv ==
  \A id \in MsgBox : mb.reciever[id] # NULL =>
    InRecvOf(syscall, mb.reciever[id], id) /\ ~rq.ready[mb.reciever[id]]

IsBlocked(t) ==
  \/ syscall[t].type = "SLEEP"
  \/ /\ syscall[t].type = "RECV" /\ syscall[t].id \in MsgBox
     /\ mb.reciever[syscall[t].id] = t

BlockedInv == \A t \in func : ~rq.ready[t] => IsBlocked(t)
-----------------------------------------------------------------------------
LEMMA ThreadCard == IsFiniteSet(Thread) /\ Cardinality(Thread) = THREAD_NUM
<1>1. THREAD_NUM \in Nat /\ THREAD_NUM > 0 /\ THREAD_NUM - 1 \in Int
  BY ReadyAssumption
<1>2. /\ IsFiniteSet(0 .. THREAD_NUM - 1)
      /\ Cardinality(0 .. THREAD_NUM - 1) =
           IF 0 > THREAD_NUM - 1 THEN 0 ELSE THREAD_NUM - 1 - 0 + 1
  BY <1>1, FS_Interval
<1> QED
  BY <1>1, <1>2 DEF Thread

(* What is read from the pointers of a queue is the list. *)
LEMMA QueueRead ==
  ASSUME NEW q, NEW p, NEW s, QueueIs(q, p, s)
  PROVE  /\ ListSeq(q.next, q.head[p], THREAD_NUM) = s
         /\ ListNodes(q.next, q.head[p], THREAD_NUM) = Nodes(s)
         /\ IsAcyclic(q.next, q.head[p], THREAD_NUM)
<1>1. s \in Seq(Thread) /\ IsList(q.next, q.head[p], s)
  BY DEF QueueIs
<1>2. Len(s) <= THREAD_NUM /\ THREAD_NUM \in Nat /\ NULL \notin Thread
  BY <1>1, ThreadCard, ListFits, ReadyAssumption
<1> QED
  BY <1>1, <1>2, ListRead

LEMMA QueuesRead ==
  ASSUME NEW q, NEW Q \in [Priority -> Seq(Thread)], Holds(q, Q)
  PROVE  [p \in Priority |-> ListSeq(q.next, q.head[p], THREAD_NUM)] = Q
BY QueueRead DEF Holds

LEMMA QueuesAre ==
  ASSUME QueuesInv
  PROVE  \E Q \in [Priority -> Seq(Thread)] :
           Holds(rq, Q) /\ Q = [p \in Priority |-> QueueSeq(p)]
BY DEF QueuesInv, Holds, QueueIs

(* The first and the last thread of a queue. *)
LEMMA QueueEnds ==
  ASSUME NEW q, NEW p, NEW s, QueueIs(q, p, s)
  PROVE  /\ s = <<>> <=> q.head[p] = NULL
         /\ s # <<>> => /\ q.head[p] = Head(s) /\ q.head[p] = s[1] /\ q.head[p] \in Thread
                        /\ q.tail[p] = s[Len(s)] /\ Len(s) > 0
<1>1. /\ s \in Seq(Thread) /\ IsList(q.next, q.head[p], s) /\ NULL \notin Thread
      /\ s # <<>> => q.tail[p] = s[Len(s)]
  BY ReadyAssumption DEF QueueIs
<1>2. CASE s = <<>>
  BY <1>1, <1>2 DEF IsList
<1>3. CASE s # <<>>
  <2>1. Len(s) \in Nat /\ Len(s) > 0 /\ Head(s) = s[1] /\ s[1] \in Thread
    BY <1>1, <1>3
  <2>2. q.head[p] = s[1]
    BY <1>1, <2>1 DEF IsList
  <2> QED
    BY <1>1, <1>3, <2>1, <2>2
<1> QED
  BY <1>2, <1>3

LEMMA NoNodes ==
  ASSUME NEW next, NEW first, NEW s \in Seq(Thread), IsList(next, first, s)
  PROVE  first = NULL <=> s = <<>>
<1>1. Len(s) \in Nat /\ (s = <<>> <=> Len(s) = 0)
  OBVIOUS
<1>2. Len(s) # 0 => first = s[1] /\ s[1] # NULL
  BY <1>1 DEF IsList
<1> QED
  BY <1>1, <1>2 DEF IsList

(* Queue p is untouched if its threads and its ends are. *)
LEMMA QueueUntouched ==
  ASSUME NEW q, NEW r, NEW p, NEW s, QueueIs(q, p, s),
         r.head[p] = q.head[p], r.tail[p] = q.tail[p], ReadyAt(r, p) = ReadyAt(q, p),
         \A t \in Thread : q.ready[t] /\ q.priority[t] = p => r.next[t] = q.next[t]
  PROVE  QueueIs(r, p, s)
<1>1. \A t \in Nodes(s) : r.next[t] = q.next[t]
  BY DEF QueueIs, ReadyAt
<1>2. IsList(r.next, r.head[p], s)
  BY <1>1, ListUnchanged DEF QueueIs
<1> QED
  BY <1>2 DEF QueueIs
-----------------------------------------------------------------------------
(* get takes the first thread off its queue. *)
Shortened(Q, p, R) ==
  R[p] = Tail(Q[p]) /\ \A o \in Priority : o # p => R[o] = Q[o]

LEMMA GetQueues ==
  ASSUME NEW q, QInv(q), NEW Q \in [Priority -> Seq(Thread)], Holds(q, Q),
         NEW p \in Priority, q.head[p] # NULL, NEW r, r = get(q, p),
         NEW R \in [Priority -> Seq(Thread)], Shortened(Q, p, R)
  PROVE  Holds(r, R)
<1>1. PICK h \in Thread : h = q.head[p]
  BY GetFields
<1>2. /\ r \in ReadyQueues /\ r.head = [q.head EXCEPT ![p] = q.next[h]]
      /\ r.tail = [q.tail EXCEPT ![p] = IF q.next[h] = NULL THEN NULL ELSE q.tail[p]]
      /\ r.next = q.next
      /\ r.ready = [q.ready EXCEPT ![h] = FALSE]
      /\ r.priority = q.priority
  BY <1>1, GetFields, ZenonT(60)
<1>3. q \in ReadyQueues /\ q.priority[h] = p
  BY <1>1 DEF QInv, HeadOK
<1>4. /\ \A o \in Priority : /\ r.head[o] = IF o = p THEN q.next[h] ELSE q.head[o]
                             /\ r.tail[o] = IF o = p /\ q.next[h] = NULL THEN NULL ELSE q.tail[o]
      /\ \A t \in Thread : r.ready[t] <=> q.ready[t] /\ t # h
  BY <1>1, <1>2, <1>3 DEF ReadyQueues
<1>5. PICK s \in Seq(Thread) : s = Q[p]
  OBVIOUS
<1>6. /\ QueueIs(q, p, s) /\ IsList(q.next, h, s) /\ Nodes(s) = ReadyAt(q, p)
      /\ s # <<>> /\ q.tail[p] = s[Len(s)]
  BY <1>1, <1>5, QueueEnds DEF Holds, QueueIs
<1>7. /\ h = Head(s) /\ IsList(q.next, q.next[h], Tail(s)) /\ Tail(s) \in Seq(Thread)
      /\ Nodes(Tail(s)) = Nodes(s) \ {h}
  BY <1>1, <1>6, ListTail, ReadyAssumption
<1>8. r.tail[p] = IF Tail(s) = <<>> THEN NULL ELSE Tail(s)[Len(Tail(s))]
  <2>1. /\ Len(s) \in Nat /\ Len(s) > 0 /\ Len(Tail(s)) = Len(s) - 1 /\ s[1] = h
        /\ \A i \in 1 .. Len(s) - 1 : Tail(s)[i] = s[i + 1]
    BY <1>6, <1>7
  <2>2. q.next[h] = NULL <=> Tail(s) = <<>>
    BY <1>7, NoNodes
  <2>3. CASE Tail(s) = <<>>
    BY <1>4, <2>2, <2>3
  <2>4. CASE Tail(s) # <<>>
    <3>1. Len(s) - 1 \in 1 .. Len(s) - 1 /\ Len(s) - 1 + 1 = Len(s)
      BY <1>7, <2>1, <2>4
    <3>2. Tail(s)[Len(s) - 1] = s[Len(s)]
      BY <2>1, <3>1
    <3> QED
      BY <1>4, <1>6, <2>1, <2>2, <2>4, <3>2
  <2> QED
    BY <2>3, <2>4
<1>9. ReadyAt(r, p) = ReadyAt(q, p) \ {h}
  BY <1>2, <1>4 DEF ReadyAt
<1>10. QueueIs(r, p, Tail(s))
  BY <1>2, <1>4, <1>6, <1>7, <1>8, <1>9 DEF QueueIs
<1>11. ASSUME NEW o \in Priority, o # p PROVE QueueIs(r, o, Q[o])
  <2>1. ReadyAt(r, o) = ReadyAt(q, o)
    BY <1>2, <1>3, <1>4, <1>11 DEF ReadyAt
  <2> QED
    BY <1>2, <1>4, <1>11, <2>1, QueueUntouched DEF Holds
<1> QED
  BY <1>5, <1>10, <1>11 DEF Holds, Shortened

(* put appends a thread that is not ready. *)
LEMMA PutQueues ==
  ASSUME NEW q, QInv(q), NEW Q \in [Priority -> Seq(Thread)], Holds(q, Q),
         NEW t \in Thread, ~q.ready[t], NEW p, p = q.priority[t], NEW r, r = put(q, t)
  PROVE  /\ p \in Priority
         /\ [Q EXCEPT ![p] = Append(@, t)] \in [Priority -> Seq(Thread)]
         /\ Holds(r, [Q EXCEPT ![p] = Append(@, t)])
<1>1. /\ p \in Priority /\ r \in ReadyQueues /\ r.priority = q.priority
      /\ \A u \in Thread : r.ready[u] <=> u = t \/ q.ready[u]
      /\ \A o \in Priority :
           /\ r.tail[o] = IF o = p THEN t ELSE q.tail[o]
           /\ r.head[o] = IF o = p /\ ~q.ready[t] /\ q.head[p] = NULL THEN t ELSE q.head[o]
      /\ \A u \in Thread : r.next[u] =
           IF u = t THEN NULL
           ELSE IF ~q.ready[t] /\ q.head[p] # NULL /\ u = q.tail[p] THEN t
           ELSE q.next[u]
  BY PutPointers
<1>2. q \in ReadyQueues /\ t # NULL
  BY ReadyAssumption DEF QInv
<1>3. /\ \A o \in Priority : /\ r.head[o] = IF o = p /\ q.head[p] = NULL THEN t ELSE q.head[o]
                             /\ r.tail[o] = IF o = p THEN t ELSE q.tail[o]
      /\ \A u \in Thread : r.next[u] =
           IF u = t THEN NULL
           ELSE IF q.head[p] # NULL /\ u = q.tail[p] THEN t ELSE q.next[u]
  BY <1>1
<1>4. PICK s \in Seq(Thread) : s = Q[p]
  BY <1>1
<1>5. /\ QueueIs(q, p, s) /\ IsList(q.next, q.head[p], s) /\ Nodes(s) = ReadyAt(q, p)
      /\ s = <<>> <=> q.head[p] = NULL
      /\ s # <<>> => q.tail[p] = s[Len(s)]
  BY <1>1, <1>4, QueueEnds DEF Holds, QueueIs
<1>6. t \notin Nodes(s)
  BY <1>5 DEF ReadyAt
<1>7. Len(s) \in Nat /\ (s = <<>> <=> Len(s) = 0) /\ (\A i \in 1 .. Len(s) : s[i] \in Thread)
  OBVIOUS
<1>8. /\ Len(s) > 0 => r.next[s[Len(s)]] = t
      /\ \A i \in 1 .. Len(s) : i # Len(s) => r.next[s[i]] = q.next[s[i]]
  <2>1. \A i \in 1 .. Len(s) : s[i] # t
    BY <1>6 DEF Nodes
  <2>2. \A i, j \in 1 .. Len(s) : s[i] = s[j] => i = j
    BY <1>5 DEF IsList
  <2>3. Len(s) > 0 => Len(s) \in 1 .. Len(s)
    BY <1>7
  <2>4. Len(s) > 0 => r.next[s[Len(s)]] = t
    BY <1>3, <1>5, <1>7, <2>1, <2>3
  <2>5. ASSUME NEW i \in 1 .. Len(s), i # Len(s) PROVE r.next[s[i]] = q.next[s[i]]
    <3>1. s # <<>> /\ s[i] # q.tail[p] /\ s[i] # t /\ s[i] \in Thread
      BY <1>5, <1>7, <2>1, <2>2, <2>3, <2>5
    <3> QED
      BY <1>3, <3>1
  <2> QED
    BY <2>4, <2>5
<1>9. PICK a : a = Append(s, t)
  OBVIOUS
<1>10. /\ IsList(r.next, IF Len(s) = 0 THEN t ELSE q.head[p], a)
       /\ a \in Seq(Thread) /\ Nodes(a) = Nodes(s) \cup {t}
  <2>1. PICK next, new, first : next = q.next /\ new = r.next /\ first = q.head[p]
    OBVIOUS
  <2>2. PICK h : h = IF Len(s) = 0 THEN t ELSE first
    OBVIOUS
  <2>3. new[t] = NULL /\ IsList(next, first, s)
    BY <1>3, <1>5, <2>1
  <2>4. PutsLast(next, new, s, t)
    BY <1>8, <2>1, <2>3 DEF PutsLast
  <2>5. /\ IsList(new, h, Append(s, t)) /\ Append(s, t) \in Seq(Thread)
        /\ Nodes(Append(s, t)) = Nodes(s) \cup {t}
    BY <1>2, <1>6, <2>2, <2>3, <2>4, ListAppend
  <2> QED
    BY <1>9, <2>1, <2>2, <2>5
<1>11. a # <<>> /\ a[Len(a)] = t
  BY <1>9, AppendProperties
<1>12. ReadyAt(r, p) = ReadyAt(q, p) \cup {t}
  BY <1>1, <1>3 DEF ReadyAt
<1>13. r.head[p] = (IF Len(s) = 0 THEN t ELSE q.head[p]) /\ r.tail[p] = t
  BY <1>1, <1>3, <1>5, <1>7
<1>14. QueueIs(r, p, a)
  BY <1>5, <1>10, <1>11, <1>12, <1>13 DEF QueueIs
<1>15. ASSUME NEW o \in Priority, o # p PROVE QueueIs(r, o, Q[o])
  <2>1. ReadyAt(r, o) = ReadyAt(q, o)
    BY <1>1, <1>3, <1>15 DEF ReadyAt
  <2>2. q.head[p] # NULL => q.tail[p] # NULL /\ q.priority[q.tail[p]] = p
    BY <1>1 DEF QInv, HeadOK, TailOK
  <2>3. \A u \in Thread : q.ready[u] /\ q.priority[u] = o => r.next[u] = q.next[u]
    BY <1>3, <1>15, <2>2
  <2> QED
    BY <1>3, <1>15, <2>1, <2>3, QueueUntouched DEF Holds
<1>16. [Q EXCEPT ![p] = Append(@, t)] \in [Priority -> Seq(Thread)]
  BY <1>1, <1>4, <1>9, <1>10
<1>17. Holds(r, [Q EXCEPT ![p] = Append(@, t)])
  BY <1>4, <1>9, <1>14, <1>15 DEF Holds
<1> QED
  BY <1>1, <1>16, <1>17

(* Control blocks of threads that are not ready may be cleared, or given another
   priority: nothing happens to the queues. *)
SameReady(q, r) ==
  /\ r.head = q.head /\ r.tail = q.tail /\ r.ready = q.ready
  /\ \A t \in Thread : q.ready[t] => r.next[t] = q.next[t] /\ r.priority[t] = q.priority[t]

LEMMA SameQueues ==
  ASSUME NEW q, NEW Q, Holds(q, Q), NEW r, SameReady(q, r)
  PROVE  Holds(r, Q)
<1> SUFFICES ASSUME NEW p \in Priority PROVE QueueIs(r, p, Q[p])
  BY DEF Holds
<1>1. ReadyAt(r, p) = ReadyAt(q, p)
  BY DEF ReadyAt, SameReady
<1> QED
  BY <1>1, QueueUntouched DEF Holds, SameReady

LEMMA ClearSame ==
  ASSUME NEW q, QInv(q), NEW ts \in SUBSET Thread, \A t \in ts : ~q.ready[t]
  PROVE  QInv(clear(q, ts)) /\ SameReady(q, clear(q, ts))
<1>1. QInv(clear(q, ts)) /\ clear(q, ts).ready = q.ready
  BY ClearInv
<1>2. PICK r : r = clear(q, ts)
  OBVIOUS
<1>3. /\ r.head = q.head /\ r.tail = q.tail
      /\ \A t \in Thread \ ts : r.next[t] = q.next[t] /\ r.priority[t] = q.priority[t]
  BY <1>2 DEF clear, QInv, ReadyQueues
<1> QED
  BY <1>1, <1>2, <1>3 DEF SameReady

LEMMA PrioritySame ==
  ASSUME NEW q, QInv(q), NEW t \in Thread, ~q.ready[t], NEW p \in Priority
  PROVE  /\ QInv([q EXCEPT !.priority[t] = p])
         /\ SameReady(q, [q EXCEPT !.priority[t] = p])
<1>1. PICK r : r = [q EXCEPT !.priority[t] = p]
  OBVIOUS
<1>2. /\ r.head = q.head /\ r.tail = q.tail /\ r.ready = q.ready /\ r.next = q.next
      /\ r.priority = [q.priority EXCEPT ![t] = p]
  BY <1>1 DEF QInv, ReadyQueues
<1>3. \A u \in Thread : q.ready[u] => r.priority[u] = q.priority[u]
  BY <1>2 DEF QInv, ReadyQueues
<1>4. SameReady(q, r)
  BY <1>2, <1>3 DEF SameReady
<1> QED
  BY <1>1, <1>4, PriorityInv
-----------------------------------------------------------------------------
(* schedule() picks what the abstract scheduler picks. *)
LEMMA DispatchQueues ==
  ASSUME NEW q, NEW Q \in [Priority -> Seq(Thread)], Holds(q, Q), Dispatch(q), mode = "run"
  PROVE  QueuesInv' /\ Scheduler!Resume(Q)
<1>1. rq' = q
  BY DEF Dispatch
<1>2. [p \in Priority |-> ListSeq(q.next, q.head[p], THREAD_NUM)] = Q
  BY QueuesRead
<1>3. [p \in Priority |-> QueueSeq(p)]' = Q
  BY <1>1, <1>2 DEF QueueSeq
<1>4. QueuesInv'
  BY <1>1, <1>3 DEF QueuesInv
<1>5. \A p \in Priority : /\ Q[p] = <<>> <=> q.head[p] = NULL
                          /\ Q[p] # <<>> => q.head[p] = Head(Q[p])
  BY QueueEnds DEF Holds
<1>6. CASE NothingReady(q) /\ mode' = "down" /\ UNCHANGED current
  BY <1>3, <1>4, <1>5, <1>6 DEF NothingReady, Scheduler!Resume
<1>7. CASE \E p \in Priority : TopQueue(q, p) /\ current' = q.head[p] /\ UNCHANGED mode
  <2>1. PICK p \in Priority : TopQueue(q, p) /\ current' = q.head[p] /\ mode' = mode
    BY <1>7
  <2>2. Q[p] # <<>> /\ current' = Head(Q[p])
    BY <1>5, <2>1 DEF TopQueue
  <2>3. \A h \in Priority : h < p => Q[h] = <<>>
    BY <1>5, <2>1, ReadyAssumption DEF TopQueue, Priority
  <2> QED
    BY <1>3, <1>4, <2>1, <2>2, <2>3 DEF Scheduler!Resume
<1> QED
  BY <1>6, <1>7 DEF Dispatch

(* A thread that is not ready is in no queue. *)
LEMMA NotQueued ==
  ASSUME NEW q, NEW Q, Holds(q, Q), NEW t \in Thread, ~q.ready[t]
  PROVE  t \in Thread \ Scheduler!Queued(Q)
<1>1. ASSUME NEW p \in Priority, NEW i \in 1 .. Len(Q[p]) PROVE Q[p][i] # t
  <2>1. Q[p][i] \in ReadyAt(q, p)
    BY DEF Holds, QueueIs, Nodes
  <2> QED
    BY <2>1 DEF ReadyAt
<1> QED
  BY <1>1 DEF Scheduler!Queued

(* The queues of a caller, and what is left of them without it. *)
LEMMA CallerQueues ==
  ASSUME KernelInv, QueuesInv, mode = "run"
  PROVE  \E Q, R \in [Priority -> Seq(Thread)], c \in Priority :
           /\ Q = [p \in Priority |-> QueueSeq(p)]
           /\ Q[c] # <<>> /\ Head(Q[c]) = current
           /\ R = [Q EXCEPT ![c] = Tail(@)] /\ Holds(Removed, R)
<1>1. PICK Q \in [Priority -> Seq(Thread)] : Holds(rq, Q) /\ Q = [p \in Priority |-> QueueSeq(p)]
  BY QueuesAre
<1>2. PICK c \in Priority : c = rq.priority[current] /\ rq.head[c] = current
  BY DEF KernelInv, SchedInv, CallerIsHead, QInv, ReadyQueues
<1>3. QInv(rq) /\ current # NULL
  BY ReadyAssumption DEF KernelInv, SchedInv
<1>4. PICK q, r : q = rq /\ r = get(q, c)
  OBVIOUS
<1>5. QInv(q) /\ Holds(q, Q) /\ q.head[c] = current /\ q.head[c] # NULL
  BY <1>1, <1>2, <1>3, <1>4
<1>6. Q[c] \in Seq(Thread) /\ Q[c] # <<>> /\ Head(Q[c]) = current
  BY <1>5, QueueEnds DEF Holds
<1>7. PICK R \in [Priority -> Seq(Thread)] : R = [Q EXCEPT ![c] = Tail(@)]
  <2>1. Tail(Q[c]) \in Seq(Thread)
    BY <1>6
  <2> QED
    BY <2>1
<1>8. Shortened(Q, c, R)
  BY <1>7 DEF Shortened
<1>9. Holds(r, R)
  BY <1>4, <1>5, <1>8, GetQueues
<1>10. r = Removed
  BY <1>2, <1>4 DEF Removed
<1> QED
  BY <1>1, <1>6, <1>7, <1>9, <1>10

(* What a call does to the queues, and an interrupt: q are the queues without
   the caller. *)
Without(q) == QInv(q) /\ SameReady(Removed, q)

Away            == \E q : Without(q) /\ Dispatch(q)
Back            == \E q : Without(q) /\ Dispatch(put(q, current))
BackAndWakes(t) == \E q : Without(q) /\ Dispatch(put(put(q, current), t))
Stays           == Dispatch(rq)
StaysAndWakes(t) == Dispatch(put(rq, t))
Stops           == \E how \in {"down", "wild"} : Halt(how)

LEMMA AwayQueues ==
  ASSUME KernelInv, QueuesInv, mode = "run", Away PROVE QueuesInv' /\ Scheduler!Next
<1>1. PICK Q, R \in [Priority -> Seq(Thread)], c \in Priority :
        /\ Q = [p \in Priority |-> QueueSeq(p)]
        /\ Q[c] # <<>> /\ Head(Q[c]) = current
        /\ R = [Q EXCEPT ![c] = Tail(@)] /\ Holds(Removed, R)
  BY CallerQueues
<1>2. PICK q : Without(q) /\ Dispatch(q)
  BY DEF Away
<1>3. Holds(q, R)
  BY <1>1, <1>2, SameQueues DEF Without
<1>4. QueuesInv' /\ Scheduler!Resume(R)
  BY <1>2, <1>3, DispatchQueues
<1> QED
  BY <1>1, <1>4 DEF Scheduler!Next, Scheduler!Call

LEMMA BackQueues ==
  ASSUME KernelInv, QueuesInv, mode = "run", Back PROVE QueuesInv' /\ Scheduler!Next
<1>1. PICK Q, R \in [Priority -> Seq(Thread)], c \in Priority :
        /\ Q = [p \in Priority |-> QueueSeq(p)]
        /\ Q[c] # <<>> /\ Head(Q[c]) = current
        /\ R = [Q EXCEPT ![c] = Tail(@)] /\ Holds(Removed, R)
  BY CallerQueues
<1>2. PICK q : Without(q) /\ Dispatch(put(q, current))
  BY DEF Back
<1>3. Holds(q, R) /\ QInv(q) /\ ~q.ready[current] /\ current \in Thread
  BY <1>1, <1>2, SameQueues, RemovedCaller DEF Without, SameReady, KernelInv, SchedInv
<1>4. PICK o, r : o = q.priority[current] /\ r = put(q, current)
  OBVIOUS
<1>5. /\ o \in Priority /\ [R EXCEPT ![o] = Append(@, current)] \in [Priority -> Seq(Thread)]
      /\ Holds(r, [R EXCEPT ![o] = Append(@, current)])
  BY <1>3, <1>4, PutQueues
<1>6. QueuesInv' /\ Scheduler!Resume(Scheduler!Append1(R, current, o))
  BY <1>2, <1>4, <1>5, DispatchQueues DEF Scheduler!Append1
<1> QED
  BY <1>1, <1>5, <1>6 DEF Scheduler!Next, Scheduler!Call, Scheduler!ResumeOrWake

LEMMA BackAndWakesQueues ==
  ASSUME KernelInv, QueuesInv, mode = "run", NEW t \in Thread, ~rq.ready[t], BackAndWakes(t)
  PROVE  QueuesInv' /\ Scheduler!Next
<1>1. PICK Q, R \in [Priority -> Seq(Thread)], c \in Priority :
        /\ Q = [p \in Priority |-> QueueSeq(p)]
        /\ Q[c] # <<>> /\ Head(Q[c]) = current
        /\ R = [Q EXCEPT ![c] = Tail(@)] /\ Holds(Removed, R)
  BY CallerQueues
<1>2. PICK q : Without(q) /\ Dispatch(put(put(q, current), t))
  BY DEF BackAndWakes
<1>3. /\ Holds(q, R) /\ QInv(q) /\ ~q.ready[current] /\ ~q.ready[t]
      /\ current \in Thread /\ t # current
  BY <1>1, <1>2, SameQueues, RemovedCaller DEF Without, SameReady, KernelInv, SchedInv, CallerIsHead
<1>4. PICK o, r : o = q.priority[current] /\ r = put(q, current)
  OBVIOUS
<1>5. PICK B : B = [R EXCEPT ![o] = Append(@, current)]
  OBVIOUS
<1>6. o \in Priority /\ B \in [Priority -> Seq(Thread)] /\ Holds(r, B)
  BY <1>3, <1>4, <1>5, PutQueues
<1>7. QInv(r) /\ ~r.ready[t]
  BY <1>3, <1>4, PutReady
<1>8. PICK p, z : p = r.priority[t] /\ z = put(r, t)
  OBVIOUS
<1>9. /\ p \in Priority /\ [B EXCEPT ![p] = Append(@, t)] \in [Priority -> Seq(Thread)]
      /\ Holds(z, [B EXCEPT ![p] = Append(@, t)])
  BY <1>6, <1>7, <1>8, PutQueues
<1>10. QueuesInv' /\ Scheduler!Resume(Scheduler!Append1(B, t, p))
  BY <1>2, <1>4, <1>8, <1>9, DispatchQueues DEF Scheduler!Append1
<1>11. t \in Thread \ Scheduler!Queued(B)
  BY <1>6, <1>7, NotQueued
<1>12. Scheduler!ResumeOrWake(B) /\ B = Scheduler!Append1(R, current, o)
  BY <1>5, <1>9, <1>10, <1>11 DEF Scheduler!ResumeOrWake, Scheduler!Append1
<1> QED
  BY <1>1, <1>6, <1>10, <1>12 DEF Scheduler!Next, Scheduler!Call

LEMMA StaysQueues ==
  ASSUME QueuesInv, mode = "run", Stays PROVE QueuesInv' /\ Scheduler!Next
<1>1. PICK Q \in [Priority -> Seq(Thread)] : Holds(rq, Q) /\ Q = [p \in Priority |-> QueueSeq(p)]
  BY QueuesAre
<1>2. QueuesInv' /\ Scheduler!Resume(Q)
  BY <1>1, DispatchQueues DEF Stays
<1> QED
  BY <1>1, <1>2 DEF Scheduler!Next, Scheduler!Interrupt, Scheduler!ResumeOrWake

LEMMA StaysAndWakesQueues ==
  ASSUME KernelInv, QueuesInv, mode = "run", NEW t \in Thread, ~rq.ready[t], StaysAndWakes(t)
  PROVE  QueuesInv' /\ Scheduler!Next
<1>1. PICK Q \in [Priority -> Seq(Thread)] : Holds(rq, Q) /\ Q = [p \in Priority |-> QueueSeq(p)]
  BY QueuesAre
<1>2. PICK q, p, r : q = rq /\ p = q.priority[t] /\ r = put(q, t)
  OBVIOUS
<1>3. QInv(q) /\ Holds(q, Q) /\ ~q.ready[t]
  BY <1>1, <1>2 DEF KernelInv, SchedInv
<1>4. /\ p \in Priority /\ [Q EXCEPT ![p] = Append(@, t)] \in [Priority -> Seq(Thread)]
      /\ Holds(r, [Q EXCEPT ![p] = Append(@, t)])
  BY <1>2, <1>3, PutQueues
<1>5. QueuesInv' /\ Scheduler!Resume(Scheduler!Append1(Q, t, p))
  BY <1>2, <1>4, DispatchQueues DEF Scheduler!Append1, StaysAndWakes
<1>6. t \in Thread \ Scheduler!Queued(Q)
  BY <1>3, NotQueued
<1> QED
  BY <1>1, <1>4, <1>5, <1>6 DEF Scheduler!Next, Scheduler!Interrupt, Scheduler!ResumeOrWake

LEMMA StopsQueues ==
  ASSUME QueuesInv, mode = "run", Stops PROVE QueuesInv' /\ Scheduler!Next
<1>1. rq' = rq /\ current' = current /\ mode' # "run"
  BY DEF Stops, Halt
<1>2. [p \in Priority |-> QueueSeq(p)]' = [p \in Priority |-> QueueSeq(p)]
  BY <1>1 DEF QueueSeq
<1>3. QueuesInv'
  BY <1>1, <1>2 DEF QueuesInv
<1> QED
  BY <1>1, <1>2, <1>3 DEF Scheduler!Next, Scheduler!Stop
-----------------------------------------------------------------------------
(* Which calls do what. *)
LEMMA NobodyYet ==
  ASSUME KernelInv, mode = "run" PROVE Without(Removed)
BY RemovedCaller DEF Without, SameReady, KernelInv

LEMMA CallsBack ==
  ASSUME KernelInv, mode = "run", Dispatch(put(Removed, current)) PROVE Back
BY NobodyYet DEF Back

LEMMA RunOutcome ==
  ASSUME KernelInv, NEW p \in RunPriorities, thread_run(p)
  PROVE  \/ Stops /\ func' = func
         \/ \E t \in Thread \ func : BackAndWakes(t) /\ func' = func \cup {t}
<1>1. mode = "run" /\ current \in Thread /\ QInv(Removed)
  BY RemovedCaller DEF thread_run, Syscall, KernelInv, SchedInv
<1>2. \A u \in Thread : Removed.ready[u] => u \in func
  BY <1>1, RemovedCaller DEF KernelInv, SchedInv
<1>3. ASSUME NEW t \in Thread \ func, func' = func \cup {t},
             LET fresh == [clear(Removed, Thread \ func) EXCEPT !.priority[t] = p]
             IN  Dispatch(put(put(fresh, current), t))
      PROVE  BackAndWakes(t)
  <2>1. PICK c : c = clear(Removed, Thread \ func)
    OBVIOUS
  <2>2. QInv(c) /\ SameReady(Removed, c)
    BY <1>1, <1>2, <2>1, ClearSame
  <2>3. p \in Priority /\ ~c.ready[t]
    BY <1>2, <2>2, KozosAssumption DEF SameReady
  <2>4. PICK f : f = [c EXCEPT !.priority[t] = p]
    OBVIOUS
  <2>5. QInv(f) /\ SameReady(c, f)
    BY <2>2, <2>3, <2>4, PrioritySame
  <2>6. SameReady(Removed, f)
    BY <2>2, <2>5 DEF SameReady
  <2> QED
    BY <1>3, <2>1, <2>4, <2>5, <2>6 DEF BackAndWakes, Without
<1> QED
  BY <1>3 DEF thread_run, Stops, threadVars

LEMMA TerminateOutcome ==
  ASSUME KernelInv, mode = "run", Terminate PROVE Away
<1>1. current \in Thread /\ QInv(Removed) /\ ~Removed.ready[current]
  BY RemovedCaller DEF KernelInv, SchedInv
<1>2. PICK c : c = clear(Removed, {current})
  OBVIOUS
<1>3. QInv(c) /\ SameReady(Removed, c)
  BY <1>1, <1>2, ClearSame
<1> QED
  BY <1>2, <1>3 DEF Terminate, Away, Without

LEMMA ChpriOutcome ==
  ASSUME KernelInv, NEW p \in NewPriorities, thread_chpri(p) PROVE Back
<1>1. mode = "run" /\ current \in Thread /\ QInv(Removed) /\ ~Removed.ready[current]
  BY RemovedCaller DEF thread_chpri, Syscall, KernelInv, SchedInv
<1>2. CASE p \in Priority
  <2>1. PICK c : c = [Removed EXCEPT !.priority[current] = p]
    OBVIOUS
  <2>2. QInv(c) /\ SameReady(Removed, c)
    BY <1>1, <1>2, <2>1, PrioritySame
  <2> QED
    BY <1>2, <2>1, <2>2 DEF thread_chpri, Back, Without
<1>3. CASE p \notin Priority
  BY <1>1, <1>3, CallsBack DEF thread_chpri
<1> QED
  BY <1>2, <1>3

(* Sending leaves the queues alone, wakes the receiver, or is the end. *)
LEMMA PostOutcome ==
  ASSUME IpcInv, NEW q, NEW m \in Pools, NEW h, NEW from \in ThreadPtr,
         NEW id \in MsgBox, NEW data \in Block \cup {STATIC}, Post(q, m, h, from, id, data)
  PROVE  \/ Stops /\ mb' = mb
         \/ Dispatch(q) /\ mb.reciever[id] = NULL /\ mb'.reciever = mb.reciever
         \/ /\ Dispatch(put(q, mb.reciever[id])) /\ InRecvOf(syscall', mb.reciever[id], id)
            /\ mb.reciever[id] # NULL
            /\ \A k \in MsgBox : mb'.reciever[k] = IF k = id THEN NULL ELSE mb.reciever[k]
<1>1. CASE Halt("down") \/ Halt("wild")
  BY <1>1 DEF Stops, Halt, ipcVars
<1>2. ASSUME NEW i \in Pool, FirstFit(m, MSGBUF_SIZE, i),
             NEW x, x = sendmsg(mb, id, m.free[i], from, data)
      PROVE  /\ x \in Boxes /\ BoxEnds(x) /\ x.reciever = mb.reciever /\ x.head[id] \in Block
  <2>1. m.free[i] \in Block /\ mb \in Boxes /\ BoxEnds(mb)
    BY <1>2 DEF FirstFit, Fits, IpcInv, Pools
  <2> QED
    BY <1>2, <2>1, SendmsgBoxes
<1>3. ASSUME NEW x \in Boxes, BoxEnds(x), x.reciever = mb.reciever, x.head[id] \in Block,
             NEW y, y = recvmsg(x, id)
      PROVE  \A k \in MsgBox : y.reciever[k] = IF k = id THEN NULL ELSE mb.reciever[k]
  <2>1. y.reciever = [x.reciever EXCEPT ![id] = NULL]
    BY <1>3, RecvmsgBoxes
  <2> QED
    BY <1>3, <2>1 DEF Boxes
<1> QED
  BY <1>1, <1>2, <1>3 DEF Post

(* Sending, from a call and from the handler, as the scheduler sees it. *)
LEMMA SendOutcome ==
  ASSUME KernelInv, NEW id \in MsgBox, NEW data \in Block \cup {STATIC}, thread_send(id, data)
  PROVE  \/ Stops /\ mb' = mb
         \/ Back /\ mb'.reciever = mb.reciever
         \/ /\ BackAndWakes(mb.reciever[id]) /\ InRecvOf(syscall', mb.reciever[id], id)
            /\ mb.reciever[id] # NULL
            /\ \A k \in MsgBox : mb'.reciever[k] = IF k = id THEN NULL ELSE mb.reciever[k]
<1>1. /\ mode = "run" /\ current \in ThreadPtr /\ IpcInv /\ mem \in Pools
      /\ Post(put(Removed, current), mem, [held EXCEPT ![current] = @ \ {data}],
              current, id, data)
  BY DEF thread_send, Syscall, KernelInv, SchedInv, IpcInv, ThreadPtr
<1>2. PICK h : h = [held EXCEPT ![current] = @ \ {data}]
  OBVIOUS
<1>3. Post(put(Removed, current), mem, h, current, id, data)
  BY <1>1, <1>2
<1>4. \/ Stops /\ mb' = mb
      \/ /\ Dispatch(put(Removed, current)) /\ mb.reciever[id] = NULL
         /\ mb'.reciever = mb.reciever
      \/ /\ Dispatch(put(put(Removed, current), mb.reciever[id]))
         /\ InRecvOf(syscall', mb.reciever[id], id)
         /\ mb.reciever[id] # NULL
         /\ \A k \in MsgBox : mb'.reciever[k] = IF k = id THEN NULL ELSE mb.reciever[k]
  BY <1>1, <1>3, PostOutcome, SMTT(30)
<1> QED
  BY <1>1, <1>4, NobodyYet DEF Back, BackAndWakes

LEMMA IntrOutcome ==
  ASSUME KernelInv, thread_intr
  PROVE  \/ Stops /\ mb' = mb
         \/ Stays /\ mb'.reciever = mb.reciever
         \/ \E t \in Wakeable : StaysAndWakes(t) /\ mb' = mb
         \/ \E id \in MsgBox :
              /\ StaysAndWakes(mb.reciever[id]) /\ InRecvOf(syscall', mb.reciever[id], id)
              /\ mb.reciever[id] # NULL
              /\ \A k \in MsgBox : mb'.reciever[k] = IF k = id THEN NULL ELSE mb.reciever[k]
<1>1. CASE UNCHANGED ipcVars /\ (Dispatch(rq) \/ \E t \in Wakeable : Dispatch(put(rq, t)))
  BY <1>1 DEF ipcVars, Stays, StaysAndWakes
<1>2. CASE Halt("down")
  BY <1>2 DEF Stops, Halt, ipcVars
<1>3. ASSUME NEW i \in Pool, NEW id \in MsgBox, FirstFit(mem, CONS_SIZE, i),
             Post(rq, kzmem_alloc(mem, i), held, NULL, id, mem.free[i])
      PROVE  \/ Stops /\ mb' = mb
             \/ Dispatch(rq) /\ mb.reciever[id] = NULL /\ mb'.reciever = mb.reciever
             \/ /\ Dispatch(put(rq, mb.reciever[id])) /\ InRecvOf(syscall', mb.reciever[id], id)
                /\ mb.reciever[id] # NULL
                /\ \A k \in MsgBox : mb'.reciever[k] = IF k = id THEN NULL ELSE mb.reciever[k]
  <2>1. /\ mem.free[i] \in Block \cup {STATIC} /\ kzmem_alloc(mem, i) \in Pools
        /\ IpcInv /\ NULL \in ThreadPtr
    BY <1>3, AllocPools DEF FirstFit, Fits, KernelInv, IpcInv, Pools, ThreadPtr
  <2> QED
    BY <1>3, <2>1, PostOutcome
<1> QED
  BY <1>1, <1>2, <1>3 DEF thread_intr, Stays, StaysAndWakes

(* The caller of kz_recv is refused, served, or waits. *)
LEMMA RecvOutcome ==
  ASSUME KernelInv, NEW id \in MsgBox, thread_recv(id)
  PROVE  \/ Stops /\ mb' = mb
         \/ /\ Back /\ mb.reciever[id] = NULL
            /\ \A k \in MsgBox : mb'.reciever[k] = mb.reciever[k]
         \/ /\ Away /\ mb.reciever[id] = NULL
            /\ \A k \in MsgBox : mb'.reciever[k] = IF k = id THEN current ELSE mb.reciever[k]
<1>1. /\ mode = "run" /\ mb \in Boxes /\ BoxEnds(mb)
  BY DEF thread_recv, Syscall, KernelInv, IpcInv
<1>2. CASE Halt("down")
  BY <1>2 DEF Stops, Halt, ipcVars
<1>3. CASE /\ mb.reciever[id] = NULL /\ wait_msg_of(id) /\ mb' = recvmsg(mb, id)
           /\ Dispatch(put(Removed, current))
  <2>1. mb.head[id] \in Block
    BY <1>1, <1>3 DEF wait_msg_of, Boxes
  <2>2. PICK y : y = recvmsg(mb, id)
    OBVIOUS
  <2>3. y.reciever = [mb.reciever EXCEPT ![id] = NULL]
    BY <1>1, <2>1, <2>2, RecvmsgBoxes
  <2>4. \A k \in MsgBox : y.reciever[k] = mb.reciever[k]
    BY <1>1, <1>3, <2>3 DEF Boxes
  <2> QED
    BY <1>1, <1>3, <2>2, <2>4, CallsBack
<1>4. CASE /\ mb.reciever[id] = NULL /\ mb' = [mb EXCEPT !.reciever[id] = current]
           /\ Dispatch(Removed)
  <2>1. \A k \in MsgBox : mb'.reciever[k] = IF k = id THEN current ELSE mb.reciever[k]
    BY <1>1, <1>4 DEF Boxes
  <2> QED
    BY <1>1, <1>4, <2>1, NobodyYet DEF Away
<1> QED
  BY <1>2, <1>3, <1>4 DEF thread_recv

LEMMA SetintrOutcome ==
  ASSUME KernelInv, NEW v \in IntrTypes, thread_setintr(v)
  PROVE  \/ IsVector(v) /\ Back
         \/ ~IsVector(v) /\ Away
BY CallsBack, NobodyYet DEF thread_setintr, Syscall, Away

(* The other calls. *)
LEMMA PlainOutcome ==
  ASSUME KernelInv
  PROVE  /\ thread_wait \/ thread_getid => Back
         /\ thread_sleep => Away
         /\ \A t \in Thread : thread_wakeup(t) => BackAndWakes(t)
         /\ \A size \in AllocSizes : thread_kmalloc(size) => Back \/ Stops
         /\ \A b \in Block : thread_kmfree(b) => Back
BY CallsBack, NobodyYet DEF thread_wait, thread_getid, thread_sleep, thread_wakeup,
     thread_kmalloc, thread_kmfree, Syscall, Away, BackAndWakes, Stops
-----------------------------------------------------------------------------
(* The applications wake only threads that are asleep. *)
LEMMA WokenAreAsleep ==
  ASSUME ~WakeReady, NEW t \in Wakeable
  PROVE  t \in func /\ ~rq.ready[t] /\ syscall[t].type = "SLEEP"
BY DEF Wakeable

LEMMA WaiterIsThread ==
  ASSUME WaitersInv, SchedInv, NEW id \in MsgBox, mb.reciever[id] # NULL
  PROVE  mb.reciever[id] \in Thread /\ ~rq.ready[mb.reciever[id]]
BY DEF WaitersInv, InRecvOf, SchedInv

(* Every kernel entry keeps the queues whole, and is a step of the scheduler. *)
LEMMA QueuesStep ==
  ASSUME ~WakeReady, KernelInv, QueuesInv, WaitersInv, Next
  PROVE  QueuesInv' /\ (Scheduler!Next \/ UNCHANGED Scheduler!vars)
<1> USE DEF KernelInv
<1>1. CASE SystemCall \/ softerr_intr
  <2>0. mode = "run" /\ func \subseteq Thread
    BY <1>1 DEF SystemCall, softerr_intr, Syscall, SchedInv, thread_run, thread_exit,
         thread_wait, thread_sleep, thread_wakeup, thread_getid, thread_chpri,
         thread_kmalloc, thread_kmfree, thread_send, thread_recv, thread_setintr
  <2>1. ASSUME NEW p \in RunPriorities, thread_run(p) PROVE QueuesInv' /\ Scheduler!Next
    BY <2>0, <2>1, RunOutcome, StopsQueues, BackAndWakesQueues DEF SchedInv
  <2>2. CASE thread_exit \/ softerr_intr
    BY <2>0, <2>2, TerminateOutcome, AwayQueues DEF thread_exit, softerr_intr
  <2>3. CASE thread_wait \/ thread_getid \/ thread_sleep
    BY <2>0, <2>3, PlainOutcome, BackQueues, AwayQueues
  <2>4. ASSUME NEW t \in Thread, thread_wakeup(t) PROVE QueuesInv' /\ Scheduler!Next
    <3>1. ~rq.ready[t]
      BY <2>4, WokenAreAsleep DEF thread_wakeup
    <3> QED
      BY <2>0, <2>4, <3>1, PlainOutcome, BackAndWakesQueues
  <2>5. ASSUME NEW p \in NewPriorities, thread_chpri(p) PROVE QueuesInv' /\ Scheduler!Next
    BY <2>0, <2>5, ChpriOutcome, BackQueues
  <2>6. ASSUME NEW size \in AllocSizes, thread_kmalloc(size) PROVE QueuesInv' /\ Scheduler!Next
    BY <2>0, <2>6, PlainOutcome, BackQueues, StopsQueues
  <2>7. ASSUME NEW b \in Block, thread_kmfree(b) PROVE QueuesInv' /\ Scheduler!Next
    BY <2>0, <2>7, PlainOutcome, BackQueues
  <2>8. ASSUME NEW id \in MsgBox, NEW data \in Block \cup {STATIC}, thread_send(id, data)
        PROVE  QueuesInv' /\ Scheduler!Next
    <3>1. mb.reciever[id] # NULL => mb.reciever[id] \in Thread /\ ~rq.ready[mb.reciever[id]]
      BY WaiterIsThread
    <3> QED
      BY <2>0, <2>8, <3>1, SendOutcome, StopsQueues, BackQueues, BackAndWakesQueues
  <2>9. ASSUME NEW id \in MsgBox, thread_recv(id) PROVE QueuesInv' /\ Scheduler!Next
    BY <2>0, <2>9, RecvOutcome, StopsQueues, BackQueues, AwayQueues
  <2>10. ASSUME NEW v \in IntrTypes, thread_setintr(v) PROVE QueuesInv' /\ Scheduler!Next
    BY <2>0, <2>10, SetintrOutcome, BackQueues, AwayQueues
  <2> QED
    BY <1>1, <2>1, <2>2, <2>3, <2>4, <2>5, <2>6, <2>7, <2>8, <2>9, <2>10 DEF SystemCall
<1>2. CASE thread_intr
  <2>1. mode = "run"
    BY <1>2 DEF thread_intr
  <2>2. \A t \in Wakeable : t \in Thread /\ ~rq.ready[t]
    BY WokenAreAsleep DEF SchedInv
  <2>3. \A id \in MsgBox : mb.reciever[id] # NULL =>
          mb.reciever[id] \in Thread /\ ~rq.ready[mb.reciever[id]]
    BY WaiterIsThread
  <2> QED
    BY <1>2, <2>1, <2>2, <2>3, IntrOutcome, StopsQueues, StaysQueues, StaysAndWakesQueues
<1>3. CASE (\E masked \in BOOLEAN : SetCcr(masked)) \/ Spin
  <2>1. rq' = rq /\ current' = current /\ mode' = mode
    BY <1>3 DEF SetCcr, Spin, vars
  <2>2. [p \in Priority |-> QueueSeq(p)]' = [p \in Priority |-> QueueSeq(p)]
    BY <2>1 DEF QueueSeq
  <2> QED
    BY <2>1, <2>2 DEF QueuesInv, Scheduler!vars
<1> QED
  BY <1>1, <1>2, <1>3 DEF Next
-----------------------------------------------------------------------------
(* The ready flags after a kernel entry. *)
LEMMA AwayReady ==
  ASSUME KernelInv, mode = "run", Away
  PROVE  \A t \in Thread : rq'.ready[t] <=> rq.ready[t] /\ t # current
<1>1. PICK q : Without(q) /\ Dispatch(q)
  BY DEF Away
<1>2. \A t \in Thread : q.ready[t] <=> rq.ready[t] /\ t # current
  BY <1>1, RemovedCaller DEF Without, SameReady, KernelInv
<1> QED
  BY <1>1, <1>2 DEF Dispatch

LEMMA BackReady ==
  ASSUME KernelInv, mode = "run", Back
  PROVE  \A t \in Thread : rq'.ready[t] <=> rq.ready[t]
<1>1. PICK q : Without(q) /\ Dispatch(put(q, current))
  BY DEF Back
<1>2. \A t \in Thread : q.ready[t] <=> rq.ready[t] /\ t # current
  BY <1>1, RemovedCaller DEF Without, SameReady, KernelInv
<1>3. current \in Thread /\ rq.ready[current] /\ QInv(q)
  BY <1>1 DEF KernelInv, SchedInv, CallerIsHead, Without
<1>4. \A t \in Thread : put(q, current).ready[t] <=> q.ready[t] \/ t = current
  BY <1>3, PutReady
<1> QED
  BY <1>1, <1>2, <1>3, <1>4 DEF Dispatch

LEMMA BackAndWakesReady ==
  ASSUME KernelInv, mode = "run", NEW u \in Thread, BackAndWakes(u)
  PROVE  \A t \in Thread : rq'.ready[t] <=> rq.ready[t] \/ t = u
<1>1. PICK q : Without(q) /\ Dispatch(put(put(q, current), u))
  BY DEF BackAndWakes
<1>2. \A t \in Thread : q.ready[t] <=> rq.ready[t] /\ t # current
  BY <1>1, RemovedCaller DEF Without, SameReady, KernelInv
<1>3. current \in Thread /\ rq.ready[current] /\ QInv(q)
  BY <1>1 DEF KernelInv, SchedInv, CallerIsHead, Without
<1>4. PICK r : r = put(q, current)
  OBVIOUS
<1>5. QInv(r) /\ \A t \in Thread : r.ready[t] <=> q.ready[t] \/ t = current
  BY <1>3, <1>4, PutReady
<1>6. \A t \in Thread : put(r, u).ready[t] <=> r.ready[t] \/ t = u
  BY <1>5, PutReady
<1> QED
  BY <1>1, <1>2, <1>3, <1>4, <1>5, <1>6 DEF Dispatch

LEMMA StaysReady ==
  ASSUME KernelInv
  PROVE  /\ Stays \/ Stops => rq' = rq
         /\ \A u \in Thread : StaysAndWakes(u) =>
              \A t \in Thread : rq'.ready[t] <=> rq.ready[t] \/ t = u
BY PutReady DEF Stays, Stops, StaysAndWakes, Dispatch, Halt, KernelInv, SchedInv

(* kz_syscall writes into the control block of the caller only. *)
OthersCalls == \A t \in Thread : t # current => syscall'[t] = syscall[t]

LEMMA CallerNoted ==
  ASSUME KernelInv, NEW type, NEW id, Syscall(type, id)
  PROVE  /\ mode = "run" /\ type \in Calls /\ OthersCalls
         /\ type \in Blocking => syscall'[current] = [type |-> type, id |-> id]
BY DEF Syscall, OthersCalls, KernelInv, SchedInv, RestOK

(* Waiting goes on for a thread that is neither made ready nor the caller. *)
LEMMA WaitersKept ==
  ASSUME KernelInv, WaitersInv, mode = "run", OthersCalls, func \subseteq func' \cup {current},
         \A id \in MsgBox : mb'.reciever[id] # NULL =>
           /\ mb'.reciever[id] = mb.reciever[id]
           /\ rq'.ready[mb.reciever[id]] => rq.ready[mb.reciever[id]]
  PROVE  WaitersInv'
<1> SUFFICES ASSUME NEW id \in MsgBox, mb'.reciever[id] # NULL
             PROVE  /\ mb'.reciever[id] \in func' /\ ~rq'.ready[mb'.reciever[id]]
                    /\ syscall'[mb'.reciever[id]] = [type |-> "RECV", id |-> id]
  BY DEF WaitersInv, InRecvOf
<1>1. PICK r \in Thread : r = mb.reciever[id] /\ r = mb'.reciever[id]
  BY WaiterIsThread DEF KernelInv
<1>2. ~rq.ready[r] /\ r \in func /\ syscall[r] = [type |-> "RECV", id |-> id]
  BY <1>1 DEF WaitersInv, InRecvOf
<1>3. ~rq'.ready[r] /\ r # current
  BY <1>1, <1>2 DEF KernelInv, SchedInv, CallerIsHead
<1> QED
  BY <1>1, <1>2, <1>3 DEF OthersCalls

(* A registered receiver stays asleep in its kz_recv until it is served. *)
LEMMA WaitersStep ==
  ASSUME ~WakeReady, KernelInv, WaitersInv, Next
  PROVE  WaitersInv'
<1> USE DEF KernelInv
<1>0. \A id \in MsgBox : mb.reciever[id] # NULL =>
        /\ mb.reciever[id] \in Thread /\ mb.reciever[id] \in func
        /\ ~rq.ready[mb.reciever[id]]
        /\ syscall[mb.reciever[id]] = [type |-> "RECV", id |-> id]
  BY WaiterIsThread DEF WaitersInv, InRecvOf
<1>1. \A id \in MsgBox, r \in Thread : mb.reciever[id] = r =>
         syscall[r].type = "RECV" /\ syscall[r].id = id
  <2> SUFFICES ASSUME NEW id \in MsgBox, NEW r \in Thread, mb.reciever[id] = r
               PROVE  syscall[r].type = "RECV" /\ syscall[r].id = id
    OBVIOUS
  <2>1. syscall[r] = [type |-> "RECV", id |-> id]
    BY <1>0, ReadyAssumption
  <2> QED
    BY <2>1
<1>2. ASSUME NEW p \in RunPriorities, thread_run(p) PROVE WaitersInv'
  <2>1. mode = "run" /\ OthersCalls
    BY <1>2, CallerNoted DEF thread_run
  <2>2. mb' = mb
    BY <1>2 DEF thread_run, Halt, ipcVars
  <2>3. CASE Stops /\ func' = func
    BY <2>1, <2>2, <2>3, StaysReady, WaitersKept
  <2>4. ASSUME NEW t \in Thread \ func, BackAndWakes(t), func' = func \cup {t}
        PROVE  WaitersInv'
    <3>1. \A u \in Thread : rq'.ready[u] <=> rq.ready[u] \/ u = t
      BY <2>1, <2>4, BackAndWakesReady
    <3> QED
      BY <1>0, <2>1, <2>2, <2>4, <3>1, WaitersKept, ZenonT(60)
  <2> QED
    BY <1>2, <2>3, <2>4, RunOutcome
<1>3. ASSUME Terminate, mode = "run", OthersCalls PROVE WaitersInv'
  <2>1. mb' = mb /\ func \subseteq func' \cup {current}
    BY <1>3 DEF Terminate
  <2>2. \A t \in Thread : rq'.ready[t] <=> rq.ready[t] /\ t # current
    BY <1>3, TerminateOutcome, AwayReady
  <2> QED
    BY <1>0, <1>3, <2>1, <2>2, WaitersKept
<1>4. CASE thread_exit
  BY <1>3, <1>4, CallerNoted DEF thread_exit
<1>5. CASE softerr_intr
  BY <1>3, <1>5 DEF softerr_intr, OthersCalls, SchedInv, RestOK
<1>6. ASSUME mode = "run", OthersCalls, func' = func, mb'.reciever = mb.reciever,
             Back \/ Away \/ Stays \/ Stops
      PROVE  WaitersInv'
  <2>1. \A t \in Thread : rq'.ready[t] => rq.ready[t]
    BY <1>6, BackReady, AwayReady, StaysReady
  <2> QED
    BY <1>0, <1>6, <2>1, WaitersKept
<1>7. ASSUME mode = "run", OthersCalls, func' = func, NEW u \in Thread,
             BackAndWakes(u) \/ StaysAndWakes(u),
             \A id \in MsgBox : mb'.reciever[id] # NULL =>
               mb'.reciever[id] = mb.reciever[id] /\ mb.reciever[id] # u
      PROVE  WaitersInv'
  <2>1. \A t \in Thread : rq'.ready[t] <=> rq.ready[t] \/ t = u
    BY <1>7, BackAndWakesReady, StaysReady
  <2> QED
    BY <1>0, <1>7, <2>1, WaitersKept
<1>8. \A u \in Wakeable : u \in Thread /\ \A id \in MsgBox : mb.reciever[id] # u
  <2> SUFFICES ASSUME NEW u \in Wakeable
               PROVE  u \in Thread /\ \A id \in MsgBox : mb.reciever[id] # u
    OBVIOUS
  <2>1. u \in Thread /\ u # NULL /\ syscall[u].type = "SLEEP"
    BY WokenAreAsleep, ReadyAssumption DEF SchedInv
  <2> QED
    BY <1>1, <2>1
<1>9. ASSUME mode = "run", OthersCalls, func' = func, NEW id \in MsgBox,
             mb.reciever[id] # NULL,
             BackAndWakes(mb.reciever[id]) \/ StaysAndWakes(mb.reciever[id]),
             \A k \in MsgBox : mb'.reciever[k] = IF k = id THEN NULL ELSE mb.reciever[k]
      PROVE  WaitersInv'
  <2>1. PICK u \in Thread : u = mb.reciever[id]
    BY <1>0, <1>9
  <2>2. \A k \in MsgBox : k # id => mb.reciever[k] # u
    BY <1>1, <2>1
  <2> QED
    BY <1>7, <1>9, <2>1, <2>2
<1>10. ASSUME thread_wait \/ thread_getid \/ thread_sleep \/
             (\E p \in NewPriorities : thread_chpri(p))
             \/ (\E size \in AllocSizes : thread_kmalloc(size))
             \/ (\E b \in Block : thread_kmfree(b))
             \/ (\E v \in IntrTypes : thread_setintr(v))
      PROVE  WaitersInv'
  <2>1. mode = "run" /\ OthersCalls
    BY <1>10, CallerNoted DEF thread_wait, thread_getid, thread_sleep, thread_chpri,
         thread_kmalloc, thread_kmfree, thread_setintr
  <2>2. func' = func /\ mb' = mb
    BY <1>10 DEF thread_wait, thread_getid, thread_sleep, thread_chpri,
         thread_kmalloc, thread_kmfree, thread_setintr, threadVars, ipcVars, Halt
  <2> QED
    BY <1>6, <1>10, <2>1, <2>2, PlainOutcome, ChpriOutcome, SetintrOutcome
<1>11. ASSUME NEW u \in Thread, thread_wakeup(u) PROVE WaitersInv'
  <2>1. /\ mode = "run" /\ OthersCalls /\ func' = func /\ mb' = mb
        /\ u \in Wakeable /\ BackAndWakes(u)
    BY <1>11, CallerNoted, PlainOutcome DEF thread_wakeup, threadVars, ipcVars
  <2> QED
    BY <1>7, <1>8, <2>1
<1>12. ASSUME NEW id \in MsgBox, NEW data \in Block \cup {STATIC}, thread_send(id, data)
       PROVE  WaitersInv'
  <2>1. mode = "run" /\ OthersCalls /\ func' = func
    BY <1>12, CallerNoted DEF thread_send, threadVars
  <2> QED
    BY <1>6, <1>9, <1>12, <2>1, SendOutcome
<1>13. ASSUME NEW id \in MsgBox, thread_recv(id) PROVE WaitersInv'
  <2>1. /\ mode = "run" /\ OthersCalls /\ func' = func /\ current \in func
        /\ current \in Thread
        /\ syscall'[current] = [type |-> "RECV", id |-> id]
    BY <1>13, CallerNoted DEF thread_recv, threadVars, Blocking, SchedInv, CallerIsHead
  <2>2. CASE Stops /\ mb' = mb
    BY <1>6, <2>1, <2>2
  <2>3. CASE Back /\ \A k \in MsgBox : mb'.reciever[k] = mb.reciever[k]
    <3>1. \A t \in Thread : rq'.ready[t] <=> rq.ready[t]
      BY <2>1, <2>3, BackReady
    <3> QED
      BY <1>0, <2>1, <2>3, <3>1, WaitersKept
  <2>4. CASE Away /\ \A k \in MsgBox :
                       mb'.reciever[k] = IF k = id THEN current ELSE mb.reciever[k]
    <3>1. \A t \in Thread : rq'.ready[t] <=> rq.ready[t] /\ t # current
      BY <2>1, <2>4, AwayReady
    <3>2. \A k \in MsgBox : mb.reciever[k] # NULL => mb.reciever[k] # current
      BY <1>0, <2>1, ZenonT(60) DEF SchedInv, CallerIsHead
    <3>3. ASSUME NEW k \in MsgBox, mb'.reciever[k] # NULL
          PROVE  /\ mb'.reciever[k] \in func' /\ ~rq'.ready[mb'.reciever[k]]
                 /\ syscall'[mb'.reciever[k]] = [type |-> "RECV", id |-> k]
      BY <1>0, <2>1, <2>4, <3>1, <3>2, <3>3 DEF OthersCalls
    <3> QED
      BY <3>3 DEF WaitersInv, InRecvOf
  <2> QED
    BY <1>13, <2>2, <2>3, <2>4, RecvOutcome
<1>14. CASE thread_intr
  <2>1. mode = "run" /\ OthersCalls /\ func' = func
    BY <1>14 DEF thread_intr, threadVars, OthersCalls
  <2>2. ASSUME NEW u \in Wakeable, StaysAndWakes(u), mb' = mb PROVE WaitersInv'
    BY <1>7, <1>8, <2>1, <2>2
  <2> QED
    BY <1>6, <1>9, <1>14, <2>1, <2>2, IntrOutcome
<1>15. CASE (\E masked \in BOOLEAN : SetCcr(masked)) \/ Spin
  BY <1>15 DEF SetCcr, Spin, vars, ipcVars, WaitersInv, InRecvOf
<1> QED
  BY <1>2, <1>4, <1>5, <1>10, <1>11, <1>12, <1>13, <1>14, <1>15 DEF Next, SystemCall
-----------------------------------------------------------------------------
(* Nobody leaves the queues but by kz_sleep and kz_recv, and who waits at a box
   is known there: a thread that is not ready was blocked before, and what it
   waits for has not changed. *)
LEMMA BlockedKept ==
  ASSUME KernelInv, BlockedInv, mode = "run", OthersCalls,
         \A t \in Thread : t \in func' /\ ~rq'.ready[t] =>
           \/ t = current /\ IsBlocked(t)'
           \/ /\ t # current /\ t \in func /\ ~rq.ready[t]
              /\ \A id \in MsgBox : mb.reciever[id] = t => mb'.reciever[id] = t,
         func' \subseteq Thread
  PROVE  BlockedInv'
<1> SUFFICES ASSUME NEW t \in func', ~rq'.ready[t] PROVE IsBlocked(t)'
  BY DEF BlockedInv
<1>1. t \in Thread
  OBVIOUS
<1>2. CASE t = current /\ IsBlocked(t)'
  BY <1>2
<1>3. CASE /\ t # current /\ t \in func /\ ~rq.ready[t]
           /\ \A id \in MsgBox : mb.reciever[id] = t => mb'.reciever[id] = t
  <2>1. IsBlocked(t) /\ syscall'[t] = syscall[t]
    BY <1>1, <1>3 DEF BlockedInv, OthersCalls
  <2> QED
    BY <1>3, <2>1 DEF IsBlocked
<1> QED
  BY <1>1, <1>2, <1>3

LEMMA BlockedStep ==
  ASSUME \A v \in IntrTypes : IsVector(v), KernelInv, BlockedInv, Next
  PROVE  BlockedInv'
<1> USE DEF KernelInv
<1>0. mode = "run" => current \in func /\ current \in Thread /\ rq.ready[current]
  BY DEF SchedInv, CallerIsHead
<1>1. func \subseteq Thread /\ current \in Thread
  BY DEF SchedInv
<1>2. ASSUME mode = "run", OthersCalls, func' = func, mb' = mb, NEW u \in Thread,
             BackAndWakes(u) \/ StaysAndWakes(u) \/ Back \/ Stays \/ Stops
      PROVE  BlockedInv'
  <2>1. \A t \in Thread : rq.ready[t] => rq'.ready[t]
    BY <1>2, BackReady, BackAndWakesReady, StaysReady
  <2>2. \A t \in Thread : ~rq'.ready[t] => t # current /\ ~rq.ready[t]
    BY <1>0, <1>2, <2>1
  <2> QED
    BY <1>1, <1>2, <2>2, BlockedKept
<1>3. ASSUME NEW p \in RunPriorities, thread_run(p) PROVE BlockedInv'
  <2>1. mode = "run" /\ OthersCalls
    BY <1>3, CallerNoted DEF thread_run
  <2>2. mb' = mb
    BY <1>3 DEF thread_run, Halt, ipcVars
  <2>3. CASE Stops /\ func' = func
    BY <1>1, <1>2, <2>1, <2>2, <2>3
  <2>4. ASSUME NEW t \in Thread \ func, BackAndWakes(t), func' = func \cup {t}
        PROVE  BlockedInv'
    <3>1. \A u \in Thread : rq'.ready[u] <=> rq.ready[u] \/ u = t
      BY <2>1, <2>4, BackAndWakesReady
    <3>2. \A u \in Thread : u \in func' /\ ~rq'.ready[u] =>
            u # current /\ u \in func /\ ~rq.ready[u]
      BY <1>0, <2>1, <2>4, <3>1
    <3> QED
      BY <1>1, <2>1, <2>2, <2>4, <3>2, BlockedKept
  <2> QED
    BY <1>3, <2>3, <2>4, RunOutcome
<1>4. ASSUME Terminate, mode = "run", OthersCalls PROVE BlockedInv'
  <2>1. mb' = mb /\ func' = func \ {current}
    BY <1>4 DEF Terminate
  <2>2. \A t \in Thread : rq'.ready[t] <=> rq.ready[t] /\ t # current
    BY <1>4, TerminateOutcome, AwayReady
  <2>3. \A t \in Thread : t \in func' /\ ~rq'.ready[t] =>
          t # current /\ t \in func /\ ~rq.ready[t]
    BY <2>1, <2>2
  <2> QED
    BY <1>1, <1>4, <2>1, <2>3, BlockedKept
<1>5. CASE thread_exit
  BY <1>4, <1>5, CallerNoted DEF thread_exit
<1>6. CASE softerr_intr
  BY <1>4, <1>6 DEF softerr_intr, OthersCalls, SchedInv, RestOK
<1>7. ASSUME mode = "run", OthersCalls, func' = func,
             Back \/ Stays \/ Stops, \A k \in MsgBox : mb'.reciever[k] = mb.reciever[k]
      PROVE  BlockedInv'
  <2>1. \A t \in Thread : rq'.ready[t] <=> rq.ready[t]
    BY <1>7, BackReady, StaysReady
  <2>2. \A t \in Thread : ~rq'.ready[t] => t # current /\ ~rq.ready[t]
    BY <1>0, <1>7, <2>1
  <2> QED
    BY <1>1, <1>7, <2>2, BlockedKept
<1>8. ASSUME mode = "run", OthersCalls, func' = func, NEW id \in MsgBox,
             mb.reciever[id] \in func,
             BackAndWakes(mb.reciever[id]) \/ StaysAndWakes(mb.reciever[id]),
             \A k \in MsgBox : mb'.reciever[k] = IF k = id THEN NULL ELSE mb.reciever[k]
      PROVE  BlockedInv'
  <2>1. PICK u \in Thread : u = mb.reciever[id]
    BY <1>1, <1>8
  <2>2. \A t \in Thread : rq'.ready[t] <=> rq.ready[t] \/ t = u
    BY <1>8, <2>1, BackAndWakesReady, StaysReady
  <2>3. \A t \in Thread : ~rq'.ready[t] => t # current /\ ~rq.ready[t] /\ t # u
    BY <1>0, <1>8, <2>2
  <2>4. \A t \in Thread, k \in MsgBox : t # u /\ mb.reciever[k] = t => mb'.reciever[k] = t
    BY <1>8, <2>1
  <2> QED
    BY <1>1, <1>8, <2>3, <2>4, BlockedKept
<1>9. ASSUME thread_wait \/ thread_getid
             \/ (\E p \in NewPriorities : thread_chpri(p))
             \/ (\E size \in AllocSizes : thread_kmalloc(size))
             \/ (\E b \in Block : thread_kmfree(b))
             \/ (\E v \in IntrTypes : thread_setintr(v))
      PROVE  BlockedInv'
  <2>1. mode = "run" /\ OthersCalls
    BY <1>9, CallerNoted DEF thread_wait, thread_getid, thread_chpri,
         thread_kmalloc, thread_kmfree, thread_setintr
  <2>2. func' = func /\ mb' = mb
    BY <1>9 DEF thread_wait, thread_getid, thread_chpri,
         thread_kmalloc, thread_kmfree, thread_setintr, threadVars, ipcVars, Halt
  <2>3. Back \/ Stops
    BY <1>9, PlainOutcome, ChpriOutcome, SetintrOutcome
  <2> QED
    BY <1>1, <1>2, <2>1, <2>2, <2>3
<1>10. ASSUME NEW u \in Thread, thread_wakeup(u) PROVE BlockedInv'
  <2>1. mode = "run" /\ OthersCalls /\ func' = func /\ mb' = mb /\ BackAndWakes(u)
    BY <1>10, CallerNoted, PlainOutcome DEF thread_wakeup, threadVars, ipcVars
  <2> QED
    BY <1>2, <2>1
<1>11. ASSUME NEW id \in MsgBox, NEW data \in Block \cup {STATIC}, thread_send(id, data)
       PROVE  BlockedInv'
  <2>1. mode = "run" /\ OthersCalls /\ func' = func
    BY <1>11, CallerNoted DEF thread_send, threadVars
  <2>2. InRecvOf(syscall', mb.reciever[id], id) => mb.reciever[id] \in func
    BY DEF InRecvOf
  <2> QED
    BY <1>7, <1>8, <1>11, <2>1, <2>2, SendOutcome
<1>12. CASE thread_sleep
  <2>1. /\ mode = "run" /\ OthersCalls /\ func' = func /\ mb' = mb /\ Away
        /\ syscall'[current] = [type |-> "SLEEP", id |-> NULL]
    BY <1>12, CallerNoted, PlainOutcome DEF thread_sleep, threadVars, ipcVars, Blocking
  <2>2. \A t \in Thread : rq'.ready[t] <=> rq.ready[t] /\ t # current
    BY <2>1, AwayReady
  <2>3. ASSUME NEW t \in Thread, t = current PROVE IsBlocked(t)'
    BY <2>1, <2>3 DEF IsBlocked
  <2> QED
    BY <1>1, <2>1, <2>2, <2>3, BlockedKept
<1>13. ASSUME NEW id \in MsgBox, thread_recv(id) PROVE BlockedInv'
  <2>1. /\ mode = "run" /\ OthersCalls /\ func' = func
        /\ syscall'[current] = [type |-> "RECV", id |-> id]
    BY <1>13, CallerNoted DEF thread_recv, threadVars, Blocking
  <2>2. CASE Stops /\ mb' = mb
    BY <1>7, <2>1, <2>2
  <2>3. CASE Back /\ \A k \in MsgBox : mb'.reciever[k] = mb.reciever[k]
    BY <1>7, <2>1, <2>3
  <2>4. CASE /\ Away /\ mb.reciever[id] = NULL
             /\ \A k \in MsgBox : mb'.reciever[k] = IF k = id THEN current ELSE mb.reciever[k]
    <3>1. \A t \in Thread : rq'.ready[t] <=> rq.ready[t] /\ t # current
      BY <2>1, <2>4, AwayReady
    <3>2. \A t \in Thread, k \in MsgBox : mb.reciever[k] = t => mb'.reciever[k] = t
      BY <2>4, ReadyAssumption
    <3>3. ASSUME NEW t \in Thread, t = current PROVE IsBlocked(t)'
      BY <2>1, <2>4, <3>3 DEF IsBlocked
    <3> QED
      BY <1>1, <2>1, <3>1, <3>2, <3>3, BlockedKept
  <2> QED
    BY <1>13, <2>2, <2>3, <2>4, RecvOutcome
<1>14. CASE thread_intr
  <2>1. mode = "run" /\ OthersCalls /\ func' = func
    BY <1>14 DEF thread_intr, threadVars, OthersCalls
  <2>2. ASSUME NEW u \in Wakeable, StaysAndWakes(u), mb' = mb PROVE BlockedInv'
    <3>1. u \in Thread
      BY <1>1 DEF Wakeable
    <3> QED
      BY <1>2, <2>1, <2>2, <3>1
  <2>3. \A id \in MsgBox : InRecvOf(syscall', mb.reciever[id], id) => mb.reciever[id] \in func
    BY DEF InRecvOf
  <2> QED
    BY <1>7, <1>8, <1>14, <2>1, <2>2, <2>3, IntrOutcome
<1>15. CASE (\E masked \in BOOLEAN : SetCcr(masked)) \/ Spin
  BY <1>15 DEF SetCcr, Spin, vars, ipcVars, BlockedInv, IsBlocked
<1> QED
  BY <1>3, <1>5, <1>6, <1>9, <1>10, <1>11, <1>12, <1>13, <1>14, <1>15 DEF Next, SystemCall
-----------------------------------------------------------------------------
(* The first thread is alone in its queue. *)
LEMMA InitQueues == Init => QueuesInv /\ Scheduler!Init
<1> SUFFICES ASSUME Init PROVE QueuesInv /\ Scheduler!Init
  OBVIOUS
<1> DEFINE empty == [head     |-> [p \in Priority |-> NULL],
                     tail     |-> [p \in Priority |-> NULL],
                     next     |-> [t \in Thread |-> NULL],
                     ready    |-> [t \in Thread |-> FALSE],
                     priority |-> [t \in Thread |-> 0]]
           none == [p \in Priority |-> <<>>]
<1>1. 0 \in Priority
  BY ReadyAssumption DEF Priority
<1>2. QInv(empty)
  BY <1>1 DEF QInv, HeadOK, TailOK, LinkOK, NothingBeforeHead, NoJoin,
              ReadyQueues, ThreadPtr
<1>3. none \in [Priority -> Seq(Thread)]
  OBVIOUS
<1>4. Holds(empty, none)
  BY ListEmpty DEF Holds, QueueIs, ReadyAt
<1>5. ~empty.ready[Idle] /\ empty.priority[Idle] = 0
  BY IdleThread
<1>6. rq = put(empty, Idle) /\ current = Idle /\ mode = "run"
  BY DEF Init
<1> HIDE DEF empty
<1>7. PICK p, r : p = empty.priority[Idle] /\ r = put(empty, Idle)
  OBVIOUS
<1>8. PICK Q : Q = [none EXCEPT ![p] = Append(@, Idle)]
  OBVIOUS
<1> HIDE DEF none
<1>9. Q \in [Priority -> Seq(Thread)] /\ Holds(r, Q)
  BY <1>2, <1>3, <1>4, <1>5, <1>7, <1>8, IdleThread, PutQueues
<1>10. Q = [o \in Priority |-> IF o = 0 THEN <<Idle>> ELSE <<>>]
  BY <1>1, <1>5, <1>7, <1>8 DEF none
<1>11. [o \in Priority |-> QueueSeq(o)] = Q
  BY <1>6, <1>7, <1>9, QueuesRead DEF QueueSeq
<1> QED
  BY <1>6, <1>7, <1>9, <1>10, <1>11 DEF QueuesInv, Scheduler!Init

LEMMA InitWaiters == Init => WaitersInv /\ BlockedInv
<1> SUFFICES ASSUME Init PROVE WaitersInv /\ BlockedInv
  OBVIOUS
<1>1. WaitersInv
  BY DEF Init, WaitersInv, EmptyBoxes
<1>2. func = {Idle} /\ rq.ready[Idle]
  BY InitSched DEF Init, SchedInv, CallerIsHead
<1> QED
  BY <1>1, <1>2 DEF BlockedInv

LEMMA InvariantQueues ==
  ASSUME ~WakeReady
  PROVE  Spec => [](KernelInv /\ QueuesInv /\ WaitersInv)
<1>1. Init => KernelInv /\ QueuesInv /\ WaitersInv
  BY InitKernel, InitQueues, InitWaiters
<1>2. KernelInv /\ QueuesInv /\ WaitersInv /\ [Next]_vars =>
        (KernelInv /\ QueuesInv /\ WaitersInv)'
  <2> SUFFICES ASSUME KernelInv, QueuesInv, WaitersInv, [Next]_vars
               PROVE  (KernelInv /\ QueuesInv /\ WaitersInv)'
    OBVIOUS
  <2>1. KernelInv'
    BY NextKernel
  <2>2. CASE Next
    BY <2>1, <2>2, QueuesStep, WaitersStep
  <2>3. CASE UNCHANGED vars
    BY <2>1, <2>3 DEF vars, QueuesInv, WaitersInv, QueueSeq, InRecvOf
  <2> QED
    BY <2>2, <2>3
<1> QED
  BY <1>1, <1>2, PTL DEF Spec

(* As long as applications wake only threads that are asleep, no thread is ever
   lost: each ready thread can be reached in the queue of its priority and no
   other thread can, no queue is a cycle, and the tail is the last thread. *)
THEOREM KernelNoLostThread ==
  ASSUME ~WakeReady
  PROVE  Spec => []NoLostThread
<1>1. QueuesInv => NoLostThread
  <2> SUFFICES ASSUME QueuesInv, NEW p \in Priority
               PROVE  /\ QueueNodes(p) = {t \in Thread : rq.ready[t] /\ rq.priority[t] = p}
                      /\ IsAcyclic(rq.next, rq.head[p], THREAD_NUM)
                      /\ rq.tail[p] = IF QueueSeq(p) = <<>> THEN NULL
                                      ELSE QueueSeq(p)[Len(QueueSeq(p))]
    BY DEF NoLostThread
  <2>1. QueueIs(rq, p, QueueSeq(p))
    BY DEF QueuesInv, Holds
  <2> QED
    BY <2>1, QueueRead DEF QueueIs, ReadyAt, QueueNodes
<1> QED
  BY InvariantQueues, <1>1, PTL

(* Then, too, whoever is registered as a receiver is asleep in that very kz_recv,
   and thread_send never writes through parameters that are gone. *)
THEOREM KernelWaiterIsBlocked ==
  ASSUME ~WakeReady
  PROVE  Spec => []WaiterIsBlocked
<1>1. WaitersInv => WaiterIsBlocked
  BY DEF WaitersInv, WaiterIsBlocked
<1> QED
  BY InvariantQueues, <1>1, PTL

(* A thread that is off the queues is in kz_sleep, or registered at the box of
   its kz_recv: whatever is woken, if vectors are given to kz_setintr that
   exist. *)
THEOREM KernelOnlyBlockingCallsBlock ==
  ASSUME \A v \in IntrTypes : IsVector(v)
  PROVE  Spec => []OnlyBlockingCallsBlock
<1>1. Init => KernelInv /\ BlockedInv
  BY InitKernel, InitWaiters
<1>2. KernelInv /\ BlockedInv /\ [Next]_vars => (KernelInv /\ BlockedInv)'
  <2> SUFFICES ASSUME KernelInv, BlockedInv, [Next]_vars PROVE (KernelInv /\ BlockedInv)'
    OBVIOUS
  <2>1. KernelInv'
    BY NextKernel
  <2>2. CASE Next
    BY <2>1, <2>2, BlockedStep
  <2>3. CASE UNCHANGED vars
    BY <2>1, <2>3 DEF vars, BlockedInv, IsBlocked
  <2> QED
    BY <2>2, <2>3
<1>3. BlockedInv => OnlyBlockingCallsBlock
  BY DEF BlockedInv, IsBlocked, OnlyBlockingCallsBlock
<1> QED
  BY <1>1, <1>2, <1>3, PTL DEF Spec

(* The pointers of kozos.c implement the FIFO scheduler: threads of a priority
   run in the order in which they became ready, and every kernel entry takes the
   caller off the front and puts threads that were not ready at the back. *)
THEOREM KernelImplementsFifoScheduler ==
  ASSUME ~WakeReady
  PROVE  Spec => ImplementsFifoScheduler
<1>1. Init => Scheduler!Init
  BY InitQueues
<1>2. KernelInv /\ QueuesInv /\ WaitersInv /\ [Next]_vars => [Scheduler!Next]_(Scheduler!vars)
  <2> SUFFICES ASSUME KernelInv, QueuesInv, WaitersInv, [Next]_vars
               PROVE  Scheduler!Next \/ UNCHANGED Scheduler!vars
    OBVIOUS
  <2>1. CASE Next
    BY <2>1, QueuesStep
  <2>2. CASE UNCHANGED vars
    <3>1. rq' = rq /\ current' = current /\ mode' = mode
      BY <2>2 DEF vars
    <3>2. [p \in Priority |-> QueueSeq(p)]' = [p \in Priority |-> QueueSeq(p)]
      BY <3>1 DEF QueueSeq
    <3> QED
      BY <3>1, <3>2 DEF Scheduler!vars
  <2> QED
    BY <2>1, <2>2
<1> QED
  BY <1>1, <1>2, InvariantQueues, PTL DEF Spec, ImplementsFifoScheduler, Scheduler!Spec
=============================================================================
