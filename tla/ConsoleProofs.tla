--------------------------- MODULE ConsoleProofs ---------------------------
(***************************************************************************)
(* Theorems about the console, for any number of threads (three or more),  *)
(* priorities, pools and blocks, any prompt, command word and lines: it    *)
(* uses the kernel as an application may, its sending never stalls, its    *)
(* port is always ready, its buffers are there before the first interrupt, *)
(* and it stops for want of memory only.                                   *)
(*                                                                         *)
(* What makes it work is that the three threads never run at the same      *)
(* time: the driver runs until it waits for a message, the shell only      *)
(* while the driver waits, and idle only while both do.  Running derives   *)
(* that from the priorities and the ready queues of KozosQueueProofs.      *)
(***************************************************************************)
EXTENDS ConsoleRefinement, KozosBoxProofs, KozosQueueProofs

(* What the theorems about the kernel say, all of it. *)
KernelHolds == KernelInv /\ QueuesInv /\ WaitersInv /\ BlockedInv /\ BlocksInv

(* idle has not lowered its priority yet. *)
Booting == pc[Idle] \in {"run_consdrv", "run_command", "chpri"}

(* Where the threads may be. *)
Labels ==
  /\ pc = [t \in Thread |-> pc[t]]
  /\ pc[Idle] \in {"run_consdrv", "run_command", "chpri", "enable", "sleep"}
  /\ pc[Consdrv] \in {"setintr", "recv", "command", "use_recv", "use_init", "write_copy",
                      "write_test", "write_start", "write_enable", "free"}
  /\ pc[Command] \in {"use_alloc", "use_send", "prompt_alloc", "prompt_send", "recv",
                      "reply_alloc", "reply_send", "end_alloc", "end_send", "free"}

(* Who exists, how urgent, and who waits where. *)
Roles ==
  /\ func = {Idle} \cup {t \in {Consdrv} : pc[Idle] # "run_consdrv"}
                   \cup {t \in {Command} : pc[Idle] \notin {"run_consdrv", "run_command"}}
  /\ rq.priority[Idle] = IF Booting THEN 0 ELSE 15
  /\ Consdrv \in func => rq.priority[Consdrv] = 1
  /\ Command \in func => rq.priority[Command] = 8
  /\ Booting => pc[Consdrv] = "setintr"
  /\ pc[Consdrv] = "setintr" => pc[Command] = "use_alloc"
  /\ \A t \in Thread : syscall[t].type # "SLEEP"
  /\ mb.reciever[CONSOUTPUT] \in {NULL, Consdrv}
  /\ mb.reciever[CONSINPUT] \in {NULL, Command}
  /\ mb.head[CONSOUTPUT] = NULL

DriverWaits == mb.reciever[CONSOUTPUT] # NULL
ShellWaits  == mb.reciever[CONSINPUT] # NULL
-----------------------------------------------------------------------------
(* The three threads, the two boxes and the null pointer are different things. *)
LEMMA Names ==
  /\ Idle \in Thread /\ Consdrv \in Thread /\ Command \in Thread
  /\ Idle # Consdrv /\ Idle # Command /\ Consdrv # Command
  /\ NULL \notin Thread /\ NULL \notin Block /\ STATIC \notin Block
  /\ CONSINPUT \in MsgBox /\ CONSOUTPUT \in MsgBox /\ CONSINPUT # CONSOUTPUT
  /\ MsgBox = {CONSINPUT, CONSOUTPUT}
BY ReadyAssumption, PoolAssumption, ConsoleAssumption DEF Idle, Consdrv, Command, Thread

(* What the theorems about the kernel say holds of the console from the start, *)
LEMMA InitHolds == Init => KernelHolds
BY InitKernel, InitQueues, InitWaiters, InitBlocks DEF KernelHolds

(* and as long as its steps are kernel entries. *)
LEMMA NextHolds == KernelHolds /\ [Next]_vars => KernelHolds'
<1> SUFFICES ASSUME KernelHolds, [Next]_vars PROVE KernelHolds'
  OBVIOUS
<1>1. ~WakeReady /\ \A v \in IntrTypes : IsVector(v)
  BY ConsoleAssumption DEF IsVector, SERINTR, SOFTVEC_TYPE_NUM
<1>2. KernelInv' /\ BlocksInv'
  BY NextKernel, NextBlocks DEF KernelHolds
<1>3. CASE Next
  BY <1>1, <1>2, <1>3, QueuesStep, WaitersStep, BlockedStep DEF KernelHolds
<1>4. CASE UNCHANGED vars
  BY <1>2, <1>4 DEF KernelHolds, vars, QueuesInv, WaitersInv, QueueSeq, InRecvOf, BlockedInv, IsBlocked
<1> QED
  BY <1>3, <1>4

(* The running thread is the most urgent one that is ready. *)
LEMMA MostUrgent ==
  ASSUME KernelHolds, mode = "run", NEW t \in func, rq.ready[t]
  PROVE  rq.priority[current] <= rq.priority[t]
<1>1. PICK p \in Priority : p = rq.priority[t]
  BY DEF KernelHolds, KernelInv, SchedInv, QInv, ReadyQueues
<1>2. t \in ReadyAt(rq, p)
  BY <1>1 DEF ReadyAt, KernelHolds, KernelInv, SchedInv
<1>3. PICK s : QueueIs(rq, p, s)
  BY DEF KernelHolds, QueuesInv, Holds
<1>4. s # <<>>
  BY <1>2, <1>3 DEF QueueIs, Nodes
<1>5. rq.head[p] # NULL
  BY <1>3, <1>4, QueueEnds
<1>6. current \in Thread /\ rq.priority[current] \in Priority
  BY DEF KernelHolds, KernelInv, SchedInv, QInv, ReadyQueues
<1>7. ~(p < rq.priority[current])
  BY <1>1, <1>5 DEF KernelHolds, KernelInv, SchedInv, CallerIsHead
<1> QED
  BY <1>1, <1>6, <1>7, ReadyAssumption DEF Priority

(* A thread is ready exactly if it is registered nowhere. *)
LEMMA ReadyIs ==
  ASSUME KernelHolds, Roles, NEW t \in func
  PROVE  rq.ready[t] <=> \A id \in MsgBox : mb.reciever[id] # t
<1>1. t \in Thread /\ t # NULL
  BY Names DEF KernelHolds, KernelInv, SchedInv
<1>2. ASSUME ~rq.ready[t] PROVE \E id \in MsgBox : mb.reciever[id] = t
  BY <1>1, <1>2 DEF KernelHolds, BlockedInv, IsBlocked, Roles
<1>3. ASSUME NEW id \in MsgBox, mb.reciever[id] = t PROVE ~rq.ready[t]
  BY <1>1, <1>3 DEF KernelHolds, WaitersInv
<1> QED
  BY <1>2, <1>3

(* Who runs. *)
LEMMA Running ==
  ASSUME KernelHolds, Labels, Roles, mode = "run"
  PROVE  current = IF Booting THEN Idle
                   ELSE IF ~DriverWaits THEN Consdrv
                   ELSE IF ~ShellWaits THEN Command ELSE Idle
<1>1. current \in func /\ rq.ready[current]
  BY DEF KernelHolds, KernelInv, SchedInv, CallerIsHead
<1>2. func \subseteq {Idle, Consdrv, Command} /\ Idle \in func
  BY DEF Roles
<1>3. rq.ready[Idle]
  BY <1>2, Names, ReadyIs DEF Roles
<1>4. CASE Booting
  <2>1. rq.priority[Idle] = 0 /\ rq.priority[current] <= 0
    BY <1>2, <1>3, <1>4, MostUrgent DEF Roles
  <2> QED
    BY <1>1, <1>2, <1>4, <2>1 DEF Roles
<1>5. CASE ~Booting
  <2>1. /\ Consdrv \in func /\ Command \in func /\ rq.priority[Consdrv] = 1
        /\ rq.priority[Command] = 8 /\ rq.priority[Idle] = 15
    BY <1>5 DEF Roles, Booting
  <2>2. /\ rq.ready[Consdrv] <=> ~DriverWaits
        /\ rq.ready[Command] <=> ~ShellWaits
    BY <2>1, Names, ReadyIs DEF Roles, DriverWaits, ShellWaits
  <2>3. /\ rq.ready[Consdrv] => rq.priority[current] <= 1
        /\ rq.ready[Command] => rq.priority[current] <= 8
    BY <2>1, MostUrgent
  <2> QED
    BY <1>1, <1>2, <1>5, <2>1, <2>2, <2>3
<1> QED
  BY <1>4, <1>5
-----------------------------------------------------------------------------
(* Where blocks are: what one thread holds no other does, no message carries
   and no pool has to give. *)
BlocksApart ==
  /\ held \in [Thread -> SUBSET Block]
  /\ \A t, u \in Thread, b \in Block : b \in held[t] /\ b \in held[u] => t = u
  /\ \A id \in MsgBox : Ends(mb, id) \subseteq Block
  /\ \A id \in MsgBox : \A m \in Ends(mb, id) : \A t \in Thread : mb.data[m] \notin held[t]
  /\ \A i \in Pool : mem.free[i] # NULL =>
       /\ mem.free[i] \in Block
       /\ \A t \in Thread : mem.free[i] \notin held[t]
       /\ \A id \in MsgBox : \A m \in Ends(mb, id) : mb.data[m] # mem.free[i]

LEMMA Apart == KernelHolds => BlocksApart
<1> SUFFICES ASSUME KernelHolds PROVE BlocksApart
  OBVIOUS
<1>1. /\ mb \in Boxes /\ mem \in Pools /\ held \in [Thread -> SUBSET Block]
  BY Books DEF KernelHolds
<1>2. PICK used \in SUBSET Block : ExactLists(mem, used) /\ Accounted(used, {}, mb, held)
  BY Books DEF KernelHolds
<1>3. \A id \in MsgBox : Ends(mb, id) \subseteq Block /\ Ends(mb, id) \subseteq InBoxes(mb)
  BY <1>1 DEF Ends, Boxes, InBoxes
<1>4. \A b \in Block : /\ \A o, p \in Owners(mb, held, b) : o = p
                       /\ b \notin used => Owners(mb, held, b) = {}
  BY <1>1, <1>2, AccountedApart DEF Accounted
<1>5. \A t \in Thread, b \in Block : b \in held[t] => <<"held", t>> \in Owners(mb, held, b)
  BY OwnersAre
<1>6. \A m \in InBoxes(mb), b \in Block : mb.data[m] = b => <<"data", m>> \in Owners(mb, held, b)
  BY OwnersAre
<1>7. ASSUME NEW t \in Thread, NEW u \in Thread, NEW b \in Block, b \in held[t], b \in held[u]
      PROVE  t = u
  <2>1. <<"held", t>> = <<"held", u>>
    BY <1>4, <1>5, <1>7
  <2> QED
    BY <2>1
<1>8. ASSUME NEW m \in InBoxes(mb), NEW t \in Thread, mb.data[m] \in held[t] PROVE FALSE
  <2>1. PICK b \in Block : b = mb.data[m]
    BY <1>1, <1>8
  <2>2. <<"held", t>> \in Owners(mb, held, b) /\ <<"data", m>> \in Owners(mb, held, b)
    BY <1>5, <1>6, <1>8, <2>1
  <2>3. <<"held", t>> = <<"data", m>>
    BY <1>4, <2>2
  <2> QED
    BY <2>3
<1>9. ASSUME NEW i \in Pool, mem.free[i] # NULL
      PROVE  mem.free[i] \in Block /\ mem.free[i] \notin used
  BY <1>1, <1>2, <1>9, AllocLists DEF PoolBlocks
<1>10. \A i \in Pool : mem.free[i] # NULL =>
         /\ mem.free[i] \in Block
         /\ \A t \in Thread : mem.free[i] \notin held[t]
         /\ \A m \in InBoxes(mb) : mb.data[m] # mem.free[i]
  BY <1>4, <1>5, <1>6, <1>9
<1> QED
  BY <1>1, <1>3, <1>7, <1>8, <1>10 DEF BlocksApart

(* What kz_kmalloc and kz_recv return. *)
LEMMA ReturnedOne ==
  ASSUME NEW t \in Thread, NEW b, b \notin held[t], held'[t] = held[t] \cup {b},
         \A u \in Thread : u # t => held'[u] \subseteq held[u],
         NEW before, Returned(before)
  PROVE  ret' = [u \in Thread |-> IF u = t THEN b ELSE before[u]]
<1>1. held'[t] \ held[t] = {b} /\ \A u \in Thread : u # t => held'[u] \ held[u] = {}
  OBVIOUS
<1>2. (CHOOSE x \in {b} : TRUE) = b /\ {b} # {}
  OBVIOUS
<1> QED
  BY <1>1, <1>2 DEF Returned

(* Nor does a call that brings no block change what was returned. *)
LEMMA ReturnedNone ==
  ASSUME \A u \in Thread : held'[u] \subseteq held[u], NEW before, Returned(before)
  PROVE  ret' = [u \in Thread |-> before[u]]
<1>1. \A u \in Thread : held'[u] \ held[u] = {}
  OBVIOUS
<1> QED
  BY <1>1 DEF Returned

(* The length of a box is the number of its ends. *)
PendingAre == \A id \in MsgBox : Pending(id) = Len(BoxSeq(mb, id))

LEMMA PendingLen == KernelHolds => PendingAre
<1> SUFFICES ASSUME KernelHolds, NEW id \in MsgBox PROVE Pending(id) = Len(BoxSeq(mb, id))
  BY DEF PendingAre
<1>1. mb \in Boxes /\ BoxShape(mb)
  BY Books DEF KernelHolds
<1> DEFINE s == ListSeq(mb.next, mb.head[id], Cardinality(Block))
<1>2. s = BoxSeq(mb, id)
  BY <1>1, BoxList
<1>3. Pending(id) = Len(s)
  BY DEF Pending
<1> QED
  BY <1>2, <1>3
-----------------------------------------------------------------------------
(* What does not change when a thread in use calls. *)
RolesKept ==
  /\ func' = func /\ rq'.priority = rq.priority
  /\ (\A t \in Thread : syscall[t].type # "SLEEP") => \A t \in Thread : syscall'[t].type # "SLEEP"

LEMMA NoSleep ==
  ASSUME KernelHolds, NEW type, type # "SLEEP", NEW id, Syscall(type, id)
  PROVE  (\A t \in Thread : syscall[t].type # "SLEEP") =>
            \A t \in Thread : syscall'[t].type # "SLEEP"
BY DEF Syscall, NoCall, KernelHolds, KernelInv, RestOK, SchedInv

(* Only kz_run and kz_chpri change a priority. *)
LEMMA SamePriorities ==
  ASSUME KernelHolds, mode = "run"
  PROVE  /\ QInv(Removed) /\ Removed.priority = rq.priority /\ current \in Thread
         /\ QInv(put(Removed, current)) /\ put(Removed, current).priority = rq.priority
         /\ \A t \in Thread : put(put(Removed, current), t).priority = rq.priority
         /\ \A t \in Thread : put(rq, t).priority = rq.priority
<1>1. QInv(Removed) /\ Removed.priority = rq.priority /\ current \in Thread /\ QInv(rq)
  BY RemovedCaller DEF KernelHolds, KernelInv, SchedInv
<1>2. QInv(put(Removed, current)) /\ put(Removed, current).priority = rq.priority
  BY <1>1, PutFields, PutInv, ZenonT(60)
<1>3. \A t \in Thread : put(rq, t).priority = rq.priority
  BY <1>1, PutFields
<1>4. ASSUME NEW t \in Thread PROVE put(put(Removed, current), t).priority = rq.priority
  BY <1>2, PutFields, ZenonT(60)
<1> QED
  BY <1>1, <1>2, <1>3, <1>4

(* What each kernel call of the console does to roles, boxes and blocks. *)
LEMMA KmallocEffect ==
  ASSUME KernelHolds, NEW size, thread_kmalloc(size)
  PROVE  /\ RolesKept /\ ccr' = ccr /\ mb' = mb
         /\ \/ \E i \in Pool :
                 mem.free[i] # NULL /\ held' = [held EXCEPT ![current] = @ \cup {mem.free[i]}]
            \/ mode' = "down" /\ held' = held
<1>1. mode = "run"
  BY DEF thread_kmalloc, Syscall
<1> QED
  BY <1>1, SamePriorities, NoSleep
  DEF thread_kmalloc, RolesKept, Dispatch, Halt, threadVars, ipcVars, FirstFit, Fits

LEMMA KmfreeEffect ==
  ASSUME KernelHolds, NEW b, thread_kmfree(b)
  PROVE  /\ RolesKept /\ ccr' = ccr /\ mb' = mb /\ b \in held[current]
         /\ held' = [held EXCEPT ![current] = @ \ {b}]
<1>1. mode = "run"
  BY DEF thread_kmfree, Syscall
<1> QED
  BY <1>1, SamePriorities, NoSleep DEF thread_kmfree, RolesKept, Dispatch, threadVars

LEMMA SetintrEffect ==
  ASSUME KernelHolds, NEW v, thread_setintr(v)
  PROVE  RolesKept /\ ccr' = ccr /\ mb' = mb /\ held' = held
<1>1. mode = "run"
  BY DEF thread_setintr, Syscall
<1> QED
  BY <1>1, SamePriorities, NoSleep DEF thread_setintr, RolesKept, Dispatch, threadVars, ipcVars

LEMMA SetCcrEffect ==
  ASSUME KernelHolds, NEW masked, SetCcr(masked)
  PROVE  /\ RolesKept /\ mb' = mb /\ held' = held /\ mode' = mode /\ current' = current
         /\ ccr' = [ccr EXCEPT ![current] = masked]
BY DEF SetCcr, RolesKept, ipcVars
-----------------------------------------------------------------------------
(* A message comes to box id, and the other box is left alone. *)
OthersSame(id) ==
  \A k \in MsgBox : k # id =>
    /\ mb'.head[k] = mb.head[k] /\ mb'.tail[k] = mb.tail[k]
    /\ mb'.reciever[k] = mb.reciever[k]
    /\ \A c \in Ends(mb, k) : mb'.data[c] = mb.data[c]

Queued(id, data, h) ==
  /\ mb.reciever[id] = NULL /\ mb'.reciever[id] = NULL /\ held' = h
  /\ \E b \in Block : /\ Ends(mb', id) \subseteq Ends(mb, id) \cup {b} /\ mb'.data[b] = data
                      /\ mb'.head[id] = IF mb.head[id] = NULL THEN b ELSE mb.head[id]
                      /\ mb'.tail[id] = b /\ b \notin Ends(mb, id)
  /\ \A c \in Ends(mb, id) : mb'.data[c] = mb.data[c]

Handed(id, data, h) ==
  /\ mb.reciever[id] # NULL /\ mb'.reciever[id] = NULL /\ mb'.head[id] = NULL
  /\ mb'.tail[id] = NULL
  /\ held' = [h EXCEPT ![mb.reciever[id]] = @ \cup ({data} \cap Block)]

LEMMA PostEffect ==
  ASSUME KernelHolds, NEW q, QInv(q), q.priority = rq.priority,
         NEW m \in Pools, NEW used \in SUBSET Block, ExactLists(m, used),
         NEW h \in [Thread -> SUBSET Block], NEW from \in ThreadPtr, NEW id \in MsgBox,
         NEW data \in Block \cup {STATIC}, Accounted(used, {data} \cap Block, mb, h),
         Pending(id) < MaxPending, Post(q, m, h, from, id, data)
  PROVE  \/ mode' # "run" /\ rq' = rq /\ UNCHANGED ipcVars
         \/ /\ rq'.priority = rq.priority /\ OthersSame(id)
            /\ Queued(id, data, h) \/ Handed(id, data, h)
<1>0. /\ mb \in Boxes /\ WaitsEmpty(mb) /\ BoxShape(mb) /\ func \subseteq Thread
      /\ BoxesApart(mb) /\ InBoxes(mb) \subseteq Block /\ KernelInv /\ BlocksInv
  BY AccountedApart DEF KernelHolds, KernelInv, IpcInv, SchedInv, BlocksInv
<1>1. CASE Halt("down") \/ Halt("wild")
  BY <1>1 DEF Halt
<1>2. ASSUME NEW i \in Pool, FirstFit(m, MSGBUF_SIZE, i), NEW b, b = m.free[i],
             NEW x, x = sendmsg(mb, id, b, from, data)
      PROVE  /\ b \in Block /\ b \notin InBoxes(mb)
             /\ x \in Boxes /\ BoxShape(x) /\ BoxesApart(x) /\ x.reciever = mb.reciever
             /\ x.head[id] = IF mb.head[id] = NULL THEN b ELSE mb.head[id]
             /\ x.tail[id] = b
             /\ \A k \in MsgBox : k # id => x.head[k] = mb.head[k] /\ x.tail[k] = mb.tail[k]
             /\ \A c \in Block : x.data[c] = IF c = b THEN data ELSE mb.data[c]
  <2>1. /\ b \in Block \ used /\ b \notin InBoxes(mb) /\ kzmem_alloc(m, i) \in Pools
        /\ ExactLists(kzmem_alloc(m, i), used \cup {b})
        /\ x \in Boxes /\ BoxShape(x) /\ BoxesApart(x)
        /\ mb.head[id] = NULL => x.head[id] = b /\ x.data[b] = data
        /\ Accounted(used \cup {b}, {}, x, h)
    <3>1. KernelInv /\ BlocksInv
      BY DEF KernelHolds
    <3> QED
      BY <1>2, <3>1, SentBlocks, SMTT(30)
  <2> QED
    BY <1>0, <1>2, <2>1, SendmsgFields
<1>3. \A k \in MsgBox : Ends(mb, k) \subseteq InBoxes(mb)
  BY DEF InBoxes
<1>4. ASSUME NEW i \in Pool, FirstFit(m, MSGBUF_SIZE, i), NEW b, b = m.free[i],
             NEW x, x = sendmsg(mb, id, b, from, data), mb' = x, mb.reciever[id] = NULL,
             held' = h, Dispatch(q)
      PROVE  rq'.priority = rq.priority /\ OthersSame(id) /\ Queued(id, data, h)
  <2>1. /\ Ends(x, id) \subseteq Ends(mb, id) \cup {b} /\ b \in Block /\ x.data[b] = data
        /\ x.head[id] = (IF mb.head[id] = NULL THEN b ELSE mb.head[id]) /\ x.tail[id] = b
        /\ b \notin Ends(mb, id)
    BY <1>2, <1>3, <1>4 DEF Ends
  <2>2. \A k \in MsgBox : \A c \in Ends(mb, k) : x.data[c] = mb.data[c]
    BY <1>0, <1>2, <1>3, <1>4
  <2>3. rq'.priority = rq.priority
    BY <1>4 DEF Dispatch
  <2> QED
    BY <1>2, <1>4, <2>1, <2>2, <2>3 DEF OthersSame, Queued
<1>5. ASSUME NEW i \in Pool, FirstFit(m, MSGBUF_SIZE, i), NEW b, b = m.free[i],
             NEW x, x = sendmsg(mb, id, b, from, data),
             NEW r, r = mb.reciever[id], r # NULL, r \in func, mb' = recvmsg(x, id),
             held' = Deliver(h, x, id, r), Dispatch(put(q, r))
      PROVE  rq'.priority = rq.priority /\ OthersSame(id) /\ Handed(id, data, h)
  <2>1. /\ b \in Block /\ b \notin InBoxes(mb) /\ x.head[id] = b /\ x.tail[id] = b
        /\ x \in Boxes /\ BoxShape(x) /\ BoxesApart(x) /\ x.reciever = mb.reciever
        /\ \A k \in MsgBox : k # id => x.head[k] = mb.head[k] /\ x.tail[k] = mb.tail[k]
        /\ \A c \in Block : x.data[c] = IF c = b THEN data ELSE mb.data[c]
    BY <1>0, <1>2, <1>5 DEF WaitsEmpty
  <2>2. b # NULL
    BY <2>1, Names
  <2>3. PICK y : y = recvmsg(x, id)
    OBVIOUS
  <2>4. /\ \A k \in MsgBox : /\ y.reciever[k] = IF k = id THEN NULL ELSE x.reciever[k]
                             /\ k # id => y.head[k] = x.head[k] /\ y.tail[k] = x.tail[k]
        /\ y.head[id] = IF b = x.tail[id] THEN NULL ELSE x.tail[id]
        /\ y.tail[id] = IF b = x.tail[id] THEN NULL ELSE x.tail[id]
        /\ \A c \in Block : y.data[c] = IF c = b THEN NULL ELSE x.data[c]
    BY <2>1, <2>2, <2>3, RecvmsgFields
  <2>5. OthersSame(id)
    <3> SUFFICES ASSUME NEW k \in MsgBox, k # id
                 PROVE  /\ y.head[k] = mb.head[k] /\ y.tail[k] = mb.tail[k]
                        /\ y.reciever[k] = mb.reciever[k]
                        /\ \A c \in Ends(mb, k) : y.data[c] = mb.data[c]
      BY <1>5, <2>3 DEF OthersSame
    <3>1. Ends(mb, k) \subseteq Block /\ b \notin Ends(mb, k)
      BY <1>0, <1>3, <2>1
    <3> QED
      BY <2>1, <2>4, <3>1
  <2>6. put(q, r).priority = q.priority
    BY <1>0, <1>5, PutFields
  <2>7. rq'.priority = rq.priority
    BY <1>5, <2>6 DEF Dispatch
  <2> QED
    BY <1>5, <2>1, <2>3, <2>4, <2>5, <2>7, ZenonT(60) DEF Handed, Deliver
<1> QED
  BY <1>1, <1>4, <1>5 DEF Post, InRecvOf

(* kz_send, and *)
LEMMA SendEffect ==
  ASSUME KernelHolds, NEW id \in MsgBox, NEW data \in Block, thread_send(id, data)
  PROVE  /\ func' = func /\ ccr' = ccr /\ mode = "run" /\ data \in held[current]
         /\ \/ mode' # "run" /\ rq' = rq /\ UNCHANGED ipcVars
            \/ /\ RolesKept /\ OthersSame(id)
               /\ \/ Queued(id, data, [held EXCEPT ![current] = @ \ {data}])
                  \/ Handed(id, data, [held EXCEPT ![current] = @ \ {data}])
<1>1. PICK used \in SUBSET Block : ExactLists(mem, used) /\ Accounted(used, {}, mb, held)
  BY Books DEF KernelHolds
<1>2. PICK h : h = [held EXCEPT ![current] = @ \ {data}]
  OBVIOUS
<1>3. PICK q : q = put(Removed, current)
  OBVIOUS
<1>4. /\ data \in held[current] \cup {STATIC} /\ Pending(id) < MaxPending /\ mode = "run"
      /\ Post(q, mem, h, current, id, data) /\ func' = func /\ ccr' = ccr
  BY <1>2, <1>3 DEF thread_send, threadVars, Syscall
<1>5. data \in held[current] /\ {} \cup ({data} \cap Block) = {data} \cap Block
  BY <1>4, PoolAssumption
<1>6. Accounted(used, {} \cup ({data} \cap Block), mb, h)
  BY <1>1, <1>2, <1>4, Books, DropBlock DEF KernelHolds
<1>7. /\ h \in [Thread -> SUBSET Block] /\ current \in ThreadPtr /\ mem \in Pools
      /\ Accounted(used, {data} \cap Block, mb, h)
  BY <1>2, <1>5, <1>6, Books DEF KernelHolds
<1>8. QInv(q) /\ q.priority = rq.priority
  BY <1>3, <1>4, SamePriorities
<1>9. \/ mode' # "run" /\ rq' = rq /\ UNCHANGED ipcVars
      \/ /\ rq'.priority = rq.priority /\ OthersSame(id)
         /\ Queued(id, data, h) \/ Handed(id, data, h)
  BY <1>1, <1>4, <1>7, <1>8, PostEffect
<1>10. (\A t \in Thread : syscall[t].type # "SLEEP") => \A t \in Thread : syscall'[t].type # "SLEEP"
  BY NoSleep DEF thread_send
<1> QED
  BY <1>2, <1>4, <1>5, <1>9, <1>10 DEF RolesKept

(* kz_recv. *)
LEMMA RecvEffect ==
  ASSUME KernelHolds, NEW id \in MsgBox, thread_recv(id)
  PROVE  /\ func' = func /\ ccr' = ccr /\ mode = "run"
         /\ \/ mode' # "run" /\ rq' = rq /\ UNCHANGED ipcVars
            \/ /\ RolesKept /\ OthersSame(id) /\ mb.reciever[id] = NULL
               /\ \/ /\ mb.head[id] \in Ends(mb, id) /\ mb'.reciever[id] = NULL
                     /\ Ends(mb', id) \subseteq Ends(mb, id)
                     /\ mb'.tail[id] = mb'.head[id]
                     /\ mb'.head[id] = IF mb.head[id] = mb.tail[id] THEN NULL ELSE mb.tail[id]
                     /\ Len(BoxSeq(mb', id)) < Len(BoxSeq(mb, id))
                     /\ \A c \in Ends(mb', id) : mb'.data[c] = mb.data[c]
                     /\ held' = [held EXCEPT ![current] = @ \cup ({mb.data[mb.head[id]]} \cap Block)]
                  \/ /\ mb.head[id] = NULL /\ held' = held
                     /\ mb' = [mb EXCEPT !.reciever[id] = current]
<1>0. /\ mb \in Boxes /\ BoxShape(mb) /\ BoxesApart(mb) /\ InBoxes(mb) \subseteq Block
      /\ KernelInv /\ BlocksInv /\ current \in Thread
  BY Books, AccountedApart DEF KernelHolds
<1>1. mode = "run" /\ func' = func /\ ccr' = ccr
  BY DEF thread_recv, Syscall, threadVars
<1>2. (\A t \in Thread : syscall[t].type # "SLEEP") => \A t \in Thread : syscall'[t].type # "SLEEP"
  BY NoSleep DEF thread_recv
<1>3. CASE Halt("down")
  BY <1>1, <1>3 DEF Halt
<1>4. ASSUME mb.reciever[id] = NULL, wait_msg_of(id), mb' = recvmsg(mb, id),
             held' = Deliver(held, mb, id, current), Dispatch(put(Removed, current))
      PROVE  /\ RolesKept /\ OthersSame(id)
             /\ mb.head[id] \in Ends(mb, id) /\ mb'.reciever[id] = NULL
             /\ Ends(mb', id) \subseteq Ends(mb, id)
             /\ mb'.tail[id] = mb'.head[id]
             /\ mb'.head[id] = IF mb.head[id] = mb.tail[id] THEN NULL ELSE mb.tail[id]
             /\ Len(BoxSeq(mb', id)) < Len(BoxSeq(mb, id))
             /\ \A c \in Ends(mb', id) : mb'.data[c] = mb.data[c]
             /\ held' = [held EXCEPT ![current] = @ \cup ({mb.data[mb.head[id]]} \cap Block)]
  <2>1. PICK f, y : f = mb.head[id] /\ y = recvmsg(mb, id)
    OBVIOUS
  <2>2. f # NULL
    BY <1>4, <2>1 DEF wait_msg_of
  <2>3. /\ f \in Block
        /\ \A k \in MsgBox : /\ y.reciever[k] = IF k = id THEN NULL ELSE mb.reciever[k]
                             /\ k # id => y.head[k] = mb.head[k] /\ y.tail[k] = mb.tail[k]
        /\ y.head[id] = IF f = mb.tail[id] THEN NULL ELSE mb.tail[id]
        /\ y.tail[id] = IF f = mb.tail[id] THEN NULL ELSE mb.tail[id]
        /\ \A c \in Block : y.data[c] = IF c = f THEN NULL ELSE mb.data[c]
    BY <1>0, <2>1, <2>2, RecvmsgFields
  <2>4. mb.tail[id] # NULL
    BY <1>0, <2>1, <2>2 DEF BoxShape
  <2>5. \A k \in MsgBox : Ends(mb, k) \subseteq Block /\ (k # id => f \notin Ends(mb, k))
    BY <1>0, <2>1, <2>2 DEF InBoxes, BoxesApart, Ends
  <2>6. OthersSame(id)
    BY <1>4, <2>1, <2>3, <2>5 DEF OthersSame
  <2>7. /\ f \in Ends(mb, id) /\ Ends(y, id) \subseteq Ends(mb, id) /\ f \notin Ends(y, id)
    BY <2>1, <2>2, <2>3 DEF Ends
  <2>8. \A c \in Ends(y, id) : y.data[c] = mb.data[c]
    BY <2>3, <2>5, <2>7
  <2>9. Len(BoxSeq(y, id)) < Len(BoxSeq(mb, id))
    BY <2>1, <2>2, <2>3, <2>4 DEF BoxSeq
  <2>10. RolesKept
    BY <1>1, <1>2, <1>4, SamePriorities DEF RolesKept, Dispatch
  <2> QED
    BY <1>4, <2>1, <2>3, <2>6, <2>7, <2>8, <2>9, <2>10 DEF Deliver
<1>5. ASSUME mb.reciever[id] = NULL, ~wait_msg_of(id), mb' = [mb EXCEPT !.reciever[id] = current],
             Dispatch(Removed), UNCHANGED <<mem, held>>
      PROVE  /\ RolesKept /\ OthersSame(id) /\ mb.head[id] = NULL /\ held' = held
  <2>1. RolesKept
    BY <1>1, <1>2, <1>5, SamePriorities DEF RolesKept, Dispatch
  <2>2. OthersSame(id)
    BY <1>0, <1>5 DEF OthersSame, Boxes
  <2> QED
    BY <1>5, <2>1, <2>2 DEF wait_msg_of
<1> QED
  BY <1>1, <1>3, <1>4, <1>5 DEF thread_recv

(* kz_run gives the last vacant TCB its priority, kz_chpri changes one. *)
LEMMA RunEffect ==
  ASSUME KernelHolds, NEW p \in RunPriorities, thread_run(p), mode' = "run",
         NEW t \in Thread \ func, \A u \in Thread \ func : u <= t
  PROVE  /\ mode = "run" /\ func' = func \cup {t} /\ UNCHANGED ipcVars
         /\ rq'.priority[t] = p /\ \A u \in func : rq'.priority[u] = rq.priority[u]
         /\ (\A u \in Thread : syscall[u].type # "SLEEP") =>
               \A u \in Thread : syscall'[u].type # "SLEEP"
<1>1. mode = "run" /\ current \in Thread /\ QInv(Removed) /\ func \subseteq Thread
  BY RemovedCaller DEF thread_run, Syscall, KernelHolds, KernelInv, SchedInv
<1>2. \A u \in Thread : Removed.ready[u] => u \in func
  BY <1>1, RemovedCaller DEF KernelHolds, KernelInv, SchedInv
<1>3. PICK s \in Thread \ func :
        /\ \A u \in Thread \ func : u <= s
        /\ func' = func \cup {s}
        /\ Dispatch(put(put([clear(Removed, Thread \ func) EXCEPT !.priority[s] = p], current), s))
        /\ UNCHANGED ipcVars
  BY DEF thread_run, Halt
<1>4. s = t
  <2>1. s <= t /\ t <= s
    BY <1>3
  <2> QED
    BY <2>1, ReadyAssumption DEF Thread
<1>5. PICK c : c = clear(Removed, Thread \ func)
  OBVIOUS
<1>6. QInv(c) /\ SameReady(Removed, c)
  BY <1>1, <1>2, <1>5, ClearSame
<1>7. p \in Priority /\ ~c.ready[t]
  BY <1>2, <1>6, KozosAssumption DEF SameReady
<1>8. PICK f : f = [c EXCEPT !.priority[t] = p]
  OBVIOUS
<1>9. QInv(f)
  BY <1>6, <1>7, <1>8, PrioritySame
<1>10. PICK q : q = put(f, current)
  OBVIOUS
<1>11. QInv(q) /\ q.priority = f.priority
  BY <1>1, <1>9, <1>10, PutFields, PutInv
<1>12. put(q, t).priority = f.priority
  BY <1>11, PutFields, ZenonT(60)
<1>13. rq'.priority = f.priority
  BY <1>3, <1>4, <1>5, <1>8, <1>10, <1>12 DEF Dispatch
<1>14. \A u \in func : c.priority[u] = rq.priority[u]
  BY <1>1, <1>5, RemovedCaller DEF clear, QInv, ReadyQueues, KernelHolds, KernelInv
<1>15. f.priority = [c.priority EXCEPT ![t] = p] /\ c.priority \in [Thread -> Priority]
  BY <1>6, <1>8 DEF QInv, ReadyQueues
<1>16. (\A u \in Thread : syscall[u].type # "SLEEP") => \A u \in Thread : syscall'[u].type # "SLEEP"
  BY NoSleep DEF thread_run
<1> QED
  BY <1>1, <1>3, <1>4, <1>13, <1>14, <1>15, <1>16

LEMMA ChpriEffect ==
  ASSUME KernelHolds, NEW p \in Priority, thread_chpri(p)
  PROVE  /\ mode = "run" /\ func' = func /\ ccr' = ccr /\ UNCHANGED ipcVars
         /\ rq'.priority = [rq.priority EXCEPT ![current] = p]
         /\ (\A u \in Thread : syscall[u].type # "SLEEP") =>
               \A u \in Thread : syscall'[u].type # "SLEEP"
<1>1. mode = "run" /\ current \in Thread /\ QInv(Removed) /\ ~Removed.ready[current]
      /\ Removed.priority = rq.priority
  BY RemovedCaller DEF thread_chpri, Syscall, KernelHolds, KernelInv, SchedInv
<1>2. PICK c : c = [Removed EXCEPT !.priority[current] = p]
  OBVIOUS
<1>3. QInv(c) /\ c.priority = [rq.priority EXCEPT ![current] = p]
  BY <1>1, <1>2, PrioritySame DEF QInv, ReadyQueues
<1>4. put(c, current).priority = c.priority
  BY <1>1, <1>3, PutFields
<1>5. Dispatch(put(c, current)) /\ func' = func /\ ccr' = ccr /\ UNCHANGED ipcVars
  BY <1>2 DEF thread_chpri, threadVars, ipcVars
<1>6. (\A u \in Thread : syscall[u].type # "SLEEP") => \A u \in Thread : syscall'[u].type # "SLEEP"
  BY NoSleep DEF thread_chpri
<1> QED
  BY <1>1, <1>3, <1>4, <1>5, <1>6 DEF Dispatch
-----------------------------------------------------------------------------
(* What the variables of the console hold. *)
Letter == Char \cup {"use", "write"}

Consreg ==
  [sender : ThreadPtr, send_buf : Block \cup {NULL}, recv_buf : Block \cup {NULL},
   send : Seq(Char), recv : Seq(Char)]

Types ==
  /\ DOMAIN pc = Thread
  /\ ret \in [Thread -> Block \cup {NULL}]
  /\ msg \in Block \cup {NULL} /\ str \in Block \cup {NULL}
  /\ text \in [Block -> Seq(Letter)]
  /\ cons \in Consreg
  /\ port \in Port(Char)

(* The constants are strings of characters. *)
LEMMA Chars ==
  /\ CR \in Char /\ LF \in Char /\ CR # LF
  /\ Prompt \in Seq(Char) /\ EchoWord \in Seq(Char) /\ Unknown \in Seq(Char)
  /\ \A l \in Lines : l \in Seq(Char)
<1>1. CR \in Char /\ LF \in Char
  BY DEF Char
<1> QED
  BY <1>1, ConsoleAssumption

(* What the recursive function of OnWire is: the string sent grows character by
   character. *)
LEMMA OnWireIs ==
  ASSUME NEW s \in Seq(Char)
  PROVE  \E f \in [0 .. Len(s) -> Seq(Char)] :
           /\ OnWire(s) = f[Len(s)]
           /\ \A k \in 0 .. Len(s) :
                f[k] = IF k = 0 THEN <<>>
                       ELSE f[k - 1] \o (IF s[k] = LF THEN <<CR, LF>> ELSE <<s[k]>>)
<1> DEFINE Part(k) == IF s[k] = LF THEN <<CR, LF>> ELSE <<s[k]>>
           Step(f, n) == [k \in 0 .. n |-> IF k = 0 THEN <<>> ELSE f[k - 1] \o Part(k)]
           Maps(f, n) == f \in [0 .. n -> Seq(Char)]
<1>1. Len(s) \in Nat /\ \A k \in 1 .. Len(s) : s[k] \in Char
  OBVIOUS
<1>2. \A k \in 1 .. Len(s) : Part(k) \in Seq(Char)
  BY <1>1, Chars
<1> HIDE DEF Part, Step, Maps
<1>3. \A n \in 0 .. Len(s) : \E f : Maps(f, n) /\ f = Step(f, n)
  <2> SUFFICES ASSUME NEW n \in 0 .. Len(s), ~\E f : Maps(f, n) /\ f = Step(f, n)
               PROVE  FALSE
    OBVIOUS
  <2>1. PICK bad \in SUBSET Nat :
          \A i \in Nat : i \in bad <=> i \in 0 .. Len(s) /\ ~\E f : Maps(f, i) /\ f = Step(f, i)
    <3>1. {i \in Nat : i \in 0 .. Len(s) /\ ~\E f : Maps(f, i) /\ f = Step(f, i)} \in SUBSET Nat
      OBVIOUS
    <3> QED
      BY <3>1
  <2>2. n \in bad
    BY <2>1
  <2>3. PICK m \in bad : \A j \in bad : m <= j
    BY <2>2, LeastElement
  <2>4. m \in 0 .. Len(s) /\ ~\E f : Maps(f, m) /\ f = Step(f, m)
    BY <2>1
  <2>5. CASE m = 0
    <3>1. Maps([k \in 0 .. 0 |-> <<>>], 0) /\ [k \in 0 .. 0 |-> <<>>] = Step([k \in 0 .. 0 |-> <<>>], 0)
      BY DEF Step, Maps
    <3> QED
      BY <2>4, <2>5, <3>1
  <2>6. CASE m # 0
    <3>1. m - 1 \in 0 .. Len(s) /\ m - 1 \notin bad
      BY <1>1, <2>3, <2>4, <2>6
    <3>2. PICK f : Maps(f, m - 1) /\ f = Step(f, m - 1)
      BY <2>1, <3>1
    <3>3. PICK g : g = [k \in 0 .. m |-> IF k = m THEN f[m - 1] \o Part(m) ELSE f[k]]
      OBVIOUS
    <3>4. f[m - 1] \in Seq(Char) /\ Part(m) \in Seq(Char)
      BY <1>1, <1>2, <2>4, <2>6, <3>2 DEF Maps
    <3>5. f[m - 1] \o Part(m) \in Seq(Char)
      BY <3>4
    <3>6. Maps(g, m)
      BY <2>4, <3>2, <3>3, <3>5 DEF Maps
    <3>7. \A k \in 0 .. m : g[k] = IF k = 0 THEN <<>> ELSE g[k - 1] \o Part(k)
      <4> SUFFICES ASSUME NEW k \in 0 .. m
                   PROVE  g[k] = IF k = 0 THEN <<>> ELSE g[k - 1] \o Part(k)
        OBVIOUS
      <4>1. CASE k = m
        <5>1. g[k] = f[m - 1] \o Part(m)
          BY <3>3, <4>1
        <5>2. k - 1 \in 0 .. m /\ k - 1 # m /\ k - 1 = m - 1
          BY <1>1, <2>4, <2>6, <4>1
        <5>3. g[k - 1] = f[m - 1]
          BY <3>3, <5>2
        <5> QED
          BY <2>6, <4>1, <5>1, <5>3
      <4>2. CASE k # m
        <5>1. k \in 0 .. m - 1 /\ g[k] = f[k] /\ (k # 0 => g[k - 1] = f[k - 1])
          BY <1>1, <2>4, <2>6, <3>3, <4>2
        <5>2. f[k] = Step(f, m - 1)[k]
          BY <3>2
        <5>3. f[k] = IF k = 0 THEN <<>> ELSE f[k - 1] \o Part(k)
          BY <5>1, <5>2 DEF Step
        <5> QED
          BY <5>1, <5>3
      <4> QED
        BY <4>1, <4>2
    <3>8. g = [k \in 0 .. m |-> g[k]]
      BY <3>3
    <3>9. g = Step(g, m)
      BY <3>7, <3>8 DEF Step
    <3> QED
      BY <2>4, <3>6, <3>9
  <2> QED
    BY <2>5, <2>6
<1>4. PICK f : Maps(f, Len(s)) /\ f = Step(f, Len(s))
  BY <1>1, <1>3
<1>5. OnWire(s) = (CHOOSE g : g = Step(g, Len(s)))[Len(s)]
  BY Zenon DEF OnWire, Step, Part
<1>6. PICK g : g = (CHOOSE h : h = Step(h, Len(s))) /\ g = Step(g, Len(s))
  BY <1>4
<1>7. ASSUME NEW i \in 0 .. Len(s), \A j \in 0 .. Len(s) : j < i => f[j] = g[j]
      PROVE  f[i] = g[i]
  <2>1. f[i] = Step(f, Len(s))[i] /\ g[i] = Step(g, Len(s))[i]
    BY <1>4, <1>6
  <2>2. i # 0 => f[i - 1] = g[i - 1]
    BY <1>1, <1>7
  <2> QED
    BY <2>1, <2>2 DEF Step
<1>8. AgreesNext(f, g, Len(s))
  BY <1>7 DEF AgreesNext
<1>9. f[Len(s)] = g[Len(s)]
  BY <1>1, <1>8, AgreeStepwise
<1>10. f \in [0 .. Len(s) -> Seq(Char)] /\ OnWire(s) = f[Len(s)]
  BY <1>1, <1>4, <1>5, <1>6, <1>9 DEF Maps
<1>11. ASSUME NEW k \in 0 .. Len(s)
       PROVE  f[k] = IF k = 0 THEN <<>> ELSE f[k - 1] \o Part(k)
  <2>1. f[k] = Step(f, Len(s))[k]
    BY <1>4
  <2> QED
    BY <2>1 DEF Step
<1> QED
  BY <1>10, <1>11 DEF Part

(* They are characters, *)
LEMMA OnWireTyped ==
  ASSUME NEW s \in Seq(Char)
  PROVE  OnWire(s) \in Seq(Char)
<1>1. PICK f \in [0 .. Len(s) -> Seq(Char)] : OnWire(s) = f[Len(s)]
  BY OnWireIs
<1> QED
  BY <1>1

(* and a single one becomes one or two. *)
LEMMA OnWireOne ==
  ASSUME NEW c \in Char
  PROVE  OnWire(<<c>>) = IF c = LF THEN <<CR, LF>> ELSE <<c>>
<1>1. PICK s \in Seq(Char) : s = <<c>>
  <2>1. <<c>> \in Seq(Char)
    OBVIOUS
  <2> QED
    BY <2>1
<1>2. Len(s) = 1 /\ s[1] = c
  BY <1>1
<1>3. PICK f \in [0 .. Len(s) -> Seq(Char)] :
        /\ OnWire(s) = f[Len(s)]
        /\ \A k \in 0 .. Len(s) :
             f[k] = IF k = 0 THEN <<>>
                    ELSE f[k - 1] \o (IF s[k] = LF THEN <<CR, LF>> ELSE <<s[k]>>)
  BY OnWireIs
<1>4. 0 \in 0 .. Len(s) /\ 1 \in 0 .. Len(s)
  BY <1>2
<1>5. f[0] = <<>> /\ OnWire(s) = f[1]
  BY <1>2, <1>3, <1>4
<1>6. f[1] = f[0] \o (IF c = LF THEN <<CR, LF>> ELSE <<c>>)
  <2>1. f[1] = IF 1 = 0 THEN <<>> ELSE f[1 - 1] \o (IF s[1] = LF THEN <<CR, LF>> ELSE <<s[1]>>)
    BY <1>3, <1>4, Zenon
  <2>2. f[1 - 1] = f[0] /\ 1 # 0
    OBVIOUS
  <2> QED
    BY <1>2, <2>1, <2>2, Zenon
<1>7. <<>> \o <<CR, LF>> = <<CR, LF>> /\ <<>> \o <<c>> = <<c>>
  BY Chars
<1> QED
  BY <1>1, <1>5, <1>6, <1>7

(* The messages of the shell. *)
LEMMA WrittenTyped ==
  /\ \A s \in Written : s \in Seq(Char)
  /\ Prompt \in Written /\ <<LF>> \in Written
  /\ \A l \in Lines : Reply(l)[1] \in Written
<1>1. ASSUME NEW l \in Lines PROVE Reply(l)[1] \in Seq(Char)
  <2>1. l \in Seq(Char) /\ Len(EchoWord) \in Nat
    BY Chars
  <2>2. SubSeq(l, Len(EchoWord) + 1, Len(l)) \in Seq(Char)
    BY <2>1
  <2> QED
    BY <2>2, Chars DEF Reply, EchoReply
<1>2. <<LF>> \in Seq(Char)
  BY Chars
<1> QED
  BY <1>1, <1>2, Chars DEF Written

(* "write" in front of one makes a message. *)
LEMMA MessageTyped ==
  ASSUME NEW s \in Written
  PROVE  /\ <<"write">> \o s \in Seq(Letter) /\ Tail(<<"write">> \o s) = s
         /\ Head(<<"write">> \o s) = "write" /\ <<"write">> \o s # <<>>
         /\ <<"write">> \o s # <<"use">>
<1>1. s \in Seq(Char) /\ s \in Seq(Letter)
  BY WrittenTyped DEF Letter
<1>2. <<"write">> \in Seq(Letter)
  BY DEF Letter
<1>3. <<"write">> \o s \in Seq(Letter)
  BY <1>1, <1>2
<1>4. Len(<<"write">> \o s) = Len(s) + 1 /\ (<<"write">> \o s)[1] = "write"
  BY <1>1, <1>2
<1>5. Tail(<<"write">> \o s) = s
  BY <1>1, <1>2
<1>6. PICK x : x = <<"write">> \o s
  OBVIOUS
<1>7. x \in Seq(Letter) /\ Len(x) > 0 /\ x[1] = "write"
  BY <1>1, <1>3, <1>4, <1>6
<1>8. Head(x) = "write" /\ x # <<>>
  BY <1>7
<1>9. \A w : <<w>>[1] = w
  OBVIOUS
<1>10. x # <<"use">>
  BY <1>7, <1>9
<1> QED
  BY <1>3, <1>5, <1>6, <1>8, <1>10

(* The sizes and texts the kernel is asked for. *)
LEMMA SizesAsked ==
  CONS_SIZE \in AllocSizes /\ Len(<<"0">>) + 2 \in AllocSizes
  /\ \A s \in Written : Len(s) + 2 \in AllocSizes
<1>1. PICK zero : zero = <<"0">>
  OBVIOUS
<1>2. \A s \in {zero} \cup Written : Len(s) + 2 \in AllocSizes
  BY <1>1, AllocAssumption
<1> QED
  BY <1>1, <1>2, AllocAssumption

LEMMA NoText == <<>> \in Seq(Letter)
OBVIOUS
-----------------------------------------------------------------------------
(* The driver has been given a message and has not looked at it. *)
Told == pc[Consdrv] = "command" /\ ~DriverWaits

Section == {"write_copy", "write_test", "write_start", "write_enable"}

(* The port has no user yet; it has one, but not both buffers. *)
BeforeUse ==
  pc[Command] \in {"use_alloc", "use_send"} \/ (Told /\ text[ret[Consdrv]] = <<"use">>)

Opening == pc[Consdrv] \in {"use_recv", "use_init"}

WriteOf(m) == \E s \in Written : m = <<"write">> \o s

(* The driver has the message it works on, and it is one the shell sends. *)
DriverInv ==
  /\ DriverWaits => pc[Consdrv] = "command" /\ ret[Consdrv] = NULL
  /\ Told => /\ ret[Consdrv] \in held[Consdrv]
             /\ text[ret[Consdrv]] = <<"use">> \/ WriteOf(text[ret[Consdrv]])
  /\ pc[Command] \in {"use_alloc", "use_send"} =>
       DriverWaits \/ pc[Consdrv] \in {"setintr", "recv"}
  /\ pc[Consdrv] \in {"use_recv", "use_init", "free"} \cup Section => msg \in held[Consdrv]
  /\ pc[Consdrv] \in {"write_copy", "write_test", "write_start"} => WriteOf(text[msg])
  /\ pc[Consdrv] \in Section => ccr[Consdrv] = TRUE

(* Before the port is used nothing is on its way; then the buffers are there,
   and no message is taken for one. *)
UseInv ==
  /\ BeforeUse => cons.sender = NULL
  /\ BeforeUse \/ Opening => cons.send = <<>> /\ cons.recv = <<>> /\ port = serial_init
  /\ Opening => ret[Consdrv] \in held[Consdrv] /\ ret[Consdrv] # msg
  /\ pc[Consdrv] = "use_init" => cons.send_buf \in held[Consdrv] \ {msg, ret[Consdrv]}
  /\ ~BeforeUse => cons.sender = Command
  /\ ~BeforeUse /\ ~Opening =>
       /\ port.rie
       /\ {cons.send_buf, cons.recv_buf} \subseteq held[Consdrv]
       /\ cons.send_buf # cons.recv_buf
       /\ Told => ret[Consdrv] \notin {cons.send_buf, cons.recv_buf}
       /\ pc[Consdrv] \in {"free"} \cup Section => msg \notin {cons.send_buf, cons.recv_buf}

(* The shell has the line it works on and the block it writes to. *)
ShellInv ==
  /\ ShellWaits => pc[Command] = "reply_alloc" /\ ret[Command] = NULL
  /\ pc[Command] = "reply_alloc" /\ ~ShellWaits =>
       ret[Command] \in held[Command] /\ text[ret[Command]] \in Lines
  /\ pc[Command] \in {"use_send", "prompt_send", "reply_send", "end_send"} =>
       ret[Command] \in held[Command]
  /\ pc[Command] \in {"reply_send", "end_alloc", "end_send", "free"} => str \in held[Command]
  /\ pc[Command] \in {"reply_send", "end_send"} => str # ret[Command]
  /\ pc[Command] = "reply_send" => text[str] \in Lines

(* The messages in its box are lines. *)
InputInv ==
  \A b \in Ends(mb, CONSINPUT) : mb.data[b] \in Block /\ text[mb.data[b]] \in Lines

(* Sending is under way, or is about to be started. *)
PortInv ==
  /\ pc[Consdrv] = "write_start" => cons.send # <<>> /\ ~port.tie
  /\ pc[Consdrv] \notin {"write_test", "write_start"} /\ cons.send # <<>> => port.tie
  /\ port.rdrf => port.rdr \in Char \ {LF}
  /\ port.rdrf /\ port.rdr = CR => cons.recv \in Lines /\ Pending(CONSINPUT) < TypeAhead

RunInv ==
  mode = "run" =>
    Labels /\ Roles /\ DriverInv /\ UseInv /\ ShellInv /\ InputInv /\ PortInv

Always == Types /\ ~port.waited /\ (~port.tie => port.tdre) /\ BuffersFirst

ConsoleInv == KernelHolds /\ Always /\ RunInv
-----------------------------------------------------------------------------
(* What leaves each part alone. *)
LEMMA RolesStay ==
  ASSUME Roles, RolesKept, ~Booting, ~Booting',
         pc'[Idle] \notin {"run_consdrv", "run_command"},
         pc'[Consdrv] = "setintr" => pc[Consdrv] = "setintr" /\ pc'[Command] = pc[Command],
         mb'.reciever[CONSOUTPUT] \in {NULL, Consdrv},
         mb'.reciever[CONSINPUT] \in {NULL, Command}, mb'.head[CONSOUTPUT] = NULL
  PROVE  Roles'
BY DEF Roles, RolesKept, Booting

LEMMA RolesSame == Roles /\ UNCHANGED <<func, rq, pc, syscall, mb>> => Roles'
BY DEF Roles, Booting

SameText(S) == \A b \in S : text'[b] = text[b]

(* The part of the driver is kept if its thread keeps what it has, *)
LEMMA DriverKept ==
  ASSUME DriverInv, pc'[Consdrv] = pc[Consdrv], ret'[Consdrv] = ret[Consdrv], msg' = msg,
         mb'.reciever[CONSOUTPUT] = mb.reciever[CONSOUTPUT],
         pc[Consdrv] \in Section => ccr'[Consdrv] = ccr[Consdrv],
         held[Consdrv] \subseteq held'[Consdrv], SameText(held[Consdrv]),
         pc'[Command] \in {"use_alloc", "use_send"} => pc[Command] \in {"use_alloc", "use_send"}
  PROVE  DriverInv'
<1>1. DriverWaits' = DriverWaits /\ Told' = Told
  BY DEF DriverWaits, Told
<1>2. \A m : WriteOf(m)' = WriteOf(m)
  BY DEF WriteOf
<1>3. DriverWaits' => pc'[Consdrv] = "command" /\ ret'[Consdrv] = NULL
  BY <1>1 DEF DriverInv
<1>4. Told' => /\ ret'[Consdrv] \in held'[Consdrv]
               /\ text'[ret'[Consdrv]] = <<"use">> \/ WriteOf(text'[ret'[Consdrv]])
  BY <1>1 DEF DriverInv, SameText
<1>5. pc'[Command] \in {"use_alloc", "use_send"} =>
        DriverWaits' \/ pc'[Consdrv] \in {"setintr", "recv"}
  BY <1>1 DEF DriverInv
<1>6. pc'[Consdrv] \in {"use_recv", "use_init", "free"} \cup Section => msg' \in held'[Consdrv]
  BY DEF DriverInv
<1>7. pc'[Consdrv] \in {"write_copy", "write_test", "write_start"} => WriteOf(text'[msg'])
  BY DEF DriverInv, SameText, Section
<1>8. pc'[Consdrv] \in Section => ccr'[Consdrv] = TRUE
  BY DEF DriverInv
<1> QED
  BY <1>3, <1>4, <1>5, <1>6, <1>7, <1>8 DEF DriverInv, Section, WriteOf

(* that of its buffers if the driver keeps them, *)
LEMMA UseKept ==
  ASSUME UseInv, DriverInv, pc'[Consdrv] = pc[Consdrv], ret'[Consdrv] = ret[Consdrv], msg' = msg,
         mb'.reciever[CONSOUTPUT] = mb.reciever[CONSOUTPUT],
         held[Consdrv] \subseteq held'[Consdrv], SameText(held[Consdrv]),
         pc'[Command] \in {"use_alloc", "use_send"} <=> pc[Command] \in {"use_alloc", "use_send"},
         cons'.sender = cons.sender, cons'.send_buf = cons.send_buf,
         cons'.recv_buf = cons.recv_buf, port'.rie = port.rie,
         BeforeUse \/ Opening => cons' = cons /\ port' = port
  PROVE  UseInv'
<1>1. Told' = Told /\ Opening' = Opening
  BY DEF DriverWaits, Told, Opening
<1>2. BeforeUse' <=> BeforeUse
  BY <1>1 DEF BeforeUse, DriverInv, SameText
<1> QED
  BY <1>1, <1>2 DEF UseInv, serial_init, Opening

(* that of the shell if its thread does, *)
LEMMA ShellKept ==
  ASSUME ShellInv, pc'[Command] = pc[Command], ret'[Command] = ret[Command], str' = str,
         mb'.reciever[CONSINPUT] = mb.reciever[CONSINPUT],
         held[Command] \subseteq held'[Command], SameText(held[Command])
  PROVE  ShellInv'
<1>1. ShellWaits' = ShellWaits
  BY DEF ShellWaits
<1> QED
  BY <1>1 DEF ShellInv, SameText

(* that of its box if no message in it is touched, *)
LEMMA InputKept ==
  ASSUME InputInv, Ends(mb', CONSINPUT) \subseteq Ends(mb, CONSINPUT),
         \A c \in Ends(mb', CONSINPUT) : mb'.data[c] = mb.data[c],
         SameText({mb.data[c] : c \in Ends(mb, CONSINPUT)})
  PROVE  InputInv'
BY DEF InputInv, SameText, Ends

LEMMA PendingNext ==
  ASSUME KernelHolds, KernelHolds', Len(BoxSeq(mb', CONSINPUT)) <= Len(BoxSeq(mb, CONSINPUT)),
         Pending(CONSINPUT) < TypeAhead
  PROVE  Pending(CONSINPUT)' < TypeAhead
<1>1. PendingAre /\ PendingAre'
  BY PendingLen, PTL
<1>2. Pending(CONSINPUT)' = Len(BoxSeq(mb', CONSINPUT)) /\ Pending(CONSINPUT) = Len(BoxSeq(mb, CONSINPUT))
  BY <1>1, Names DEF PendingAre, BoxSeq
<1>3. Len(BoxSeq(mb', CONSINPUT)) \in Nat /\ Len(BoxSeq(mb, CONSINPUT)) \in Nat
  BY DEF BoxSeq
<1> QED
  BY <1>2, <1>3, ConsoleAssumption

(* and that of the port if the box gets no longer. *)
LEMMA PortKept ==
  ASSUME PortInv, KernelHolds, KernelHolds', pc'[Consdrv] = pc[Consdrv],
         UNCHANGED <<cons, port>>,
         Len(BoxSeq(mb', CONSINPUT)) <= Len(BoxSeq(mb, CONSINPUT))
  PROVE  PortInv'
<1>1. Pending(CONSINPUT) < TypeAhead => Pending(CONSINPUT)' < TypeAhead
  BY PendingNext
<1> QED
  BY <1>1 DEF PortInv

(* The buffers stay where they are as long as the driver holds them. *)
LEMMA BuffersKept ==
  ASSUME BuffersFirst, cons'.sender = cons.sender, cons'.send_buf = cons.send_buf,
         cons'.recv_buf = cons.recv_buf,
         port'.tie \/ port'.rie => port.tie \/ port.rie,
         {cons.send_buf, cons.recv_buf} \cap held[Consdrv] \subseteq held'[Consdrv]
  PROVE  BuffersFirst'
BY DEF BuffersFirst

(* What is returned is a block. *)
LEMMA ReturnedTyped ==
  ASSUME KernelHolds', NEW before \in [Thread -> Block \cup {NULL}], Returned(before)
  PROVE  ret' \in [Thread -> Block \cup {NULL}]
<1>1. held' \in [Thread -> SUBSET Block]
  BY DEF KernelHolds, KernelInv, IpcInv
<1>2. \A t \in Thread : LET gained == held'[t] \ held[t]
                        IN  gained # {} => (CHOOSE b \in gained : TRUE) \in Block
  BY <1>1
<1> QED
  BY <1>2 DEF Returned
-----------------------------------------------------------------------------
(* Who makes a step, and where the others are. *)
LEMMA ConsdrvRuns ==
  ASSUME KernelHolds, RunInv, mode = "run", current = Consdrv
  PROVE  /\ Labels /\ Roles /\ DriverInv /\ UseInv /\ ShellInv /\ InputInv /\ PortInv
         /\ ~Booting /\ ~DriverWaits
BY Names, Running DEF RunInv

LEMMA CommandRuns ==
  ASSUME KernelHolds, RunInv, mode = "run", current = Command
  PROVE  /\ Labels /\ Roles /\ DriverInv /\ UseInv /\ ShellInv /\ InputInv /\ PortInv
         /\ ~Booting /\ DriverWaits /\ ~ShellWaits /\ pc[Consdrv] = "command"
         /\ ret[Consdrv] = NULL
BY Names, Running DEF RunInv, DriverInv

(* Every step of the console is one the kernel's applications may take. *)
LEMMA StartKernel == ConsoleInv /\ start_threads => [Next]_vars
BY ConsoleAssumption DEF start_threads, Next, SystemCall, intr_enable

LEMMA KmfreeIsNext ==
  ASSUME KernelHolds, NEW b, thread_kmfree(b)
  PROVE  Next /\ b \in Block
<1>1. b \in held[current] /\ current \in Thread /\ held \in [Thread -> SUBSET Block]
  BY Books DEF thread_kmfree, KernelHolds
<1>2. b \in Block
  BY <1>1
<1> QED
  BY <1>2 DEF Next, SystemCall

LEMMA SendIsNext ==
  ASSUME KernelHolds, NEW id \in MsgBox, NEW data \in Block, thread_send(id, data)
  PROVE  Next
BY DEF Next, SystemCall

LEMMA KmallocIsNext ==
  ASSUME NEW size \in AllocSizes, thread_kmalloc(size)
  PROVE  Next
BY DEF Next, SystemCall

LEMMA SetCcrIsNext ==
  ASSUME NEW masked \in BOOLEAN, SetCcr(masked)
  PROVE  Next
BY DEF Next

LEMMA DriverKernel == ConsoleInv /\ consdrv_main => [Next]_vars
<1> SUFFICES ASSUME ConsoleInv, consdrv_main PROVE [Next]_vars
  OBVIOUS
<1>1. thread_setintr(SERINTR) => Next
  BY ConsoleAssumption DEF Next, SystemCall
<1>2. thread_recv(CONSOUTPUT) => Next
  BY Names DEF Next, SystemCall
<1>3. thread_kmfree(msg) => Next
  BY KmfreeIsNext DEF ConsoleInv
<1> QED
  BY <1>1, <1>2, <1>3 DEF consdrv_main

LEMMA UseKernel == ConsoleInv /\ consdrv_command_use => [Next]_vars
BY SizesAsked, KmallocIsNext DEF consdrv_command_use

LEMMA WriteKernel == ConsoleInv /\ consdrv_command_write => [Next]_vars
BY SetCcrIsNext DEF consdrv_command_write, intr_disable, intr_enable

LEMMA ShellKernel == ConsoleInv /\ command_main => [Next]_vars
<1> SUFFICES ASSUME ConsoleInv, command_main PROVE [Next]_vars
  OBVIOUS
<1>1. ASSUME NEW from, NEW to, NEW s \in {<<"0">>} \cup Written, AllocWrite(from, to, s) PROVE Next
  BY <1>1, SizesAsked, KmallocIsNext DEF AllocWrite
<1>2. ASSUME NEW from \in {"use_send", "prompt_send", "reply_send", "end_send"}, NEW to, NEW m,
             SendMessage(from, to, m)
      PROVE  Next
  <2>1. current = Command /\ pc[Command] = from /\ thread_send(CONSOUTPUT, ret[Command])
    BY <1>2 DEF SendMessage, Goto
  <2>2. mode = "run" /\ held \in [Thread -> SUBSET Block]
    BY <2>1, Books DEF thread_send, Syscall, ConsoleInv, KernelHolds
  <2>3. ret[Command] \in held[Command]
    BY <1>2, <2>1, <2>2, CommandRuns DEF ConsoleInv, ShellInv
  <2>4. ret[Command] \in Block
    BY <2>2, <2>3, Names
  <2> QED
    BY <2>1, <2>4, Names, SendIsNext DEF ConsoleInv
<1>3. thread_recv(CONSINPUT) => Next
  BY Names DEF Next, SystemCall
<1>4. thread_kmfree(str) => Next
  BY KmfreeIsNext DEF ConsoleInv
<1>5. ASSUME str' = ret[Command], AllocWrite("reply_alloc", "reply_send", Reply(text[str'])[1])
      PROVE  Next
  <2>1. current = Command /\ pc[Command] = "reply_alloc" /\ mode = "run"
    BY <1>5 DEF AllocWrite, Goto, thread_kmalloc, Syscall
  <2>2. text[str'] \in Lines
    BY <1>5, <2>1, CommandRuns DEF ConsoleInv, ShellInv
  <2>3. Reply(text[str'])[1] \in Written
    BY <2>2, WrittenTyped
  <2> QED
    BY <1>1, <1>5, <2>3
<1> QED
  BY <1>1, <1>2, <1>3, <1>4, <1>5, WrittenTyped DEF command_main, SendWrite

LEMMA IntrKernel == ConsoleInv /\ consdrv_intr => [Next]_vars
<1> SUFFICES ASSUME ConsoleInv, consdrv_intr PROVE [Next]_vars
  OBVIOUS
<1>1. mode = "run" /\ PortInv
  BY DEF consdrv_intr, ConsoleInv, RunInv
<1>2. port.rdrf /\ Typed(port) = LF => Pending(CONSINPUT) < MaxPending
  <2>1. port.rdrf /\ Typed(port) = LF => Pending(CONSINPUT) < TypeAhead
    BY <1>1 DEF PortInv, Typed
  <2>2. Pending(CONSINPUT) = Len(BoxSeq(mb, CONSINPUT)) /\ Len(BoxSeq(mb, CONSINPUT)) \in Nat
    BY PendingLen, Names DEF ConsoleInv, PendingAre, BoxSeq
  <2> QED
    BY <2>1, <2>2, ConsoleAssumption, KozosAssumption
<1>3. "NONE" \in HandlerCalls /\ "SEND" \in HandlerCalls /\ CONSINPUT \in MsgBox
  BY ConsoleAssumption
<1>4. thread_intr
  BY <1>2, <1>3 DEF consdrv_intr, thread_intr, Halt
<1> QED
  BY <1>4 DEF Next

LEMMA ConsoleKernel == ConsoleInv /\ [ConsoleNext]_allVars => [Next]_vars
BY StartKernel, DriverKernel, UseKernel, WriteKernel, ShellKernel, IntrKernel
DEF ConsoleNext, Threads, Transmit, PressKey, Halted, allVars, vars
-----------------------------------------------------------------------------
(* The thread "idle". *)
LEMMA OthersKept ==
  ASSUME KernelHolds, KernelHolds', Always, RunInv, mode = "run",
         UNCHANGED <<ret, shellVars, cons, port, mb, held>>,
         DOMAIN pc' = Thread, pc'[Consdrv] = pc[Consdrv], pc'[Command] = pc[Command],
         pc[Consdrv] \in Section => ccr'[Consdrv] = ccr[Consdrv]
  PROVE  DriverInv' /\ UseInv' /\ ShellInv' /\ InputInv' /\ PortInv' /\ Always'
<1>1. /\ DriverInv /\ UseInv /\ ShellInv /\ InputInv /\ PortInv
      /\ msg' = msg /\ str' = str /\ text' = text
  BY DEF RunInv, shellVars
<1>2. \A S : SameText(S)
  BY <1>1 DEF SameText
<1>3. DriverInv'
  BY <1>1, <1>2, DriverKept
<1>4. UseInv'
  BY <1>1, <1>2, UseKept
<1>5. ShellInv' /\ InputInv'
  BY <1>1, <1>2, ShellKept, InputKept
<1>6. PortInv'
  BY <1>1, PortKept DEF BoxSeq
<1>7. Always'
  BY <1>1, BuffersKept DEF Always, Types
<1> QED
  BY <1>3, <1>4, <1>5, <1>6, <1>7

(* Every step of start_threads keeps the invariant. *)
LEMMA StartStep ==
  ASSUME ConsoleInv, KernelHolds', start_threads
  PROVE  Always' /\ RunInv'
<1>1. /\ current = Idle /\ mode = "run" /\ UNCHANGED <<ret, shellVars, cons, port, mb, held>>
      /\ \E to : pc' = [pc EXCEPT ![Idle] = to]
  BY DEF start_threads, Goto, thread_run, thread_chpri, intr_enable, SetCcr, Syscall, Halt,
         ipcVars, vars
<1>2. KernelHolds /\ Always /\ RunInv /\ Labels /\ Roles
  BY <1>1 DEF ConsoleInv, RunInv
<1>3. /\ DOMAIN pc' = Thread /\ pc'[Consdrv] = pc[Consdrv] /\ pc'[Command] = pc[Command]
      /\ \A to : pc' = [pc EXCEPT ![Idle] = to] => pc'[Idle] = to
      /\ pc' = [t \in Thread |-> pc'[t]]
  BY <1>1, <1>2, Names DEF Labels
<1>4. pc[Consdrv] \in Section => ccr'[Consdrv] = ccr[Consdrv]
  BY <1>2, Names DEF start_threads, Goto, Roles, Booting, Section, intr_enable, SetCcr,
     KernelHolds, KernelInv, RestOK, vars
<1>5. DriverInv' /\ UseInv' /\ ShellInv' /\ InputInv' /\ PortInv' /\ Always'
  BY <1>1, <1>2, <1>3, <1>4, OthersKept
<1>6. Labels'
  BY <1>2, <1>3 DEF Labels, start_threads, Goto
<1>7. /\ \A t \in Thread : t # Idle => t <= Consdrv
      /\ \A t \in Thread : t \notin {Idle, Consdrv} => t <= Command
  BY ConsoleAssumption, ReadyAssumption DEF Thread, Idle, Consdrv, Command
<1>8. 1 \in RunPriorities /\ 8 \in RunPriorities /\ 15 \in Priority
  BY ConsoleAssumption, ReadyAssumption DEF Priority
<1>9. ASSUME Goto(Idle, "run_consdrv", "run_command"), thread_run(1), mode' = "run"
      PROVE  Roles'
  <2>1. pc[Idle] = "run_consdrv" /\ pc'[Idle] = "run_command"
    BY <1>3, <1>9 DEF Goto
  <2>2. func = {Idle} /\ Consdrv \in Thread \ func /\ \A u \in Thread \ func : u <= Consdrv
    BY <1>2, <1>7, <2>1, Names DEF Roles
  <2>3. /\ func' = func \cup {Consdrv} /\ rq'.priority[Consdrv] = 1
        /\ rq'.priority[Idle] = rq.priority[Idle]
        /\ (\A u \in Thread : syscall[u].type # "SLEEP") => \A u \in Thread : syscall'[u].type # "SLEEP"
    BY <1>2, <1>8, <1>9, <2>2, RunEffect
  <2> QED
    BY <1>1, <1>2, <1>3, <2>1, <2>2, <2>3, Names DEF Roles, Booting
<1>10. ASSUME Goto(Idle, "run_command", "chpri"), thread_run(8), mode' = "run"
       PROVE  Roles'
  <2>1. pc[Idle] = "run_command" /\ pc'[Idle] = "chpri"
    BY <1>3, <1>10 DEF Goto
  <2>2. /\ func = {Idle, Consdrv} /\ Command \in Thread \ func
        /\ \A u \in Thread \ func : u <= Command
    BY <1>2, <1>7, <2>1, Names DEF Roles
  <2>3. /\ func' = func \cup {Command} /\ rq'.priority[Command] = 8
        /\ rq'.priority[Idle] = rq.priority[Idle] /\ rq'.priority[Consdrv] = rq.priority[Consdrv]
        /\ (\A u \in Thread : syscall[u].type # "SLEEP") => \A u \in Thread : syscall'[u].type # "SLEEP"
    BY <1>2, <1>8, <1>10, <2>2, RunEffect
  <2> QED
    BY <1>1, <1>2, <1>3, <2>1, <2>2, <2>3, Names DEF Roles, Booting
<1>11. ASSUME Goto(Idle, "chpri", "enable"), thread_chpri(15)
       PROVE  Roles'
  <2>1. pc[Idle] = "chpri" /\ pc'[Idle] = "enable"
    BY <1>3, <1>11 DEF Goto
  <2>2. func = {Idle, Consdrv, Command}
    BY <1>2, <2>1, Names DEF Roles
  <2>3. /\ func' = func /\ rq'.priority = [rq.priority EXCEPT ![Idle] = 15]
        /\ (\A u \in Thread : syscall[u].type # "SLEEP") => \A u \in Thread : syscall'[u].type # "SLEEP"
    BY <1>1, <1>2, <1>8, <1>11, ChpriEffect
  <2>4. rq.priority \in [Thread -> Priority]
    BY <1>2 DEF KernelHolds, KernelInv, SchedInv, QInv, ReadyQueues
  <2> QED
    BY <1>1, <1>2, <1>3, <2>1, <2>2, <2>3, <2>4, Names DEF Roles, Booting
<1>12. ASSUME Goto(Idle, "enable", "sleep"), intr_enable
       PROVE  Roles'
  <2>1. pc[Idle] = "enable" /\ pc'[Idle] = "sleep"
    BY <1>3, <1>12 DEF Goto
  <2>2. func' = func /\ rq' = rq /\ syscall' = syscall
    BY <1>12 DEF intr_enable, SetCcr
  <2> QED
    BY <1>1, <1>2, <1>3, <2>1, <2>2, Names DEF Roles, Booting
<1>13. ASSUME Goto(Idle, "sleep", "sleep"), UNCHANGED vars
       PROVE  Roles'
  <2>1. pc[Idle] = "sleep" /\ pc'[Idle] = "sleep"
    BY <1>3, <1>13 DEF Goto
  <2> QED
    BY <1>1, <1>2, <1>3, <1>13, <2>1, Names DEF Roles, Booting, vars
<1>14. mode' = "run" => Roles'
  BY <1>9, <1>10, <1>11, <1>12, <1>13 DEF start_threads
<1> QED
  BY <1>5, <1>6, <1>14 DEF RunInv
-----------------------------------------------------------------------------
(* The thread of the driver. *)
LEMMA AfterConsdrv ==
  ASSUME ConsoleInv, mode = "run", current = Consdrv, RolesKept,
         NEW to, pc' = [pc EXCEPT ![Consdrv] = to],
         to \in {"recv", "command", "use_recv", "use_init", "write_copy", "write_test",
                 "write_start", "write_enable", "free"},
         mb'.reciever[CONSOUTPUT] \in {NULL, Consdrv},
         mb'.reciever[CONSINPUT] = mb.reciever[CONSINPUT], mb'.head[CONSOUTPUT] = NULL
  PROVE  /\ Labels' /\ Roles' /\ DOMAIN pc' = Thread
         /\ pc'[Consdrv] = to /\ pc'[Command] = pc[Command] /\ pc'[Idle] = pc[Idle]
<1>1. Labels /\ Roles /\ ~Booting
  BY ConsdrvRuns DEF ConsoleInv
<1>2. /\ DOMAIN pc' = Thread /\ pc'[Consdrv] = to /\ pc'[Command] = pc[Command]
      /\ pc'[Idle] = pc[Idle] /\ pc' = [t \in Thread |-> pc'[t]]
  BY <1>1, Names DEF Labels
<1>3. Labels'
  BY <1>1, <1>2 DEF Labels
<1>4. Roles'
  BY <1>1, <1>2, RolesStay DEF Roles, Booting
<1> QED
  BY <1>2, <1>3, <1>4

(* What the shell and its box keep while the driver works. *)
LEMMA ShellAside ==
  ASSUME ConsoleInv, mode = "run", current = Consdrv, pc'[Command] = pc[Command],
         ret'[Command] = ret[Command], str' = str,
         OthersSame(CONSOUTPUT), held'[Command] = held[Command],
         \A b \in Block : text'[b] # text[b] => b \in held[Consdrv]
  PROVE  ShellInv' /\ InputInv' /\ Len(BoxSeq(mb', CONSINPUT)) <= Len(BoxSeq(mb, CONSINPUT))
<1>1. ShellInv /\ InputInv
  BY ConsdrvRuns DEF ConsoleInv
<1>2. BlocksApart
  BY Apart DEF ConsoleInv
<1>3. SameText(held[Command]) /\ SameText({mb.data[c] : c \in Ends(mb, CONSINPUT)})
  BY <1>1, <1>2, Names DEF SameText, BlocksApart, InputInv
<1>4. ShellInv'
  BY <1>1, <1>3, ShellKept, Names DEF OthersSame
<1>5. Ends(mb', CONSINPUT) = Ends(mb, CONSINPUT) /\ BoxSeq(mb', CONSINPUT) = BoxSeq(mb, CONSINPUT)
  BY Names DEF OthersSame, Ends, BoxSeq
<1>6. InputInv'
  BY <1>1, <1>3, <1>5, InputKept, Names DEF OthersSame
<1> QED
  BY <1>4, <1>5, <1>6 DEF BoxSeq

(* The handler is set, *)
LEMMA SetintrStepOf ==
  ASSUME ConsoleInv, KernelHolds', Goto(Consdrv, "setintr", "recv"), thread_setintr(SERINTR),
         UNCHANGED <<ret, msg, str, text, cons, port>>
  PROVE  Always' /\ RunInv'
<1>1. mode = "run" /\ current = Consdrv /\ pc' = [pc EXCEPT ![Consdrv] = "recv"] /\ pc[Consdrv] = "setintr"
  BY DEF Goto, thread_setintr, Syscall
<1>2. RolesKept /\ ccr' = ccr /\ mb' = mb /\ held' = held
  BY SetintrEffect DEF ConsoleInv
<1>3. /\ KernelHolds /\ Always /\ RunInv /\ Roles /\ ~DriverWaits
      /\ DriverInv /\ UseInv /\ ShellInv /\ InputInv /\ PortInv
  BY <1>1, ConsdrvRuns DEF ConsoleInv
<1>4. /\ Labels' /\ Roles' /\ pc'[Consdrv] = "recv" /\ pc'[Command] = pc[Command]
      /\ DOMAIN pc' = Thread
  BY <1>1, <1>2, <1>3, AfterConsdrv DEF Roles
<1>5. ShellInv' /\ InputInv' /\ Len(BoxSeq(mb', CONSINPUT)) <= Len(BoxSeq(mb, CONSINPUT))
  BY <1>1, <1>2, <1>4, ShellAside DEF OthersSame
<1>6. DriverInv'
  BY <1>1, <1>2, <1>3, <1>4 DEF DriverInv, Told, DriverWaits, Section
<1>7. BeforeUse' = BeforeUse /\ ~Opening /\ ~Opening' /\ ~Told'
  BY <1>1, <1>4 DEF BeforeUse, Opening, Told
<1>8. UseInv'
  BY <1>1, <1>2, <1>3, <1>4, <1>7 DEF UseInv, Section
<1>9. PortInv'
  BY <1>1, <1>3, <1>4, <1>5, PendingNext DEF PortInv
<1>10. Always'
  BY <1>2, <1>3, <1>4, BuffersKept DEF Always, Types
<1> QED
  BY <1>4, <1>5, <1>6, <1>8, <1>9, <1>10 DEF RunInv

(* a message awaited, *)
LEMMA RecvStepOf ==
  ASSUME ConsoleInv, KernelHolds', Goto(Consdrv, "recv", "command"), thread_recv(CONSOUTPUT),
         Returned([ret EXCEPT ![Consdrv] = NULL]), UNCHANGED <<msg, str, text, cons, port>>
  PROVE  Always' /\ RunInv'
<1>1. mode = "run" /\ current = Consdrv /\ pc' = [pc EXCEPT ![Consdrv] = "command"] /\ pc[Consdrv] = "recv"
  BY DEF Goto, thread_recv, Syscall
<1>2. /\ KernelHolds /\ Always /\ RunInv /\ Roles /\ ~DriverWaits
      /\ DriverInv /\ UseInv /\ ShellInv /\ InputInv /\ PortInv
  BY <1>1, ConsdrvRuns DEF ConsoleInv
<1>3. /\ mb.head[CONSOUTPUT] = NULL /\ NULL \notin Ends(mb, CONSOUTPUT) /\ CONSOUTPUT \in MsgBox
      /\ mb \in Boxes
  BY <1>2, Names DEF Roles, Ends, KernelHolds, KernelInv, IpcInv
<1>4. /\ ccr' = ccr /\ held' = held
      /\ \/ mode' # "run" /\ mb' = mb
         \/ RolesKept /\ OthersSame(CONSOUTPUT) /\ mb' = [mb EXCEPT !.reciever[CONSOUTPUT] = Consdrv]
  BY <1>1, <1>2, <1>3, RecvEffect DEF ipcVars
<1>5. ret' = [u \in Thread |-> [ret EXCEPT ![Consdrv] = NULL][u]]
  BY <1>4, ReturnedNone
<1>6. ret \in [Thread -> Block \cup {NULL}]
  BY <1>2 DEF Always, Types
<1>7. ret' = [ret EXCEPT ![Consdrv] = NULL] /\ ret'[Consdrv] = NULL /\ ret'[Command] = ret[Command]
  BY <1>5, <1>6, Names
<1>8. DOMAIN pc' = Thread
  BY <1>1, <1>2 DEF Always, Types
<1>9. Always'
  BY <1>2, <1>4, <1>6, <1>7, <1>8, BuffersKept DEF Always, Types
<1>10. ASSUME mode' = "run" PROVE RunInv'
  <2>1. /\ RolesKept /\ OthersSame(CONSOUTPUT) /\ mb'.reciever[CONSOUTPUT] = Consdrv
        /\ mb'.head[CONSOUTPUT] = NULL /\ mb'.reciever[CONSINPUT] = mb.reciever[CONSINPUT]
    BY <1>3, <1>4, <1>10, Names DEF Boxes
  <2>2. /\ Labels' /\ Roles' /\ pc'[Consdrv] = "command" /\ pc'[Command] = pc[Command]
    BY <1>1, <2>1, AfterConsdrv
  <2>3. ShellInv' /\ InputInv' /\ Len(BoxSeq(mb', CONSINPUT)) <= Len(BoxSeq(mb, CONSINPUT))
    BY <1>1, <1>4, <1>7, <2>1, <2>2, ShellAside
  <2>4. DriverWaits' /\ ~Told'
    BY <2>1, Names DEF DriverWaits, Told
  <2>5. DriverInv'
    BY <1>7, <2>2, <2>4 DEF DriverInv, Section
  <2>6. BeforeUse' = BeforeUse /\ ~Opening /\ ~Opening'
    BY <1>1, <2>2, <2>4 DEF BeforeUse, Opening, Told
  <2>7. UseInv'
    BY <1>1, <1>2, <1>4, <2>2, <2>4, <2>6 DEF UseInv, Section
  <2>8. PortInv'
    BY <1>1, <1>2, <2>2, <2>3, PendingNext DEF PortInv
  <2> QED
    BY <2>2, <2>3, <2>5, <2>7, <2>8 DEF RunInv
<1> QED
  BY <1>9, <1>10 DEF RunInv

(* and one that has been dealt with freed. *)
LEMMA FreeStepOf ==
  ASSUME ConsoleInv, KernelHolds', Goto(Consdrv, "free", "recv"), thread_kmfree(msg),
         msg' = NULL, text' = [text EXCEPT ![msg] = <<>>], UNCHANGED <<ret, str, cons, port>>
  PROVE  Always' /\ RunInv'
<1>1. mode = "run" /\ current = Consdrv /\ pc' = [pc EXCEPT ![Consdrv] = "recv"] /\ pc[Consdrv] = "free"
  BY DEF Goto, thread_kmfree, Syscall
<1>2. RolesKept /\ ccr' = ccr /\ mb' = mb /\ held' = [held EXCEPT ![Consdrv] = @ \ {msg}]
  BY <1>1, KmfreeEffect DEF ConsoleInv
<1>3. /\ KernelHolds /\ Always /\ RunInv /\ Roles /\ ~DriverWaits
      /\ DriverInv /\ UseInv /\ ShellInv /\ InputInv /\ PortInv
  BY <1>1, ConsdrvRuns DEF ConsoleInv
<1>4. /\ Labels' /\ Roles' /\ pc'[Consdrv] = "recv" /\ pc'[Command] = pc[Command]
      /\ DOMAIN pc' = Thread
  BY <1>1, <1>2, <1>3, AfterConsdrv DEF Roles
<1>5. /\ held \in [Thread -> SUBSET Block] /\ msg \in held[Consdrv] /\ text \in [Block -> Seq(Letter)]
  BY <1>1, <1>3, Books DEF KernelHolds, DriverInv, Always, Types
<1>6. held'[Consdrv] = held[Consdrv] \ {msg} /\ held'[Command] = held[Command]
  BY <1>2, <1>5, Names
<1>7. ShellInv' /\ InputInv' /\ Len(BoxSeq(mb', CONSINPUT)) <= Len(BoxSeq(mb, CONSINPUT))
  BY <1>1, <1>2, <1>4, <1>5, <1>6, ShellAside DEF OthersSame
<1>8. ~BeforeUse /\ ~Opening /\ ~Opening' /\ ~Told /\ ~Told' /\ ~BeforeUse'
  BY <1>1, <1>3, <1>4 DEF BeforeUse, Opening, Told, DriverInv
<1>9. DriverInv'
  BY <1>1, <1>2, <1>3, <1>4 DEF DriverInv, Told, DriverWaits, Section
<1>10. UseInv'
  BY <1>1, <1>3, <1>4, <1>6, <1>8 DEF UseInv, Section
<1>11. PortInv'
  BY <1>1, <1>3, <1>4, <1>7, PendingNext DEF PortInv
<1>12. BuffersFirst'
  BY <1>1, <1>3, <1>6, <1>8, BuffersKept DEF Always, UseInv
<1>13. text' \in [Block -> Seq(Letter)]
  BY <1>5, NoText
<1>14. Always'
  BY <1>3, <1>4, <1>12, <1>13 DEF Always, Types
<1> QED
  BY <1>4, <1>7, <1>9, <1>10, <1>11, <1>14 DEF RunInv

(* Every step of consdrv_main keeps the invariant. *)
LEMMA DriverStep ==
  ASSUME ConsoleInv, KernelHolds', consdrv_main
  PROVE  Always' /\ RunInv'
<1>1. CASE Goto(Consdrv, "setintr", "recv") /\ thread_setintr(SERINTR) /\ UNCHANGED <<ret, msg>>
  BY <1>1, SetintrStepOf DEF consdrv_main
<1>2. CASE /\ Goto(Consdrv, "recv", "command") /\ thread_recv(CONSOUTPUT)
           /\ Returned([ret EXCEPT ![Consdrv] = NULL]) /\ UNCHANGED msg
  BY <1>2, RecvStepOf DEF consdrv_main
<1>3. CASE Goto(Consdrv, "free", "recv") /\ thread_kmfree(msg) /\ msg' = NULL /\ UNCHANGED ret
  <2>1. msg # NULL
    BY <1>3, KmfreeIsNext, Names DEF ConsoleInv
  <2> QED
    BY <1>3, <2>1, FreeStepOf DEF consdrv_main
<1> QED
  BY <1>1, <1>2, <1>3 DEF consdrv_main
-----------------------------------------------------------------------------
(* kz_kmalloc returns a block nobody had. *)
LEMMA Allocated ==
  ASSUME ConsoleInv, NEW size, thread_kmalloc(size), Returned(ret), NEW t, t = current
  PROVE  /\ mode = "run" /\ RolesKept /\ ccr' = ccr /\ mb' = mb /\ t \in Thread
         /\ \/ mode' # "run" /\ held' = held /\ ret' = ret
            \/ \E b \in Block :
                 /\ \A u \in Thread : b \notin held[u]
                 /\ held' = [held EXCEPT ![t] = @ \cup {b}]
                 /\ ret' = [ret EXCEPT ![t] = b]
<1>1. /\ RolesKept /\ ccr' = ccr /\ mb' = mb
      /\ \/ \E i \in Pool :
                 mem.free[i] # NULL /\ held' = [held EXCEPT ![current] = @ \cup {mem.free[i]}]
         \/ mode' = "down" /\ held' = held
  BY KmallocEffect DEF ConsoleInv
<1>2. BlocksApart /\ current \in Thread /\ ret \in [Thread -> Block \cup {NULL}] /\ mode = "run"
  BY Apart, Books DEF ConsoleInv, KernelHolds, Always, Types, thread_kmalloc, Syscall
<1>3. ASSUME NEW i \in Pool, mem.free[i] # NULL,
             held' = [held EXCEPT ![current] = @ \cup {mem.free[i]}]
      PROVE  \E b \in Block :
                 /\ \A u \in Thread : b \notin held[u]
                 /\ held' = [held EXCEPT ![t] = @ \cup {b}]
                 /\ ret' = [ret EXCEPT ![t] = b]
  <2>1. PICK b \in Block : b = mem.free[i] /\ \A u \in Thread : b \notin held[u]
    BY <1>2, <1>3 DEF BlocksApart
  <2>2. held' = [held EXCEPT ![t] = @ \cup {b}]
    BY <1>3, <2>1
  <2>3. held'[t] = held[t] \cup {b} /\ \A u \in Thread : u # t => held'[u] \subseteq held[u]
    BY <1>2, <2>2 DEF BlocksApart
  <2>4. ret' = [u \in Thread |-> IF u = t THEN b ELSE ret[u]]
    BY <1>2, <2>1, <2>3, ReturnedOne
  <2>5. ret' = [ret EXCEPT ![t] = b]
    BY <1>2, <2>4
  <2> QED
    BY <2>1, <2>2, <2>5
<1>4. CASE mode' = "down" /\ held' = held
  <2>1. ret' = [u \in Thread |-> ret[u]]
    BY <1>4, ReturnedNone
  <2> QED
    BY <1>1, <1>2, <1>4, <2>1
<1> QED
  BY <1>1, <1>2, <1>3, <1>4

(* CONSDRV_CMD_USE: the user is noted and a send buffer asked for, *)
LEMMA UseFirst ==
  ASSUME ConsoleInv, KernelHolds', Goto(Consdrv, "command", "use_recv"),
         text[ret[Consdrv]] = <<"use">>, msg' = ret[Consdrv], thread_kmalloc(CONS_SIZE),
         cons' = [cons EXCEPT !.sender = Command, !.send = <<>>],
         UNCHANGED <<port, str, text>>, Returned(ret)
  PROVE  Always' /\ RunInv'
<1>1. /\ current = Consdrv /\ pc' = [pc EXCEPT ![Consdrv] = "use_recv"] /\ pc[Consdrv] = "command"
  BY DEF Goto
<1>2. /\ mode = "run" /\ RolesKept /\ ccr' = ccr /\ mb' = mb
      /\ \/ mode' # "run" /\ held' = held /\ ret' = ret
         \/ \E b \in Block :
              /\ \A u \in Thread : b \notin held[u]
              /\ held' = [held EXCEPT ![Consdrv] = @ \cup {b}]
              /\ ret' = [ret EXCEPT ![Consdrv] = b]
  BY <1>1, Allocated
<1>3. /\ KernelHolds /\ Always /\ RunInv /\ Roles /\ ~DriverWaits
      /\ DriverInv /\ UseInv /\ ShellInv /\ InputInv /\ PortInv
  BY <1>1, <1>2, ConsdrvRuns DEF ConsoleInv
<1>4. /\ Labels' /\ Roles' /\ pc'[Consdrv] = "use_recv" /\ pc'[Command] = pc[Command]
      /\ DOMAIN pc' = Thread
  BY <1>1, <1>2, <1>3, AfterConsdrv DEF Roles
<1>5. Told /\ BeforeUse /\ ~Opening
  BY <1>1, <1>3 DEF Told, BeforeUse, Opening
<1>6. /\ cons.sender = NULL /\ cons.send = <<>> /\ cons.recv = <<>> /\ port = serial_init
      /\ ret[Consdrv] \in held[Consdrv]
  BY <1>3, <1>5 DEF UseInv, DriverInv
<1>7. /\ held \in [Thread -> SUBSET Block] /\ ret \in [Thread -> Block \cup {NULL}]
      /\ cons \in Consreg /\ ret' \in [Thread -> Block \cup {NULL}] /\ ret[Consdrv] \in Block
  BY <1>3, <1>6, Books, Names, ReturnedTyped DEF KernelHolds, Always, Types
<1>8. /\ cons' \in Consreg /\ cons'.sender = Command /\ cons'.send = <<>> /\ cons'.recv = <<>>
      /\ port' = serial_init
  BY <1>6, <1>7, Names DEF Consreg, ThreadPtr
<1>9. Always'
  BY <1>3, <1>4, <1>7, <1>8 DEF Always, Types, BuffersFirst, serial_init
<1>10. ASSUME mode' = "run" PROVE RunInv'
  <2>1. PICK b \in Block : /\ \A u \in Thread : b \notin held[u]
                           /\ held' = [held EXCEPT ![Consdrv] = @ \cup {b}]
                           /\ ret' = [ret EXCEPT ![Consdrv] = b]
    BY <1>2, <1>10
  <2>2. /\ held'[Consdrv] = held[Consdrv] \cup {b} /\ held'[Command] = held[Command]
        /\ ret'[Consdrv] = b /\ ret'[Command] = ret[Command] /\ b # msg'
    BY <1>6, <1>7, <2>1, Names
  <2>3. ShellInv' /\ InputInv' /\ Len(BoxSeq(mb', CONSINPUT)) <= Len(BoxSeq(mb, CONSINPUT))
    BY <1>1, <1>2, <1>4, <2>2, ShellAside DEF OthersSame
  <2>4. ~Told' /\ Opening' /\ ~BeforeUse'
    BY <1>1, <1>3, <1>4 DEF BeforeUse, Opening, Told, DriverInv
  <2>5. DriverInv'
    BY <1>1, <1>2, <1>3, <1>4, <1>6, <2>2 DEF DriverInv, Told, DriverWaits, Section
  <2>6. UseInv'
    BY <1>4, <1>8, <2>2, <2>4 DEF UseInv
  <2>7. PortInv'
    BY <1>4, <1>8 DEF PortInv, serial_init
  <2> QED
    BY <1>4, <2>3, <2>5, <2>6, <2>7 DEF RunInv
<1> QED
  BY <1>9, <1>10 DEF RunInv

(* then a receive buffer, *)
LEMMA UseSecond ==
  ASSUME ConsoleInv, KernelHolds', Goto(Consdrv, "use_recv", "use_init"),
         thread_kmalloc(CONS_SIZE), cons' = [cons EXCEPT !.send_buf = ret[Consdrv], !.recv = <<>>],
         UNCHANGED <<msg, port, str, text>>, Returned(ret)
  PROVE  Always' /\ RunInv'
<1>1. /\ current = Consdrv /\ pc' = [pc EXCEPT ![Consdrv] = "use_init"] /\ pc[Consdrv] = "use_recv"
  BY DEF Goto
<1>2. /\ mode = "run" /\ RolesKept /\ ccr' = ccr /\ mb' = mb
      /\ \/ mode' # "run" /\ held' = held /\ ret' = ret
         \/ \E b \in Block :
              /\ \A u \in Thread : b \notin held[u]
              /\ held' = [held EXCEPT ![Consdrv] = @ \cup {b}]
              /\ ret' = [ret EXCEPT ![Consdrv] = b]
  BY <1>1, Allocated
<1>3. /\ KernelHolds /\ Always /\ RunInv /\ Roles /\ ~DriverWaits
      /\ DriverInv /\ UseInv /\ ShellInv /\ InputInv /\ PortInv
  BY <1>1, <1>2, ConsdrvRuns DEF ConsoleInv
<1>4. /\ Labels' /\ Roles' /\ pc'[Consdrv] = "use_init" /\ pc'[Command] = pc[Command]
      /\ DOMAIN pc' = Thread
  BY <1>1, <1>2, <1>3, AfterConsdrv DEF Roles
<1>5. ~Told /\ ~BeforeUse /\ Opening
  BY <1>1, <1>3 DEF Told, BeforeUse, Opening, DriverInv
<1>6. /\ cons.sender = Command /\ cons.send = <<>> /\ cons.recv = <<>> /\ port = serial_init
      /\ ret[Consdrv] \in held[Consdrv] /\ ret[Consdrv] # msg /\ msg \in held[Consdrv]
  BY <1>1, <1>3, <1>5 DEF UseInv, DriverInv
<1>7. /\ held \in [Thread -> SUBSET Block] /\ ret \in [Thread -> Block \cup {NULL}]
      /\ cons \in Consreg /\ ret' \in [Thread -> Block \cup {NULL}] /\ ret[Consdrv] \in Block
  BY <1>3, <1>6, Books, Names, ReturnedTyped DEF KernelHolds, Always, Types
<1>8. /\ cons' \in Consreg /\ cons'.sender = Command /\ cons'.send = <<>> /\ cons'.recv = <<>>
      /\ port' = serial_init /\ cons'.send_buf = ret[Consdrv]
  BY <1>6, <1>7, Names DEF Consreg
<1>9. Always'
  BY <1>3, <1>4, <1>7, <1>8 DEF Always, Types, BuffersFirst, serial_init
<1>10. ASSUME mode' = "run" PROVE RunInv'
  <2>1. PICK b \in Block : /\ \A u \in Thread : b \notin held[u]
                           /\ held' = [held EXCEPT ![Consdrv] = @ \cup {b}]
                           /\ ret' = [ret EXCEPT ![Consdrv] = b]
    BY <1>2, <1>10
  <2>2. /\ held'[Consdrv] = held[Consdrv] \cup {b} /\ held'[Command] = held[Command]
        /\ ret'[Consdrv] = b /\ ret'[Command] = ret[Command] /\ b # msg' /\ b # ret[Consdrv]
    BY <1>6, <1>7, <2>1, Names
  <2>3. ShellInv' /\ InputInv' /\ Len(BoxSeq(mb', CONSINPUT)) <= Len(BoxSeq(mb, CONSINPUT))
    BY <1>1, <1>2, <1>4, <2>2, ShellAside DEF OthersSame
  <2>4. ~Told' /\ Opening' /\ ~BeforeUse'
    BY <1>1, <1>3, <1>4 DEF BeforeUse, Opening, Told, DriverInv
  <2>5. DriverInv'
    BY <1>1, <1>2, <1>3, <1>4, <1>6, <2>2 DEF DriverInv, Told, DriverWaits, Section
  <2>6. UseInv'
    BY <1>4, <1>6, <1>8, <2>2, <2>4 DEF UseInv
  <2>7. PortInv'
    BY <1>4, <1>8 DEF PortInv, serial_init
  <2> QED
    BY <1>4, <2>3, <2>5, <2>6, <2>7 DEF RunInv
<1> QED
  BY <1>9, <1>10 DEF RunInv

(* and then the port is set up. *)
LEMMA UseThird ==
  ASSUME ConsoleInv, KernelHolds', Goto(Consdrv, "use_init", "free"), mode = "run",
         cons' = [cons EXCEPT !.recv_buf = ret[Consdrv]],
         port' = serial_intr_recv_enable(serial_init),
         UNCHANGED <<vars, msg, str, text>>, Returned(ret)
  PROVE  Always' /\ RunInv'
<1>1. /\ current = Consdrv /\ pc' = [pc EXCEPT ![Consdrv] = "free"] /\ pc[Consdrv] = "use_init"
  BY DEF Goto
<1>2. /\ KernelHolds /\ Always /\ RunInv /\ Roles /\ ~DriverWaits
      /\ DriverInv /\ UseInv /\ ShellInv /\ InputInv /\ PortInv
  BY <1>1, ConsdrvRuns DEF ConsoleInv
<1>3. RolesKept /\ UNCHANGED <<ccr, mb, held, mode>>
  BY DEF RolesKept, vars
<1>4. /\ Labels' /\ Roles' /\ pc'[Consdrv] = "free" /\ pc'[Command] = pc[Command]
      /\ DOMAIN pc' = Thread
  BY <1>1, <1>2, <1>3, AfterConsdrv DEF Roles
<1>5. ~Told /\ ~BeforeUse /\ Opening
  BY <1>1, <1>2 DEF Told, BeforeUse, Opening, DriverInv
<1>6. /\ cons.sender = Command /\ cons.send = <<>> /\ cons.recv = <<>> /\ port = serial_init
      /\ ret[Consdrv] \in held[Consdrv] /\ ret[Consdrv] # msg /\ msg \in held[Consdrv]
      /\ cons.send_buf \in held[Consdrv] \ {msg, ret[Consdrv]}
  BY <1>1, <1>2, <1>5 DEF UseInv, DriverInv
<1>7. /\ held \in [Thread -> SUBSET Block] /\ ret \in [Thread -> Block \cup {NULL}]
      /\ cons \in Consreg /\ ret' = [u \in Thread |-> ret[u]] /\ ret[Consdrv] \in Block
  BY <1>2, <1>3, <1>6, Books, Names, ReturnedNone DEF KernelHolds, Always, Types
<1>8. ret' = ret
  BY <1>7
<1>9. /\ cons' \in Consreg /\ cons'.sender = Command /\ cons'.send = <<>> /\ cons'.recv = <<>>
      /\ cons'.send_buf = cons.send_buf /\ cons'.recv_buf = ret[Consdrv]
  BY <1>6, <1>7, Names DEF Consreg
<1>10. /\ port' \in Port(Char) /\ port'.rie /\ ~port'.tie /\ port'.tdre /\ ~port'.waited /\ ~port'.rdrf
  BY DEF serial_intr_recv_enable, serial_init, Port
<1>11. BuffersFirst'
  BY <1>3, <1>6, <1>7, <1>9, Names DEF BuffersFirst
<1>12. Always'
  BY <1>2, <1>4, <1>7, <1>8, <1>9, <1>10, <1>11 DEF Always, Types
<1>13. ShellInv' /\ InputInv'
  BY <1>1, <1>3, <1>4, <1>8, ShellAside, Names DEF OthersSame
<1>14. ~Told' /\ ~Opening' /\ ~BeforeUse'
  BY <1>1, <1>2, <1>4 DEF BeforeUse, Opening, Told, DriverInv
<1>15. DriverInv'
  BY <1>1, <1>2, <1>3, <1>4, <1>6 DEF DriverInv, Told, DriverWaits, Section
<1>16. UseInv'
  BY <1>3, <1>4, <1>6, <1>9, <1>10, <1>14 DEF UseInv, Section
<1>17. PortInv'
  BY <1>4, <1>9, <1>10 DEF PortInv
<1> QED
  BY <1>4, <1>12, <1>13, <1>15, <1>16, <1>17 DEF RunInv

(* Every step of CONSDRV_CMD_USE keeps the invariant. *)
LEMMA UseStep ==
  ASSUME ConsoleInv, KernelHolds', consdrv_command_use
  PROVE  Always' /\ RunInv'
BY UseFirst, UseSecond, UseThird DEF consdrv_command_use
-----------------------------------------------------------------------------
(* A command to write. *)
LEMMA InWriting ==
  ASSUME ConsoleInv, KernelHolds', NEW from, NEW to, Goto(Consdrv, from, to), mode = "run",
         from = "command" => Head(text[ret[Consdrv]]) = "write",
         from \in {"command"} \cup Section, to \in {"free"} \cup Section,
         RolesKept, UNCHANGED <<mb, held, ret, str, text>>
  PROVE  /\ KernelHolds /\ Types /\ DriverInv /\ UseInv /\ PortInv /\ ~DriverWaits
         /\ Labels' /\ Roles' /\ pc[Consdrv] = from /\ pc'[Consdrv] = to
         /\ pc'[Command] = pc[Command] /\ DOMAIN pc' = Thread
         /\ ShellInv' /\ InputInv' /\ Len(BoxSeq(mb', CONSINPUT)) <= Len(BoxSeq(mb, CONSINPUT))
         /\ ~Told' /\ ~BeforeUse /\ ~BeforeUse' /\ ~Opening /\ ~Opening'
         /\ pc[Command] \notin {"use_alloc", "use_send"}
         /\ from = "command" => Told /\ WriteOf(text[ret[Consdrv]])
<1>1. current = Consdrv /\ pc' = [pc EXCEPT ![Consdrv] = to] /\ pc[Consdrv] = from
  BY DEF Goto
<1>2. /\ KernelHolds /\ Types /\ RunInv /\ Roles /\ ~DriverWaits
      /\ DriverInv /\ UseInv /\ ShellInv /\ InputInv /\ PortInv
  BY <1>1, ConsdrvRuns DEF ConsoleInv, Always
<1>3. /\ Labels' /\ Roles' /\ pc'[Consdrv] = to /\ pc'[Command] = pc[Command]
      /\ DOMAIN pc' = Thread
  BY <1>1, <1>2, AfterConsdrv DEF Roles, Section, Types
<1>4. ShellInv' /\ InputInv' /\ Len(BoxSeq(mb', CONSINPUT)) <= Len(BoxSeq(mb, CONSINPUT))
  BY <1>1, <1>3, ShellAside DEF OthersSame
<1>5. pc[Command] \notin {"use_alloc", "use_send"}
  BY <1>1, <1>2 DEF DriverInv, Section
<1>6. from = "command" => Told /\ WriteOf(text[ret[Consdrv]]) /\ text[ret[Consdrv]] # <<"use">>
  <2>1. Head(<<"use">>) = "use"
    OBVIOUS
  <2> QED
    BY <1>1, <1>2, <2>1 DEF DriverInv, Told
<1>7. ~Told' /\ ~Opening' /\ ~BeforeUse' /\ ~BeforeUse /\ ~Opening
  BY <1>1, <1>3, <1>5, <1>6 DEF BeforeUse, Opening, Told, Section
<1> QED
  BY <1>1, <1>2, <1>3, <1>4, <1>5, <1>6, <1>7

(* Masking touches nothing but ccr. *)
LEMMA MaskedCcr ==
  ASSUME KernelHolds, NEW masked \in BOOLEAN, current = Consdrv, SetCcr(masked)
  PROVE  mode = "run" /\ RolesKept /\ UNCHANGED <<mb, held, mode>> /\ ccr'[Consdrv] = masked
<1>1. ccr \in [Thread -> BOOLEAN]
  BY DEF KernelHolds, KernelInv, RestOK
<1> QED
  BY <1>1, Names, SetCcrEffect DEF SetCcr

(* CONSDRV_CMD_WRITE: interrupts are masked, *)
LEMMA WriteFirst ==
  ASSUME ConsoleInv, KernelHolds', Goto(Consdrv, "command", "write_copy"),
         Head(text[ret[Consdrv]]) = "write", msg' = ret[Consdrv], SetCcr(TRUE),
         UNCHANGED <<cons, port, ret, str, text>>
  PROVE  Always' /\ RunInv'
<1>1. mode = "run" /\ RolesKept /\ UNCHANGED <<mb, held, mode>> /\ ccr'[Consdrv] = TRUE
  BY MaskedCcr DEF Goto, ConsoleInv
<1>2. /\ KernelHolds /\ Types /\ DriverInv /\ UseInv /\ PortInv /\ ~DriverWaits
      /\ Labels' /\ Roles' /\ pc[Consdrv] = "command" /\ pc'[Consdrv] = "write_copy"
      /\ pc'[Command] = pc[Command] /\ DOMAIN pc' = Thread
      /\ ShellInv' /\ InputInv' /\ Len(BoxSeq(mb', CONSINPUT)) <= Len(BoxSeq(mb, CONSINPUT))
      /\ ~Told' /\ ~BeforeUse /\ ~BeforeUse' /\ ~Opening /\ ~Opening'
      /\ pc[Command] \notin {"use_alloc", "use_send"}
      /\ Told /\ WriteOf(text[ret[Consdrv]])
  BY <1>1, InWriting DEF Section
<1>3. ret[Consdrv] \in held[Consdrv] /\ msg' \in Block \cup {NULL}
  BY <1>2, Names DEF DriverInv, Types
<1>4. DriverInv'
  <2>1. WriteOf(text'[msg'])
    BY <1>2
  <2> QED
    BY <1>1, <1>2, <1>3, <2>1 DEF DriverInv, DriverWaits, Section, WriteOf
<1>5. UseInv'
  BY <1>1, <1>2 DEF UseInv, Section
<1>6. PortInv'
  BY <1>2, PendingNext DEF PortInv
<1>7. Always'
  BY <1>1, <1>2, <1>3, BuffersKept DEF Always, Types, ConsoleInv
<1> QED
  BY <1>2, <1>4, <1>5, <1>6, <1>7 DEF RunInv

(* the string is copied and sending started, *)
LEMMA WriteInside ==
  ASSUME ConsoleInv, KernelHolds', NEW from, NEW to, Goto(Consdrv, from, to),
         \/ /\ from = "write_copy" /\ to = "write_test"
            /\ SetDriver(Copied(Driver, Tail(text[msg])))
         \/ /\ from = "write_test"
            /\ to = IF MustStart(Driver) THEN "write_start" ELSE "write_enable"
            /\ UNCHANGED <<cons, port>>
         \/ /\ from = "write_start" /\ to = "write_enable"
            /\ SetDriver(Started(Driver)),
         mode = "run", UNCHANGED <<vars, msg, ret, str, text>>
  PROVE  Always' /\ RunInv'
<1>1. RolesKept /\ UNCHANGED <<mb, held, ccr, mode>>
  BY DEF RolesKept, vars
<1>2. /\ from \in Section /\ to \in Section /\ from # "command" /\ from # "write_enable"
      /\ to # "write_copy"
  BY DEF Section
<1>3. /\ KernelHolds /\ Types /\ DriverInv /\ UseInv /\ PortInv /\ ~DriverWaits
      /\ Labels' /\ Roles' /\ pc[Consdrv] = from /\ pc'[Consdrv] = to
      /\ pc'[Command] = pc[Command] /\ DOMAIN pc' = Thread
      /\ ShellInv' /\ InputInv' /\ Len(BoxSeq(mb', CONSINPUT)) <= Len(BoxSeq(mb, CONSINPUT))
      /\ ~Told' /\ ~BeforeUse /\ ~BeforeUse' /\ ~Opening /\ ~Opening'
      /\ pc[Command] \notin {"use_alloc", "use_send"}
  BY <1>1, <1>2, InWriting
<1>4. DriverInv'
  <2>1. WriteOf(text'[msg']) /\ ~DriverWaits'
    BY <1>1, <1>2, <1>3 DEF DriverInv, DriverWaits, Section
  <2>2. msg' \in held'[Consdrv] /\ ccr'[Consdrv] = TRUE
    BY <1>1, <1>2, <1>3 DEF DriverInv
  <2>3. from \in {"write_copy", "write_test", "write_start"}
    BY <1>2 DEF Section
  <2> QED
    BY <1>2, <1>3, <2>1, <2>2, <2>3 DEF DriverInv, DriverWaits, Section, WriteOf
<1>5. /\ cons.sender = Command /\ port.rie /\ cons.send_buf # cons.recv_buf
      /\ {cons.send_buf, cons.recv_buf} \subseteq held[Consdrv]
      /\ msg \notin {cons.send_buf, cons.recv_buf}
  BY <1>2, <1>3 DEF UseInv
<1>6. /\ ~port.waited /\ (~port.tie => port.tdre) /\ cons \in Consreg /\ port \in Port(Char)
  BY <1>3 DEF ConsoleInv, Always, Types
<1>7. \E s \in Seq(Char) : text[msg] = <<"write">> \o s /\ Tail(text[msg]) = s
  <2>1. PICK s \in Written : text[msg] = <<"write">> \o s
    BY <1>2, <1>3 DEF DriverInv, WriteOf, Section
  <2> QED
    BY <2>1, MessageTyped, WrittenTyped
<1>8. /\ cons' \in Consreg /\ port' \in Port(Char) /\ ~port'.waited /\ (~port'.tie => port'.tdre)
      /\ cons'.sender = cons.sender /\ cons'.send_buf = cons.send_buf
      /\ cons'.recv_buf = cons.recv_buf /\ cons'.recv = cons.recv
      /\ port'.rie = port.rie /\ port'.rdrf = port.rdrf /\ port'.rdr = port.rdr
      /\ to = "write_start" => cons'.send # <<>> /\ ~port'.tie
      /\ to \notin {"write_test", "write_start"} /\ cons'.send # <<>> => port'.tie
  <2>1. CASE from = "write_copy"
    <3>1. /\ cons' = [cons EXCEPT !.send = @ \o OnWire(Tail(text[msg]))] /\ port' = port
          /\ to = "write_test"
      BY <2>1 DEF SetDriver, Copied, Driver
    <3>2. OnWire(Tail(text[msg])) \in Seq(Char) /\ cons.send \in Seq(Char)
      BY <1>6, <1>7, OnWireTyped DEF Consreg
    <3>3. cons.send \o OnWire(Tail(text[msg])) \in Seq(Char)
      BY <3>2
    <3> QED
      BY <1>6, <3>1, <3>3 DEF Consreg
  <2>2. CASE from = "write_test"
    <3>1. /\ cons' = cons /\ port' = port
          /\ to = IF cons.send # <<>> /\ ~port.tie THEN "write_start" ELSE "write_enable"
      BY <2>2 DEF MustStart, Driver
    <3> QED
      BY <1>6, <3>1
  <2>3. CASE from = "write_start"
    <3>1. /\ cons' = [cons EXCEPT !.send = Tail(@)] /\ to = "write_enable"
          /\ port' = [port EXCEPT !.waited = @ \/ ~port.tdre, !.tdr = Head(cons.send),
                                  !.tdre = FALSE, !.tie = TRUE]
      BY <1>6, <2>3 DEF SetDriver, Started, send_char, Driver, serial_send_byte,
         serial_intr_send_enable, Port
    <3>2. cons.send # <<>> /\ ~port.tie /\ cons.send \in Seq(Char)
      BY <1>3, <1>6, <2>3 DEF PortInv, Consreg
    <3>3. Head(cons.send) \in Char /\ Tail(cons.send) \in Seq(Char)
      BY <3>2
    <3> QED
      BY <1>6, <3>1, <3>2, <3>3 DEF Consreg, Port
  <2> QED
    BY <2>1, <2>2, <2>3
<1>9. UseInv'
  BY <1>1, <1>3, <1>5, <1>8 DEF UseInv
<1>10. PortInv'
  BY <1>3, <1>8, PendingNext DEF PortInv
<1>11. BuffersFirst'
  <2>1. cons'.sender # NULL /\ NULL \notin {cons'.send_buf, cons'.recv_buf}
    BY <1>3, <1>5, <1>8, Books, Names DEF KernelHolds
  <2> QED
    BY <1>1, <1>5, <1>8, <2>1 DEF BuffersFirst
<1>12. Always'
  BY <1>3, <1>8, <1>11 DEF Always, Types
<1> QED
  BY <1>3, <1>4, <1>9, <1>10, <1>12 DEF RunInv

(* and interrupts enabled. *)
LEMMA WriteLast ==
  ASSUME ConsoleInv, KernelHolds', Goto(Consdrv, "write_enable", "free"), SetCcr(FALSE),
         UNCHANGED <<msg, cons, port, ret, str, text>>
  PROVE  Always' /\ RunInv'
<1>1. mode = "run" /\ RolesKept /\ UNCHANGED <<mb, held, mode>>
  BY MaskedCcr DEF Goto, ConsoleInv
<1>2. /\ KernelHolds /\ Types /\ DriverInv /\ UseInv /\ PortInv /\ ~DriverWaits
      /\ Labels' /\ Roles' /\ pc[Consdrv] = "write_enable" /\ pc'[Consdrv] = "free"
      /\ pc'[Command] = pc[Command] /\ DOMAIN pc' = Thread
      /\ ShellInv' /\ InputInv' /\ Len(BoxSeq(mb', CONSINPUT)) <= Len(BoxSeq(mb, CONSINPUT))
      /\ ~Told' /\ ~BeforeUse /\ ~BeforeUse' /\ ~Opening /\ ~Opening'
      /\ pc[Command] \notin {"use_alloc", "use_send"}
  BY <1>1, InWriting DEF Section
<1>3. DriverInv'
  BY <1>1, <1>2 DEF DriverInv, DriverWaits, Section
<1>4. UseInv'
  BY <1>1, <1>2 DEF UseInv, Section
<1>5. PortInv'
  BY <1>2, PendingNext DEF PortInv
<1>6. Always'
  BY <1>1, <1>2, BuffersKept DEF Always, Types, ConsoleInv
<1> QED
  BY <1>2, <1>3, <1>4, <1>5, <1>6 DEF RunInv

(* Every step of CONSDRV_CMD_WRITE keeps the invariant. *)
LEMMA WriteStep ==
  ASSUME ConsoleInv, KernelHolds', consdrv_command_write
  PROVE  Always' /\ RunInv'
<1>1. CASE /\ Goto(Consdrv, "command", "write_copy") /\ Head(text[ret[Consdrv]]) = "write"
           /\ msg' = ret[Consdrv] /\ intr_disable /\ UNCHANGED <<cons, port>>
  BY <1>1, WriteFirst DEF consdrv_command_write, intr_disable
<1>2. CASE /\ Goto(Consdrv, "write_copy", "write_test") /\ mode = "run"
           /\ SetDriver(Copied(Driver, Tail(text[msg]))) /\ UNCHANGED <<vars, msg>>
  BY <1>2, WriteInside DEF consdrv_command_write
<1>3. CASE /\ Goto(Consdrv, "write_test",
                   IF MustStart(Driver) THEN "write_start" ELSE "write_enable")
           /\ mode = "run" /\ UNCHANGED <<vars, msg, cons, port>>
  BY <1>3, WriteInside DEF consdrv_command_write
<1>4. CASE /\ Goto(Consdrv, "write_start", "write_enable") /\ mode = "run"
           /\ SetDriver(Started(Driver)) /\ UNCHANGED <<vars, msg>>
  BY <1>4, WriteInside DEF consdrv_command_write
<1>5. CASE /\ Goto(Consdrv, "write_enable", "free") /\ intr_enable
           /\ UNCHANGED <<msg, cons, port>>
  BY <1>5, WriteLast DEF consdrv_command_write, intr_enable
<1> QED
  BY <1>1, <1>2, <1>3, <1>4, <1>5 DEF consdrv_command_write
-----------------------------------------------------------------------------
(* The shell. *)
ShellLabels ==
  {"use_send", "prompt_alloc", "prompt_send", "recv", "reply_alloc", "reply_send", "end_alloc",
   "end_send", "free"}

(* Where the shell is after a step of its own. *)
LEMMA AfterCommand ==
  ASSUME ConsoleInv, mode = "run", current = Command, RolesKept,
         NEW to \in ShellLabels, pc' = [pc EXCEPT ![Command] = to],
         mb'.reciever[CONSOUTPUT] \in {NULL, Consdrv},
         mb'.reciever[CONSINPUT] \in {NULL, Command}, mb'.head[CONSOUTPUT] = NULL
  PROVE  /\ Labels' /\ Roles' /\ pc'[Consdrv] = "command" /\ pc'[Command] = to
<1>1. Labels /\ Roles /\ ~Booting /\ pc[Consdrv] = "command"
  BY CommandRuns DEF ConsoleInv
<1>2. /\ pc'[Consdrv] = pc[Consdrv] /\ pc'[Command] = to
      /\ pc'[Idle] = pc[Idle] /\ pc' = [t \in Thread |-> pc'[t]]
  BY <1>1, Names DEF Labels
<1>3. Labels'
  BY <1>1, <1>2 DEF Labels, ShellLabels
<1>4. Roles'
  BY <1>1, <1>2, RolesStay DEF Roles, Booting
<1> QED
  BY <1>1, <1>2, <1>3, <1>4

(* The driver waits for a message while the shell works; what it keeps. *)
LEMMA DriverAside ==
  ASSUME ConsoleInv, mode = "run", current = Command, KernelHolds',
         pc'[Consdrv] = "command", NEW from, pc[Command] = from, NEW to, pc'[Command] = to,
         to \in {"use_alloc", "use_send"} <=> from \in {"use_alloc", "use_send"},
         ret'[Consdrv] = ret[Consdrv], UNCHANGED <<msg, cons, port, ccr>>,
         mb'.reciever[CONSOUTPUT] = mb.reciever[CONSOUTPUT], held'[Consdrv] = held[Consdrv],
         \A b \in Block : text'[b] # text[b] => b \in held[Command],
         Len(BoxSeq(mb', CONSINPUT)) <= Len(BoxSeq(mb, CONSINPUT))
  PROVE  DriverInv' /\ UseInv' /\ PortInv'
<1>1. /\ DriverInv /\ UseInv /\ PortInv /\ pc[Consdrv] = "command" /\ KernelHolds
  BY CommandRuns DEF ConsoleInv
<1>2. SameText(held[Consdrv])
  BY <1>1, Apart, Names DEF BlocksApart, SameText
<1>3. DriverInv' /\ UseInv'
  BY <1>1, <1>2, DriverKept, UseKept
<1>4. PortInv'
  BY <1>1, PortKept
<1> QED
  BY <1>3, <1>4

(* The shell asks for a block to write to, *)
LEMMA ShellAllocates ==
  ASSUME ConsoleInv, KernelHolds', NEW from, NEW to \in ShellLabels, NEW s,
         AllocWrite(from, to, s),
         to \in {"use_alloc", "use_send"} <=> from \in {"use_alloc", "use_send"},
         str' \in Block \cup {NULL}, UNCHANGED <<msg, cons, port>>
  PROVE  /\ Always'
         /\ mode' = "run" =>
              /\ Labels' /\ Roles' /\ DriverInv' /\ UseInv' /\ InputInv' /\ PortInv'
              /\ ShellInv /\ ~ShellWaits' /\ pc[Command] = from /\ pc'[Command] = to
              /\ \E b \in Block : /\ b \notin held[Command] /\ ret'[Command] = b
                                  /\ held'[Command] = held[Command] \cup {b}
<1>1. /\ current = Command /\ pc' = [pc EXCEPT ![Command] = to] /\ pc[Command] = from
      /\ text' = text
  BY DEF Goto, AllocWrite
<1>2. /\ mode = "run" /\ RolesKept /\ ccr' = ccr /\ mb' = mb
      /\ \/ mode' # "run" /\ held' = held /\ ret' = ret
         \/ \E b \in Block :
              /\ \A u \in Thread : b \notin held[u]
              /\ held' = [held EXCEPT ![Command] = @ \cup {b}]
              /\ ret' = [ret EXCEPT ![Command] = b]
  BY <1>1, Allocated DEF AllocWrite
<1>3. /\ KernelHolds /\ Always /\ RunInv /\ Roles /\ ~ShellWaits
      /\ DriverInv /\ UseInv /\ ShellInv /\ InputInv /\ PortInv /\ pc[Consdrv] = "command"
  BY <1>1, <1>2, CommandRuns DEF ConsoleInv
<1>4. Labels' /\ Roles' /\ pc'[Consdrv] = "command" /\ pc'[Command] = to
  BY <1>1, <1>2, <1>3, AfterCommand DEF Roles
<1>5. /\ held \in [Thread -> SUBSET Block] /\ ret \in [Thread -> Block \cup {NULL}]
      /\ ret' \in [Thread -> Block \cup {NULL}] /\ DOMAIN pc' = Thread
  BY <1>1, <1>3, Books, ReturnedTyped DEF KernelHolds, Always, Types, AllocWrite
<1>6. held'[Consdrv] = held[Consdrv] /\ ret'[Consdrv] = ret[Consdrv]
  BY <1>2, <1>5, Names
<1>7. Always'
  BY <1>1, <1>3, <1>5, <1>6, BuffersKept DEF Always, Types
<1>8. Len(BoxSeq(mb', CONSINPUT)) <= Len(BoxSeq(mb, CONSINPUT))
  BY <1>2 DEF BoxSeq
<1>9. DriverInv' /\ UseInv' /\ PortInv'
  BY <1>1, <1>2, <1>4, <1>6, <1>8, DriverAside
<1>10. InputInv' /\ ~ShellWaits'
  BY <1>1, <1>2, <1>3 DEF InputInv, ShellWaits, Ends
<1>11. mode' = "run" =>
         \E b \in Block : /\ b \notin held[Command] /\ ret'[Command] = b
                          /\ held'[Command] = held[Command] \cup {b}
  BY <1>2, <1>5, Names
<1> QED
  BY <1>1, <1>3, <1>4, <1>7, <1>9, <1>10, <1>11

(* sends it, *)
LEMMA ShellSends ==
  ASSUME ConsoleInv, KernelHolds', NEW from \in {"use_send", "prompt_send", "reply_send", "end_send"},
         NEW to \in ShellLabels \ {"use_send"}, NEW m, SendMessage(from, to, m),
         m = <<"use">> \/ WriteOf(m), from = "use_send" <=> m = <<"use">>,
         UNCHANGED <<msg, str, cons, port>>
  PROVE  /\ Always'
         /\ mode' = "run" =>
              /\ Labels' /\ Roles' /\ DriverInv' /\ UseInv' /\ InputInv' /\ PortInv'
              /\ ShellInv /\ ~ShellWaits' /\ pc[Command] = from /\ pc'[Command] = to
              /\ held'[Command] = held[Command] \ {ret[Command]}
              /\ SameText(held'[Command])
<1>1. /\ current = Command /\ pc' = [pc EXCEPT ![Command] = to] /\ pc[Command] = from
      /\ text' = [text EXCEPT ![ret[Command]] = m] /\ thread_send(CONSOUTPUT, ret[Command])
      /\ Returned(ret)
  BY DEF Goto, SendMessage
<1>2. mode = "run"
  BY <1>1 DEF thread_send, Syscall
<1>3. /\ KernelHolds /\ Always /\ RunInv /\ Roles /\ ~ShellWaits /\ DriverWaits
      /\ DriverInv /\ UseInv /\ ShellInv /\ InputInv /\ PortInv /\ pc[Consdrv] = "command"
  BY <1>1, <1>2, CommandRuns DEF ConsoleInv
<1>4. /\ held \in [Thread -> SUBSET Block] /\ ret \in [Thread -> Block \cup {NULL}]
      /\ text \in [Block -> Seq(Letter)] /\ DOMAIN pc' = Thread
      /\ ret' \in [Thread -> Block \cup {NULL}] /\ BlocksApart
  BY <1>1, <1>3, Books, ReturnedTyped, Apart DEF KernelHolds, Always, Types
<1>5. PICK d \in Block : d = ret[Command] /\ d \in held[Command]
  BY <1>1, <1>3, <1>4, Names DEF ShellInv
<1>6. m \in Seq(Letter)
  <2>1. <<"use">> \in Seq(Letter)
    BY DEF Letter
  <2> QED
    BY <2>1, MessageTyped DEF WriteOf
<1>7. text' \in [Block -> Seq(Letter)] /\ text'[d] = m /\ \A b \in Block \ {d} : text'[b] = text[b]
  BY <1>1, <1>4, <1>5, <1>6
<1>8. /\ func' = func /\ ccr' = ccr
      /\ \/ mode' # "run" /\ UNCHANGED ipcVars
         \/ /\ RolesKept /\ OthersSame(CONSOUTPUT)
            /\ \/ Queued(CONSOUTPUT, d, [held EXCEPT ![current] = @ \ {d}])
               \/ Handed(CONSOUTPUT, d, [held EXCEPT ![current] = @ \ {d}])
  BY <1>1, <1>3, <1>5, Names, SendEffect
<1>9. mb.reciever[CONSOUTPUT] = Consdrv
  BY <1>3 DEF Roles, DriverWaits
<1>10. ~Queued(CONSOUTPUT, d, [held EXCEPT ![current] = @ \ {d}])
  BY <1>3 DEF Queued, DriverWaits
<1>11. CASE mode' # "run" /\ UNCHANGED ipcVars
  <2>1. BuffersFirst'
    BY <1>3, <1>11, BuffersKept DEF Always, ipcVars
  <2> QED
    BY <1>3, <1>4, <1>7, <1>11, <2>1 DEF Always, Types
<1>12. CASE /\ RolesKept /\ OthersSame(CONSOUTPUT)
            /\ Handed(CONSOUTPUT, d, [held EXCEPT ![current] = @ \ {d}])
  <2>1. /\ mb'.reciever[CONSOUTPUT] = NULL /\ mb'.head[CONSOUTPUT] = NULL
        /\ mb'.reciever[CONSINPUT] = mb.reciever[CONSINPUT]
        /\ held' = [[held EXCEPT ![Command] = @ \ {d}] EXCEPT ![Consdrv] = @ \cup {d}]
    BY <1>1, <1>5, <1>9, <1>12, Names, ZenonT(60) DEF Handed, OthersSame
  <2>2. /\ held'[Command] = held[Command] \ {d} /\ held'[Consdrv] = held[Consdrv] \cup {d}
        /\ \A u \in Thread : u # Consdrv => held'[u] \subseteq held[u]
        /\ d \notin held[Consdrv]
    BY <1>4, <1>5, <2>1, Names DEF BlocksApart
  <2>3. ret' = [u \in Thread |-> IF u = Consdrv THEN d ELSE ret[u]]
    BY <1>1, <2>2, Names, ReturnedOne
  <2>4. ret'[Consdrv] = d /\ ret'[Command] = ret[Command]
    BY <2>3, Names
  <2>5. Labels' /\ Roles' /\ pc'[Consdrv] = "command" /\ pc'[Command] = to
    BY <1>1, <1>2, <1>3, <1>12, <2>1, AfterCommand DEF Roles
  <2>6. Always'
    <3>1. BuffersFirst'
      BY <1>3, <2>2, BuffersKept DEF Always
    <3> QED
      BY <1>3, <1>4, <1>7, <3>1 DEF Always, Types
  <2>7. Told' /\ ~DriverWaits' /\ ~Opening' /\ ~Opening /\ ~Told
    BY <1>3, <2>1, <2>5 DEF Told, DriverWaits, Opening
  <2>8. DriverInv'
    BY <1>5, <1>7, <2>2, <2>4, <2>5, <2>7 DEF DriverInv, WriteOf, Section, ShellLabels
  <2>9. BeforeUse' <=> BeforeUse
    <3>1. BeforeUse <=> from = "use_send"
      BY <1>1, <2>7 DEF BeforeUse
    <3>2. to \notin {"use_alloc", "use_send"}
      BY DEF ShellLabels
    <3>3. BeforeUse' <=> m = <<"use">>
      BY <1>7, <2>4, <2>5, <2>7, <3>2 DEF BeforeUse
    <3> QED
      BY <3>1, <3>3
  <2>10. UseInv'
    BY <1>3, <2>2, <2>4, <2>5, <2>7, <2>9 DEF UseInv, Section
  <2>11. /\ Ends(mb', CONSINPUT) = Ends(mb, CONSINPUT)
         /\ BoxSeq(mb', CONSINPUT) = BoxSeq(mb, CONSINPUT)
         /\ \A c \in Ends(mb, CONSINPUT) : mb'.data[c] = mb.data[c]
    BY <1>12, Names DEF OthersSame, Ends, BoxSeq
  <2>12. SameText({mb.data[c] : c \in Ends(mb, CONSINPUT)})
    BY <1>3, <1>4, <1>5, <1>7, Names DEF SameText, BlocksApart, InputInv
  <2>13. InputInv'
    BY <1>3, <2>11, <2>12, InputKept
  <2>14. PortInv'
    BY <1>3, <2>5, <2>11, PortKept DEF BoxSeq
  <2>15. ~ShellWaits'
    BY <1>3, <2>1 DEF ShellWaits
  <2>16. SameText(held'[Command])
    BY <1>4, <1>7, <2>2, Names DEF SameText
  <2> QED
    BY <1>1, <1>3, <1>5, <2>2, <2>5, <2>6, <2>8, <2>10, <2>13, <2>14, <2>15, <2>16
<1> QED
  BY <1>8, <1>10, <1>11, <1>12

(* waits for a line, *)
LEMMA ShellReceives ==
  ASSUME ConsoleInv, KernelHolds', Goto(Command, "recv", "reply_alloc"), thread_recv(CONSINPUT),
         Returned([ret EXCEPT ![Command] = NULL]), UNCHANGED <<str, text, msg, cons, port>>
  PROVE  Always' /\ RunInv'
<1>1. /\ current = Command /\ pc' = [pc EXCEPT ![Command] = "reply_alloc"] /\ pc[Command] = "recv"
  BY DEF Goto
<1>2. mode = "run"
  BY DEF thread_recv, Syscall
<1>3. /\ KernelHolds /\ Always /\ RunInv /\ Roles /\ ~ShellWaits
      /\ DriverInv /\ UseInv /\ ShellInv /\ InputInv /\ PortInv /\ pc[Consdrv] = "command"
  BY <1>1, <1>2, CommandRuns DEF ConsoleInv
<1>4. /\ held \in [Thread -> SUBSET Block] /\ ret \in [Thread -> Block \cup {NULL}]
      /\ DOMAIN pc' = Thread /\ [ret EXCEPT ![Command] = NULL] \in [Thread -> Block \cup {NULL}]
      /\ BlocksApart /\ mb \in Boxes
  BY <1>1, <1>3, Books, Apart, Names DEF KernelHolds, Always, Types
<1>5. ret' \in [Thread -> Block \cup {NULL}]
  BY <1>4, ReturnedTyped
<1>6. /\ ccr' = ccr
      /\ \/ mode' # "run" /\ UNCHANGED ipcVars
         \/ /\ RolesKept /\ OthersSame(CONSINPUT)
            /\ \/ /\ mb.head[CONSINPUT] \in Ends(mb, CONSINPUT) /\ mb'.reciever[CONSINPUT] = NULL
                  /\ Ends(mb', CONSINPUT) \subseteq Ends(mb, CONSINPUT)
                  /\ Len(BoxSeq(mb', CONSINPUT)) < Len(BoxSeq(mb, CONSINPUT))
                  /\ \A c \in Ends(mb', CONSINPUT) : mb'.data[c] = mb.data[c]
                  /\ held' = [held EXCEPT ![Command] =
                                @ \cup ({mb.data[mb.head[CONSINPUT]]} \cap Block)]
               \/ /\ held' = held
                  /\ mb' = [mb EXCEPT !.reciever[CONSINPUT] = Command]
  BY <1>1, <1>3, Names, RecvEffect
<1>7. held' \in [Thread -> SUBSET Block] /\ held'[Consdrv] = held[Consdrv]
  BY <1>4, <1>6, Names DEF KernelHolds, KernelInv, IpcInv, ipcVars
<1>8. Always'
  BY <1>3, <1>4, <1>5, <1>7, BuffersKept DEF Always, Types
<1>9. \A S : SameText(S)
  BY DEF SameText
<1>10. ASSUME mode' = "run", RolesKept, OthersSame(CONSINPUT), ret'[Consdrv] = ret[Consdrv],
              mb'.reciever[CONSINPUT] \in {NULL, Command},
              Ends(mb', CONSINPUT) \subseteq Ends(mb, CONSINPUT),
              Len(BoxSeq(mb', CONSINPUT)) <= Len(BoxSeq(mb, CONSINPUT)),
              \A c \in Ends(mb', CONSINPUT) : mb'.data[c] = mb.data[c],
              \/ mb'.reciever[CONSINPUT] # NULL /\ ret'[Command] = NULL
              \/ /\ mb'.reciever[CONSINPUT] = NULL /\ ret'[Command] \in held'[Command]
                 /\ text[ret'[Command]] \in Lines
       PROVE  RunInv'
  <2>1. /\ mb'.reciever[CONSOUTPUT] = mb.reciever[CONSOUTPUT] /\ mb'.head[CONSOUTPUT] = NULL
    BY <1>3, <1>10, Names DEF OthersSame, Roles
  <2>2. Labels' /\ Roles' /\ pc'[Consdrv] = "command" /\ pc'[Command] = "reply_alloc"
    BY <1>1, <1>2, <1>3, <1>10, <2>1, AfterCommand DEF Roles, ShellLabels
  <2>3. DriverInv' /\ UseInv' /\ PortInv'
    BY <1>1, <1>2, <1>6, <1>7, <1>10, <2>1, <2>2, DriverAside
  <2>4. InputInv'
    BY <1>3, <1>9, <1>10, InputKept
  <2>5. ShellInv'
    BY <1>10, <2>2 DEF ShellInv, ShellWaits
  <2> QED
    BY <2>2, <2>3, <2>4, <2>5 DEF RunInv
<1>11. CASE /\ RolesKept /\ OthersSame(CONSINPUT) /\ held' = held
            /\ mb' = [mb EXCEPT !.reciever[CONSINPUT] = Command] /\ mode' = "run"
  <2>1. /\ mb'.reciever[CONSINPUT] = Command /\ mb'.head = mb.head /\ mb'.tail = mb.tail
        /\ mb'.data = mb.data /\ Command # NULL
    BY <1>4, <1>11, Names DEF Boxes
  <2>2. ret' = [u \in Thread |-> [ret EXCEPT ![Command] = NULL][u]]
    BY <1>11, ReturnedNone
  <2>3. ret'[Command] = NULL /\ ret'[Consdrv] = ret[Consdrv]
    BY <1>4, <2>2, Names
  <2>4. Ends(mb', CONSINPUT) = Ends(mb, CONSINPUT) /\ BoxSeq(mb', CONSINPUT) = BoxSeq(mb, CONSINPUT)
    BY <2>1 DEF Ends, BoxSeq
  <2>5. Len(BoxSeq(mb, CONSINPUT)) <= Len(BoxSeq(mb, CONSINPUT))
    BY DEF BoxSeq
  <2>6. RunInv'
    BY <1>10, <1>11, <2>1, <2>3, <2>4, <2>5
  <2> QED
    BY <1>8, <2>6
<1>12. CASE /\ RolesKept /\ OthersSame(CONSINPUT)
            /\ mb.head[CONSINPUT] \in Ends(mb, CONSINPUT) /\ mb'.reciever[CONSINPUT] = NULL
            /\ Ends(mb', CONSINPUT) \subseteq Ends(mb, CONSINPUT)
            /\ Len(BoxSeq(mb', CONSINPUT)) < Len(BoxSeq(mb, CONSINPUT))
            /\ \A c \in Ends(mb', CONSINPUT) : mb'.data[c] = mb.data[c]
            /\ held' = [held EXCEPT ![Command] =
                                @ \cup ({mb.data[mb.head[CONSINPUT]]} \cap Block)]
            /\ mode' = "run"
  <2>1. PICK d \in Block : d = mb.data[mb.head[CONSINPUT]] /\ text[d] \in Lines
    BY <1>3, <1>12 DEF InputInv
  <2>2. \A u \in Thread : d \notin held[u]
    BY <1>4, <1>12, <2>1, Names DEF BlocksApart
  <2>3. held'[Command] = held[Command] \cup {d} /\ \A u \in Thread : u # Command => held'[u] \subseteq held[u]
    BY <1>4, <1>12, <2>1, Names
  <2>4. PICK before : before = [ret EXCEPT ![Command] = NULL] /\ Returned(before)
    OBVIOUS
  <2>5. ret'[Command] = d /\ ret'[Consdrv] = ret[Consdrv]
    <3>1. Command \in Thread /\ d \notin held[Command]
      BY <2>2, Names
    <3>2. ret' = [u \in Thread |-> IF u = Command THEN d ELSE before[u]]
      <4>1. /\ held'[Command] \ held[Command] = {d}
            /\ \A u \in Thread : u # Command => held'[u] \ held[u] = {}
        BY <2>3, <3>1
      <4>2. (CHOOSE x \in {d} : TRUE) = d /\ {d} # {}
        OBVIOUS
      <4> QED
        BY <2>4, <4>1, <4>2 DEF Returned
    <3> QED
      BY <1>4, <2>4, <3>2, Names
  <2>6. Len(BoxSeq(mb', CONSINPUT)) <= Len(BoxSeq(mb, CONSINPUT))
    <3>1. Len(BoxSeq(mb', CONSINPUT)) \in Nat /\ Len(BoxSeq(mb, CONSINPUT)) \in Nat
      BY DEF BoxSeq
    <3> QED
      BY <1>12, <3>1
  <2>7. RunInv'
    BY <1>10, <1>12, <2>1, <2>3, <2>5, <2>6
  <2> QED
    BY <1>8, <2>7
<1>13. CASE mode' # "run"
  BY <1>8, <1>13 DEF RunInv
<1> QED
  BY <1>6, <1>11, <1>12, <1>13

(* and frees one it has answered. *)
LEMMA ShellFrees ==
  ASSUME ConsoleInv, KernelHolds', Goto(Command, "free", "prompt_alloc"), thread_kmfree(str),
         text' = [text EXCEPT ![str] = <<>>], str' = NULL, UNCHANGED <<ret, msg, cons, port>>
  PROVE  Always' /\ RunInv'
<1>1. /\ current = Command /\ pc' = [pc EXCEPT ![Command] = "prompt_alloc"] /\ pc[Command] = "free"
  BY DEF Goto
<1>2. mode = "run"
  BY DEF thread_kmfree, Syscall
<1>3. /\ KernelHolds /\ Always /\ RunInv /\ Roles /\ ~ShellWaits
      /\ DriverInv /\ UseInv /\ ShellInv /\ InputInv /\ PortInv /\ pc[Consdrv] = "command"
  BY <1>1, <1>2, CommandRuns DEF ConsoleInv
<1>4. RolesKept /\ ccr' = ccr /\ mb' = mb /\ held' = [held EXCEPT ![Command] = @ \ {str}]
  BY <1>1, <1>3, KmfreeEffect
<1>5. /\ held \in [Thread -> SUBSET Block] /\ text \in [Block -> Seq(Letter)]
      /\ DOMAIN pc' = Thread /\ BlocksApart /\ str \in held[Command]
  BY <1>1, <1>3, Books, Apart DEF KernelHolds, Always, Types, ShellInv
<1>6. /\ held'[Consdrv] = held[Consdrv] /\ text' \in [Block -> Seq(Letter)]
      /\ \A b \in Block : text'[b] # text[b] => b \in held[Command]
  BY <1>4, <1>5, Names, NoText
<1>7. Always'
  BY <1>3, <1>5, <1>6, BuffersKept DEF Always, Types
<1>8. Labels' /\ Roles' /\ pc'[Consdrv] = "command" /\ pc'[Command] = "prompt_alloc"
  BY <1>1, <1>2, <1>3, <1>4, AfterCommand DEF Roles, ShellLabels
<1>9. Len(BoxSeq(mb', CONSINPUT)) <= Len(BoxSeq(mb, CONSINPUT))
  BY <1>4 DEF BoxSeq
<1>10. DriverInv' /\ UseInv' /\ PortInv'
  BY <1>1, <1>2, <1>4, <1>6, <1>8, <1>9, DriverAside
<1>11. SameText({mb.data[c] : c \in Ends(mb, CONSINPUT)})
  BY <1>3, <1>5, <1>6, Names DEF SameText, BlocksApart, InputInv
<1>12. InputInv'
  BY <1>3, <1>4, <1>11, InputKept
<1>13. ShellInv'
  BY <1>3, <1>4, <1>8 DEF ShellInv, ShellWaits
<1> QED
  BY <1>7, <1>8, <1>10, <1>12, <1>13 DEF RunInv

(* Every step of command_main keeps the invariant. *)
LEMMA ShellStep ==
  ASSUME ConsoleInv, KernelHolds', command_main
  PROVE  Always' /\ RunInv'
<1>1. str \in Block \cup {NULL} /\ ret[Command] \in Block \cup {NULL} /\ UNCHANGED <<msg, cons, port>>
  BY Names DEF ConsoleInv, Always, Types, command_main
<1>2. ASSUME NEW from \in {"use_alloc", "prompt_alloc", "end_alloc"}, NEW to, NEW s,
             to = IF from = "use_alloc" THEN "use_send"
                  ELSE IF from = "prompt_alloc" THEN "prompt_send" ELSE "end_send",
             AllocWrite(from, to, s), UNCHANGED str
      PROVE  Always' /\ RunInv'
  <2>1. to \in ShellLabels /\ (to \in {"use_alloc", "use_send"} <=> from \in {"use_alloc", "use_send"})
    BY <1>2 DEF ShellLabels
  <2>2. /\ Always'
        /\ mode' = "run" =>
              /\ Labels' /\ Roles' /\ DriverInv' /\ UseInv' /\ InputInv' /\ PortInv'
              /\ ShellInv /\ ~ShellWaits' /\ pc[Command] = from /\ pc'[Command] = to
              /\ \E b \in Block : /\ b \notin held[Command] /\ ret'[Command] = b
                                  /\ held'[Command] = held[Command] \cup {b}
    BY <1>1, <1>2, <2>1, ShellAllocates
  <2>3. mode' = "run" => ShellInv'
    BY <1>2, <2>2 DEF ShellInv
  <2> QED
    BY <2>2, <2>3 DEF RunInv
<1>3. ASSUME str' = ret[Command], NEW s, AllocWrite("reply_alloc", "reply_send", s)
      PROVE  Always' /\ RunInv'
  <2>0. /\ "reply_send" \in ShellLabels /\ str' \in Block \cup {NULL}
        /\ "reply_send" \in {"use_alloc", "use_send"} <=> "reply_alloc" \in {"use_alloc", "use_send"}
    BY <1>1, <1>3 DEF ShellLabels
  <2>1. /\ Always'
        /\ mode' = "run" =>
              /\ Labels' /\ Roles' /\ DriverInv' /\ UseInv' /\ InputInv' /\ PortInv'
              /\ ShellInv /\ ~ShellWaits' /\ pc[Command] = "reply_alloc"
              /\ pc'[Command] = "reply_send"
              /\ \E b \in Block : /\ b \notin held[Command] /\ ret'[Command] = b
                                  /\ held'[Command] = held[Command] \cup {b}
    BY <1>1, <1>3, <2>0, ShellAllocates
  <2>2. mode' = "run" => ret[Command] \in held[Command] /\ text[ret[Command]] \in Lines
    <3>1. current = Command /\ mode = "run"
      BY <1>3 DEF AllocWrite, Goto, thread_kmalloc, Syscall
    <3> QED
      BY <2>1, <3>1, CommandRuns DEF ConsoleInv, ShellInv
  <2>3. text' = text
    BY <1>3 DEF AllocWrite
  <2>4. mode' = "run" => ShellInv'
    BY <1>3, <2>1, <2>2, <2>3 DEF ShellInv
  <2> QED
    BY <2>1, <2>4 DEF RunInv
<1>4. ASSUME NEW from \in {"use_send", "prompt_send", "reply_send", "end_send"},
             NEW to \in {"prompt_alloc", "recv", "free", "end_alloc"}, NEW m,
             SendMessage(from, to, m), m = <<"use">> \/ WriteOf(m), from = "use_send" <=> m = <<"use">>,
             to \in {"free", "end_alloc"} => from \in {"reply_send", "end_send"},
             UNCHANGED str
      PROVE  Always' /\ RunInv'
  <2>1. to \in ShellLabels \ {"use_send"}
    BY DEF ShellLabels
  <2>2. /\ Always'
        /\ mode' = "run" =>
              /\ Labels' /\ Roles' /\ DriverInv' /\ UseInv' /\ InputInv' /\ PortInv'
              /\ ShellInv /\ ~ShellWaits' /\ pc[Command] = from /\ pc'[Command] = to
              /\ held'[Command] = held[Command] \ {ret[Command]}
              /\ SameText(held'[Command])
    BY <1>1, <1>4, <2>1, ShellSends
  <2>3. mode' = "run" => ShellInv'
    BY <1>4, <2>2 DEF ShellInv
  <2> QED
    BY <2>2, <2>3 DEF RunInv
<1>5. \A s \in Written : WriteOf(<<"write">> \o s) /\ <<"write">> \o s # <<"use">>
  BY MessageTyped DEF WriteOf
<1>6. ASSUME SendWrite("reply_send", IF Len(Reply(text[str])) = 1 THEN "free" ELSE "end_alloc",
                       Reply(text[str])[1]), UNCHANGED str
      PROVE  Always' /\ RunInv'
  <2>1. current = Command /\ mode = "run" /\ pc[Command] = "reply_send"
    BY <1>6 DEF SendWrite, SendMessage, Goto, thread_send, Syscall
  <2>2. Reply(text[str])[1] \in Written
    BY <2>1, CommandRuns, WrittenTyped DEF ConsoleInv, ShellInv
  <2> QED
    BY <1>4, <1>5, <1>6, <2>2 DEF SendWrite
<1>7. CASE AllocWrite("use_alloc", "use_send", <<"0">>) /\ UNCHANGED str
  BY <1>2, <1>7
<1>8. CASE SendMessage("use_send", "prompt_alloc", <<"use">>) /\ UNCHANGED str
  BY <1>4, <1>8
<1>9. CASE AllocWrite("prompt_alloc", "prompt_send", Prompt) /\ UNCHANGED str
  BY <1>2, <1>9
<1>10. CASE SendWrite("prompt_send", "recv", Prompt) /\ UNCHANGED str
  BY <1>4, <1>5, <1>10, WrittenTyped DEF SendWrite
<1>11. CASE AllocWrite("end_alloc", "end_send", <<LF>>) /\ UNCHANGED str
  BY <1>2, <1>11
<1>12. CASE SendWrite("end_send", "free", <<LF>>) /\ UNCHANGED str
  BY <1>4, <1>5, <1>12, WrittenTyped DEF SendWrite
<1>13. CASE str' = ret[Command] /\ AllocWrite("reply_alloc", "reply_send", Reply(text[str'])[1])
  BY <1>3, <1>13
<1>14. CASE /\ Goto(Command, "recv", "reply_alloc") /\ thread_recv(CONSINPUT)
            /\ Returned([ret EXCEPT ![Command] = NULL]) /\ UNCHANGED <<str, text>>
  BY <1>1, <1>14, ShellReceives
<1>15. CASE /\ Goto(Command, "free", "prompt_alloc") /\ thread_kmfree(str)
            /\ text' = [text EXCEPT ![str] = <<>>] /\ str' = NULL /\ UNCHANGED ret
  BY <1>1, <1>15, ShellFrees
<1> QED
  BY <1>6, <1>7, <1>8, <1>9, <1>10, <1>11, <1>12, <1>13, <1>14, <1>15 DEF command_main
-----------------------------------------------------------------------------
(* The interrupt handler: the driver's record and the port it works on. *)
Drivers == [cons : Consreg, port : Port(Char)]

(* What is on its way out. *)
Wire(d) == (IF d.port.tdre THEN <<>> ELSE <<d.port.tdr>>) \o d.cons.send

Serves(d) ==
  /\ d \in Drivers
  /\ d.cons.sender = cons.sender /\ d.cons.recv = cons.recv
  /\ d.cons.send_buf = cons.send_buf /\ d.cons.recv_buf = cons.recv_buf
  /\ d.port.rie = port.rie /\ ~d.port.waited
  /\ ~d.port.tie => d.port.tdre
  /\ d.cons.send # <<>> => d.port.tie

(* The text of the send buffer is set. *)
LEMMA BufferSet ==
  ASSUME NEW d \in Drivers, NEW x \in Seq(Char)
  PROVE  \E e \in Drivers : /\ [d EXCEPT !.cons.send = x] = e /\ e.port = d.port
                            /\ e.cons = [d.cons EXCEPT !.send = x]
<1>1. PICK c \in Consreg : c = [d.cons EXCEPT !.send = x]
  BY DEF Consreg, Drivers
<1>2. PICK e \in Drivers : e = [d EXCEPT !.cons = c]
  BY DEF Drivers
<1>3. [d EXCEPT !.cons.send = x] = e
  BY <1>1, <1>2
<1> QED
  BY <1>1, <1>2, <1>3 DEF Drivers

(* One character of it goes to a port that is ready. *)
LEMMA CharacterSent ==
  ASSUME NEW d \in Drivers, d.cons.send # <<>>, d.port.tdre, ~d.port.waited
  PROVE  /\ send_char(d) \in Drivers
         /\ send_char(d).cons.sender = d.cons.sender /\ send_char(d).cons.recv = d.cons.recv
         /\ send_char(d).cons.send_buf = d.cons.send_buf
         /\ send_char(d).cons.recv_buf = d.cons.recv_buf
         /\ send_char(d).port.rie = d.port.rie /\ send_char(d).port.tie = d.port.tie
         /\ send_char(d).port.rdrf = d.port.rdrf /\ send_char(d).port.rdr = d.port.rdr
         /\ ~send_char(d).port.waited /\ ~send_char(d).port.tdre
         /\ send_char(d).port.tdr = Head(d.cons.send)
         /\ send_char(d).cons.send = Tail(d.cons.send)
<1>1. PICK c, x, q : /\ c = Head(d.cons.send) /\ x = Tail(d.cons.send)
                     /\ q = serial_send_byte(d.port, c)
  OBVIOUS
<1>2. c \in Char /\ x \in Seq(Char)
  BY <1>1 DEF Drivers, Consreg
<1>3. q \in Port(Char)
  BY <1>1, <1>2 DEF Drivers, Port, serial_send_byte
<1>4. PICK k \in Consreg : k = [d.cons EXCEPT !.send = x]
  BY <1>2 DEF Consreg, Drivers
<1>5. PICK e \in Drivers : e = [d EXCEPT !.port = q, !.cons = k]
  BY <1>3 DEF Drivers
<1>6. [d EXCEPT !.port = q, !.cons.send = x] = e
  BY <1>4, <1>5
<1>7. send_char(d) = [d EXCEPT !.port = q, !.cons.send = x]
  BY <1>1 DEF send_char
<1>8. /\ k.sender = d.cons.sender /\ k.recv = d.cons.recv
      /\ k.send_buf = d.cons.send_buf /\ k.recv_buf = d.cons.recv_buf /\ k.send = x
  BY <1>4 DEF Consreg, Drivers
<1>9. /\ q.rie = d.port.rie /\ q.tie = d.port.tie /\ q.rdrf = d.port.rdrf /\ q.rdr = d.port.rdr
      /\ ~q.waited /\ ~q.tdre /\ q.tdr = c
  BY <1>1 DEF Drivers, Port, serial_send_byte
<1>10. e.port = q /\ e.cons = k
  BY <1>5 DEF Drivers
<1>11. send_char(d) = e
  BY <1>6, <1>7
<1> QED
  BY <1>1, <1>8, <1>9, <1>10, <1>11

(* It is still on its way. *)
LEMMA SameWire ==
  ASSUME NEW d \in Drivers, d.cons.send # <<>>, d.port.tdre, NEW e,
         ~e.port.tdre, e.port.tdr = Head(d.cons.send), e.cons.send = Tail(d.cons.send)
  PROVE  Wire(e) = Wire(d) /\ Len(e.cons.send) <= Len(d.cons.send)
<1>1. PICK s \in Seq(Char) : s = d.cons.send
  BY DEF Drivers, Consreg
<1>2. <<Head(s)>> \o Tail(s) = s /\ <<>> \o s = s /\ Len(Tail(s)) <= Len(s)
  BY <1>1
<1> QED
  BY <1>1, <1>2 DEF Wire

(* The transmit half of the handler leaves a driver that serves, *)
LEMMA SendPartServes ==
  ASSUME Types, ~port.waited, ~port.tie => port.tdre, cons.send # <<>> => port.tie
  PROVE  /\ Serves(SendPart(Driver))
         /\ SendPart(Driver).port.rdrf = port.rdrf /\ SendPart(Driver).port.rdr = port.rdr
         /\ Wire(SendPart(Driver)) = Wire(Driver)
         /\ Len(SendPart(Driver).cons.send) <= Len(cons.send)
<1>0. Len(cons.send) \in Nat
  BY DEF Types, Consreg
<1>1. PICK d : d = Driver
  OBVIOUS
<1>2. d \in Drivers /\ d.cons = cons /\ d.port = port
  BY <1>1 DEF Driver, Drivers, Types
<1>3. CASE ~port.tdre
  BY <1>0, <1>1, <1>2, <1>3 DEF SendPart, Serves
<1>4. CASE port.tdre /\ cons.send = <<>>
  <2>1. PICK p \in Port(Char) : p = [port EXCEPT !.tie = FALSE]
    BY <1>2 DEF Drivers, Port
  <2>2. PICK e \in Drivers : e = [d EXCEPT !.port = p]
    BY <1>2 DEF Drivers
  <2>3. SendPart(d) = e
    BY <1>2, <1>4, <2>1, <2>2 DEF SendPart, consdrv_send_intrproc, serial_intr_send_disable
  <2>4. e.cons = cons /\ e.port = p
    BY <1>2, <2>2 DEF Drivers
  <2>5. /\ p.rdrf = port.rdrf /\ p.rdr = port.rdr /\ p.rie = port.rie /\ p.waited = port.waited
        /\ p.tdre = port.tdre
    BY <1>2, <2>1 DEF Drivers, Port
  <2> QED
    BY <1>0, <1>1, <1>2, <1>4, <2>3, <2>4, <2>5 DEF Serves, Wire
<1>5. CASE port.tdre /\ cons.send # <<>>
  <2>1. PICK e : e = send_char(d)
    OBVIOUS
  <2>2. SendPart(d) = e
    BY <1>2, <1>5, <2>1 DEF SendPart, consdrv_send_intrproc
  <2>3. /\ e \in Drivers
        /\ e.cons.sender = d.cons.sender /\ e.cons.recv = d.cons.recv
        /\ e.cons.send_buf = d.cons.send_buf /\ e.cons.recv_buf = d.cons.recv_buf
        /\ e.port.rie = d.port.rie /\ e.port.tie = d.port.tie
        /\ e.port.rdrf = d.port.rdrf /\ e.port.rdr = d.port.rdr /\ ~e.port.waited
        /\ ~e.port.tdre /\ e.port.tdr = Head(d.cons.send) /\ e.cons.send = Tail(d.cons.send)
    BY <1>2, <1>5, <2>1, CharacterSent
  <2>4. Wire(e) = Wire(d) /\ Len(e.cons.send) <= Len(d.cons.send)
    BY <1>2, <1>5, <2>3, SameWire
  <2> QED
    BY <1>1, <1>2, <1>5, <2>2, <2>3, <2>4 DEF Serves
<1> QED
  BY <1>3, <1>4, <1>5

(* and so does the echo. *)
LEMMA EchoedServes ==
  ASSUME NEW d, Serves(d), Typed(d.port) \in Char
  PROVE  /\ Serves(Echoed(d)) /\ ~Echoed(d).port.rdrf
         /\ Wire(Echoed(d)) = Wire(d) \o OnWire(<<Typed(d.port)>>)
         /\ Len(Echoed(d).cons.send) <= Len(d.cons.send) + Len(OnWire(<<Typed(d.port)>>))
<1>1. PICK t, p, s : /\ t = Typed(d.port) /\ p = serial_recv_byte(d.port)
                     /\ s = d.cons.send \o OnWire(<<t>>)
  OBVIOUS
<1>2. OnWire(<<t>>) \in Seq(Char)
  <2>1. <<t>> \in Seq(Char)
    BY <1>1
  <2> QED
    BY <2>1, OnWireTyped
<1>3. d \in Drivers /\ d.cons \in Consreg /\ d.port \in Port(Char)
  BY DEF Serves, Drivers
<1>4. s \in Seq(Char)
  <2>1. d.cons.send \in Seq(Char)
    BY <1>3 DEF Consreg
  <2> QED
    BY <1>1, <1>2, <2>1
<1>5. /\ p \in Port(Char) /\ p.rie = d.port.rie /\ p.tie = d.port.tie /\ p.tdre = d.port.tdre
      /\ p.waited = d.port.waited /\ ~p.rdrf /\ p.tdr = d.port.tdr
  BY <1>1, <1>3 DEF Port, serial_recv_byte
<1>6. PICK g \in Drivers : g = [d EXCEPT !.port = p]
  BY <1>3, <1>5 DEF Drivers
<1>7. g.port = p /\ g.cons = d.cons
  BY <1>3, <1>6 DEF Drivers
<1>8. PICK f \in Drivers : /\ f = [g EXCEPT !.cons.send = s] /\ f.port = p
                           /\ f.cons = [d.cons EXCEPT !.send = s]
  BY <1>4, <1>7, BufferSet
<1>9. /\ f.cons.send = s /\ f.cons.sender = d.cons.sender /\ f.cons.recv = d.cons.recv
      /\ f.cons.send_buf = d.cons.send_buf /\ f.cons.recv_buf = d.cons.recv_buf
  BY <1>3, <1>4, <1>8 DEF Consreg
<1>10. [d EXCEPT !.port = serial_recv_byte(@)] = g
  BY <1>1, <1>6
<1>11. Copied(g, <<t>>) = f
  <2>1. [g EXCEPT !.cons.send = @ \o OnWire(<<t>>)] = [g EXCEPT !.cons.send = g.cons.send \o OnWire(<<t>>)]
    OBVIOUS
  <2>2. g.cons.send \o OnWire(<<t>>) = s
    BY <1>1, <1>7
  <2> QED
    BY <1>8, <2>1, <2>2 DEF Copied
<1>12. Echoed(d) = IF s # <<>> /\ ~p.tie THEN Started(f) ELSE f
  BY <1>1, <1>8, <1>9, <1>10, <1>11, ZenonT(60) DEF Echoed, send_string, MustStart
<1>15. /\ Wire(f) = Wire(d) \o OnWire(<<t>>)
       /\ Len(s) = Len(d.cons.send) + Len(OnWire(<<t>>)) /\ Len(s) \in Nat
  <2>1. PICK u \in Seq(Char) : u = d.cons.send
    BY <1>3 DEF Consreg
  <2>2. PICK w \in Seq(Char) : w = OnWire(<<t>>)
    BY <1>2
  <2>3. s = u \o w /\ Len(s) = Len(u) + Len(w)
    BY <1>1, <2>1, <2>2, ConcatProperties
  <2>4. PICK r \in Seq(Char \cup {NoChar}) : r = IF d.port.tdre THEN <<>> ELSE <<d.port.tdr>>
    <3>1. d.port.tdr \in Char \cup {NoChar}
      BY <1>3 DEF Port
    <3>2. <<d.port.tdr>> \in Seq(Char \cup {NoChar}) /\ <<>> \in Seq(Char \cup {NoChar})
      BY <3>1
    <3> QED
      BY <3>2
  <2>5. u \in Seq(Char \cup {NoChar}) /\ w \in Seq(Char \cup {NoChar})
    OBVIOUS
  <2>6. r \o (u \o w) = (r \o u) \o w
    BY <2>5, ConcatAssociative
  <2>7. f.port.tdre = d.port.tdre /\ f.port.tdr = d.port.tdr
    BY <1>5, <1>8
  <2>8. Wire(f) = r \o s
    BY <1>9, <2>4, <2>7, Zenon DEF Wire
  <2>9. Wire(d) = r \o u
    BY <2>1, <2>4, Zenon DEF Wire
  <2>10. Wire(f) = Wire(d) \o w
    BY <2>3, <2>6, <2>8, <2>9, Zenon
  <2> QED
    BY <2>1, <2>2, <2>3, <2>10
<1>13. CASE ~(s # <<>> /\ ~p.tie)
  <2>1. Echoed(d) = f
    BY <1>12, <1>13
  <2>2. Serves(f) /\ ~f.port.rdrf
    BY <1>5, <1>8, <1>9, <1>13 DEF Serves
  <2>3. Wire(f) = Wire(d) \o OnWire(<<t>>) /\ Len(f.cons.send) <= Len(d.cons.send) + Len(OnWire(<<t>>))
    BY <1>9, <1>15
  <2> QED
    BY <1>1, <2>1, <2>2, <2>3
<1>14. CASE s # <<>> /\ ~p.tie
  <2>1. f.cons.send # <<>> /\ f.port.tdre /\ ~f.port.waited
    BY <1>5, <1>8, <1>9, <1>14 DEF Serves
  <2>2. PICK e : e = send_char(f)
    OBVIOUS
  <2>3. /\ e \in Drivers
        /\ e.cons.sender = f.cons.sender /\ e.cons.recv = f.cons.recv
        /\ e.cons.send_buf = f.cons.send_buf /\ e.cons.recv_buf = f.cons.recv_buf
        /\ e.port.rie = f.port.rie /\ e.port.rdrf = f.port.rdrf /\ ~e.port.waited
        /\ ~e.port.tdre /\ e.port.tdr = Head(f.cons.send) /\ e.cons.send = Tail(f.cons.send)
    BY <2>1, <2>2, CharacterSent
  <2>4. PICK q : q = [e.port EXCEPT !.tie = TRUE]
    OBVIOUS
  <2>5. /\ q \in Port(Char) /\ q.tie /\ q.rie = e.port.rie /\ q.waited = e.port.waited
        /\ q.rdrf = e.port.rdrf /\ q.tdre = e.port.tdre /\ q.tdr = e.port.tdr
    BY <2>3, <2>4 DEF Drivers, Port
  <2>6. PICK k \in Drivers : k = [e EXCEPT !.port = q]
    BY <2>3, <2>5 DEF Drivers
  <2>7. k.port = q /\ k.cons = e.cons
    BY <2>3, <2>6 DEF Drivers
  <2>8. Echoed(d) = k
    BY <1>12, <1>14, <2>2, <2>4, <2>6 DEF Started, serial_intr_send_enable
  <2>9. Wire(k) = Wire(f) /\ Len(k.cons.send) <= Len(f.cons.send)
    BY <2>1, <2>3, <2>5, <2>7, SameWire
  <2>10. Len(k.cons.send) \in Nat
    BY <2>6 DEF Drivers, Consreg
  <2>11. Serves(k) /\ ~k.port.rdrf
    BY <1>5, <1>8, <1>9, <2>3, <2>5, <2>7 DEF Serves
  <2>12. /\ Wire(k) = Wire(d) \o OnWire(<<t>>)
         /\ Len(k.cons.send) <= Len(d.cons.send) + Len(OnWire(<<t>>))
    BY <1>9, <1>15, <2>9, <2>10
  <2> QED
    BY <1>1, <2>8, <2>11, <2>12
<1> QED
  BY <1>13, <1>14

(* What an interrupt finds. *)
Handles ==
  /\ mode = "run" /\ ~ccr[current] /\ Requests(port)
  /\ UNCHANGED <<func, ccr, syscall, pc, msg, str>>

LEMMA IntrFinds ==
  ASSUME ConsoleInv, Handles
  PROVE  /\ KernelHolds /\ Always /\ Labels /\ Roles /\ DriverInv /\ UseInv /\ ShellInv
         /\ InputInv /\ PortInv /\ pc[Consdrv] \notin Section /\ ~BeforeUse /\ ~Opening
         /\ Serves(SendPart(Driver))
         /\ SendPart(Driver).port.rdrf = port.rdrf /\ SendPart(Driver).port.rdr = port.rdr
         /\ Wire(SendPart(Driver)) = Wire(Driver)
         /\ Len(SendPart(Driver).cons.send) <= Len(cons.send)
         /\ port.rdrf => Typed(port) \in Char
         /\ port.rdrf /\ Typed(port) = LF =>
              cons.recv \in Lines /\ Pending(CONSINPUT) < MaxPending
<1>1. /\ KernelHolds /\ Always /\ Labels /\ Roles /\ DriverInv /\ UseInv /\ ShellInv
      /\ InputInv /\ PortInv /\ mode = "run"
  BY DEF ConsoleInv, RunInv, Handles
<1>2. pc[Consdrv] \notin Section
  <2>1. current = Consdrv => pc[Consdrv] \notin Section
    BY <1>1 DEF Handles, DriverInv
  <2>2. current # Consdrv => Booting \/ DriverWaits
    BY <1>1, Running
  <2> QED
    BY <1>1, <2>1, <2>2 DEF Roles, DriverInv, Section
<1>3. ~BeforeUse /\ ~Opening
  BY <1>1 DEF UseInv, Handles, Requests, serial_init
<1>4. cons.send # <<>> => port.tie
  BY <1>1, <1>2 DEF PortInv, Section
<1>5. /\ Serves(SendPart(Driver))
      /\ SendPart(Driver).port.rdrf = port.rdrf /\ SendPart(Driver).port.rdr = port.rdr
      /\ Wire(SendPart(Driver)) = Wire(Driver)
      /\ Len(SendPart(Driver).cons.send) <= Len(cons.send)
  BY <1>1, <1>4, SendPartServes DEF Always
<1>6. port.rdrf => Typed(port) \in Char /\ (Typed(port) = LF => port.rdr = CR)
  BY <1>1, Chars DEF PortInv, Typed
<1>7. port.rdrf /\ Typed(port) = LF => cons.recv \in Lines /\ Pending(CONSINPUT) < TypeAhead
  BY <1>1, <1>6 DEF PortInv
<1>8. Pending(CONSINPUT) < TypeAhead => Pending(CONSINPUT) < MaxPending
  <2>1. Pending(CONSINPUT) = Len(BoxSeq(mb, CONSINPUT)) /\ Len(BoxSeq(mb, CONSINPUT)) \in Nat
    BY <1>1, PendingLen, Names DEF PendingAre, BoxSeq
  <2> QED
    BY <2>1, ConsoleAssumption, KozosAssumption
<1> QED
  BY <1>1, <1>2, <1>3, <1>5, <1>6, <1>7, <1>8

(* What it leaves to the driver. *)
Served ==
  /\ cons' \in Consreg /\ port' \in Port(Char)
  /\ cons'.sender = cons.sender
  /\ cons'.send_buf = cons.send_buf /\ cons'.recv_buf = cons.recv_buf
  /\ port'.rie = port.rie /\ ~port'.waited /\ ~port'.rdrf
  /\ ~port'.tie => port'.tdre
  /\ cons'.send # <<>> => port'.tie

(* The handler keeps the types and the buffers, *)
LEMMA IntrAlways ==
  ASSUME ConsoleInv, KernelHolds', Handles, Served,
         ret' \in [Thread -> Block \cup {NULL}], text' \in [Block -> Seq(Letter)],
         held[Consdrv] \subseteq held'[Consdrv]
  PROVE  Always'
<1>1. Always
  BY IntrFinds
<1>2. BuffersFirst'
  BY <1>1, BuffersKept DEF Always, Served, Handles, Requests
<1> QED
  BY <1>1, <1>2 DEF Always, Types, Served, Handles

(* the parts of driver and port, *)
LEMMA IntrDriver ==
  ASSUME ConsoleInv, Handles, Served, ret'[Consdrv] = ret[Consdrv],
         held[Consdrv] \subseteq held'[Consdrv], SameText(held[Consdrv]),
         mb'.reciever[CONSOUTPUT] = mb.reciever[CONSOUTPUT]
  PROVE  Labels' /\ DriverInv' /\ UseInv' /\ PortInv'
<1>1. /\ Labels /\ DriverInv /\ UseInv /\ pc[Consdrv] \notin Section
      /\ ~BeforeUse /\ ~Opening
  BY IntrFinds
<1>2. /\ pc' = pc /\ msg' = msg /\ ccr' = ccr
      /\ pc'[Consdrv] = pc[Consdrv] /\ pc'[Command] = pc[Command] /\ ccr'[Consdrv] = ccr[Consdrv]
  BY DEF Handles
<1>3. DriverInv'
  BY <1>1, <1>2, DriverKept
<1>4. UseInv'
  BY <1>1, <1>2, UseKept DEF Served
<1>5. PortInv'
  BY <1>1, <1>2 DEF PortInv, Served, Section
<1>6. Labels'
  BY <1>1, <1>2 DEF Labels
<1> QED
  BY <1>3, <1>4, <1>5, <1>6

(* whatever it makes of the line. *)
LEMMA ServedBy ==
  ASSUME NEW d, Serves(d), ~d.port.rdrf, NEW line \in Seq(Char),
         SetDriver([d EXCEPT !.cons.recv = line])
  PROVE  Served
<1>1. d \in Drivers /\ d.cons \in Consreg
  BY DEF Serves, Drivers
<1>2. PICK c \in Consreg : c = [d.cons EXCEPT !.recv = line]
  BY <1>1 DEF Consreg
<1>3. PICK e \in Drivers : e = [d EXCEPT !.cons = c]
  BY <1>1 DEF Drivers
<1>4. [d EXCEPT !.cons.recv = line] = e
  BY <1>2, <1>3
<1>5. cons' = c /\ port' = d.port
  BY <1>1, <1>3, <1>4 DEF SetDriver, Drivers
<1>6. /\ c.sender = d.cons.sender /\ c.send_buf = d.cons.send_buf
      /\ c.recv_buf = d.cons.recv_buf /\ c.send = d.cons.send
  BY <1>1, <1>2 DEF Consreg
<1> QED
  BY <1>1, <1>5, <1>6 DEF Served, Serves, Drivers

(* No character, or one that goes on with the line. *)
LEMMA IntrQuiet ==
  ASSUME ConsoleInv, KernelHolds', Handles, Served, Dispatch(rq), UNCHANGED <<ipcVars, ret, text>>
  PROVE  Always' /\ RunInv'
<1>1. /\ KernelHolds /\ Always /\ Roles /\ ShellInv /\ InputInv
  BY IntrFinds
<1>2. /\ rq' = rq /\ mb' = mb /\ held' = held /\ ret' = ret /\ text' = text /\ func' = func
      /\ pc' = pc /\ str' = str /\ syscall' = syscall
  BY DEF Dispatch, ipcVars, Handles
<1>3. \A S : SameText(S)
  BY <1>2 DEF SameText
<1>4. Always'
  BY <1>1, <1>2, IntrAlways DEF Always, Types
<1>5. Labels' /\ DriverInv' /\ UseInv' /\ PortInv'
  BY <1>2, <1>3, IntrDriver
<1>6. Roles'
  BY <1>1, <1>2, RolesSame
<1>7. ShellInv' /\ InputInv'
  BY <1>1, <1>2, <1>3, ShellKept, InputKept
<1> QED
  BY <1>4, <1>5, <1>6, <1>7 DEF RunInv

(* A complete line. *)
LEMMA IntrPosts ==
  ASSUME ConsoleInv, Handles, Pending(CONSINPUT) < MaxPending, NEW i \in Pool,
         FirstFit(mem, CONS_SIZE, i), NEW b, b = mem.free[i],
         Post(rq, kzmem_alloc(mem, i), held, NULL, CONSINPUT, mem.free[i])
  PROVE  /\ b \in Block
         /\ \/ mode' # "run" /\ rq' = rq /\ UNCHANGED ipcVars
            \/ /\ rq'.priority = rq.priority /\ OthersSame(CONSINPUT)
               /\ Queued(CONSINPUT, b, held) \/ Handed(CONSINPUT, b, held)
<1>1. KernelHolds /\ CONSINPUT \in MsgBox /\ NULL \in ThreadPtr
  BY IntrFinds, Names DEF ThreadPtr
<1>2. mem \in Pools /\ held \in [Thread -> SUBSET Block] /\ mb \in Boxes /\ QInv(rq)
  BY <1>1, Books DEF KernelHolds, KernelInv, SchedInv
<1>3. PICK used \in SUBSET Block : ExactLists(mem, used) /\ Accounted(used, {}, mb, held)
  BY <1>1, Books DEF KernelHolds
<1>4. b # NULL
  BY DEF FirstFit, Fits
<1>5. PICK m : m = kzmem_alloc(mem, i)
  OBVIOUS
<1>6. PICK all : all = used \cup {b}
  OBVIOUS
<1>7. /\ b \in Block \ used /\ m \in Pools /\ ExactLists(m, all)
      /\ Accounted(all, {} \cup {b}, mb, held)
  BY <1>2, <1>3, <1>4, <1>5, <1>6, TakeBuffer
<1>8. {} \cup {b} = {b} \cap Block /\ all \in SUBSET Block /\ b \in Block \cup {STATIC}
  BY <1>6, <1>7
<1>9. Accounted(all, {b} \cap Block, mb, held)
  BY <1>7, <1>8
<1>10. Post(rq, m, held, NULL, CONSINPUT, b)
  BY <1>5
<1>11. \/ mode' # "run" /\ rq' = rq /\ UNCHANGED ipcVars
       \/ /\ rq'.priority = rq.priority /\ OthersSame(CONSINPUT)
          /\ Queued(CONSINPUT, b, held) \/ Handed(CONSINPUT, b, held)
  BY <1>1, <1>2, <1>7, <1>8, <1>9, <1>10, PostEffect
<1> QED
  BY <1>7, <1>11

LEMMA IntrLine ==
  ASSUME ConsoleInv, KernelHolds', Handles, Served, cons.recv \in Lines,
         Pending(CONSINPUT) < MaxPending, NEW i \in Pool, FirstFit(mem, CONS_SIZE, i),
         text' = [text EXCEPT ![mem.free[i]] = cons.recv],
         Post(rq, kzmem_alloc(mem, i), held, NULL, CONSINPUT, mem.free[i]), Returned(ret)
  PROVE  Always' /\ RunInv'
<1>1. PICK b : b = mem.free[i] /\ b # NULL
  BY DEF FirstFit, Fits
<1>2. /\ b \in Block
      /\ \/ mode' # "run" /\ rq' = rq /\ UNCHANGED ipcVars
         \/ /\ rq'.priority = rq.priority /\ OthersSame(CONSINPUT)
            /\ Queued(CONSINPUT, b, held) \/ Handed(CONSINPUT, b, held)
  BY <1>1, IntrPosts
<1>3. /\ KernelHolds /\ Always /\ Labels /\ Roles /\ ShellInv /\ InputInv /\ DriverInv
  BY IntrFinds
<1>4. /\ BlocksApart /\ text \in [Block -> Seq(Letter)] /\ ret \in [Thread -> Block \cup {NULL}]
      /\ held \in [Thread -> SUBSET Block] /\ DOMAIN pc = Thread
  BY <1>3, Apart, Books DEF KernelHolds, Always, Types
<1>5. cons.recv \in Seq(Letter)
  <2>1. cons.recv \in Seq(Char)
    BY Chars
  <2> QED
    BY <2>1 DEF Letter
<1>6. /\ text' \in [Block -> Seq(Letter)] /\ ret' \in [Thread -> Block \cup {NULL}]
      /\ text'[b] = cons.recv /\ \A c \in Block : c # b => text'[c] = text[c]
  BY <1>1, <1>2, <1>4, <1>5, ReturnedTyped
<1>7. \A t \in Thread : b \notin held[t]
  BY <1>1, <1>4 DEF BlocksApart
<1>8. \A c \in Ends(mb, CONSINPUT) : mb.data[c] \in Block /\ mb.data[c] # b
  BY <1>1, <1>3, <1>4, Names DEF BlocksApart, InputInv
<1>9. SameText(held[Consdrv]) /\ SameText(held[Command])
  BY <1>4, <1>6, <1>7, Names DEF SameText
<1>10. SameText({mb.data[c] : c \in Ends(mb, CONSINPUT)})
  BY <1>6, <1>8 DEF SameText
<1>11. /\ pc' = pc /\ str' = str /\ func' = func /\ syscall' = syscall
       /\ pc'[Command] = pc[Command]
  BY DEF Handles
<1>12. CASE mode' # "run" /\ UNCHANGED ipcVars
  BY <1>6, <1>12, IntrAlways DEF RunInv, ipcVars
<1>13. ASSUME OthersSame(CONSINPUT), rq'.priority = rq.priority,
              mb'.reciever[CONSINPUT] \in {NULL, Command}
       PROVE  Roles' /\ mb'.reciever[CONSOUTPUT] = mb.reciever[CONSOUTPUT]
  <2>1. /\ mb'.reciever[CONSOUTPUT] = mb.reciever[CONSOUTPUT]
        /\ mb'.head[CONSOUTPUT] = mb.head[CONSOUTPUT]
    BY <1>13, Names DEF OthersSame
  <2> QED
    BY <1>3, <1>11, <1>13, <2>1 DEF Roles, Booting
<1>14. CASE /\ rq'.priority = rq.priority /\ OthersSame(CONSINPUT)
            /\ Queued(CONSINPUT, b, held)
  <2>1. held' = held /\ mb.reciever[CONSINPUT] = NULL /\ mb'.reciever[CONSINPUT] = NULL
    BY <1>14 DEF Queued
  <2>2. ret' = [u \in Thread |-> ret[u]]
    BY <2>1, ReturnedNone
  <2>3. ret' = ret
    BY <1>4, <2>2
  <2>4. Always'
    BY <1>6, <2>1, IntrAlways
  <2>5. Roles' /\ mb'.reciever[CONSOUTPUT] = mb.reciever[CONSOUTPUT]
    BY <1>13, <1>14, <2>1
  <2>6. Labels' /\ DriverInv' /\ UseInv' /\ PortInv'
    BY <1>9, <2>1, <2>3, <2>5, IntrDriver
  <2>7. ShellInv'
    BY <1>3, <1>9, <1>11, <2>1, <2>3, ShellKept
  <2>8. InputInv'
    <3>1. PICK m \in Block : Ends(mb', CONSINPUT) \subseteq Ends(mb, CONSINPUT) \cup {m} /\ mb'.data[m] = b
      BY <1>14 DEF Queued
    <3>2. \A c \in Ends(mb, CONSINPUT) : mb'.data[c] = mb.data[c] /\ text'[mb.data[c]] = text[mb.data[c]]
      BY <1>6, <1>8, <1>14 DEF Queued
    <3>3. \A c \in Ends(mb, CONSINPUT) : mb'.data[c] \in Block /\ text'[mb'.data[c]] \in Lines
      BY <1>3, <3>2 DEF InputInv
    <3>4. \A c \in Ends(mb', CONSINPUT) : mb'.data[c] \in Block /\ text'[mb'.data[c]] \in Lines
      BY <1>2, <1>6, <3>1, <3>3
    <3> QED
      BY <3>4 DEF InputInv, Ends
  <2> QED
    BY <2>4, <2>5, <2>6, <2>7, <2>8 DEF RunInv
<1>15. CASE /\ rq'.priority = rq.priority /\ OthersSame(CONSINPUT)
            /\ Handed(CONSINPUT, b, held)
  <2>1. /\ mb.reciever[CONSINPUT] = Command /\ mb'.reciever[CONSINPUT] = NULL
        /\ Ends(mb', CONSINPUT) = {} /\ held' = [held EXCEPT ![Command] = @ \cup {b}]
    BY <1>2, <1>3, <1>15, Names DEF Handed, Roles, Ends
  <2>2. /\ held'[Command] = held[Command] \cup {b} /\ b \notin held[Command]
        /\ \A u \in Thread : u # Command => held'[u] \subseteq held[u]
        /\ held'[Consdrv] = held[Consdrv]
    BY <1>4, <1>7, <2>1, Names
  <2>3. ret' = [u \in Thread |-> IF u = Command THEN b ELSE ret[u]]
    BY <2>2, Names, ReturnedOne
  <2>4. ret'[Command] = b /\ ret'[Consdrv] = ret[Consdrv]
    BY <2>3, Names
  <2>5. Always'
    BY <1>6, <2>2, IntrAlways
  <2>6. Roles' /\ mb'.reciever[CONSOUTPUT] = mb.reciever[CONSOUTPUT]
    BY <1>13, <1>15, <2>1
  <2>7. Labels' /\ DriverInv' /\ UseInv' /\ PortInv'
    BY <1>9, <2>2, <2>4, <2>6, IntrDriver
  <2>8. ShellWaits /\ ~ShellWaits' /\ pc[Command] = "reply_alloc"
    BY <1>3, <2>1, Names DEF ShellWaits, ShellInv
  <2>9. ShellInv'
    BY <1>6, <1>11, <2>2, <2>4, <2>8 DEF ShellInv
  <2>10. InputInv'
    BY <2>1 DEF InputInv, Ends
  <2> QED
    BY <2>5, <2>6, <2>7, <2>9, <2>10 DEF RunInv
<1> QED
  BY <1>2, <1>12, <1>14, <1>15

(* Every step of consdrv_intr keeps the invariant. *)
LEMMA ConsdrvIntrStep ==
  ASSUME ConsoleInv, KernelHolds', consdrv_intr
  PROVE  Always' /\ RunInv'
<1>1. PICK d, e : d = SendPart(Driver) /\ e = Echoed(d)
  OBVIOUS
<1>2. Handles
  BY DEF consdrv_intr, Handles, threadVars
<1>3. /\ Serves(d) /\ d.port.rdrf = port.rdrf /\ d.port.rdr = port.rdr
      /\ port.rdrf => Typed(port) \in Char
      /\ port.rdrf /\ Typed(port) = LF => cons.recv \in Lines /\ Pending(CONSINPUT) < MaxPending
      /\ Always
  BY <1>1, <1>2, IntrFinds
<1>4. port.rdrf => Append(cons.recv, Typed(port)) \in Seq(Char)
  BY <1>3 DEF Always, Types, Consreg
<1>5. port.rdrf => Serves(e) /\ ~e.port.rdrf
  BY <1>1, <1>3, EchoedServes DEF Typed
<1>6. CASE ~port.rdrf /\ SetDriver(d) /\ Dispatch(rq) /\ UNCHANGED <<ipcVars, ret, text>>
  <2>1. Served
    BY <1>3, <1>6 DEF SetDriver, Served, Serves, Drivers
  <2> QED
    BY <1>2, <1>6, <2>1, IntrQuiet
<1>7. CASE /\ port.rdrf /\ SetDriver([e EXCEPT !.cons.recv = Append(@, Typed(port))])
           /\ Dispatch(rq) /\ UNCHANGED <<ipcVars, ret, text>>
  <2>1. PICK line : line = Append(cons.recv, Typed(port)) /\ line \in Seq(Char)
    BY <1>4, <1>7
  <2>2. SetDriver([e EXCEPT !.cons.recv = line])
    BY <1>5, <1>7, <2>1 DEF Serves
  <2>3. Served
    BY <1>5, <1>7, <2>1, <2>2, ServedBy
  <2> QED
    BY <1>2, <1>7, <2>3, IntrQuiet
<1>8. CASE port.rdrf /\ Halt("down") /\ SetDriver(e) /\ UNCHANGED <<ret, text>>
  <2>1. Served
    BY <1>5, <1>8 DEF SetDriver, Served, Serves, Drivers
  <2>2. Always'
    BY <1>2, <1>3, <1>8, <2>1, IntrAlways DEF Always, Types, Halt, ipcVars
  <2> QED
    BY <1>8, <2>2 DEF RunInv, Halt
<1>9. ASSUME port.rdrf, Typed(port) = LF, SetDriver([e EXCEPT !.cons.recv = <<>>]), Returned(ret),
             NEW i \in Pool, FirstFit(mem, CONS_SIZE, i),
             text' = [text EXCEPT ![mem.free[i]] = cons.recv],
             Post(rq, kzmem_alloc(mem, i), held, NULL, CONSINPUT, mem.free[i])
      PROVE  Always' /\ RunInv'
  <2>1. PICK line : line = <<>> /\ line \in Seq(Char)
    <3>1. <<>> \in Seq(Char)
      OBVIOUS
    <3> QED
      BY <3>1
  <2>2. SetDriver([e EXCEPT !.cons.recv = line])
    BY <1>9, <2>1
  <2>3. Served
    BY <1>5, <1>9, <2>1, <2>2, ServedBy
  <2> QED
    BY <1>2, <1>3, <1>9, <2>3, IntrLine
<1> QED
  BY <1>1, <1>6, <1>7, <1>8, <1>9 DEF consdrv_intr
-----------------------------------------------------------------------------
(* The line, the person, and a system that has stopped. *)
LEMMA PortStep ==
  ASSUME ConsoleInv, KernelHolds', mode = "run", port' \in Port(Char),
         port'.tie = port.tie, port'.rie = port.rie, ~port'.waited, ~port'.tie => port'.tdre,
         BeforeUse \/ Opening => port' = port,
         port'.rdrf => port'.rdr \in Char \ {LF},
         port'.rdrf /\ port'.rdr = CR => cons.recv \in Lines /\ Pending(CONSINPUT) < TypeAhead,
         UNCHANGED <<vars, pc, ret, shellVars, cons>>
  PROVE  Always' /\ RunInv'
<1>1. /\ Always /\ Labels /\ Roles /\ DriverInv /\ UseInv /\ ShellInv /\ InputInv /\ PortInv
      /\ KernelHolds
  BY DEF ConsoleInv, RunInv
<1>2. /\ UNCHANGED <<func, rq, pc, syscall, mb, ret, msg, str, text, held, ccr, cons>>
      /\ \A S : SameText(S)
  BY DEF vars, shellVars, SameText
<1>3. Labels' /\ Roles'
  BY <1>1, <1>2, RolesSame DEF Labels
<1>4. DriverInv' /\ ShellInv' /\ InputInv'
  BY <1>1, <1>2, DriverKept, ShellKept, InputKept
<1>5. UseInv'
  BY <1>1, <1>2, UseKept
<1>6. Always'
  BY <1>1, <1>2, BuffersKept DEF Always, Types
<1>7. Pending(CONSINPUT) < TypeAhead => Pending(CONSINPUT)' < TypeAhead
  <2>1. Len(BoxSeq(mb', CONSINPUT)) <= Len(BoxSeq(mb, CONSINPUT))
    BY <1>2 DEF BoxSeq
  <2> QED
    BY <1>1, <2>1, PendingNext
<1>8. PortInv'
  BY <1>1, <1>2, <1>7 DEF PortInv
<1> QED
  BY <1>3, <1>4, <1>5, <1>6, <1>8 DEF RunInv

(* A character leaves the port. *)
LEMMA TransmitStep ==
  ASSUME ConsoleInv, KernelHolds', Transmit
  PROVE  Always' /\ RunInv'
<1>1. /\ Always /\ UseInv /\ PortInv /\ mode = "run" /\ port \in Port(Char) /\ ~port.tdre
      /\ port' = Sent(port) /\ UNCHANGED <<vars, pc, ret, shellVars, cons>>
  BY DEF ConsoleInv, RunInv, Transmit, Always, Types
<1>2. /\ port' \in Port(Char) /\ port'.tie = port.tie /\ port'.rie = port.rie
      /\ port'.waited = port.waited /\ port'.tdre /\ port'.rdrf = port.rdrf
      /\ port'.rdr = port.rdr
  BY <1>1 DEF Sent, Port
<1>3. ~BeforeUse /\ ~Opening
  BY <1>1 DEF UseInv, serial_init
<1> QED
  BY <1>1, <1>2, <1>3, PortStep DEF Always, PortInv

(* A key is pressed. *)
LEMMA PressKeyStep ==
  ASSUME ConsoleInv, KernelHolds', NEW c \in Char \ {LF}, PressKey(c)
  PROVE  Always' /\ RunInv'
<1>1. /\ Always /\ UseInv /\ PortInv /\ mode = "run" /\ port \in Port(Char) /\ port.rie
      /\ port' = Received(port, c) /\ UNCHANGED <<vars, pc, ret, shellVars, cons>>
      /\ c = CR => cons.recv \in Lines /\ Pending(CONSINPUT) < TypeAhead
  BY DEF ConsoleInv, RunInv, PressKey, Always, Types
<1>2. /\ port' \in Port(Char) /\ port'.tie = port.tie /\ port'.rie = port.rie
      /\ port'.waited = port.waited /\ port'.tdre = port.tdre /\ port'.rdrf /\ port'.rdr = c
  BY <1>1 DEF Received, Port
<1>3. ~BeforeUse /\ ~Opening
  BY <1>1 DEF UseInv, serial_init
<1> QED
  BY <1>1, <1>2, <1>3, PortStep DEF Always

(* A system that has stopped, or nothing happens. *)
LEMMA ConsoleStutter ==
  ASSUME ConsoleInv, KernelHolds', UNCHANGED allVars
  PROVE  Always' /\ RunInv'
<1>1. CASE mode = "run"
  <2>1. /\ UNCHANGED <<vars, pc, ret, shellVars, cons>> /\ port' = port
    BY DEF allVars
  <2>2. Always /\ PortInv
    BY <1>1 DEF ConsoleInv, RunInv
  <2> QED
    BY <1>1, <2>1, <2>2, PortStep DEF Always, PortInv, Types
<1>2. CASE mode # "run"
  BY <1>2 DEF ConsoleInv, Always, Types, BuffersFirst, RunInv, allVars, shellVars, vars
<1> QED
  BY <1>1, <1>2

(* ConsoleInv is inductive. *)
LEMMA NextConsole == ConsoleInv /\ [ConsoleNext]_allVars => ConsoleInv'
<1> SUFFICES ASSUME ConsoleInv, [ConsoleNext]_allVars PROVE ConsoleInv'
  OBVIOUS
<1>1. KernelHolds'
  BY ConsoleKernel, NextHolds DEF ConsoleInv
<1>2. CASE Threads
  BY <1>1, <1>2, StartStep, DriverStep, UseStep, WriteStep, ShellStep DEF Threads, ConsoleInv
<1>3. CASE consdrv_intr
  BY <1>1, <1>3, ConsdrvIntrStep DEF ConsoleInv
<1>4. CASE Transmit
  BY <1>1, <1>4, TransmitStep DEF ConsoleInv
<1>5. CASE \E c \in Char \ {LF} : PressKey(c)
  BY <1>1, <1>5, PressKeyStep DEF ConsoleInv
<1>6. CASE Halted \/ UNCHANGED allVars
  BY <1>1, <1>6, ConsoleStutter DEF ConsoleInv, Halted
<1> QED
  BY <1>2, <1>3, <1>4, <1>5, <1>6 DEF ConsoleNext

(* It holds when kz_start has created the first thread. *)
LEMMA InitConsole == ConsoleInit => ConsoleInv
<1> SUFFICES ASSUME ConsoleInit PROVE ConsoleInv
  OBVIOUS
<1>1. Init /\ KernelHolds
  BY InitHolds DEF ConsoleInit
<1>2. /\ pc = Start /\ ret = [t \in Thread |-> NULL] /\ msg = NULL /\ str = NULL
      /\ text = [b \in Block |-> <<>>] /\ port = serial_init
      /\ cons = [sender |-> NULL, send_buf |-> NULL, recv_buf |-> NULL,
                 send |-> <<>>, recv |-> <<>>]
  BY DEF ConsoleInit
<1>3. /\ pc[Idle] = "run_consdrv" /\ pc[Consdrv] = "setintr" /\ pc[Command] = "use_alloc"
      /\ DOMAIN pc = Thread /\ pc = [t \in Thread |-> pc[t]]
  BY <1>2, Names DEF Start
<1>4. port \in Port(Char)
  BY <1>2 DEF Port, serial_init
<1>5. <<>> \in Seq(Char) /\ <<>> \in Seq(Letter)
  OBVIOUS
<1>6. cons \in Consreg
  BY <1>2, <1>5 DEF Consreg, ThreadPtr
<1>7. Always
  BY <1>2, <1>3, <1>4, <1>5, <1>6 DEF Always, Types, BuffersFirst, serial_init
<1>8. /\ func = {Idle} /\ \A t \in Thread : syscall[t].type # "SLEEP"
      /\ \A id \in MsgBox : mb.reciever[id] = NULL /\ mb.head[id] = NULL /\ mb.tail[id] = NULL
  BY <1>1 DEF Init, NoCall, EmptyBoxes
<1>9. rq.priority[Idle] = 0
  <2>1. PICK q : q = [head |-> [p \in Priority |-> NULL], tail |-> [p \in Priority |-> NULL],
                      next |-> [t \in Thread |-> NULL], ready |-> [t \in Thread |-> FALSE],
                      priority |-> [t \in Thread |-> 0]]
    OBVIOUS
  <2>2. rq = put(q, Idle) /\ q.priority[Idle] = 0
    BY <1>1, <2>1, Names DEF Init
  <2>3. 0 \in Priority
    BY ReadyAssumption DEF Priority
  <2>4. QInv(q)
    BY <2>1, <2>3 DEF QInv, HeadOK, TailOK, LinkOK, NothingBeforeHead, NoJoin, ReadyQueues, ThreadPtr
  <2>5. put(q, Idle).priority = q.priority
    BY <2>4, Names, PutFields
  <2> QED
    BY <2>2, <2>5
<1>10. Roles
  BY <1>3, <1>8, <1>9, Names DEF Roles, Booting
<1>11. ~ShellWaits /\ ~DriverWaits
  BY <1>8, Names DEF ShellWaits, DriverWaits
<1>12. Labels /\ DriverInv /\ ShellInv
  BY <1>3, <1>11 DEF Labels, DriverInv, ShellInv, Told, Section
<1>13. UseInv /\ PortInv
  BY <1>2, <1>3 DEF UseInv, PortInv, BeforeUse, Opening, serial_init
<1>14. InputInv
  BY <1>8, Names DEF InputInv, Ends
<1> QED
  BY <1>1, <1>7, <1>10, <1>12, <1>13, <1>14 DEF ConsoleInv, RunInv
-----------------------------------------------------------------------------
(* Why the console may stop: a call or an interrupt asks for a block and no
   pool has one. *)
NoRoom ==
  \/ \E size \in AllocSizes \cup {MSGBUF_SIZE} : NoFit(mem, size)
  \/ \E i \in Pool : FirstFit(mem, CONS_SIZE, i) /\ NoFit(kzmem_alloc(mem, i), MSGBUF_SIZE)

StopsForMemory == mode # "run" => mode = "down" /\ NoRoom

(* Idle has not gone off the queues in the step. *)
IdleStays ==
  /\ Idle \in func' /\ \A t \in Thread : syscall'[t].type # "SLEEP"
  /\ \A id \in MsgBox : mb'.reciever[id] # Idle

(* While idle is on a queue somebody is ready, before a step and after it. *)
LEMMA SomebodyReady ==
  KernelHolds /\ Idle \in func /\ (\A t \in Thread : syscall[t].type # "SLEEP")
  /\ (\A id \in MsgBox : mb.reciever[id] # Idle) => ~NothingReady(rq)
<1> SUFFICES ASSUME KernelHolds, Idle \in func, \A t \in Thread : syscall[t].type # "SLEEP",
                    \A id \in MsgBox : mb.reciever[id] # Idle
             PROVE  ~NothingReady(rq)
  OBVIOUS
<1>1. rq.ready[Idle]
  BY Names DEF KernelHolds, BlockedInv, IsBlocked
<1>2. PICK p \in Priority : p = rq.priority[Idle]
  BY Names DEF KernelHolds, KernelInv, SchedInv, QInv, ReadyQueues
<1>3. Idle \in ReadyAt(rq, p)
  BY <1>1, <1>2, Names DEF ReadyAt
<1>4. PICK s : QueueIs(rq, p, s)
  BY DEF KernelHolds, QueuesInv, Holds
<1>5. s # <<>>
  BY <1>3, <1>4 DEF QueueIs, Nodes
<1>6. rq.head[p] # NULL
  BY <1>4, <1>5, QueueEnds
<1> QED
  BY <1>6 DEF NothingReady

SomebodyIs ==
  KernelHolds /\ Idle \in func /\ (\A t \in Thread : syscall[t].type # "SLEEP")
  /\ (\A id \in MsgBox : mb.reciever[id] # Idle) => ~NothingReady(rq)

LEMMA SomebodyNext == KernelHolds' /\ IdleStays => ~NothingReady(rq')
<1>1. SomebodyIs
  BY SomebodyReady DEF SomebodyIs
<1>2. SomebodyIs'
  BY <1>1, PTL
<1> QED
  BY <1>2 DEF SomebodyIs, IdleStays

(* A dispatch that finds nobody is one that does not happen. *)
LEMMA Dispatched ==
  ASSUME KernelHolds', IdleStays, NEW q, Dispatch(q)
  PROVE  mode' = mode
BY SomebodyNext DEF Dispatch

(* idle never sleeps and never waits for a message. *)
LEMMA IdleKept ==
  ASSUME KernelHolds, Roles
  PROVE  /\ Idle \in func /\ (\A t \in Thread : syscall[t].type # "SLEEP")
         /\ \A id \in MsgBox : mb.reciever[id] # Idle
BY Names DEF Roles

(* A call that leaves the boxes alone leaves idle on its queue. *)
LEMMA StayOf ==
  ASSUME KernelHolds, Roles, func \subseteq func', NEW type, type # "SLEEP", NEW id,
         Syscall(type, id), mb' = mb
  PROVE  IdleStays
BY IdleKept, NoSleep DEF IdleStays

(* The same for a step that posts a message, from a thread or the handler. *)
LEMMA PostStops ==
  ASSUME KernelHolds, Roles, mode = "run", KernelHolds', func' = func,
         \A t \in Thread : syscall'[t].type # "SLEEP",
         \A t \in func : ~rq.ready[t] => syscall'[t] = syscall[t],
         NEW q, NEW m, NEW h, NEW from, NEW id \in MsgBox, NEW data,
         Post(q, m, h, from, id, data), mode' # "run",
         \A k \in MsgBox : mb'.reciever[k] \in {NULL, mb.reciever[k]}
  PROVE  mode' = "down" /\ NoFit(m, MSGBUF_SIZE) /\ UNCHANGED ipcVars
<1>1. IdleStays
  BY IdleKept, Names DEF IdleStays
<1>2. \A p : ~Dispatch(p)
  BY <1>1, Dispatched
<1>3. ASSUME mb.reciever[id] # NULL
      PROVE  InRecvOf(syscall', mb.reciever[id], id) /\ ~rq.ready[mb.reciever[id]]
  BY <1>3 DEF KernelHolds, WaitersInv, InRecvOf
<1> QED
  BY <1>2, <1>3 DEF Post, Halt

(* Which calls may stop the system: kz_send and kz_kmalloc without memory. *)
LEMMA SendStops ==
  ASSUME ConsoleInv, KernelHolds', Roles, NEW id \in MsgBox, NEW data \in Block,
         thread_send(id, data), mode' # "run"
  PROVE  mode' = "down" /\ NoRoom' /\ NoFit(mem, MSGBUF_SIZE) /\ UNCHANGED ipcVars
<1>1. KernelHolds /\ mode = "run" /\ Syscall("SEND", NULL) /\ func' = func
  BY DEF ConsoleInv, thread_send, Syscall, threadVars
<1>2. \A t \in Thread : syscall'[t].type # "SLEEP"
  BY <1>1, IdleKept, NoSleep
<1>3. \A t \in func : ~rq.ready[t] => syscall'[t] = syscall[t]
  <2>1. rq.ready[current] /\ current \in Thread /\ func \subseteq Thread
    BY <1>1 DEF KernelHolds, KernelInv, SchedInv, CallerIsHead
  <2>2. syscall' = [syscall EXCEPT ![current] = NoCall]
    BY <1>1 DEF Syscall, Blocking
  <2> QED
    BY <1>1, <2>1, <2>2 DEF KernelHolds, KernelInv, RestOK
<1>4. \A k \in MsgBox : mb'.reciever[k] \in {NULL, mb.reciever[k]}
  BY <1>1, SendEffect DEF OthersSame, Queued, Handed, ipcVars
<1>5. Post(put(Removed, current), mem, [held EXCEPT ![current] = @ \ {data}], current, id, data)
  BY DEF thread_send
<1>6. mode' = "down" /\ NoFit(mem, MSGBUF_SIZE) /\ UNCHANGED ipcVars
  BY <1>1, <1>2, <1>3, <1>4, <1>5, PostStops
<1> QED
  BY <1>6 DEF NoRoom, NoFit, Fits, ipcVars

(* The others return. *)
LEMMA RecvGoesOn ==
  ASSUME KernelHolds, KernelHolds', Roles, NEW id \in MsgBox, current # Idle,
         mb.reciever[id] = NULL, thread_recv(id)
  PROVE  mode' = "run"
<1>1. mode = "run" /\ Syscall("RECV", id) /\ func' = func
  BY DEF thread_recv, Syscall, threadVars
<1>2. \A t \in Thread : syscall'[t].type # "SLEEP"
  BY <1>1, IdleKept, NoSleep
<1>3. \A k \in MsgBox : mb'.reciever[k] \in {NULL, mb.reciever[k], current}
  <2>1. mb \in Boxes
    BY Books DEF KernelHolds
  <2> QED
    BY <2>1, RecvEffect, SMTT(30) DEF OthersSame, ipcVars, Boxes
<1>4. IdleStays
  BY <1>1, <1>2, <1>3, IdleKept, Names DEF IdleStays
<1> QED
  BY <1>1, <1>4, Dispatched DEF thread_recv

LEMMA KmallocStops ==
  ASSUME KernelHolds, KernelHolds', Roles, NEW size \in AllocSizes, thread_kmalloc(size),
         mode' # "run"
  PROVE  mode' = "down" /\ NoRoom' /\ NoFit(mem, size) /\ UNCHANGED ipcVars
<1>1. mode = "run" /\ Syscall("KMALLOC", NULL) /\ func' = func
  BY DEF thread_kmalloc, Syscall, threadVars
<1>2. mb' = mb
  BY DEF thread_kmalloc, Halt, ipcVars
<1>3. \A q : ~Dispatch(q)
  BY <1>1, <1>2, StayOf, Dispatched
<1>4. mode' = "down" /\ NoFit(mem, size) /\ UNCHANGED ipcVars
  BY <1>3 DEF thread_kmalloc, Halt, ipcVars
<1> QED
  BY <1>4 DEF NoRoom, NoFit, Fits, ipcVars

LEMMA KmfreeGoesOn ==
  ASSUME KernelHolds, KernelHolds', Roles, NEW b, thread_kmfree(b)
  PROVE  mode' = "run"
<1>1. mode = "run" /\ Syscall("KMFREE", NULL) /\ func' = func /\ mb' = mb
  BY DEF thread_kmfree, Syscall, threadVars
<1> QED
  BY <1>1, StayOf, Dispatched DEF thread_kmfree

LEMMA SetintrGoesOn ==
  ASSUME KernelHolds, KernelHolds', Roles, NEW v, thread_setintr(v)
  PROVE  mode' = "run"
<1>1. mode = "run" /\ Syscall("SETINTR", NULL) /\ func' = func /\ mb' = mb
  BY DEF thread_setintr, Syscall, threadVars, ipcVars
<1> QED
  BY <1>1, StayOf, Dispatched DEF thread_setintr

LEMMA ChpriGoesOn ==
  ASSUME KernelHolds, KernelHolds', Roles, NEW p, thread_chpri(p)
  PROVE  mode' = "run"
<1>1. mode = "run" /\ Syscall("CHPRI", NULL) /\ func' = func /\ mb' = mb
  BY DEF thread_chpri, Syscall, threadVars, ipcVars
<1> QED
  BY <1>1, StayOf, Dispatched DEF thread_chpri

LEMMA RunGoesOn ==
  ASSUME KernelHolds, KernelHolds', Roles, NEW p, thread_run(p), ~(Thread \subseteq func)
  PROVE  mode' = "run"
<1>1. mode = "run" /\ Syscall("RUN", NULL) /\ func \subseteq func' /\ mb' = mb
  BY DEF thread_run, Syscall, ipcVars
<1> QED
  BY <1>1, StayOf, Dispatched DEF thread_run

(* Thread by thread, and the handler. *)
LEMMA StartGoesOn ==
  ASSUME ConsoleInv, KernelHolds', start_threads, mode = "run"
  PROVE  mode' = "run"
<1>1. KernelHolds /\ Roles
  BY DEF ConsoleInv, RunInv
<1>2. ASSUME Goto(Idle, "run_consdrv", "run_command"), thread_run(1) PROVE mode' = "run"
  <2>1. Consdrv \notin func
    BY <1>1, <1>2, Names DEF Roles, Goto
  <2> QED
    BY <1>1, <1>2, <2>1, Names, RunGoesOn
<1>3. ASSUME Goto(Idle, "run_command", "chpri"), thread_run(8) PROVE mode' = "run"
  <2>1. Command \notin func
    BY <1>1, <1>3, Names DEF Roles, Goto
  <2> QED
    BY <1>1, <1>3, <2>1, Names, RunGoesOn
<1>4. thread_chpri(15) => mode' = "run"
  BY <1>1, ChpriGoesOn
<1>5. intr_enable => mode' = "run"
  BY DEF intr_enable, SetCcr
<1>6. UNCHANGED vars => mode' = mode
  BY DEF vars
<1> QED
  BY <1>2, <1>3, <1>4, <1>5, <1>6 DEF start_threads

LEMMA DriverStops ==
  ASSUME ConsoleInv, KernelHolds', mode = "run", mode' # "run",
         consdrv_main \/ consdrv_command_use \/ consdrv_command_write
  PROVE  mode' = "down" /\ NoRoom'
<1>1. KernelHolds /\ current = Consdrv
  BY DEF ConsoleInv, consdrv_main, consdrv_command_use, consdrv_command_write, Goto
<1>2. Roles /\ ~DriverWaits /\ current # Idle
  BY <1>1, ConsdrvRuns, Names DEF ConsoleInv
<1>3. thread_setintr(SERINTR) => mode' = "run"
  BY <1>1, <1>2, SetintrGoesOn
<1>4. thread_recv(CONSOUTPUT) => mode' = "run"
  BY <1>1, <1>2, Names, RecvGoesOn DEF DriverWaits
<1>5. thread_kmfree(msg) => mode' = "run"
  BY <1>1, <1>2, KmfreeGoesOn
<1>6. thread_kmalloc(CONS_SIZE) => mode' = "down" /\ NoRoom'
  BY <1>1, <1>2, SizesAsked, KmallocStops
<1>7. UNCHANGED vars \/ intr_disable \/ intr_enable => mode' = mode
  BY DEF vars, intr_disable, intr_enable, SetCcr
<1> QED
  BY <1>3, <1>4, <1>5, <1>6, <1>7 DEF consdrv_main, consdrv_command_use, consdrv_command_write

LEMMA ShellStops ==
  ASSUME ConsoleInv, KernelHolds', mode = "run", mode' # "run", command_main
  PROVE  mode' = "down" /\ NoRoom'
<1>1. KernelHolds /\ (current = Command => Roles /\ ShellInv /\ ~ShellWaits /\ current # Idle)
  BY CommandRuns, Names DEF ConsoleInv
<1>2. ASSUME NEW from, NEW to, NEW s \in {<<"0">>} \cup Written, AllocWrite(from, to, s)
      PROVE  mode' = "down" /\ NoRoom'
  BY <1>1, <1>2, SizesAsked, KmallocStops DEF AllocWrite, Goto
<1>3. ASSUME NEW from \in {"use_send", "prompt_send", "reply_send", "end_send"}, NEW to, NEW m,
             SendMessage(from, to, m)
      PROVE  mode' = "down" /\ NoRoom'
  <2>1. current = Command /\ pc[Command] = from /\ thread_send(CONSOUTPUT, ret[Command])
    BY <1>3 DEF SendMessage, Goto
  <2>2. ret[Command] \in held[Command] /\ held \in [Thread -> SUBSET Block]
    BY <1>1, <1>3, <2>1, Books DEF ShellInv, KernelHolds
  <2>3. ret[Command] \in Block
    BY <2>2, Names
  <2> QED
    BY <1>1, <2>1, <2>3, Names, SendStops
<1>4. ASSUME Goto(Command, "recv", "reply_alloc"), thread_recv(CONSINPUT) PROVE mode' = "run"
  BY <1>1, <1>4, Names, RecvGoesOn DEF ShellWaits, Goto
<1>5. ASSUME Goto(Command, "free", "prompt_alloc"), thread_kmfree(str) PROVE mode' = "run"
  BY <1>1, <1>5, KmfreeGoesOn DEF Goto
<1>6. ASSUME str' = ret[Command], AllocWrite("reply_alloc", "reply_send", Reply(text[str'])[1])
      PROVE  mode' = "down" /\ NoRoom'
  <2>1. text[str'] \in Lines
    BY <1>1, <1>6 DEF AllocWrite, Goto, ShellInv
  <2>2. Reply(text[str'])[1] \in Written
    BY <2>1, WrittenTyped
  <2> QED
    BY <1>2, <1>6, <2>2
<1> QED
  BY <1>2, <1>3, <1>4, <1>5, <1>6, WrittenTyped DEF command_main, SendWrite

LEMMA IntrStops ==
  ASSUME ConsoleInv, KernelHolds', mode' # "run", consdrv_intr
  PROVE  /\ mode' = "down" /\ NoRoom' /\ UNCHANGED ipcVars
         /\ port.rdrf /\ Typed(port) = LF /\ NoRoomForLine
<1>1. Handles /\ func' = func /\ syscall' = syscall /\ mode = "run"
  BY DEF consdrv_intr, Handles, threadVars
<1>2. KernelHolds /\ Roles
  BY <1>1, IntrFinds
<1>3. \A t \in Thread : syscall'[t].type # "SLEEP"
  BY <1>1, <1>2 DEF Roles
<1>4. ASSUME Dispatch(rq), UNCHANGED ipcVars PROVE FALSE
  <2>1. IdleStays
    BY <1>1, <1>2, <1>3, <1>4, IdleKept DEF IdleStays, ipcVars
  <2> QED
    BY <1>1, <1>4, <2>1, Dispatched
<1>5. ASSUME NoFit(mem, CONS_SIZE), Halt("down")
      PROVE  mode' = "down" /\ NoRoom' /\ UNCHANGED ipcVars /\ NoRoomForLine
  BY <1>5, SizesAsked DEF Halt, ipcVars, NoRoom, NoRoomForLine, NoFit, Fits
<1>6. ASSUME NEW i \in Pool, FirstFit(mem, CONS_SIZE, i), port.rdrf, Typed(port) = LF,
             Post(rq, kzmem_alloc(mem, i), held, NULL, CONSINPUT, mem.free[i])
      PROVE  mode' = "down" /\ NoRoom' /\ UNCHANGED ipcVars /\ NoRoomForLine
  <2>1. Pending(CONSINPUT) < MaxPending
    BY <1>1, <1>6, IntrFinds
  <2>2. PICK b : b = mem.free[i]
    OBVIOUS
  <2>3. \A k \in MsgBox : mb'.reciever[k] \in {NULL, mb.reciever[k]}
    BY <1>1, <1>6, <2>1, <2>2, IntrPosts DEF OthersSame, Queued, Handed, ipcVars
  <2>4. mode' = "down" /\ NoFit(kzmem_alloc(mem, i), MSGBUF_SIZE) /\ UNCHANGED ipcVars
    BY <1>1, <1>2, <1>3, <1>6, <2>3, Names, PostStops
  <2> QED
    BY <1>6, <2>4 DEF NoRoom, NoRoomForLine, NoFit, Fits, FirstFit, kzmem_alloc, ipcVars
<1> QED
  BY <1>4, <1>5, <1>6 DEF consdrv_intr

(* A kernel that has stopped stays so. *)
LEMMA DownStays == mode # "run" /\ [Next]_vars => UNCHANGED vars
BY DEF Next, SystemCall, Syscall, thread_run, thread_exit, thread_wait, thread_sleep, thread_wakeup,
       thread_getid, thread_chpri, thread_kmalloc, thread_kmfree, thread_send, thread_recv,
       thread_setintr, softerr_intr, SetCcr, thread_intr, Spin

(* StopsForMemory is kept. *)
LEMMA StopsStep ==
  ConsoleInv /\ StopsForMemory /\ [ConsoleNext]_allVars => StopsForMemory'
<1> SUFFICES ASSUME ConsoleInv, StopsForMemory, [ConsoleNext]_allVars PROVE StopsForMemory'
  OBVIOUS
<1>1. KernelHolds'
  BY NextConsole DEF ConsoleInv
<1>2. CASE mode # "run"
  <2>1. mode' = mode /\ mem' = mem
    BY <1>2, ConsoleKernel, DownStays DEF vars
  <2> QED
    BY <1>2, <2>1 DEF StopsForMemory, NoRoom, NoFit, Fits, FirstFit, kzmem_alloc
<1>3. CASE mode = "run" /\ mode' # "run"
  <2>1. ~(Transmit \/ (\E c \in Char \ {LF} : PressKey(c)) \/ Halted \/ UNCHANGED allVars)
    BY <1>3 DEF Transmit, PressKey, Halted, Spin, allVars, vars
  <2>2. mode' = "down" /\ NoRoom'
    BY <1>1, <1>3, <2>1, StartGoesOn, DriverStops, ShellStops, IntrStops DEF ConsoleNext, Threads
  <2> QED
    BY <2>2 DEF StopsForMemory
<1> QED
  BY <1>2, <1>3 DEF StopsForMemory
-----------------------------------------------------------------------------
(* What the invariant says. *)
LEMMA ConsoleAlways == ConsoleSpec => []ConsoleInv
BY InitConsole, NextConsole, PTL DEF ConsoleSpec

(* The three threads, the handler and the port use the kernel as an application
   may: every step of theirs is a kernel entry, or leaves the kernel alone.  What
   is proved of the kernel for any applications thus holds of this system. *)
THEOREM ConsoleUsesKernel == ConsoleSpec => Spec
<1>1. ConsoleInit => Init
  BY DEF ConsoleInit
<1>2. ConsoleInv /\ [ConsoleNext]_allVars => [Next]_vars
  BY ConsoleKernel
<1> QED
  BY <1>1, <1>2, ConsoleAlways, PTL DEF ConsoleSpec, Spec

(* In particular: under the console no thread is lost from its queue or blocked
   by anything but its own call, a receiver waits where the kernel thinks it
   does, and no block has two owners.  The conditions of the kernel's theorems
   hold: the console wakes nobody, and gives kz_setintr a vector that exists. *)
THEOREM ConsoleKernelCorrect ==
  ConsoleSpec => /\ []NoLostThread /\ []WaiterIsBlocked /\ []OnlyBlockingCallsBlock
                 /\ []BlockExclusive /\ ImplementsFifoScheduler
<1>1. ~WakeReady /\ \A v \in IntrTypes : IsVector(v)
  BY ConsoleAssumption DEF IsVector, SERINTR, SOFTVEC_TYPE_NUM
<1>2. Spec => []NoLostThread
  BY <1>1, KernelNoLostThread
<1>3. Spec => []WaiterIsBlocked
  BY <1>1, KernelWaiterIsBlocked
<1>4. Spec => []OnlyBlockingCallsBlock
  BY <1>1, KernelOnlyBlockingCallsBlock
<1>5. Spec => ImplementsFifoScheduler
  BY <1>1, KernelImplementsFifoScheduler
<1> QED
  BY <1>2, <1>3, <1>4, <1>5, KernelBlockExclusive, ConsoleUsesKernel, PTL

(* The variables of the console keep their types: what the threads have been
   returned are blocks, and what is in the buffers and on the line characters. *)
THEOREM ConsoleTypeCorrect == ConsoleSpec => []ConsoleTypeOK
<1>1. ConsoleInv => ConsoleTypeOK
  BY KernelTypes DEF ConsoleInv, KernelHolds, Always, Types, Consreg, Letter, ConsoleTypeOK
<1> QED
  BY <1>1, ConsoleAlways, PTL

(* Sending never stalls: outside the masked section of consdrv_command, characters
   in the send buffer have the transmit interrupt enabled that takes them out,
   however interrupts fall between the steps of send_string. *)
THEOREM SendingIsStarted == ConsoleSpec => []SendingGoesOn
<1>1. ConsoleInv => SendingGoesOn
  BY DEF ConsoleInv, RunInv, PortInv, SendingGoesOn, Writing
<1> QED
  BY <1>1, ConsoleAlways, PTL

(* serial_send_byte never spins: whoever calls it, the thread or the handler,
   finds the port ready. *)
THEOREM PortIsReady == ConsoleSpec => []NeverSpins
<1>1. ConsoleInv => NeverSpins
  BY DEF ConsoleInv, Always, NeverSpins
<1> QED
  BY <1>1, ConsoleAlways, PTL

(* The port interrupts only once the driver has a user and two different buffers
   of its own, so the handler never stores through an unset pointer. *)
THEOREM BuffersAreThere == ConsoleSpec => []BuffersFirst
<1>1. ConsoleInv => BuffersFirst
  BY DEF ConsoleInv, Always
<1> QED
  BY <1>1, ConsoleAlways, PTL

(* With whatever pools, the system stops for want of memory only: no box gets a
   second receiver, kz_run finds a vacant TCB, no result is written through stale
   parameters, and there is always somebody to run. *)
THEOREM ConsoleStopsForMemory == ConsoleSpec => []StopsForMemory
<1>1. ConsoleInit => StopsForMemory
  BY DEF ConsoleInit, Init, StopsForMemory
<1> QED
  BY <1>1, StopsStep, ConsoleAlways, PTL DEF ConsoleSpec
=============================================================================
