------------------------------- MODULE Kozos -------------------------------
(***************************************************************************)
(* The kernel of os/kozos.c: threads, their scheduling, messages, dynamic  *)
(* memory and interrupts, under applications that make any calls a run's   *)
(* constants allow.                                                        *)
(*                                                                         *)
(* The kernel runs only in traps and interrupts, with further interrupts   *)
(* masked, so one kernel entry, from the thread's call to the dispatch of  *)
(* the next thread, is one step.  Between two entries the thread `current' *)
(* executes application code.                                              *)
(***************************************************************************)
EXTENDS KzReady, KzMsg, KzPool, FiniteSets

CONSTANTS
  STACK_NUM,     \* stacks that fit between userstack and the interrupt stack
  MSGBUF_SIZE,   \* sizeof(kz_msgbuf)
  CONS_SIZE,     \* what the serial handler allocates, CONS_BUFFER_SIZE
  (* What the applications do. *)
  Calls,         \* the calls and traps they make
  RunPriorities, \* the priorities they give to kz_run
  NewPriorities, \* the arguments of kz_chpri
  AllocSizes,    \* the arguments of kz_kmalloc
  IntrTypes,     \* the vectors given to kz_setintr
  HandlerCalls,  \* the service calls their serial handler makes
  WakeReady,     \* do they also wake threads that are not in kz_sleep?
  MaxPending     \* messages they let accumulate in a box

SOFTVEC_TYPE_NUM == 3
SOFTERR == 0
SYSCALL == 1
SERINTR == 2

Blocking == {"SLEEP", "RECV"}
Yielding == {"RUN", "EXIT", "WAIT", "WAKEUP", "GETID", "CHPRI", "KMALLOC",
             "KMFREE", "SEND", "SETINTR"}
Trapping == {"SOFTERR", "CCR"}

ASSUME KozosAssumption ==
  /\ STACK_NUM \in Nat \ {0} /\ MSGBUF_SIZE \in Nat /\ CONS_SIZE \in Nat
  /\ Calls \subseteq Blocking \cup Yielding \cup Trapping
  /\ RunPriorities \subseteq Priority /\ NewPriorities \subseteq Int
  /\ AllocSizes \subseteq Nat
  /\ IntrTypes \cap {SOFTERR, SYSCALL} = {}
  /\ HandlerCalls \subseteq {"NONE", "SEND", "WAKEUP"}
  /\ WakeReady \in BOOLEAN /\ MaxPending \in Nat
  /\ NULL \notin MsgBox

VARIABLES
  current,   \* the running thread
  rq,        \* the ready queues and the scheduling fields of threads[]
  func,      \* the threads whose init.func is set: the TCBs in use
  syscall,   \* the call each TCB last made, as far as it may block
  ccr,       \* are interrupts masked in the context of the thread?
  stacks,    \* stack areas handed out, the position of thread_stack
  handlers,  \* vectors with a handler
  mb,        \* the message boxes and buffers
  mem,       \* the memory pools
  held,      \* the blocks each thread got from kz_kmalloc or kz_recv
  mode       \* "run", "down" after kz_sysdown, "wild" after a wild write

threadVars == <<func, ccr, stacks>>
ipcVars    == <<mb, mem, held>>
vars == <<current, rq, func, syscall, ccr, stacks, handlers, mb, mem, held, mode>>

NoCall == [type |-> "OTHER", id |-> NULL]

Boxes ==
  [reciever : [MsgBox -> ThreadPtr],
   head : [MsgBox -> Block \cup {NULL}], tail : [MsgBox -> Block \cup {NULL}],
   next : [Block -> Block \cup {NULL}], sender : [Block -> ThreadPtr],
   data : [Block -> Block \cup {STATIC, NULL}]]

TypeOK ==
  /\ current \in Thread
  /\ rq \in ReadyQueues
  /\ func \subseteq Thread
  /\ syscall \in [Thread -> [type : Blocking \cup {"OTHER"}, id : MsgBox \cup {NULL}]]
  /\ ccr \in [Thread -> BOOLEAN]
  /\ stacks \in 0 .. STACK_NUM
  /\ handlers \subseteq 0 .. SOFTVEC_TYPE_NUM - 1
  /\ mb \in Boxes
  /\ mem \in Pools
  /\ held \in [Thread -> SUBSET Block]
  /\ mode \in {"run", "down", "wild"}

(* kz_start: the tables are cleared, the two kernel handlers registered, and
   the first thread, "idle" with priority 0, is created in the last TCB. *)
Idle == THREAD_NUM - 1

Init ==
  /\ current = Idle
  /\ rq = put([head     |-> [p \in Priority |-> NULL],
               tail     |-> [p \in Priority |-> NULL],
               next     |-> [t \in Thread |-> NULL],
               ready    |-> [t \in Thread |-> FALSE],
               priority |-> [t \in Thread |-> 0]], Idle)
  /\ func = {Idle}
  /\ syscall = [t \in Thread |-> NoCall]
  /\ ccr = [t \in Thread |-> t = Idle]
  /\ stacks = 1
  /\ handlers = {SOFTERR, SYSCALL}
  /\ mb = EmptyBoxes(Block)
  /\ mem = kzmem_init
  /\ held = [t \in Thread |-> {}]
  /\ mode = "run"
-----------------------------------------------------------------------------
(* Leaving the kernel: schedule() and dispatch() at the end of thread_intr. *)
Dispatch(q) ==
  /\ rq' = q
  /\ \/ \E p \in Priority : TopQueue(q, p) /\ current' = q.head[p] /\ UNCHANGED mode
     \/ NothingReady(q) /\ mode' = "down" /\ UNCHANGED current

(* The kernel does not return: kz_sysdown ("down"), or it has written where it
   must not and nothing more can be said ("wild"). *)
Halt(how) == mode' = how /\ UNCHANGED <<current, rq, ipcVars>>

(* Entering the kernel: kz_syscall notes the call in the TCB and traps. *)
Syscall(type, id) ==
  /\ mode = "run"
  /\ type \in Calls
  /\ syscall' = [syscall EXCEPT ![current] =
                   IF type \in Blocking THEN [type |-> type, id |-> id] ELSE NoCall]

(* syscall_proc takes the caller off the ready queue before anything else. *)
Removed == get(rq, rq.priority[current])

(* Create a thread in the last vacant TCB.  When there is none the search of
   create_TCB leaves the array and clears whatever memory it finds. *)
thread_run(priority) ==
  /\ Syscall("RUN", NULL)
  /\ stacks < STACK_NUM
  /\ \/ \E t \in Thread \ func :
          /\ \A u \in Thread \ func : u <= t
          /\ func' = func \cup {t}
          /\ ccr' = [ccr EXCEPT ![t] = (priority = 0)]
          /\ stacks' = stacks + 1
          /\ LET fresh == [clear(Removed, Thread \ func) EXCEPT !.priority[t] = priority]
             IN  Dispatch(put(put(fresh, current), t))
          /\ UNCHANGED ipcVars
     \/ /\ Thread \subseteq func
        /\ Halt("wild")
        /\ UNCHANGED threadVars
  /\ UNCHANGED handlers

(* The TCB is cleared; stack area and memory blocks are not given back. *)
Terminate ==
  /\ func' = func \ {current}
  /\ ccr' = [ccr EXCEPT ![current] = FALSE]
  /\ held' = [held EXCEPT ![current] = {}]
  /\ Dispatch(clear(Removed, {current}))
  /\ UNCHANGED <<stacks, handlers, mb, mem>>

thread_exit == Syscall("EXIT", NULL) /\ Terminate

(* trapa #1: the running thread is stopped. *)
softerr_intr ==
  /\ mode = "run"
  /\ "SOFTERR" \in Calls
  /\ syscall' = [syscall EXCEPT ![current] = NoCall]
  /\ Terminate

thread_wait ==
  /\ Syscall("WAIT", NULL)
  /\ Dispatch(put(Removed, current))
  /\ UNCHANGED <<threadVars, ipcVars, handlers>>

thread_sleep ==
  /\ Syscall("SLEEP", NULL)
  /\ Dispatch(Removed)
  /\ UNCHANGED <<threadVars, ipcVars, handlers>>

(* The threads an application wakes: those that went to sleep, or any. *)
Wakeable ==
  {t \in func : WakeReady \/ (~rq.ready[t] /\ syscall[t].type = "SLEEP")}

(* Mutant: the woken thread is put ahead of its waker. *)
thread_wakeup_WokenFirst(t) ==
  /\ Syscall("WAKEUP", NULL)
  /\ t \in Wakeable
  /\ Dispatch(put(put(Removed, t), current))
  /\ UNCHANGED <<threadVars, ipcVars, handlers>>

thread_wakeup(t) ==
  /\ Syscall("WAKEUP", NULL)
  /\ t \in Wakeable
  /\ Dispatch(put(put(Removed, current), t))
  /\ UNCHANGED <<threadVars, ipcVars, handlers>>

thread_getid ==
  /\ Syscall("GETID", NULL)
  /\ Dispatch(put(Removed, current))
  /\ UNCHANGED <<threadVars, ipcVars, handlers>>

(* A priority out of range leaves the old one. *)
thread_chpri(priority) ==
  /\ Syscall("CHPRI", NULL)
  /\ LET changed == IF priority \in Priority
                    THEN [Removed EXCEPT !.priority[current] = priority]
                    ELSE Removed
     IN  Dispatch(put(changed, current))
  /\ UNCHANGED <<threadVars, ipcVars, handlers>>
-----------------------------------------------------------------------------
thread_kmalloc(size) ==
  /\ Syscall("KMALLOC", NULL)
  /\ \/ \E i \in Pool :
          /\ FirstFit(mem, size, i)
          /\ mem' = kzmem_alloc(mem, i)
          /\ held' = [held EXCEPT ![current] = @ \cup {mem.free[i]}]
          /\ Dispatch(put(Removed, current))
          /\ UNCHANGED mb
     \/ NoFit(mem, size) /\ Halt("down")
  /\ UNCHANGED <<threadVars, handlers>>

(* An application frees what it holds. *)
(* Mutant: the caller is not put back. *)
thread_kmfree_Forgets(b) ==
  /\ Syscall("KMFREE", NULL)
  /\ b \in held[current]
  /\ mem' = kzmem_free(mem, b)
  /\ held' = [held EXCEPT ![current] = @ \ {b}]
  /\ Dispatch(Removed)
  /\ UNCHANGED <<threadVars, handlers, mb>>

thread_kmfree(b) ==
  /\ Syscall("KMFREE", NULL)
  /\ b \in held[current]
  /\ mem' = kzmem_free(mem, b)
  /\ held' = [held EXCEPT ![current] = @ \ {b}]
  /\ Dispatch(put(Removed, current))
  /\ UNCHANGED <<threadVars, handlers, mb>>

(* Thread r is inside kz_recv on box id, so that the parameters its TCB points
   to are those of that call. *)
InRecvOf(calls, r, id) == r \in func /\ calls[r] = [type |-> "RECV", id |-> id]

(* The message loses its data block to the receiving thread. *)
Deliver(h, x, id, r) ==
  [h EXCEPT ![r] = @ \cup ({x.data[x.head[id]]} \cap Block)]

(* sendmsg and, if a receiver waits, recvmsg on its behalf: thread_send after
   the sender is back in queue q.  m and h are the pools and holders so far.
   recvmsg writes through the parameters of the receiver's last call; when that
   is no longer a kz_recv on this box, or the receiver has been made ready
   since and may have left it, these are not where a result belongs. *)
Post(q, m, h, from, id, data) ==
  \/ /\ NoFit(m, MSGBUF_SIZE)
     /\ Halt("down")
  \/ \E i \in Pool :
       /\ FirstFit(m, MSGBUF_SIZE, i)
       /\ LET r == mb.reciever[id]
              x == sendmsg(mb, id, m.free[i], from, data)
          IN  \/ /\ r = NULL
                 /\ mb' = x
                 /\ mem' = kzmem_alloc(m, i)
                 /\ held' = h
                 /\ Dispatch(q)
              \/ /\ r # NULL
                 /\ InRecvOf(syscall', r, id)
                 /\ mb' = recvmsg(x, id)
                 /\ mem' = kzmem_free(kzmem_alloc(m, i), x.head[id])
                 /\ held' = Deliver(h, x, id, r)
                 /\ Dispatch(put(q, r))
              \/ /\ r # NULL
                 /\ ~InRecvOf(syscall', r, id) \/ rq.ready[r]
                 /\ Halt("wild")

(* The length of the list in a box, for the bound MaxPending. *)
Pending(id) == Len(ListSeq(mb.next, mb.head[id], Cardinality(Block)))

(* A thread sends static data or a block it holds, which then belongs to the
   thread that receives it. *)
thread_send(id, data) ==
  /\ Syscall("SEND", NULL)
  /\ data \in held[current] \cup {STATIC}
  /\ Pending(id) < MaxPending
  /\ Post(put(Removed, current), mem, [held EXCEPT ![current] = @ \ {data}],
          current, id, data)
  /\ UNCHANGED <<threadVars, handlers>>

(* Mutant: a single message counts as none. *)
wait_msg_of_NeedsTwo(id) == mb.head[id] # mb.tail[id]

wait_msg_of(id) == mb.head[id] # NULL

(* A second receiver is fatal; a message that is there is taken at once;
   otherwise the caller stays off the ready queues. *)
thread_recv(id) ==
  /\ Syscall("RECV", id)
  /\ \/ mb.reciever[id] # NULL /\ Halt("down")
     \/ /\ mb.reciever[id] = NULL /\ wait_msg_of(id)
        /\ mb' = recvmsg(mb, id)
        /\ mem' = kzmem_free(mem, mb.head[id])
        /\ held' = Deliver(held, mb, id, current)
        /\ Dispatch(put(Removed, current))
     \/ /\ mb.reciever[id] = NULL /\ ~wait_msg_of(id)
        /\ mb' = [mb EXCEPT !.reciever[id] = current]
        /\ Dispatch(Removed)
        /\ UNCHANGED <<mem, held>>
  /\ UNCHANGED <<threadVars, handlers>>
-----------------------------------------------------------------------------
(* Mutant: the table of vectors has one entry more. *)
IsVector_OneMore(type) == type \in 0 .. SOFTVEC_TYPE_NUM

IsVector(type) == type \in 0 .. SOFTVEC_TYPE_NUM - 1

(* A vector that does not exist is refused before the caller is put back. *)
thread_setintr(type) ==
  /\ Syscall("SETINTR", NULL)
  /\ \/ /\ IsVector(type)
        /\ handlers' = handlers \cup {type}
        /\ Dispatch(put(Removed, current))
     \/ /\ ~IsVector(type)
        /\ Dispatch(Removed)
        /\ UNCHANGED handlers
  /\ UNCHANGED <<threadVars, ipcVars>>

(* INTR_ENABLE and INTR_DISABLE, instructions of the running thread. *)
SetCcr(masked) ==
  /\ mode = "run"
  /\ "CCR" \in Calls
  /\ ccr' = [ccr EXCEPT ![current] = masked]
  /\ UNCHANGED <<current, rq, func, syscall, stacks, handlers, ipcVars, mode>>

(* A serial interrupt.  The interrupted thread stays in its queue.  The handler
   makes no service call, or wakes a thread with kx_wakeup, or allocates a
   block and sends it with kx_kmalloc and kx_send, as consdrv_recv_intrproc
   does.  srvcall_proc sets current to NULL, so nobody is the sender and the
   put(current) of the called function does nothing. *)
thread_intr ==
  /\ mode = "run"
  /\ ~ccr[current]
  /\ SERINTR \in handlers
  /\ UNCHANGED <<threadVars, syscall, handlers>>
  /\ \/ /\ "NONE" \in HandlerCalls
        /\ Dispatch(rq)
        /\ UNCHANGED ipcVars
     \/ /\ "WAKEUP" \in HandlerCalls
        /\ \E t \in Wakeable : Dispatch(put(rq, t))
        /\ UNCHANGED ipcVars
     \/ /\ "SEND" \in HandlerCalls
        /\ \/ NoFit(mem, CONS_SIZE) /\ Halt("down")
           \/ \E i \in Pool, id \in MsgBox :
                /\ FirstFit(mem, CONS_SIZE, i)
                /\ Pending(id) < MaxPending
                /\ Post(rq, kzmem_alloc(mem, i), held, NULL, id, mem.free[i])

(* The endless loop of kz_sysdown, and whatever follows a wild write. *)
Spin == mode # "run" /\ UNCHANGED vars

SystemCall ==
  \/ \E p \in RunPriorities : thread_run(p)
  \/ thread_exit
  \/ thread_wait
  \/ thread_sleep
  \/ \E t \in Thread : thread_wakeup(t)
  \/ thread_getid
  \/ \E p \in NewPriorities : thread_chpri(p)
  \/ \E size \in AllocSizes : thread_kmalloc(size)
  \/ \E b \in Block : thread_kmfree(b)
  \/ \E id \in MsgBox, data \in Block \cup {STATIC} : thread_send(id, data)
  \/ \E id \in MsgBox : thread_recv(id)
  \/ \E type \in IntrTypes : thread_setintr(type)

Next ==
  \/ SystemCall
  \/ softerr_intr
  \/ \E masked \in BOOLEAN : SetCcr(masked)
  \/ thread_intr
  \/ Spin

Spec == Init /\ [][Next]_vars

(* The running thread gets to its next system call: nothing in the kernel
   delays it, and the threads of the test programs make one after another. *)
Fairness == WF_vars(SystemCall)

FairSpec == Spec /\ Fairness
-----------------------------------------------------------------------------
(* Whoever enters the kernel is the thread the kernel believes is running: in
   every reachable state `current' is in use, ready, first of the queue of its
   priority, and every more urgent queue is empty.  syscall_proc relies on it
   (it takes the head of that queue for the caller), and it is what `schedule'
   promises.  It holds even when queues have been damaged by a thread woken
   while ready. *)
CallerIsHead ==
  mode = "run" =>
    /\ current \in func /\ rq.ready[current]
    /\ rq.head[rq.priority[current]] = current
    /\ \A p \in Priority : p < rq.priority[current] => rq.head[p] = NULL

(* An interrupt takes the processor from a thread only to give it to a thread
   of strictly higher priority: thread_intr leaves the interrupted thread at
   the head of its queue, and the handler's put appends. *)
PreemptionOnlyByHigher ==
  [][thread_intr => \/ current' = current
                    \/ mode' # "run"
                    \/ rq'.priority[current'] < rq.priority[current]]_vars

QueueSeq(p)   == ListSeq(rq.next, rq.head[p], THREAD_NUM)
QueueNodes(p) == ListNodes(rq.next, rq.head[p], THREAD_NUM)

(* The ready flag and the queues tell the same story: a thread is flagged ready
   exactly when it is reachable in the queue of its priority, no queue closes on
   itself, and each tail pointer names the last thread. *)
NoLostThread ==
  mode = "run" =>
    \A p \in Priority :
      /\ QueueNodes(p) = {t \in Thread : rq.ready[t] /\ rq.priority[t] = p}
      /\ IsAcyclic(rq.next, rq.head[p], THREAD_NUM)
      /\ rq.tail[p] = IF QueueSeq(p) = <<>> THEN NULL
                      ELSE QueueSeq(p)[Len(QueueSeq(p))]

(* A thread that is in use and off the ready queues went there by its own
   kz_sleep, or by a kz_recv whose box still has it as the receiver and will
   therefore wake it: no other call leaves its caller behind. *)
OnlyBlockingCallsBlock ==
  mode = "run" =>
    \A t \in func : ~rq.ready[t] =>
      \/ syscall[t].type = "SLEEP"
      \/ syscall[t].type = "RECV" /\ mb.reciever[syscall[t].id] = t

(* A registered receiver is a live thread blocked in kz_recv on that very box,
   so that thread_send may write the result through its parameters. *)
WaiterIsBlocked ==
  mode = "run" =>
    \A id \in MsgBox : mb.reciever[id] # NULL =>
      InRecvOf(syscall, mb.reciever[id], id) /\ ~rq.ready[mb.reciever[id]]

(* A box with a waiting receiver holds no message: one that arrives is handed
   over in the same kernel entry. *)
NoMessageWaits ==
  mode = "run" => \A id \in MsgBox : mb.reciever[id] # NULL => mb.head[id] = NULL

(* The places a block can be: a free list, a message box as a buffer, a message
   as its data, a thread. *)
FreeBlocks(i) == ListNodes(mem.next, mem.free[i], Cardinality(Block))
Buffers(id)   == ListNodes(mb.next, mb.head[id], Cardinality(Block))

Places(b) ==
  {<<"free", i>> : i \in {k \in Pool : b \in FreeBlocks(k)}}
  \cup {<<"buffer", id>> : id \in {k \in MsgBox : b \in Buffers(k)}}
  \cup {<<"data", m>> : m \in {k \in UNION {Buffers(id) : id \in MsgBox} :
                                 mb.data[k] = b}}
  \cup {<<"held", t>> : t \in {u \in Thread : b \in held[u]}}

(* No block of memory has two owners, whatever is allocated, freed, sent and
   received by threads and by the interrupt handler. *)
BlockExclusive == \A b \in Block : Cardinality(Places(b)) <= 1

(* And none is without an owner: as long as no thread ends, every block is
   free, in a box, or with the thread that must free it. *)
NoBlockLeaked == mode = "run" => \A b \in Block : Places(b) # {}

(* kz_run with every task control block taken is an ordinary error (create_TCB
   finds none, thread_run returns -1): it does not take the kernel outside its
   tables.  For applications that wake only sleeping threads. *)
FullTableIsHarmless == mode # "wild"

(* A ready thread is run, unless a more urgent thread gets ready: every call
   puts its caller behind the other threads of its priority. *)
NoStarvation ==
  \A t \in Thread :
    (mode = "run" /\ rq.ready[t]) ~>
      \/ current = t
      \/ mode # "run"
      \/ \E u \in Thread : rq.ready[u] /\ rq.priority[u] < rq.priority[t]
=============================================================================
