------------------------------ MODULE Context ------------------------------
(***************************************************************************)
(* The way into and out of the kernel, instruction by instruction: the     *)
(* exception vectors and entry code of bootload/vector.c and               *)
(* bootload/intr.S, interrupt() of misc/interrupt.c, thread_intr, kz_start *)
(* and kz_syscall of os/kozos.c, and _dispatch of os/startup.s.            *)
(*                                                                         *)
(* Memory is counted in words of four bytes.  Which thread is ready, and   *)
(* what else a call does, is left to the module Kozos: here the kernel     *)
(* resumes any thread.                                                     *)
(***************************************************************************)
EXTENDS Integers, Sequences

CONSTANTS
  THREAD_NUM,
  NULL,
  LastReg,    \* the registers saved are er0 to this one (er6)
  STACK,      \* the words of a stack area
  STACK_NUM,  \* stack areas below the interrupt stack
  (* What the threads do. *)
  Files,      \* the register contents they compute
  MaxDepth    \* the words they push

Thread  == 0 .. THREAD_NUM - 1
Reg     == 0 .. LastReg
FRAME   == LastReg + 2       \* the registers, and one word with CCR and PC
INTRSTACK == STACK * STACK_NUM + 1
BOOTSTACK == INTRSTACK       \* one address, in both linker scripts
Address == 0 .. INTRSTACK - 1

(* SOFTVEC_TYPE_..., and some of KZ_SYSCALL_TYPE_... *)
SOFTERR == 0
SYSCALL == 1
SERINTR == 2
Softvec == SOFTERR .. SERINTR

(* Nothing checks that a stack area holds what its thread pushes and a frame. *)
ASSUME ContextAssumption ==
  /\ THREAD_NUM \in Nat \ {0} /\ STACK_NUM \in Nat \ {0}
  /\ NULL \notin Thread \cup Softvec
  /\ LastReg \in Nat \ {0} /\ MaxDepth \in Nat /\ STACK \in Nat
  /\ MaxDepth + 1 + FRAME <= STACK
  /\ Files \subseteq [Reg -> Nat]

RUN     == 0
EXIT    == 1
SETINTR == 11

VARIABLES
  cpu,      \* er, sp, pc and masked, the I bit of CCR
  at,       \* the routine being executed: "thread", or one of the kernel
  entry,    \* the entry code in execution, as the soft vector it passes on;
            \* NULL when none is
  reg,      \* the register that is pushed or popped next
  ram,
  current,  \* as in Kozos
  func,     \* the TCBs in use
  context,  \* the stack pointer saved in each TCB
  call,     \* the fields syscall.type and syscall.param of each TCB
  stack,    \* the field `stack' of each TCB, where its area ends
  areas,    \* stack areas handed out, the position of thread_stack
  softvec   \* soft vectors with a handler

tcbs == <<func, context, call, stack>>
vars == <<cpu, at, entry, reg, ram, current, tcbs, areas, softvec>>

(* Where a thread is, as numbers that a word of memory can hold. *)
INIT  == 16   \* the first instruction of thread_init
BODY  == 17   \* its own code
PARAM == 18   \* in kz_syscall, before its second assignment and the trap
TRAPA == 19
Code  == INIT .. TRAPA

THREAD_END == 20   \* the function, whose address is at the bottom of a stack
Unused     == -1   \* what C code leaves in the registers it may change

(* CCR and PC share a word; CCR is 0xc0 when interrupts are masked. *)
CcrPc(masked, pc) == pc + (IF masked THEN 192 ELSE 0) * 256
Masked(word)      == word \div 256 # 0
Pc(word)          == word % 256

Scratch == [r \in Reg |-> Unused]
NoCall  == [type |-> RUN, param |-> 0]

Init ==
  /\ cpu = [er |-> Scratch, sp |-> BOOTSTACK, pc |-> BODY, masked |-> TRUE]
  /\ at = "boot" /\ entry = NULL /\ reg = 0
  /\ ram = [a \in Address |-> 0]
  /\ current = NULL
  /\ func = {} /\ context = [t \in Thread |-> 0]
  /\ call = [t \in Thread |-> NoCall] /\ stack = [t \in Thread |-> 0]
  /\ areas = 0 /\ softvec = {}
-----------------------------------------------------------------------------
(* Nothing is left below a stack pointer: the next exception may write there. *)
Popped == ram' = [ram EXCEPT ![cpu.sp] = Unused]

(* The entry code intr_softerr, intr_syscall and intr_serintr: the registers
   are pushed from the last to er0, ... *)
save ==
  /\ at = "save"
  /\ ram' = [ram EXCEPT ![cpu.sp - 1] = cpu.er[reg]]
  /\ cpu' = [cpu EXCEPT !.sp = @ - 1]
  /\ IF reg = 0 THEN at' = "enter" /\ UNCHANGED reg ELSE reg' = reg - 1 /\ UNCHANGED at
  /\ UNCHANGED <<entry, current, tcbs, areas, softvec>>

(* ... and interrupt(type, sp) is called on the interrupt stack, which keeps
   the stack pointer of the thread. *)
enter ==
  /\ at = "enter"
  /\ ram' = [ram EXCEPT ![INTRSTACK - 1] = cpu.sp]
  /\ cpu' = [cpu EXCEPT !.sp = INTRSTACK - 1, !.er[0] = entry, !.er[1] = cpu.sp]
  /\ at' = "interrupt"
  /\ UNCHANGED <<entry, reg, current, tcbs, areas, softvec>>

(* Mutant: the handler enables interrupts, as consdrv_command does. *)
AfterC_Enabled == [cpu EXCEPT !.er = Scratch, !.masked = FALSE]

(* The processor after C code, which keeps the interrupt mask. *)
AfterC == [cpu EXCEPT !.er = Scratch]

(* A vector without a handler is left again. *)
interrupt ==
  /\ at = "interrupt"
  /\ IF cpu.er[0] \in softvec
     THEN at' = "thread_intr" /\ UNCHANGED cpu
     ELSE at' = "leave" /\ cpu' = AfterC
  /\ UNCHANGED <<entry, reg, ram, current, tcbs, areas, softvec>>

leave ==
  /\ at = "leave"
  /\ Popped
  /\ cpu' = [cpu EXCEPT !.sp = ram[cpu.sp], !.er[1] = ram[cpu.sp]]
  /\ at' = "restore" /\ reg' = 0 /\ entry' = NULL
  /\ UNCHANGED <<current, tcbs, areas, softvec>>

(* The entry code and _dispatch end alike. *)
restore ==
  /\ at = "restore"
  /\ Popped
  /\ cpu' = [cpu EXCEPT !.er[reg] = ram[cpu.sp], !.sp = @ + 1]
  /\ IF reg = LastReg THEN at' = "rte" /\ UNCHANGED reg ELSE reg' = reg + 1 /\ UNCHANGED at
  /\ UNCHANGED <<entry, current, tcbs, areas, softvec>>

rte ==
  /\ at = "rte"
  /\ Popped
  /\ cpu' = [cpu EXCEPT !.pc = Pc(ram[cpu.sp]), !.masked = Masked(ram[cpu.sp]), !.sp = @ + 1]
  /\ at' = "thread"
  /\ UNCHANGED <<entry, reg, current, tcbs, areas, softvec>>
-----------------------------------------------------------------------------
(* Mutant: the stack pointer is saved for system calls only. *)
thread_intr_OnlyCalls ==
  /\ at = "thread_intr"
  /\ context' = IF entry = SERINTR THEN context
                ELSE [context EXCEPT ![current] = cpu.er[1]]
  /\ at' = "handler"
  /\ UNCHANGED <<cpu, entry, reg, ram, current, func, call, stack, areas, softvec>>

(* thread_intr saves the stack pointer it is given, and calls the handler. *)
thread_intr ==
  /\ at = "thread_intr"
  /\ context' = [context EXCEPT ![current] = cpu.er[1]]
  /\ at' = "handler"
  /\ UNCHANGED <<cpu, entry, reg, ram, current, func, call, stack, areas, softvec>>

(* The stack area that ends at top. *)
Area(top) == top - STACK .. top - 1

(* The first frame of a thread, at the end of its stack area, as it is pushed by
   thread_run: er0 is the argument of thread_init. *)
FirstFrame(t, top, masked) ==
  [a \in Address |->
     CASE a \notin Area(top)   -> ram[a]
       [] a = top - 1          -> THREAD_END
       [] a = top - 2          -> CcrPc(masked, INIT)
       [] a = top - 1 - FRAME  -> t
       [] OTHER                -> 0]

(* Mutant: the registers pushed are one less than are popped. *)
FirstSp_OneShort(top) == top - FRAME

FirstSp(top) == top - 1 - FRAME

(* Mutant: thread_stack does not move. *)
get_stack_area_Again == UNCHANGED areas

get_stack_area == areas' = areas + 1

(* The part of thread_run that builds a context, in the last vacant TCB, where
   there is one (see Kozos). *)
thread_run(masked) ==
  /\ areas < STACK_NUM
  /\ get_stack_area
  /\ \E t \in Thread \ func :
       LET top == STACK * (areas + 1)
       IN  /\ \A u \in Thread \ func : u <= t
           /\ func' = func \cup {t}
           /\ ram' = FirstFrame(t, top, masked)
           /\ context' = [context EXCEPT ![t] = FirstSp(top)]
           /\ stack' = [stack EXCEPT ![t] = top]
           /\ call' = [call EXCEPT ![t] = NoCall]

(* The TCB is cleared; nobody will read the stack any more. *)
thread_exit ==
  /\ func' = func \ {current}
  /\ context' = [context EXCEPT ![current] = 0]
  /\ call' = [call EXCEPT ![current] = NoCall]
  /\ stack' = [stack EXCEPT ![current] = 0]
  /\ ram' = [a \in Address |-> IF a \in Area(stack[current]) THEN Unused ELSE ram[a]]
  /\ UNCHANGED areas

(* The kinds of calls that matter here: one starts a thread, one ends it, one
   gives the serial interrupt a handler. *)
syscall_intr ==
  LET type == call[current].type
  IN  \/ /\ type = RUN
         /\ \E masked \in BOOLEAN : thread_run(masked)
         /\ UNCHANGED softvec
      \/ /\ type = EXIT
         /\ thread_exit
         /\ UNCHANGED softvec
      \/ /\ type \notin {RUN, EXIT}
         /\ softvec' = softvec \cup {v \in {SERINTR} : type = SETINTR}
         /\ UNCHANGED <<tcbs, ram, areas>>

(* The handlers registered with the kernel.  A service call of the serial
   handler sets current to NULL. *)
handler ==
  /\ at = "handler"
  /\ \/ /\ cpu.er[0] = SYSCALL
        /\ syscall_intr
        /\ UNCHANGED current
     \/ /\ cpu.er[0] = SOFTERR
        /\ thread_exit
        /\ UNCHANGED <<current, softvec>>
     \/ /\ cpu.er[0] = SERINTR
        /\ current' \in {current, NULL}
        /\ UNCHANGED <<tcbs, ram, areas, softvec>>
  /\ cpu' = AfterC
  /\ at' = "schedule"
  /\ UNCHANGED <<entry, reg>>

schedule ==
  /\ at = "schedule"
  /\ \/ current' \in func /\ at' = "dispatch"
     \/ func = {} /\ at' = "down" /\ UNCHANGED current
  /\ UNCHANGED <<cpu, entry, reg, ram, tcbs, areas, softvec>>

(* dispatch(&current->context) *)
dispatch ==
  /\ at = "dispatch"
  /\ cpu' = [cpu EXCEPT !.sp = context[current]]
  /\ ram' = [ram EXCEPT ![INTRSTACK - 1] = Unused]
  /\ at' = "restore" /\ reg' = 0 /\ entry' = NULL
  /\ UNCHANGED <<current, tcbs, areas, softvec>>

(* On the boot stack, which is the interrupt stack too.  "idle" has priority 0
   and starts with interrupts masked. *)
kz_start ==
  /\ at = "boot"
  /\ softvec' = {SYSCALL, SOFTERR}
  /\ thread_run(TRUE)
  /\ current' \in func'
  /\ at' = "dispatch"
  /\ UNCHANGED <<cpu, entry, reg>>

Kernel ==
  \/ save \/ enter \/ interrupt \/ leave \/ restore \/ rte
  \/ thread_intr \/ handler \/ schedule \/ dispatch \/ kz_start
-----------------------------------------------------------------------------
(* The exception vectors, the ones not named here being empty. *)
vectors(n) ==
  CASE n = 8        -> SYSCALL
    [] n \in 9..11  -> SOFTERR
    [] n \in 52..63 -> SERINTR

(* The hardware pushes CCR and PC and masks interrupts.  If it ever interrupted
   the kernel nothing more could be said. *)
Exception(n, pc) ==
  /\ ram' = [ram EXCEPT ![cpu.sp - 1] = CcrPc(cpu.masked, pc)]
  /\ cpu' = [cpu EXCEPT !.sp = @ - 1, !.masked = TRUE]
  /\ at' = IF at = "thread" THEN "save" ELSE "lost"
  /\ entry' = vectors(n) /\ reg' = LastReg
  /\ UNCHANGED <<current, tcbs, areas, softvec>>

Serial == 56   \* one of the twelve vectors of the serial ports

SerialInterrupt ==
  /\ at \notin {"lost", "down"} /\ ~cpu.masked
  /\ Exception(Serial, cpu.pc)

(* What a thread does, at instruction pc. *)
Executes(pc) == at = "thread" /\ cpu.pc = pc

Depth == stack[current] - 1 - cpu.sp
Rest  == <<at, entry, reg, current, func, context, stack, areas, softvec>>

(* thread_init takes the TCB from er0 to find the function of the thread. *)
thread_init ==
  /\ Executes(INIT)
  /\ cpu' = [cpu EXCEPT !.pc = BODY]
  /\ UNCHANGED <<Rest, ram, call>>

(* The registers, the stack and the mask change as the thread pleases. *)
Compute ==
  /\ Executes(BODY)
  /\ \/ \E f \in Files : cpu' = [cpu EXCEPT !.er = f] /\ UNCHANGED ram
     \/ /\ Depth < MaxDepth
        /\ ram' = [ram EXCEPT ![cpu.sp - 1] = cpu.er[LastReg]]
        /\ cpu' = [cpu EXCEPT !.sp = @ - 1]
     \/ /\ Depth > 0
        /\ cpu' = [cpu EXCEPT !.sp = @ + 1, !.er[LastReg] = ram[cpu.sp]]
        /\ Popped
     \/ \E masked \in BOOLEAN : cpu' = [cpu EXCEPT !.masked = masked] /\ UNCHANGED ram
  /\ UNCHANGED <<Rest, call>>

(* What the bounds leave room for: a thread that starts another one waits until
   there is a TCB, and for ever when there is no stack area. *)
Room == cpu.er[0] = RUN => areas < STACK_NUM /\ func # Thread

(* Mutant: the second assignment is missing. *)
StoreParam_Not == UNCHANGED call

StoreParam == call' = [call EXCEPT ![current].param = cpu.er[1]]

(* kz_syscall, with its arguments in er0 and er1, stores them in two steps and
   traps. *)
kz_syscall ==
  \/ /\ Executes(BODY)
     /\ cpu' = [cpu EXCEPT !.pc = PARAM]
     /\ call' = [call EXCEPT ![current].type = cpu.er[0]]
     /\ UNCHANGED <<Rest, ram>>
  \/ /\ Executes(PARAM)
     /\ cpu' = [cpu EXCEPT !.pc = TRAPA]
     /\ StoreParam
     /\ UNCHANGED <<Rest, ram>>
  \/ /\ Executes(TRAPA)
     /\ Room
     /\ Exception(8, BODY)

softerr == Executes(BODY) /\ Exception(9, BODY)

Idle ==
  /\ at \in {"down", "lost"} \/ (Executes(TRAPA) /\ ~Room)
  /\ UNCHANGED vars

Next == Kernel \/ SerialInterrupt \/ thread_init \/ Compute \/ kz_syscall \/ softerr \/ Idle

Spec == Init /\ [][Next]_vars
-----------------------------------------------------------------------------
TypeOK ==
  /\ DOMAIN cpu.er = Reg /\ cpu.sp \in Address \cup {INTRSTACK}
  /\ cpu.pc \in Code /\ cpu.masked \in BOOLEAN
  /\ at \in {"boot", "thread", "save", "enter", "interrupt", "thread_intr", "handler",
             "schedule", "dispatch", "leave", "restore", "rte", "down", "lost"}
  /\ entry \in Softvec \cup {NULL} /\ reg \in Reg /\ softvec \subseteq Softvec
  /\ DOMAIN ram = Address
  /\ current \in Thread \cup {NULL} /\ func \subseteq Thread
  /\ context \in [Thread -> Address] /\ stack \in [Thread -> Address]
  /\ areas \in 0 .. STACK_NUM

(* No interrupt is taken from the first instruction of an entry to the last of
   the exit: the one interrupt stack never holds two frames, and a kernel entry
   is one step for everybody else, as the module Kozos has it. *)
KernelIsMasked == at # "lost" /\ (at # "thread" => cpu.masked)

(* The call that is served is the one its caller has made: the two fields
   kz_syscall stores into the TCB, with interrupts between the stores and other
   threads making calls of their own, still are what it was given. *)
CallIsCallers ==
  at = "handler" /\ entry = SYSCALL =>
    /\ call[current].type = ram[context[current]]
    /\ call[current].param = ram[context[current] + 1]

(* The context of a thread that is not running lies, with all of its frame, in
   the stack area of that thread, and no two areas meet: what one thread pushes,
   or the kernel pushes for it, never reaches another. *)
Saved ==
  IF at \in {"handler", "schedule", "dispatch"} THEN func ELSE func \ {current}

FramesInPlace ==
  /\ \A t \in Saved : context[t] \in stack[t] - STACK .. stack[t] - 1 - FRAME
  /\ \A t, u \in func : t # u => stack[t] - stack[u] \notin -STACK + 1 .. STACK - 1
=============================================================================
