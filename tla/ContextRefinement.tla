------------------------- MODULE ContextRefinement -------------------------
(***************************************************************************)
(* A thread's processor, wherever the entry and exit code keeps its parts: *)
(* in the real one, on its stack, or half way in between.                  *)
(***************************************************************************)
EXTENDS Context

(* The words of a thread below address a, down to the end of its stack. *)
Words(t, a) == [k \in 1 .. stack[t] - a |-> ram[stack[t] - k]]

(* The registers from r on, CCR and PC are at address a, the others still in
   the processor. *)
Partly(t, r, a) ==
  LET psw == ram[a + LastReg + 1 - r]
  IN  [er     |-> [q \in Reg |-> IF q < r THEN cpu.er[q] ELSE ram[a + q - r]],
       pc     |-> Pc(psw),
       masked |-> Masked(psw),
       stack  |-> Words(t, a + LastReg + 2 - r)]

Processor(t) ==
  CASE t # current \/ at \in {"handler", "schedule", "dispatch"} -> Partly(t, 0, context[t])
    [] t = current /\ at = "thread" ->
         [er |-> cpu.er, pc |-> cpu.pc, masked |-> cpu.masked, stack |-> Words(t, cpu.sp)]
    [] t = current /\ at = "save"    -> Partly(t, reg + 1, cpu.sp)
    [] t = current /\ at = "enter"   -> Partly(t, 0, cpu.sp)
    [] t = current /\ at \in {"interrupt", "thread_intr"} -> Partly(t, 0, cpu.er[1])
    [] t = current /\ at = "leave"   -> Partly(t, 0, ram[cpu.sp])
    [] t = current /\ at = "restore" -> Partly(t, reg, cpu.sp)
    [] t = current /\ at = "rte"     -> Partly(t, LastReg + 1, cpu.sp)

Request ==
  CASE at = "boot" -> [type |-> SYSCALL, from |-> NULL]
    [] at \in {"save", "enter", "interrupt", "thread_intr", "handler"} ->
         [type |-> entry, from |-> current]
    [] OTHER -> [type |-> NULL, from |-> NULL]

(* What thread_init finds. *)
Fresh(t, masked) ==
  [er |-> [r \in Reg |-> IF r = 0 THEN t ELSE 0], pc |-> INIT,
   masked |-> masked, stack |-> <<THREAD_END>>]

(* kz_syscall returns. *)
Past(p) == [p EXCEPT !.pc = BODY]

Each == INSTANCE Processors WITH
  processor <- [t \in func |-> Processor(t)],
  running   <- IF at = "thread" THEN current ELSE NULL,
  request   <- Request

(* Every thread computes as if it had a processor of its own: its registers,
   stack, place and mask are the same when it goes on as when it was stopped,
   and the call that is served is the one it made, whatever interrupts it or
   runs in the meantime.  The entry code, thread_intr, kz_syscall, the first
   frame built by thread_run, and _dispatch. *)
ImplementsProcessors == Each!Spec
=============================================================================
