--------------------------- MODULE ContextProofs ---------------------------
(***************************************************************************)
(* Why a thread can forget that it is interrupted: for any number of       *)
(* threads, registers and stack areas, and whatever the threads do with    *)
(* their registers, stacks and masks, the kernel is never interrupted, and *)
(* the entry and exit code gives every thread a processor of its own.      *)
(***************************************************************************)
EXTENDS ContextRefinement, TLAPS

(* The fields of the processor, so that an assignment to one of them leaves the
   others alone. *)
Fields == {"er", "sp", "pc", "masked"}

IsProcessor == cpu = [f \in Fields |-> cpu[f]]

MaskedInv == IsProcessor /\ KernelIsMasked

LEMMA InitMasked == Init => MaskedInv
  BY DEF Init, MaskedInv, IsProcessor, Fields, KernelIsMasked

(* The entry code, the routines of the kernel and the exit code run with the
   mask they found, which the last instruction of the exit gives up. *)
LEMMA EntryKeepsMask ==
  ASSUME MaskedInv, save \/ enter \/ interrupt \/ leave \/ restore \/ rte
  PROVE  MaskedInv'
<1>1. CASE save
  BY <1>1 DEF save, MaskedInv, IsProcessor, Fields, KernelIsMasked
<1>2. CASE enter
  BY <1>2 DEF enter, MaskedInv, IsProcessor, Fields, KernelIsMasked
<1>3. CASE interrupt
  BY <1>3 DEF interrupt, AfterC, MaskedInv, IsProcessor, Fields, KernelIsMasked
<1>4. CASE leave
  BY <1>4 DEF leave, MaskedInv, IsProcessor, Fields, KernelIsMasked
<1>5. CASE restore
  BY <1>5 DEF restore, MaskedInv, IsProcessor, Fields, KernelIsMasked
<1>6. CASE rte
  BY <1>6 DEF rte, MaskedInv, IsProcessor, Fields, KernelIsMasked
<1> QED
  BY <1>1, <1>2, <1>3, <1>4, <1>5, <1>6

(* The kernel's C code does not touch the mask. *)
LEMMA KernelKeepsMask ==
  ASSUME MaskedInv, thread_intr \/ handler \/ schedule \/ dispatch \/ kz_start
  PROVE  MaskedInv'
<1>1. CASE thread_intr
  BY <1>1 DEF thread_intr, MaskedInv, IsProcessor, Fields, KernelIsMasked
<1>2. CASE handler
  BY <1>2 DEF handler, AfterC, MaskedInv, IsProcessor, Fields, KernelIsMasked
<1>3. CASE schedule
  BY <1>3 DEF schedule, MaskedInv, IsProcessor, Fields, KernelIsMasked
<1>4. CASE dispatch
  BY <1>4 DEF dispatch, MaskedInv, IsProcessor, Fields, KernelIsMasked
<1>5. CASE kz_start
  BY <1>5 DEF kz_start, MaskedInv, IsProcessor, Fields, KernelIsMasked
<1> QED
  BY <1>1, <1>2, <1>3, <1>4, <1>5

(* An exception of a thread masks interrupts. *)
LEMMA ExceptionMasks ==
  ASSUME MaskedInv, at = "thread", NEW n, NEW pc, Exception(n, pc)
  PROVE  MaskedInv'
  BY DEF Exception, MaskedInv, IsProcessor, Fields, KernelIsMasked

(* A thread may change its mask: it is not in the kernel. *)
LEMMA ThreadStaysOutside ==
  ASSUME MaskedInv, thread_init \/ Compute \/ kz_syscall \/ softerr
  PROVE  MaskedInv'
<1>1. CASE thread_init
  BY <1>1 DEF thread_init, Executes, Rest, MaskedInv, IsProcessor, Fields, KernelIsMasked
<1>2. CASE Compute
  <2>1. at = "thread" /\ at' = "thread"
    BY <1>2 DEF Compute, Executes, Rest
  <2>2. IsProcessor'
    BY <1>2 DEF Compute, MaskedInv, IsProcessor, Fields
  <2> QED
    BY <2>1, <2>2 DEF MaskedInv, KernelIsMasked
<1>3. CASE kz_syscall
  <2>1. CASE Executes(TRAPA) /\ Exception(8, BODY)
    BY <2>1, ExceptionMasks DEF Executes
  <2>2. CASE (Executes(BODY) \/ Executes(PARAM)) /\ UNCHANGED Rest
             /\ \E pc : cpu' = [cpu EXCEPT !.pc = pc]
    BY <2>2 DEF Executes, Rest, MaskedInv, IsProcessor, Fields, KernelIsMasked
  <2> QED
    BY <1>3, <2>1, <2>2 DEF kz_syscall
<1>4. CASE softerr
  BY <1>4, ExceptionMasks DEF softerr, Executes
<1> QED
  BY <1>1, <1>2, <1>3, <1>4

(* From the first instruction of an entry to the last of the exit interrupts
   are masked, so that no interrupt is taken in between: one interrupt stack is
   enough, and the actions of the module Kozos are atomic. *)
THEOREM KernelMasked == Spec => []KernelIsMasked
<1>1. MaskedInv /\ [Next]_vars => MaskedInv'
  <2> SUFFICES ASSUME MaskedInv, [Next]_vars
               PROVE  MaskedInv'
    OBVIOUS
  <2>1. CASE Kernel
    BY <2>1, EntryKeepsMask, KernelKeepsMask DEF Kernel
  <2>2. CASE SerialInterrupt
    <3>1. at = "thread"
      BY <2>2 DEF SerialInterrupt, MaskedInv, KernelIsMasked
    <3> QED
      BY <2>2, <3>1, ExceptionMasks DEF SerialInterrupt
  <2>3. CASE thread_init \/ Compute \/ kz_syscall \/ softerr
    BY <2>3, ThreadStaysOutside
  <2>4. CASE Idle
    BY <2>4 DEF Idle, vars, MaskedInv, IsProcessor, Fields, KernelIsMasked
  <2>5. CASE UNCHANGED vars
    BY <2>5 DEF vars, MaskedInv, IsProcessor, Fields, KernelIsMasked
  <2> QED
    BY <2>1, <2>2, <2>3, <2>4, <2>5 DEF Next
<1>2. MaskedInv => KernelIsMasked
  BY DEF MaskedInv
<1> QED
  BY <1>1, <1>2, InitMasked, PTL DEF Spec
-----------------------------------------------------------------------------
(* The parts of a processor that Partly puts together, with the memory m, the
   registers er and the end s of the stack as parameters. *)
Pushed(m, s, sp) == [k \in 1 .. s - sp |-> m[s - k]]

Frame(m, er, r, a, s) ==
  LET psw == m[a + LastReg + 1 - r]
  IN  [er     |-> [q \in Reg |-> IF q < r THEN er[q] ELSE m[a + q - r]],
       pc     |-> Pc(psw),
       masked |-> Masked(psw),
       stack  |-> Pushed(m, s, a + LastReg + 2 - r)]

Whole(m, c, s) ==
  [er |-> c.er, pc |-> c.pc, masked |-> c.masked, stack |-> Pushed(m, s, c.sp)]

(* The values of the variables. *)
Memory == [Address -> Int]
RegFiles == [Reg -> Int]
Cpus == [er : RegFiles, sp : Int, pc : Code, masked : BOOLEAN]

(* rte and thread_run: CCR and PC share a word and are found again in it. *)
LEMMA PswRead ==
  ASSUME NEW masked \in BOOLEAN, NEW pc \in Code
  PROVE  /\ CcrPc(masked, pc) \in Int
         /\ Pc(CcrPc(masked, pc)) = pc
         /\ Masked(CcrPc(masked, pc)) = masked
<1>1. pc \in 0 .. 255 /\ pc \in Int
  BY DEF Code, INIT, TRAPA
<1>2. CASE masked = TRUE
  <2>1. PICK w \in Int : w = pc + 49152
    BY <1>1
  <2>2. CcrPc(masked, pc) = w
    BY <1>2, <2>1 DEF CcrPc
  <2>3. w % 256 = pc /\ w \div 256 # 0
    BY <1>1, <2>1
  <2>4. Pc(w) = pc /\ Masked(w) = TRUE
    BY <2>3 DEF Pc, Masked
  <2>5. CcrPc(masked, pc) \in Int
    BY <2>1, <2>2
  <2>6. Pc(CcrPc(masked, pc)) = pc
    BY <2>2, <2>4
  <2>7. Masked(CcrPc(masked, pc)) = TRUE
    BY <2>2, <2>4
  <2>8. Masked(CcrPc(masked, pc)) = masked
    BY <2>7, <1>2, Zenon
  <2> QED
    BY <2>5, <2>6, <2>8
<1>3. CASE masked = FALSE
  BY <1>1, <1>3 DEF CcrPc, Pc, Masked
<1> QED
  BY <1>2, <1>3

LEMMA PushedKept ==
  ASSUME NEW m, NEW n, NEW s \in Int, NEW sp \in Int,
         \A x \in sp .. s - 1 : n[x] = m[x]
  PROVE  Pushed(n, s, sp) = Pushed(m, s, sp)
<1>1. \A k \in 1 .. s - sp : n[s - k] = m[s - k]
  OBVIOUS
<1> QED
  BY <1>1 DEF Pushed

SameWords(m, n, a, s) == \A x \in a .. s - 1 : n[x] = m[x]

SameRegs(er, f, r) == \A q \in Reg : q < r => f[q] = er[q]

(* A frame that nobody writes to keeps the processor. *)
LEMMA FrameKept ==
  ASSUME NEW m, NEW n, NEW er, NEW f, NEW r \in 0 .. LastReg + 1, NEW a \in Int, NEW s \in Int,
         a + FRAME - r <= s,
         SameWords(m, n, a, s), SameRegs(er, f, r)
  PROVE  Frame(n, f, r, a, s) = Frame(m, er, r, a, s)
<1>0. LastReg \in Nat
  BY ContextAssumption
<1>1. n[a + LastReg + 1 - r] = m[a + LastReg + 1 - r]
  BY <1>0 DEF FRAME, SameWords
<1>2. \A q \in Reg : (IF q < r THEN f[q] ELSE n[a + q - r]) = (IF q < r THEN er[q] ELSE m[a + q - r])
  BY <1>0 DEF FRAME, Reg, SameWords, SameRegs
<1>3. Pushed(n, s, a + LastReg + 2 - r) = Pushed(m, s, a + LastReg + 2 - r)
  <2>1. PICK b \in Int : b = a + LastReg + 2 - r
    BY <1>0
  <2>2. \A x \in b .. s - 1 : n[x] = m[x]
    BY <1>0, <2>1 DEF SameWords
  <2> QED
    BY <2>1, <2>2, PushedKept
<1> QED
  BY <1>1, <1>2, <1>3 DEF Frame

(* save: one more register is on the stack, and the processor is what it was. *)
LEMMA FramePush ==
  ASSUME NEW m \in Memory, NEW er \in RegFiles, NEW r \in Reg, NEW sp \in Int, NEW s \in Int,
         sp - 1 \in Address, sp + FRAME - r - 1 <= s
  PROVE  Frame([m EXCEPT ![sp - 1] = er[r]], er, r, sp - 1, s) = Frame(m, er, r + 1, sp, s)
<1>0. LastReg \in Nat /\ r \in 0 .. LastReg
  BY ContextAssumption DEF Reg
<1>1. PICK n : n = [m EXCEPT ![sp - 1] = er[r]]
  OBVIOUS
<1>2. n[sp - 1] = er[r] /\ \A x \in sp .. s - 1 : n[x] = m[x]
  BY <1>1 DEF Memory
<1>3. n[(sp - 1) + LastReg + 1 - r] = m[sp + LastReg + 1 - (r + 1)]
  BY <1>0, <1>2 DEF FRAME
<1>4. \A q \in Reg : (IF q < r THEN er[q] ELSE n[(sp - 1) + q - r])
                      = (IF q < r + 1 THEN er[q] ELSE m[sp + q - (r + 1)])
  <2> TAKE q \in Reg
  <2>1. q \in 0 .. LastReg
    BY DEF Reg
  <2>2. CASE q < r
    BY <1>0, <2>1, <2>2
  <2>3. CASE q = r
    BY <1>0, <1>2, <2>3
  <2>4. CASE q > r
    <3>1. (sp - 1) + q - r = sp + q - (r + 1) /\ sp + q - (r + 1) \in sp .. s - 1
      BY <1>0, <2>1, <2>4 DEF FRAME
    <3> QED
      BY <1>0, <1>2, <2>1, <2>4, <3>1
  <2> QED
    BY <1>0, <2>1, <2>2, <2>3, <2>4
<1>5. Pushed(n, s, (sp - 1) + LastReg + 2 - r) = Pushed(m, s, sp + LastReg + 2 - (r + 1))
  <2>1. PICK b \in Int : b = (sp - 1) + LastReg + 2 - r /\ b = sp + LastReg + 2 - (r + 1)
    BY <1>0
  <2>2. \A x \in b .. s - 1 : n[x] = m[x]
    BY <1>0, <1>2, <2>1
  <2> QED
    BY <2>1, <2>2, PushedKept
<1> QED
  BY <1>1, <1>3, <1>4, <1>5 DEF Frame

(* restore: one more register is back, whatever is left below the stack pointer. *)
LEMMA FramePop ==
  ASSUME NEW m \in Memory, NEW er \in RegFiles, NEW r \in Reg, NEW sp \in Address, NEW s \in Int,
         sp + FRAME - r <= s
  PROVE  Frame([m EXCEPT ![sp] = Unused], [er EXCEPT ![r] = m[sp]], r + 1, sp + 1, s)
           = Frame(m, er, r, sp, s)
<1>0. LastReg \in Nat /\ r \in 0 .. LastReg /\ sp \in Int
  BY ContextAssumption DEF Reg, Address
<1>1. PICK n, f : n = [m EXCEPT ![sp] = Unused] /\ f = [er EXCEPT ![r] = m[sp]]
  OBVIOUS
<1>2. /\ \A x \in sp + 1 .. s - 1 : n[x] = m[x]
      /\ f[r] = m[sp] /\ \A q \in Reg : q # r => f[q] = er[q]
  BY <1>0, <1>1 DEF Memory, RegFiles
<1>3. n[(sp + 1) + LastReg + 1 - (r + 1)] = m[sp + LastReg + 1 - r]
  BY <1>0, <1>2 DEF FRAME
<1>4. \A q \in Reg : (IF q < r + 1 THEN f[q] ELSE n[(sp + 1) + q - (r + 1)])
                      = (IF q < r THEN er[q] ELSE m[sp + q - r])
  <2> TAKE q \in Reg
  <2>1. q \in 0 .. LastReg
    BY DEF Reg
  <2>2. CASE q < r
    BY <1>0, <1>2, <2>1, <2>2
  <2>3. CASE q = r
    BY <1>0, <1>2, <2>3
  <2>4. CASE q > r
    <3>1. (sp + 1) + q - (r + 1) = sp + q - r /\ sp + q - r \in sp + 1 .. s - 1
      BY <1>0, <2>1, <2>4 DEF FRAME
    <3> QED
      BY <1>0, <1>2, <2>1, <2>4, <3>1
  <2> QED
    BY <1>0, <2>1, <2>2, <2>3, <2>4
<1>5. Pushed(n, s, (sp + 1) + LastReg + 2 - (r + 1)) = Pushed(m, s, sp + LastReg + 2 - r)
  <2>1. PICK b \in Int : b = (sp + 1) + LastReg + 2 - (r + 1) /\ b = sp + LastReg + 2 - r
    BY <1>0
  <2>2. \A x \in b .. s - 1 : n[x] = m[x]
    BY <1>0, <1>2, <2>1
  <2> QED
    BY <2>1, <2>2, PushedKept
<1> QED
  BY <1>1, <1>3, <1>4, <1>5 DEF Frame

(* An exception: the thread stops at pc with its registers, stack and mask. *)
LEMMA FrameTrap ==
  ASSUME NEW m \in Memory, NEW c \in Cpus, NEW pc \in Code, NEW s \in Int,
         c.sp - 1 \in Address, c.sp <= s
  PROVE  Frame([m EXCEPT ![c.sp - 1] = CcrPc(c.masked, pc)], c.er, LastReg + 1, c.sp - 1, s)
           = Whole(m, [c EXCEPT !.pc = pc], s)
<1>0. LastReg \in Nat
  BY ContextAssumption
<1>1. PICK n, er, sp, masked : /\ n = [m EXCEPT ![sp - 1] = CcrPc(masked, pc)]
                               /\ er = c.er /\ sp = c.sp /\ masked = c.masked
  OBVIOUS
<1>2. er \in RegFiles /\ sp \in Int /\ masked \in BOOLEAN
  BY <1>1 DEF Cpus
<1>3. n[sp - 1] = CcrPc(masked, pc) /\ \A x \in sp .. s - 1 : n[x] = m[x]
  BY <1>1, <1>2 DEF Memory
<1>4. (sp - 1) + LastReg + 1 - (LastReg + 1) = sp - 1 /\ (sp - 1) + LastReg + 2 - (LastReg + 1) = sp
  BY <1>0, <1>2
<1>5. [q \in Reg |-> IF q < LastReg + 1 THEN er[q] ELSE n[(sp - 1) + q - (LastReg + 1)]] = er
  BY <1>0, <1>2 DEF Reg, RegFiles
<1>6. Pushed(n, s, sp) = Pushed(m, s, sp)
  BY <1>2, <1>3, PushedKept
<1>7. Pc(n[sp - 1]) = pc /\ Masked(n[sp - 1]) = masked
  BY <1>2, <1>3, PswRead
<1>8. Frame(n, er, LastReg + 1, sp - 1, s)
        = [er |-> er, pc |-> pc, masked |-> masked, stack |-> Pushed(m, s, sp)]
  BY <1>4, <1>5, <1>6, <1>7 DEF Frame
<1>9. Whole(m, [c EXCEPT !.pc = pc], s)
        = [er |-> er, pc |-> pc, masked |-> masked, stack |-> Pushed(m, s, sp)]
  BY <1>1 DEF Whole, Cpus
<1> QED
  BY <1>1, <1>8, <1>9

(* rte: the last word of the frame is taken back. *)
LEMMA FrameReturn ==
  ASSUME NEW m \in Memory, NEW c \in Cpus, NEW s \in Int, c.sp \in Address, c.sp < s
  PROVE  Whole([m EXCEPT ![c.sp] = Unused],
               [c EXCEPT !.pc = Pc(m[c.sp]), !.masked = Masked(m[c.sp]), !.sp = @ + 1], s)
           = Frame(m, c.er, LastReg + 1, c.sp, s)
<1>0. LastReg \in Nat
  BY ContextAssumption
<1>1. PICK n, er, sp, word : /\ n = [m EXCEPT ![sp] = Unused] /\ word = m[sp]
                             /\ er = c.er /\ sp = c.sp
  OBVIOUS
<1>2. er \in RegFiles /\ sp \in Int
  BY <1>1 DEF Cpus
<1>3. \A x \in sp + 1 .. s - 1 : n[x] = m[x]
  BY <1>1, <1>2 DEF Memory
<1>4. sp + LastReg + 1 - (LastReg + 1) = sp /\ sp + LastReg + 2 - (LastReg + 1) = sp + 1
  BY <1>0, <1>2
<1>5. [q \in Reg |-> IF q < LastReg + 1 THEN er[q] ELSE m[sp + q - (LastReg + 1)]] = er
  BY <1>0, <1>2 DEF Reg, RegFiles
<1>6. Pushed(n, s, sp + 1) = Pushed(m, s, sp + 1)
  BY <1>2, <1>3, PushedKept
<1>7. Frame(m, er, LastReg + 1, sp, s)
        = [er |-> er, pc |-> Pc(word), masked |-> Masked(word), stack |-> Pushed(m, s, sp + 1)]
  BY <1>1, <1>4, <1>5 DEF Frame
<1>8. Whole(n, [c EXCEPT !.pc = Pc(word), !.masked = Masked(word), !.sp = @ + 1], s)
        = [er |-> er, pc |-> Pc(word), masked |-> Masked(word), stack |-> Pushed(n, s, sp + 1)]
  BY <1>1 DEF Whole, Cpus
<1> QED
  BY <1>1, <1>6, <1>7, <1>8

(* thread_run: a first frame is a fresh processor. *)
LEMMA FrameFirst ==
  ASSUME NEW m, NEW t \in Thread, NEW masked \in BOOLEAN, NEW er, NEW s \in Int,
         s - 1 - FRAME \in Address, s - 1 \in Address,
         m[s - 1] = THREAD_END, m[s - 2] = CcrPc(masked, INIT), m[s - 1 - FRAME] = t,
         \A x \in s - FRAME .. s - 3 : m[x] = 0
  PROVE  Frame(m, er, 0, s - 1 - FRAME, s) = Fresh(t, masked)
<1>0. LastReg \in Nat /\ FRAME = LastReg + 2
  BY ContextAssumption DEF FRAME
<1>1. (s - 1 - FRAME) + LastReg + 1 - 0 = s - 2 /\ (s - 1 - FRAME) + LastReg + 2 - 0 = s - 1
  BY <1>0
<1>2. \A q \in Reg : (IF q < 0 THEN er[q] ELSE m[(s - 1 - FRAME) + q - 0])
                     = (IF q = 0 THEN t ELSE 0)
  <2> TAKE q \in Reg
  <2>1. q \in 0 .. LastReg
    BY DEF Reg
  <2>2. CASE q = 0
    BY <1>0, <2>2
  <2>3. CASE q # 0
    <3>1. (s - 1 - FRAME) + q - 0 \in s - FRAME .. s - 3
      BY <1>0, <2>1, <2>3
    <3> QED
      BY <2>1, <2>3, <3>1
  <2> QED
    BY <2>2, <2>3
<1>3. Pushed(m, s, s - 1) = <<THREAD_END>>
  <2>1. s - (s - 1) = 1
    OBVIOUS
  <2>2. Pushed(m, s, s - 1) = [k \in 1 .. 1 |-> m[s - k]]
    BY <2>1 DEF Pushed
  <2>3. \A k \in 1 .. 1 : m[s - k] = THREAD_END
    OBVIOUS
  <2>4. <<THREAD_END>> = [k \in 1 .. 1 |-> THREAD_END]
    OBVIOUS
  <2> QED
    BY <2>2, <2>3, <2>4
<1>4. INIT \in Code
  BY DEF INIT, Code, TRAPA
<1>5. Pc(m[s - 2]) = INIT /\ Masked(m[s - 2]) = masked
  BY <1>4, PswRead
<1> QED
  BY <1>1, <1>2, <1>3, <1>5 DEF Frame, Fresh
-----------------------------------------------------------------------------
(* Where the processor of a thread is kept, said once for all the stages of the
   way in and out, and in a form that can be primed. *)
FrameOf(t, r, a) == Frame(ram, cpu.er, r, a, stack[t])

InPlace(t) ==
  /\ (t # current \/ at \in {"handler", "schedule", "dispatch"}) =>
       Processor(t) = FrameOf(t, 0, context[t])
  /\ t = current =>
       /\ at = "thread" => Processor(t) = Whole(ram, cpu, stack[t])
       /\ at = "save" => Processor(t) = FrameOf(t, reg + 1, cpu.sp)
       /\ at = "enter" => Processor(t) = FrameOf(t, 0, cpu.sp)
       /\ at \in {"interrupt", "thread_intr"} => Processor(t) = FrameOf(t, 0, cpu.er[1])
       /\ at = "leave" => Processor(t) = FrameOf(t, 0, ram[cpu.sp])
       /\ at = "restore" => Processor(t) = FrameOf(t, reg, cpu.sp)
       /\ at = "rte" => Processor(t) = FrameOf(t, LastReg + 1, cpu.sp)

InPlaces == \A t : InPlace(t)

LEMMA PartlyFrame == \A t, r, a : Partly(t, r, a) = FrameOf(t, r, a)
BY DEF Partly, FrameOf, Frame, Words, Pushed

LEMMA Stages == InPlaces
<1> SUFFICES ASSUME NEW t PROVE InPlace(t)
  BY DEF InPlaces
<1> HIDE DEF FrameOf
<1>1. CASE t # current \/ at \in {"handler", "schedule", "dispatch"}
  BY <1>1, PartlyFrame DEF Processor, InPlace
<1>2. CASE t = current /\ at = "thread"
  <2>1. Processor(t) = [er |-> cpu.er, pc |-> cpu.pc, masked |-> cpu.masked, stack |-> Words(t, cpu.sp)]
    BY <1>2 DEF Processor
  <2> QED
  BY <1>2, <2>1 DEF Whole, Words, Pushed, InPlace
<1>3. CASE t = current /\ at = "save"
  BY <1>3, PartlyFrame DEF Processor, InPlace
<1>4. CASE t = current /\ at = "enter"
  BY <1>4, PartlyFrame DEF Processor, InPlace
<1>5. CASE t = current /\ at \in {"interrupt", "thread_intr"}
  BY <1>5, PartlyFrame DEF Processor, InPlace
<1>6. CASE t = current /\ at = "leave"
  BY <1>6, PartlyFrame DEF Processor, InPlace
<1>7. CASE t = current /\ at = "restore"
  BY <1>7, PartlyFrame DEF Processor, InPlace
<1>8. CASE t = current /\ at = "rte"
  BY <1>8, PartlyFrame DEF Processor, InPlace
<1> QED
  BY <1>1, <1>2, <1>3, <1>4, <1>5, <1>6, <1>7, <1>8 DEF InPlace
-----------------------------------------------------------------------------
(* A request is being served. *)
InService == {"save", "enter", "interrupt", "thread_intr", "handler"}

Types ==
  /\ cpu \in Cpus /\ cpu.sp \in 0 .. INTRSTACK
  /\ ram \in Memory /\ reg \in Reg
  /\ entry \in Softvec \cup {NULL} /\ softvec \subseteq Softvec
  /\ current \in Thread \cup {NULL} /\ func \subseteq Thread
  /\ context \in [Thread -> Address]
  /\ call \in [Thread -> [type : Int, param : Int]]
  /\ at \in {"boot", "thread", "save", "enter", "interrupt", "thread_intr", "handler",
             "schedule", "dispatch", "leave", "restore", "rte", "down", "lost"}

(* Stack areas lie one after another, from address 0 on. *)
Layout ==
  /\ areas \in 0 .. STACK_NUM /\ stack \in [Thread -> Address]
  /\ \A t \in func : STACK <= stack[t] /\ stack[t] <= STACK * areas
  /\ \A t, u \in func : t # u => \/ stack[t] + STACK <= stack[u]
                                 \/ stack[u] + STACK <= stack[t]

(* A stack pointer of a thread that leaves room for a frame, and a frame. *)
OnStack(t, sp) == sp \in stack[t] - 1 - MaxDepth .. stack[t] - 1

FrameOn(t, a) == a \in stack[t] - 1 - MaxDepth - FRAME .. stack[t] - 1 - FRAME

(* Where the stack pointer, or what will be the stack pointer, is at each stage:
   always a frame or a part of one away from where the thread had it. *)
Places ==
  /\ \A t \in Saved : FrameOn(t, context[t])
  /\ at = "thread" => OnStack(current, cpu.sp)
  /\ at = "save" => OnStack(current, cpu.sp + LastReg + 1 - reg)
  /\ at = "enter" => FrameOn(current, cpu.sp)
  /\ at \in {"interrupt", "thread_intr"} => FrameOn(current, cpu.er[1])
  /\ at = "interrupt" => ram[INTRSTACK - 1] = cpu.er[1]
  /\ at = "leave" => FrameOn(current, ram[INTRSTACK - 1])
  /\ at = "restore" => OnStack(current, cpu.sp + FRAME - reg)
  /\ at = "rte" => OnStack(current, cpu.sp + 1)

(* Who is served, for what, and what is registered for it. *)
Entry ==
  /\ at = "boot" => func = {} /\ current = NULL /\ cpu.sp = INTRSTACK
  /\ at # "boot" => {SYSCALL, SOFTERR} \subseteq softvec
  /\ at \notin {"boot", "schedule", "down"} => current \in func
  /\ at \in InService => entry \in Softvec
  /\ at \in {"interrupt", "thread_intr", "handler"} => cpu.er[0] = entry
  /\ at \in {"interrupt", "thread_intr", "leave"} => cpu.sp = INTRSTACK - 1

(* A call as far as kz_syscall has stored it, and the one that is served. *)
IsMade(c, p) ==
  /\ p.pc \in Code
  /\ p.pc \in {PARAM, TRAPA} => c.type = p.er[0]
  /\ p.pc = TRAPA => c.param = p.er[1]

IsServed(c, p) == c.type = p.er[0] /\ c.param = p.er[1]

CallsInv ==
  /\ \A t \in func : IsMade(call[t], Processor(t))
  /\ at \in InService /\ entry = SYSCALL => IsServed(call[current], Processor(current))

(* The inductive invariant.  FramesInPlace and CallIsCallers alone are not: they
   say nothing of the registers and the stack pointer between two instructions
   of the entry code. *)
ContextInv == Types /\ Layout /\ Places /\ Entry /\ CallsInv
-----------------------------------------------------------------------------
(* The sizes of things; areas end at multiples of their size. *)
LEMMA Numbers ==
  /\ LastReg \in Nat /\ LastReg >= 1 /\ FRAME = LastReg + 2 /\ MaxDepth \in Nat
  /\ STACK \in Nat /\ MaxDepth + 1 + FRAME <= STACK
  /\ INTRSTACK \in Nat /\ INTRSTACK - 1 = STACK * STACK_NUM /\ STACK * STACK_NUM \in Nat
  /\ Address = 0 .. INTRSTACK - 1 /\ Reg = 0 .. LastReg
  /\ STACK <= INTRSTACK - 1
<1>1. /\ LastReg \in Nat /\ LastReg >= 1 /\ FRAME = LastReg + 2 /\ MaxDepth \in Nat
      /\ STACK \in Nat /\ MaxDepth + 1 + FRAME <= STACK /\ STACK_NUM \in Nat /\ STACK_NUM >= 1
  BY ContextAssumption DEF FRAME
<1>2. STACK * STACK_NUM \in Nat /\ STACK * STACK_NUM >= STACK
  BY <1>1
<1> QED
  BY <1>1, <1>2 DEF INTRSTACK, Address, Reg

LEMMA Tops ==
  ASSUME NEW n \in 0 .. STACK_NUM
  PROVE  /\ STACK * n \in Nat /\ STACK * n <= INTRSTACK - 1
         /\ n < STACK_NUM => /\ STACK * (n + 1) = STACK * n + STACK
                             /\ STACK * (n + 1) <= INTRSTACK - 1
<1>1. STACK \in Nat /\ STACK_NUM \in Nat /\ n \in Nat /\ n <= STACK_NUM
  BY ContextAssumption
<1>2. ASSUME NEW k \in Nat, k <= STACK_NUM
      PROVE  STACK * k \in Nat /\ STACK * k <= STACK * STACK_NUM
  BY <1>1, <1>2
<1>3. STACK * (n + 1) = STACK * n + STACK
  BY <1>1
<1> QED
  BY <1>1, <1>2, <1>3, Numbers

(* No two areas meet, and none meets the interrupt stack. *)
LEMMA AreasApart ==
  ASSUME Types, Layout, NEW t \in func
  PROVE  /\ t \in Thread /\ stack[t] \in Int /\ STACK <= stack[t] /\ stack[t] <= INTRSTACK - 1
         /\ Area(stack[t]) = stack[t] - STACK .. stack[t] - 1
         /\ Area(stack[t]) \subseteq Address
         /\ INTRSTACK - 1 \in Address \ Area(stack[t])
         /\ \A u \in func : u # t => Area(stack[u]) \cap Area(stack[t]) = {}
<1>1. /\ t \in Thread /\ stack[t] \in Int /\ STACK <= stack[t] /\ stack[t] <= INTRSTACK - 1
  BY Tops, Numbers DEF Types, Layout
<1>2. Area(stack[t]) = stack[t] - STACK .. stack[t] - 1
  BY DEF Area
<1>3. ASSUME NEW u \in func, u # t PROVE Area(stack[u]) \cap Area(stack[t]) = {}
  <2>1. stack[u] \in Int /\ STACK \in Nat
    BY Numbers DEF Types, Layout, Address
  <2>2. stack[t] + STACK <= stack[u] \/ stack[u] + STACK <= stack[t]
    BY <1>3 DEF Layout
  <2> QED
    BY <1>1, <2>1, <2>2 DEF Area
<1> QED
  BY <1>1, <1>2, <1>3, Numbers

(* What is written to, if it is not on the stack of the current thread. *)
StaysOut == \A x \in Address : x \notin Area(stack[current]) /\ x # INTRSTACK - 1 => ram'[x] = ram[x]

(* A frame on a stack lies in the area of its thread. *)
LEMMA FrameInArea ==
  ASSUME Types, Layout, NEW t \in func, NEW a, FrameOn(t, a)
  PROVE  /\ a \in Int /\ a + FRAME <= stack[t] /\ a \in Address
         /\ \A x \in a .. stack[t] - 1 : x \in Area(stack[t])
BY AreasApart, Numbers, SMTT(30) DEF FrameOn

(* Whoever stays on his own stack leaves the others alone. *)
LEMMA OthersKept ==
  ASSUME Types, Layout, Places, current \in func, current' = current,
         UNCHANGED <<func, stack>>, StaysOut,
         \A t \in func \ {current} : context'[t] = context[t]
  PROVE  \A t \in func \ {current} : Processor(t)' = Processor(t)
<1> SUFFICES ASSUME NEW t \in func, t # current
             PROVE  Processor(t)' = Processor(t)
  OBVIOUS
<1>1. Processor(t) = FrameOf(t, 0, context[t]) /\ Processor(t)' = FrameOf(t, 0, context[t])'
  <2>1. InPlaces /\ InPlaces'
    BY Stages, PTL
  <2> QED
    BY <2>1 DEF InPlaces, InPlace
<1>2. PICK a, s, m, n, er, f : /\ a = context[t] /\ s = stack[t] /\ m = ram /\ n = ram'
                               /\ er = cpu.er /\ f = cpu'.er
  OBVIOUS
<1>3. context'[t] = a /\ stack'[t] = s
  BY <1>2
<1>4. FrameOn(t, a)
  BY <1>2 DEF Places, Saved
<1>5. a \in Int /\ s \in Int /\ a + FRAME - 0 <= s
  BY <1>2, <1>4, FrameInArea, AreasApart, Numbers
<1>6. SameWords(m, n, a, s)
  <2>1. ASSUME NEW x \in a .. s - 1 PROVE n[x] = m[x]
    <3>1. x \in Area(stack[t])
      BY <1>2, <1>4, <2>1, FrameInArea
    <3>2. x \in Address /\ x # INTRSTACK - 1 /\ x \notin Area(stack[current])
      BY <3>1, AreasApart
    <3> QED
      BY <1>2, <3>2 DEF StaysOut
  <2> QED
    BY <2>1 DEF SameWords
<1>7. SameRegs(er, f, 0)
  BY DEF Reg, SameRegs
<1>8. Frame(n, f, 0, a, s) = Frame(m, er, 0, a, s)
  <2>1. 0 \in 0 .. LastReg + 1
    BY Numbers
  <2> QED
    BY <1>5, <1>6, <1>7, <2>1, FrameKept
<1> QED
  BY <1>1, <1>2, <1>3, <1>8 DEF FrameOf
-----------------------------------------------------------------------------
(* The entry and exit code step by step: the registers go to the stack and come
   back, and every thread's processor, the current one's too, stays the same. *)
Kept == func' = func /\ \A t \in func : Processor(t)' = Processor(t)

LEMMA Sizes ==
  /\ LastReg \in Nat /\ FRAME = LastReg + 2 /\ MaxDepth \in Nat
  /\ STACK \in Nat /\ MaxDepth + 1 + FRAME <= STACK
BY Numbers

LEMMA CurrentArea ==
  ASSUME ContextInv, current \in func
  PROVE  /\ current \in Thread /\ current # NULL
         /\ stack[current] \in Int /\ STACK <= stack[current] /\ stack[current] <= INTRSTACK - 1
         /\ Area(stack[current]) = stack[current] - STACK .. stack[current] - 1
BY AreasApart, ContextAssumption DEF ContextInv

LEMMA LayoutKept ==
  ASSUME Layout, UNCHANGED <<func, stack, areas>>
  PROVE  Layout'
BY DEF Layout

LEMMA SaveStep ==
  ASSUME ContextInv, save
  PROVE  Kept /\ Types' /\ Layout' /\ Places' /\ Entry'
<1>1. PICK t, s, m, n, er, r, sp :
        /\ t = current /\ s = stack[current] /\ m = ram /\ n = ram'
        /\ er = cpu.er /\ r = reg /\ sp = cpu.sp
  OBVIOUS
<1>2. /\ at = "save" /\ n = [m EXCEPT ![sp - 1] = er[r]]
      /\ cpu' = [cpu EXCEPT !.sp = @ - 1]
      /\ UNCHANGED <<entry, current, func, context, call, stack, areas, softvec>>
      /\ \/ r = 0 /\ at' = "enter" /\ reg' = r
         \/ r # 0 /\ at' = "save" /\ reg' = r - 1
  BY <1>1 DEF save, tcbs
<1>3. /\ cpu \in Cpus /\ m \in Memory /\ er \in RegFiles /\ sp \in Int /\ r \in Reg
      /\ t \in func /\ s \in Int /\ STACK <= s /\ s <= INTRSTACK - 1
      /\ OnStack(t, sp + LastReg + 1 - r)
  BY <1>1, <1>2, CurrentArea DEF ContextInv, Types, Places, Entry, Cpus
<1>4. /\ r \in 0 .. LastReg /\ sp + LastReg + 1 - r >= s - 1 - MaxDepth
      /\ sp + LastReg + 1 - r <= s - 1
  BY <1>1, <1>3, Numbers DEF OnStack
<1>5. sp - 1 \in Address /\ sp - 1 \in Area(s) /\ sp + FRAME - r - 1 <= s
  BY <1>3, <1>4, Numbers DEF Area
<1>6. cpu' \in Cpus /\ cpu'.er = er /\ cpu'.sp = sp - 1 /\ cpu'.pc = cpu.pc
  BY <1>1, <1>2, <1>3 DEF Cpus
<1>7. er[r] \in Int /\ n \in Memory
  BY <1>2, <1>3, <1>5 DEF Memory, RegFiles
<1>8. StaysOut
  BY <1>1, <1>2, <1>3, <1>5 DEF StaysOut, Memory
<1>9. \A u \in func \ {current} : Processor(u)' = Processor(u)
  BY <1>1, <1>2, <1>3, <1>8, OthersKept DEF ContextInv
<1>10. Processor(t) = Frame(m, er, r + 1, sp, s)
  <2>1. InPlaces
    BY Stages
  <2> QED
    BY <1>1, <1>2, <2>1 DEF InPlaces, InPlace, FrameOf
<1>11. Processor(t)' = Frame(n, er, r, sp - 1, s)
  <2>1. InPlaces'
    BY Stages, PTL
  <2>2. t = current' /\ stack'[t] = s
    BY <1>1, <1>2
  <2>3. CASE r = 0 /\ at' = "enter"
    BY <1>1, <1>6, <2>1, <2>2, <2>3 DEF InPlaces, InPlace, FrameOf
  <2>4. CASE at' = "save" /\ reg' = r - 1
    <3>1. reg' + 1 = r
      BY <1>4, <2>4
    <3> QED
      BY <1>1, <1>6, <2>1, <2>2, <2>4, <3>1 DEF InPlaces, InPlace, FrameOf
  <2> QED
    BY <1>2, <2>3, <2>4
<1>12. Frame(n, er, r, sp - 1, s) = Frame(m, er, r + 1, sp, s)
  BY <1>2, <1>3, <1>5, FramePush
<1>13. Kept
  BY <1>1, <1>2, <1>9, <1>10, <1>11, <1>12 DEF Kept
<1>14. Types'
  <2>1. cpu'.sp \in 0 .. INTRSTACK
    BY <1>3, <1>5, <1>6, Numbers
  <2>2. reg' \in Reg
    BY <1>2, <1>4, Numbers, SMTT(30)
  <2> QED
    BY <1>1, <1>2, <1>6, <1>7, <2>1, <2>2 DEF ContextInv, Types
<1>15. Places'
  <2>1. \A u \in Saved' : FrameOn(u, context[u])'
    BY <1>2 DEF ContextInv, Places, Saved, FrameOn
  <2>2. CASE r = 0 /\ at' = "enter"
    <3>1. FrameOn(t, sp - 1)
      <4>1. sp - 1 \in s - 1 - MaxDepth - FRAME .. s - 1 - FRAME
        BY <1>3, <1>4, <2>2, Sizes
      <4> QED
        BY <1>1, <4>1 DEF FrameOn
    <3> QED
      BY <1>1, <1>2, <1>6, <2>1, <2>2, <3>1 DEF Places, FrameOn
  <2>3. CASE at' = "save" /\ reg' = r - 1
    <3>1. (sp - 1) + LastReg + 1 - (r - 1) = sp + LastReg + 1 - r
      BY <1>3, <1>4, Numbers
    <3> QED
      BY <1>1, <1>2, <1>3, <1>6, <2>1, <2>3, <3>1 DEF Places, OnStack
  <2> QED
    BY <1>2, <2>2, <2>3
<1>16. Entry'
  BY <1>2 DEF ContextInv, Entry, InService
<1>17. Layout'
  BY <1>2, LayoutKept DEF ContextInv
<1> QED
  BY <1>13, <1>14, <1>15, <1>16, <1>17
-----------------------------------------------------------------------------
(* A whole frame has no parts in registers, and lies in the area of its thread. *)
LEMMA FrameSafe ==
  ASSUME Types, Layout, NEW t \in func, NEW a, FrameOn(t, a), NEW n, NEW er, NEW f,
         \A x \in Area(stack[t]) : n[x] = ram[x]
  PROVE  Frame(n, f, 0, a, stack[t]) = Frame(ram, er, 0, a, stack[t])
<1>1. PICK s, m : s = stack[t] /\ m = ram
  OBVIOUS
<1>2. a \in Int /\ s \in Int /\ a + FRAME - 0 <= s
  BY <1>1, FrameInArea, AreasApart, Sizes
<1>3. SameWords(m, n, a, s)
  BY <1>1, FrameInArea DEF SameWords
<1>4. SameRegs(er, f, 0)
  BY DEF Reg, SameRegs
<1>5. 0 \in 0 .. LastReg + 1
  BY Sizes
<1>6. Frame(n, f, 0, a, s) = Frame(m, er, 0, a, s)
  BY <1>2, <1>3, <1>4, <1>5, FrameKept
<1> QED
  BY <1>1, <1>6

LEMMA EnterStep ==
  ASSUME ContextInv, enter
  PROVE  Kept /\ Types' /\ Layout' /\ Places' /\ Entry'
<1>1. PICK t, n, f, sp : t = current /\ n = ram' /\ f = cpu'.er /\ sp = cpu.sp
  OBVIOUS
<1>2. /\ at = "enter" /\ at' = "interrupt"
      /\ n = [ram EXCEPT ![INTRSTACK - 1] = sp]
      /\ cpu' = [cpu EXCEPT !.sp = INTRSTACK - 1, !.er[0] = entry, !.er[1] = cpu.sp]
      /\ UNCHANGED <<entry, reg, current, func, context, call, stack, areas, softvec>>
  BY <1>1 DEF enter, tcbs
<1>3. /\ cpu \in Cpus /\ cpu.er \in RegFiles /\ ram \in Memory /\ sp \in Int /\ t \in func
      /\ FrameOn(t, sp) /\ entry \in Int /\ INTRSTACK - 1 \in Int /\ 0 \in Reg /\ 1 \in Reg
  BY <1>1, <1>2, Numbers
  DEF ContextInv, Types, Places, Entry, Cpus, InService, Softvec, SOFTERR, SERINTR
<1>4. n \in Memory /\ n[INTRSTACK - 1] = sp
      /\ \A x \in Area(stack[t]) : x \in Address /\ x # INTRSTACK - 1 /\ n[x] = ram[x]
  BY <1>2, <1>3, AreasApart DEF Memory, ContextInv
<1>5. cpu' \in Cpus /\ cpu'.sp = INTRSTACK - 1 /\ f[0] = entry /\ f[1] = sp
  <2>1. PICK g : g = [cpu.er EXCEPT ![0] = entry, ![1] = sp]
    OBVIOUS
  <2>2. g \in RegFiles /\ g[0] = entry /\ g[1] = sp
    BY <1>3, <2>1 DEF RegFiles
  <2>3. cpu' = [er |-> g, sp |-> INTRSTACK - 1, pc |-> cpu.pc, masked |-> cpu.masked]
    BY <1>1, <1>2, <1>3, <2>1 DEF Cpus
  <2> QED
    BY <1>1, <1>3, <2>2, <2>3 DEF Cpus
<1>6. StaysOut
  BY <1>1, <1>2, <1>3 DEF StaysOut, Memory
<1>7. \A u \in func \ {current} : Processor(u)' = Processor(u)
  BY <1>1, <1>2, <1>3, <1>6, OthersKept DEF ContextInv
<1>8. Processor(t) = Frame(ram, cpu.er, 0, sp, stack[t])
  <2>1. InPlaces
    BY Stages
  <2> QED
    BY <1>1, <1>2, <2>1 DEF InPlaces, InPlace, FrameOf
<1>9. Processor(t)' = Frame(n, f, 0, sp, stack[t])
  <2>1. InPlaces'
    BY Stages, PTL
  <2>2. t = current' /\ stack' = stack /\ at' = "interrupt" /\ cpu'.er[1] = sp
    BY <1>1, <1>2, <1>5
  <2> QED
    BY <1>1, <2>1, <2>2 DEF InPlaces, InPlace, FrameOf
<1>10. Kept
  <2>1. Frame(n, f, 0, sp, stack[t]) = Frame(ram, cpu.er, 0, sp, stack[t])
    BY <1>3, <1>4, FrameSafe DEF ContextInv
  <2> QED
    BY <1>1, <1>2, <1>7, <1>8, <1>9, <2>1 DEF Kept
<1>11. Types'
  <2>1. INTRSTACK - 1 \in 0 .. INTRSTACK
    BY Numbers
  <2> QED
    BY <1>1, <1>2, <1>4, <1>5, <2>1 DEF ContextInv, Types
<1>12. Places'
  <2>1. \A u \in Saved' : FrameOn(u, context[u])'
    BY <1>2 DEF ContextInv, Places, Saved, FrameOn
  <2> QED
    BY <1>1, <1>2, <1>3, <1>4, <1>5, <2>1 DEF Places, FrameOn
<1>13. Entry'
  BY <1>1, <1>2, <1>5 DEF ContextInv, Entry, InService
<1>14. Layout'
  BY <1>2, LayoutKept DEF ContextInv
<1> QED
  BY <1>10, <1>11, <1>12, <1>13, <1>14

LEMMA InterruptStep ==
  ASSUME ContextInv, interrupt
  PROVE  Kept /\ Types' /\ Layout' /\ Places' /\ Entry'
<1>1. PICK t, f, sp : t = current /\ f = cpu'.er /\ sp = cpu.er[1]
  OBVIOUS
<1>2. /\ at = "interrupt" /\ ram' = ram
      /\ \/ at' = "thread_intr" /\ cpu' = cpu
         \/ at' = "leave" /\ cpu' = [cpu EXCEPT !.er = Scratch]
      /\ UNCHANGED <<entry, reg, current, func, context, call, stack, areas, softvec>>
  BY <1>1 DEF interrupt, AfterC, tcbs
<1>3. /\ cpu \in Cpus /\ t \in func /\ FrameOn(t, sp)
      /\ cpu.sp = INTRSTACK - 1 /\ ram[INTRSTACK - 1] = sp
  BY <1>1, <1>2 DEF ContextInv, Types, Places, Entry
<1>4. cpu' \in Cpus /\ cpu'.sp = INTRSTACK - 1
  <2>1. Scratch \in RegFiles
    BY DEF Scratch, RegFiles, Unused
  <2> QED
    BY <1>2, <1>3, <2>1 DEF Cpus
<1>5. StaysOut
  BY <1>2 DEF StaysOut
<1>6. \A u \in func \ {current} : Processor(u)' = Processor(u)
  BY <1>1, <1>2, <1>3, <1>5, OthersKept DEF ContextInv
<1>7. Processor(t) = Frame(ram, cpu.er, 0, sp, stack[t])
  <2>1. InPlaces
    BY Stages
  <2> QED
    BY <1>1, <1>2, <2>1 DEF InPlaces, InPlace, FrameOf
<1>8. Processor(t)' = Frame(ram, f, 0, sp, stack[t])
  <2>1. InPlaces'
    BY Stages, PTL
  <2>2. t = current' /\ stack' = stack /\ ram'[cpu'.sp] = sp
    BY <1>1, <1>2, <1>3, <1>4
  <2>3. at' = "thread_intr" => cpu'.er[1] = sp
    BY <1>1, <1>2
  <2> QED
    BY <1>1, <1>2, <2>1, <2>2, <2>3 DEF InPlaces, InPlace, FrameOf
<1>9. Kept
  BY <1>1, <1>2, <1>3, <1>6, <1>7, <1>8, FrameSafe DEF Kept, ContextInv
<1>10. Types'
  <2>1. INTRSTACK - 1 \in 0 .. INTRSTACK
    BY Numbers
  <2> QED
    BY <1>1, <1>2, <1>4, <2>1 DEF ContextInv, Types
<1>11. Places'
  <2>1. \A u \in Saved' : FrameOn(u, context[u])'
    BY <1>2 DEF ContextInv, Places, Saved, FrameOn
  <2> QED
    BY <1>1, <1>2, <1>3, <1>4, <2>1 DEF Places, FrameOn
<1>12. Entry'
  BY <1>1, <1>2, <1>4 DEF ContextInv, Entry, InService
<1>13. Layout'
  BY <1>2, LayoutKept DEF ContextInv
<1> QED
  BY <1>9, <1>10, <1>11, <1>12, <1>13

LEMMA LeaveStep ==
  ASSUME ContextInv, leave
  PROVE  Kept /\ Types' /\ Layout' /\ Places' /\ Entry'
<1>1. PICK t, n, f, sp : t = current /\ n = ram' /\ f = cpu'.er /\ sp = ram[INTRSTACK - 1]
  OBVIOUS
<1>2. /\ at = "leave" /\ at' = "restore" /\ reg' = 0 /\ entry' = NULL /\ cpu.sp = INTRSTACK - 1
      /\ UNCHANGED <<current, func, context, call, stack, areas, softvec>>
  BY DEF leave, tcbs, ContextInv, Entry
<1>3. /\ n = [ram EXCEPT ![INTRSTACK - 1] = Unused]
      /\ cpu' = [cpu EXCEPT !.sp = sp, !.er[1] = sp]
  BY <1>1, <1>2 DEF leave, Popped
<1>4. /\ cpu \in Cpus /\ cpu.er \in RegFiles /\ ram \in Memory /\ t \in func
      /\ FrameOn(t, sp) /\ 1 \in Reg /\ 0 \in Reg
  BY <1>1, <1>2, Numbers DEF ContextInv, Types, Places, Entry, Cpus
<1>5. sp \in Int /\ sp \in Address
  BY <1>4, FrameInArea DEF ContextInv
<1>6. n \in Memory /\ \A x \in Area(stack[t]) : n[x] = ram[x]
  BY <1>3, <1>4, AreasApart DEF Memory, ContextInv, Unused
<1>7. cpu' \in Cpus /\ cpu'.sp = sp
  BY <1>3, <1>4, <1>5 DEF Cpus, RegFiles
<1>8. StaysOut
  BY <1>1, <1>3, <1>4 DEF StaysOut, Memory
<1>9. \A u \in func \ {current} : Processor(u)' = Processor(u)
  BY <1>1, <1>2, <1>4, <1>8, OthersKept DEF ContextInv
<1>10. Processor(t) = Frame(ram, cpu.er, 0, sp, stack[t])
  <2>1. InPlaces
    BY Stages
  <2> QED
    BY <1>1, <1>2, <2>1 DEF InPlaces, InPlace, FrameOf
<1>11. Processor(t)' = Frame(n, f, 0, sp, stack[t])
  <2>1. InPlaces'
    BY Stages, PTL
  <2>2. t = current' /\ stack' = stack
    BY <1>1, <1>2
  <2> QED
    BY <1>1, <1>2, <1>7, <2>1, <2>2 DEF InPlaces, InPlace, FrameOf
<1>12. Kept
  BY <1>1, <1>2, <1>4, <1>6, <1>9, <1>10, <1>11, FrameSafe DEF Kept, ContextInv
<1>13. Types'
  <2>1. sp \in 0 .. INTRSTACK
    BY <1>5, Numbers
  <2> QED
    BY <1>1, <1>2, <1>4, <1>6, <1>7, <2>1 DEF ContextInv, Types
<1>14. Places'
  <2>1. \A u \in Saved' : FrameOn(u, context[u])'
    BY <1>2 DEF ContextInv, Places, Saved, FrameOn
  <2>2. OnStack(t, sp + FRAME - 0)
    <3>1. stack[t] \in Int
      BY <1>4, AreasApart DEF ContextInv
    <3> QED
      BY <1>4, <1>5, <3>1, Sizes DEF FrameOn, OnStack
  <2> QED
    BY <1>1, <1>2, <1>7, <2>1, <2>2 DEF Places, OnStack
<1>15. Entry'
  BY <1>1, <1>2 DEF ContextInv, Entry, InService
<1>16. Layout'
  BY <1>2, LayoutKept DEF ContextInv
<1> QED
  BY <1>12, <1>13, <1>14, <1>15, <1>16
-----------------------------------------------------------------------------
LEMMA RestoreStep ==
  ASSUME ContextInv, restore
  PROVE  Kept /\ Types' /\ Layout' /\ Places' /\ Entry'
<1>1. PICK t, s, m, n, er, f, r, sp :
        /\ t = current /\ s = stack[current] /\ m = ram /\ n = ram'
        /\ er = cpu.er /\ f = [er EXCEPT ![r] = m[sp]] /\ r = reg /\ sp = cpu.sp
  OBVIOUS
<1>2. /\ at = "restore" /\ n = [m EXCEPT ![sp] = Unused]
      /\ cpu' = [cpu EXCEPT !.er[r] = m[sp], !.sp = @ + 1]
      /\ UNCHANGED <<entry, current, func, context, call, stack, areas, softvec>>
      /\ \/ r = LastReg /\ at' = "rte" /\ reg' = r
         \/ r # LastReg /\ at' = "restore" /\ reg' = r + 1
  BY <1>1 DEF restore, Popped, tcbs
<1>3. /\ cpu \in Cpus /\ m \in Memory /\ er \in RegFiles /\ sp \in Int /\ r \in Reg
      /\ t \in func /\ s \in Int /\ STACK <= s /\ s <= INTRSTACK - 1
      /\ OnStack(t, sp + FRAME - r)
  BY <1>1, <1>2, CurrentArea DEF ContextInv, Types, Places, Entry, Cpus
<1>4. /\ r \in 0 .. LastReg /\ sp + FRAME - r >= s - 1 - MaxDepth
      /\ sp + FRAME - r <= s - 1
  BY <1>1, <1>3, Numbers DEF OnStack
<1>5. sp \in Address /\ sp \in Area(s) /\ sp + FRAME - r <= s
  BY <1>3, <1>4, Numbers DEF Area
<1>6. f \in RegFiles /\ n \in Memory
  BY <1>1, <1>2, <1>3, <1>5 DEF Memory, RegFiles, Unused
<1>7. cpu' \in Cpus /\ cpu'.er = f /\ cpu'.sp = sp + 1
  <2>1. cpu' = [er |-> f, sp |-> sp + 1, pc |-> cpu.pc, masked |-> cpu.masked]
    BY <1>1, <1>2, <1>3 DEF Cpus
  <2> QED
    BY <1>3, <1>6, <2>1 DEF Cpus
<1>8. StaysOut
  BY <1>1, <1>2, <1>3, <1>5 DEF StaysOut, Memory
<1>9. \A u \in func \ {current} : Processor(u)' = Processor(u)
  BY <1>1, <1>2, <1>3, <1>8, OthersKept DEF ContextInv
<1>10. Processor(t) = Frame(m, er, r, sp, s)
  <2>1. InPlaces
    BY Stages
  <2> QED
    BY <1>1, <1>2, <2>1 DEF InPlaces, InPlace, FrameOf
<1>11. Processor(t)' = Frame(n, f, r + 1, sp + 1, s)
  <2>1. InPlaces'
    BY Stages, PTL
  <2>2. t = current' /\ stack'[t] = s
    BY <1>1, <1>2
  <2>3. CASE r = LastReg /\ at' = "rte"
    BY <1>1, <1>7, <2>1, <2>2, <2>3 DEF InPlaces, InPlace, FrameOf
  <2>4. CASE at' = "restore" /\ reg' = r + 1
    BY <1>1, <1>7, <2>1, <2>2, <2>4 DEF InPlaces, InPlace, FrameOf
  <2> QED
    BY <1>2, <2>3, <2>4
<1>12. Frame(n, f, r + 1, sp + 1, s) = Frame(m, er, r, sp, s)
  <2>1. Frame([m EXCEPT ![sp] = Unused], [er EXCEPT ![r] = m[sp]], r + 1, sp + 1, s)
          = Frame(m, er, r, sp, s)
    BY <1>3, <1>5, FramePop
  <2> QED
    BY <1>1, <1>2, <2>1
<1>13. Kept
  BY <1>1, <1>2, <1>9, <1>10, <1>11, <1>12 DEF Kept
<1>14. Types'
  <2>1. cpu'.sp \in 0 .. INTRSTACK
    BY <1>3, <1>5, <1>7, Numbers
  <2>2. reg' \in Reg
    BY <1>2, <1>4, Numbers, SMTT(30)
  <2> QED
    BY <1>1, <1>2, <1>6, <1>7, <2>1, <2>2 DEF ContextInv, Types
<1>15. Places'
  <2>1. \A u \in Saved' : FrameOn(u, context[u])'
    BY <1>2 DEF ContextInv, Places, Saved, FrameOn
  <2>2. CASE r = LastReg /\ at' = "rte"
    <3>1. (sp + 1) + 1 = sp + FRAME - r
      BY <1>3, <2>2, Sizes
    <3> QED
      BY <1>1, <1>2, <1>3, <1>7, <2>1, <2>2, <3>1 DEF Places, OnStack
  <2>3. CASE at' = "restore" /\ reg' = r + 1
    <3>1. (sp + 1) + FRAME - (r + 1) = sp + FRAME - r
      BY <1>3, <1>4, Sizes
    <3> QED
      BY <1>1, <1>2, <1>3, <1>7, <2>1, <2>3, <3>1 DEF Places, OnStack
  <2> QED
    BY <1>2, <2>2, <2>3
<1>16. Entry'
  BY <1>2 DEF ContextInv, Entry, InService
<1>17. Layout'
  BY <1>2, LayoutKept DEF ContextInv
<1> QED
  BY <1>13, <1>14, <1>15, <1>16, <1>17

(* The last step of the way out: the processor is the thread's again. *)
LEMMA RteStep ==
  ASSUME ContextInv, rte
  PROVE  Kept /\ Types' /\ Layout' /\ Places' /\ Entry'
<1>1. PICK t, s, m, n, c, d, sp :
        /\ t = current /\ s = stack[current] /\ m = ram /\ n = ram'
        /\ c = cpu /\ d = cpu' /\ sp = cpu.sp
  OBVIOUS
<1>2. /\ at = "rte" /\ at' = "thread" /\ n = [m EXCEPT ![c.sp] = Unused]
      /\ d = [c EXCEPT !.pc = Pc(m[c.sp]), !.masked = Masked(m[c.sp]), !.sp = @ + 1]
      /\ UNCHANGED <<entry, reg, current, func, context, call, stack, areas, softvec>>
  BY <1>1 DEF rte, Popped, tcbs
<1>3. /\ c \in Cpus /\ m \in Memory /\ sp \in Int /\ c.sp = sp
      /\ t \in func /\ s \in Int /\ STACK <= s /\ s <= INTRSTACK - 1
      /\ OnStack(t, sp + 1)
  BY <1>1, <1>2, CurrentArea DEF ContextInv, Types, Places, Entry, Cpus
<1>4. sp \in Address /\ sp \in Area(s) /\ sp < s
  BY <1>1, <1>3, Numbers, SMTT(30) DEF Area, OnStack
<1>5. n \in Memory
  BY <1>2, <1>3, <1>4 DEF Memory, Unused
<1>6. StaysOut
  BY <1>1, <1>2, <1>3, <1>4 DEF StaysOut, Memory
<1>7. \A u \in func \ {current} : Processor(u)' = Processor(u)
  BY <1>1, <1>2, <1>3, <1>6, OthersKept DEF ContextInv
<1>8. Processor(t) = Frame(m, c.er, LastReg + 1, c.sp, s)
  <2>1. InPlaces
    BY Stages
  <2> QED
    BY <1>1, <1>2, <2>1 DEF InPlaces, InPlace, FrameOf
<1>9. Processor(t)' = Whole(n, d, s)
  <2>1. InPlaces'
    BY Stages, PTL
  <2>2. t = current' /\ stack'[t] = s
    BY <1>1, <1>2
  <2> QED
    BY <1>1, <1>2, <2>1, <2>2 DEF InPlaces, InPlace
<1>10. Whole(n, d, s) = Frame(m, c.er, LastReg + 1, c.sp, s)
  BY <1>2, <1>3, <1>4, FrameReturn, ZenonT(60)
<1>11. Kept
  BY <1>1, <1>2, <1>7, <1>8, <1>9, <1>10 DEF Kept
<1>12. /\ d = [er |-> c.er, sp |-> sp + 1, pc |-> Pc(m[c.sp]), masked |-> Masked(m[c.sp])]
  BY <1>2, <1>3 DEF Cpus
<1>13. Pc(m[c.sp]) \in Code
  <2>1. Processor(t).pc \in Code
    BY <1>1, <1>3 DEF ContextInv, CallsInv, IsMade
  <2>2. sp + LastReg + 1 - (LastReg + 1) = sp
    BY <1>3, Sizes
  <2> QED
    BY <1>3, <1>8, <2>1, <2>2 DEF Frame
<1>14. d \in Cpus
  <2>1. Masked(m[c.sp]) \in BOOLEAN
    BY DEF Masked
  <2> QED
    BY <1>3, <1>12, <1>13, <2>1 DEF Cpus
<1>15. Types'
  <2>1. d.sp \in 0 .. INTRSTACK
    BY <1>3, <1>4, <1>12, Numbers
  <2> QED
    BY <1>1, <1>2, <1>5, <1>14, <2>1 DEF ContextInv, Types
<1>16. Places'
  <2>1. \A u \in Saved' : FrameOn(u, context[u])'
    BY <1>2 DEF ContextInv, Places, Saved, FrameOn
  <2> QED
    BY <1>1, <1>2, <1>3, <1>12, <2>1 DEF Places, OnStack
<1>17. Entry'
  BY <1>2 DEF ContextInv, Entry, InService
<1>18. Layout'
  BY <1>2, LayoutKept DEF ContextInv
<1> QED
  BY <1>11, <1>15, <1>16, <1>17, <1>18

LEMMA ThreadIntrStep ==
  ASSUME ContextInv, thread_intr
  PROVE  Kept /\ Types' /\ Layout' /\ Places' /\ Entry'
<1>1. PICK t, sp : t = current /\ sp = cpu.er[1]
  OBVIOUS
<1>2. /\ at = "thread_intr" /\ at' = "handler"
      /\ context' = [context EXCEPT ![t] = sp]
      /\ UNCHANGED <<cpu, entry, reg, ram, current, func, call, stack, areas, softvec>>
  BY <1>1 DEF thread_intr
<1>3. t \in func /\ t \in Thread /\ FrameOn(t, sp) /\ context \in [Thread -> Address]
  BY <1>1, <1>2, CurrentArea DEF ContextInv, Types, Places, Entry
<1>4. sp \in Address
  BY <1>3, FrameInArea DEF ContextInv
<1>5. /\ context' \in [Thread -> Address] /\ context'[t] = sp
      /\ \A u \in func \ {current} : context'[u] = context[u]
  BY <1>1, <1>2, <1>3, <1>4 DEF ContextInv, Types
<1>6. StaysOut
  BY <1>2 DEF StaysOut
<1>7. \A u \in func \ {current} : Processor(u)' = Processor(u)
  BY <1>1, <1>2, <1>3, <1>5, <1>6, OthersKept DEF ContextInv
<1>8. Processor(t)' = Processor(t)
  <2>1. InPlaces /\ InPlaces'
    BY Stages, PTL
  <2> QED
    BY <1>1, <1>2, <1>5, <2>1 DEF InPlaces, InPlace, FrameOf
<1>9. Kept
  BY <1>1, <1>2, <1>7, <1>8 DEF Kept
<1>10. Types'
  BY <1>2, <1>5 DEF ContextInv, Types
<1>11. Places'
  <2>1. \A u \in Saved' : FrameOn(u, context[u])'
    <3>1. ASSUME NEW u \in func PROVE FrameOn(u, context'[u])
      BY <1>1, <1>2, <1>3, <1>5, <3>1 DEF ContextInv, Places, Saved
    <3> QED
      BY <1>2, <3>1 DEF Saved, FrameOn
  <2> QED
    BY <1>2, <2>1 DEF Places
<1>12. Entry'
  BY <1>2 DEF ContextInv, Entry, InService
<1>13. Layout'
  BY <1>2, LayoutKept DEF ContextInv
<1> QED
  BY <1>9, <1>10, <1>11, <1>12, <1>13

LEMMA ScheduleStep ==
  ASSUME ContextInv, schedule
  PROVE  Kept /\ Types' /\ Layout' /\ Places' /\ Entry'
<1>1. /\ at = "schedule"
      /\ \/ current' \in func /\ at' = "dispatch"
         \/ func = {} /\ at' = "down" /\ current' = current
      /\ UNCHANGED <<cpu, entry, reg, ram, func, context, call, stack, areas, softvec>>
  BY DEF schedule, tcbs
<1>2. Kept
  <2>1. InPlaces /\ InPlaces'
    BY Stages, PTL
  <2>2. CASE at' = "dispatch"
    BY <1>1, <2>1, <2>2 DEF InPlaces, InPlace, FrameOf, Kept
  <2> QED
    BY <1>1, <2>2 DEF Kept
<1>3. Types'
  BY <1>1 DEF ContextInv, Types
<1>4. Places'
  <2>1. \A u \in Saved' : FrameOn(u, context[u])'
    BY <1>1 DEF ContextInv, Places, Saved, FrameOn
  <2> QED
    BY <1>1, <2>1 DEF Places
<1>5. Entry'
  BY <1>1 DEF ContextInv, Entry, InService
<1>6. Layout'
  BY <1>1, LayoutKept DEF ContextInv
<1> QED
  BY <1>2, <1>3, <1>4, <1>5, <1>6

LEMMA DispatchStep ==
  ASSUME ContextInv, dispatch
  PROVE  Kept /\ Types' /\ Layout' /\ Places' /\ Entry'
<1>1. PICK t, n, f, sp : t = current /\ n = ram' /\ f = cpu'.er /\ sp = context[current]
  OBVIOUS
<1>2. /\ at = "dispatch" /\ at' = "restore" /\ reg' = 0 /\ entry' = NULL
      /\ n = [ram EXCEPT ![INTRSTACK - 1] = Unused]
      /\ cpu' = [cpu EXCEPT !.sp = sp]
      /\ UNCHANGED <<current, func, context, call, stack, areas, softvec>>
  BY <1>1 DEF dispatch, tcbs
<1>3. /\ cpu \in Cpus /\ ram \in Memory /\ t \in func /\ FrameOn(t, sp) /\ 0 \in Reg
  BY <1>1, <1>2, Numbers DEF ContextInv, Types, Places, Entry, Saved
<1>4. sp \in Int /\ sp \in Address
  BY <1>3, FrameInArea DEF ContextInv
<1>5. n \in Memory /\ \A x \in Area(stack[t]) : n[x] = ram[x]
  BY <1>2, <1>3, AreasApart DEF Memory, ContextInv, Unused
<1>6. cpu' \in Cpus /\ cpu'.sp = sp
  BY <1>2, <1>3, <1>4 DEF Cpus
<1>7. StaysOut
  BY <1>1, <1>2, <1>3 DEF StaysOut, Memory
<1>8. \A u \in func \ {current} : Processor(u)' = Processor(u)
  BY <1>1, <1>2, <1>3, <1>7, OthersKept DEF ContextInv
<1>9. Processor(t) = Frame(ram, cpu.er, 0, sp, stack[t])
  <2>1. InPlaces
    BY Stages
  <2> QED
    BY <1>1, <1>2, <2>1 DEF InPlaces, InPlace, FrameOf
<1>10. Processor(t)' = Frame(n, f, 0, sp, stack[t])
  <2>1. InPlaces'
    BY Stages, PTL
  <2>2. t = current' /\ stack' = stack
    BY <1>1, <1>2
  <2> QED
    BY <1>1, <1>2, <1>6, <2>1, <2>2 DEF InPlaces, InPlace, FrameOf
<1>11. Kept
  <2>1. Frame(n, f, 0, sp, stack[t]) = Frame(ram, cpu.er, 0, sp, stack[t])
    BY <1>3, <1>5, FrameSafe DEF ContextInv
  <2> QED
    BY <1>1, <1>2, <1>8, <1>9, <1>10, <2>1 DEF Kept
<1>12. Types'
  <2>1. sp \in 0 .. INTRSTACK
    BY <1>4, Numbers
  <2> QED
    BY <1>1, <1>2, <1>3, <1>5, <1>6, <2>1 DEF ContextInv, Types
<1>13. Places'
  <2>1. \A u \in Saved' : FrameOn(u, context[u])'
    BY <1>2 DEF ContextInv, Places, Saved, FrameOn
  <2>2. OnStack(t, sp + FRAME - 0)
    <3>1. stack[t] \in Int
      BY <1>3, AreasApart DEF ContextInv
    <3> QED
      BY <1>3, <1>4, <3>1, Sizes DEF FrameOn, OnStack
  <2> QED
    BY <1>1, <1>2, <1>6, <2>1, <2>2 DEF Places, OnStack
<1>14. Entry'
  BY <1>1, <1>2 DEF ContextInv, Entry, InService
<1>15. Layout'
  BY <1>2, LayoutKept DEF ContextInv
<1> QED
  BY <1>11, <1>12, <1>13, <1>14, <1>15
-----------------------------------------------------------------------------
(* Steps of the running thread. *)
OthersGoOn == func' = func /\ \A u \in func \ {current} : Processor(u)' = Processor(u)

LEMMA RunningIs ==
  ASSUME ContextInv, at = "thread"
  PROVE  /\ cpu \in Cpus /\ cpu.er \in RegFiles /\ cpu.sp \in Int /\ cpu.pc \in Code
         /\ ram \in Memory /\ current \in func
         /\ OnStack(current, cpu.sp)
         /\ Processor(current) = Whole(ram, cpu, stack[current])
<1>1. InPlaces
  BY Stages
<1>2. Processor(current) = Whole(ram, cpu, stack[current])
  BY <1>1 DEF InPlaces, InPlace
<1> QED
  BY <1>2 DEF ContextInv, Types, Places, Entry, Cpus

LEMMA ExceptionStep ==
  ASSUME ContextInv, at = "thread", NEW v \in {8, 9, Serial}, NEW pc \in Code, Exception(v, pc)
  PROVE  /\ OthersGoOn /\ Types' /\ Layout' /\ Places' /\ Entry'
         /\ Processor(current)' = Whole(ram, [cpu EXCEPT !.pc = pc], stack[current])
         /\ UNCHANGED <<current, call>> /\ at' = "save"
         /\ entry' = IF v = 8 THEN SYSCALL ELSE IF v = 9 THEN SOFTERR ELSE SERINTR
<1>1. PICK t, s, m, n, c, sp :
        /\ t = current /\ s = stack[current] /\ m = ram /\ n = ram'
        /\ c = cpu /\ sp = cpu.sp
  OBVIOUS
<1>2. /\ at' = "save" /\ reg' = LastReg
      /\ entry' = IF v = 8 THEN SYSCALL ELSE IF v = 9 THEN SOFTERR ELSE SERINTR
      /\ n = [m EXCEPT ![c.sp - 1] = CcrPc(c.masked, pc)]
      /\ cpu' = [c EXCEPT !.sp = @ - 1, !.masked = TRUE]
      /\ UNCHANGED <<current, func, context, call, stack, areas, softvec>>
  <2>1. vectors(v) = IF v = 8 THEN SYSCALL ELSE IF v = 9 THEN SOFTERR ELSE SERINTR
    BY DEF vectors, Serial
  <2> QED
    BY <1>1, <2>1 DEF Exception, tcbs
<1>3. /\ c \in Cpus /\ m \in Memory /\ sp \in Int /\ c.sp = sp /\ c.masked \in BOOLEAN
      /\ t \in func /\ s \in Int /\ STACK <= s /\ s <= INTRSTACK - 1
      /\ OnStack(t, sp)
  BY <1>1, RunningIs, CurrentArea DEF Cpus
<1>4. sp - 1 \in Address /\ sp - 1 \in Area(s) /\ sp <= s
  BY <1>1, <1>3, Numbers, SMTT(30) DEF Area, OnStack
<1>5. n \in Memory
  <2>1. CcrPc(c.masked, pc) \in Int
    BY <1>3, PswRead
  <2> QED
    BY <1>2, <1>3, <1>4, <2>1 DEF Memory
<1>6. cpu' = [er |-> c.er, sp |-> sp - 1, pc |-> c.pc, masked |-> TRUE]
  BY <1>2, <1>3 DEF Cpus
<1>7. cpu' \in Cpus
  BY <1>3, <1>6 DEF Cpus
<1>8. StaysOut
  BY <1>1, <1>2, <1>3, <1>4 DEF StaysOut, Memory
<1>9. OthersGoOn
  BY <1>1, <1>2, <1>3, <1>8, OthersKept DEF ContextInv, OthersGoOn
<1>10. Processor(t)' = Frame(n, c.er, LastReg + 1, c.sp - 1, s)
  <2>1. InPlaces'
    BY Stages, PTL
  <2>2. t = current' /\ stack'[t] = s /\ cpu'.er = c.er /\ cpu'.sp = c.sp - 1 /\ n = ram'
    BY <1>1, <1>2, <1>3, <1>6
  <2> QED
    BY <1>2, <2>1, <2>2 DEF InPlaces, InPlace, FrameOf
<1>11. Frame(n, c.er, LastReg + 1, c.sp - 1, s) = Whole(m, [c EXCEPT !.pc = pc], s)
  <2>1. c.sp - 1 \in Address /\ c.sp <= s
    BY <1>3, <1>4
  <2>2. Frame([m EXCEPT ![c.sp - 1] = CcrPc(c.masked, pc)], c.er, LastReg + 1, c.sp - 1, s)
          = Whole(m, [c EXCEPT !.pc = pc], s)
    BY <1>3, <2>1, FrameTrap
  <2> QED
    BY <1>2, <2>2
<1>12. Types'
  <2>1. cpu'.sp \in 0 .. INTRSTACK
    BY <1>3, <1>4, <1>6, Numbers
  <2>2. reg' \in Reg /\ entry' \in Softvec
    BY <1>2, Numbers DEF Softvec, SYSCALL, SOFTERR, SERINTR
  <2> QED
    BY <1>1, <1>2, <1>5, <1>7, <2>1, <2>2 DEF ContextInv, Types
<1>13. Places'
  <2>1. \A u \in Saved' : FrameOn(u, context[u])'
    BY <1>2 DEF ContextInv, Places, Saved, FrameOn
  <2>2. (sp - 1) + LastReg + 1 - LastReg = sp
    BY <1>3, Sizes
  <2> QED
    BY <1>1, <1>2, <1>3, <1>6, <2>1, <2>2 DEF Places, OnStack
<1>14. Entry'
  <2>1. entry' \in Softvec
    BY <1>2 DEF Softvec, SYSCALL, SOFTERR, SERINTR
  <2> QED
    BY <1>2, <2>1 DEF ContextInv, Entry, InService
<1>15. Layout'
  BY <1>2, LayoutKept DEF ContextInv
<1> QED
  BY <1>1, <1>2, <1>9, <1>10, <1>11, <1>12, <1>13, <1>14, <1>15

(* An instruction of a thread, which stays on its own stack. *)
LEMMA InstructionStep ==
  ASSUME ContextInv, at = "thread", UNCHANGED Rest,
         cpu' \in Cpus, ram' \in Memory, OnStack(current, cpu'.sp), StaysOut,
         call' \in [Thread -> [type : Int, param : Int]]
  PROVE  OthersGoOn /\ Types' /\ Layout' /\ Places' /\ Entry'
<1>1. UNCHANGED <<at, entry, reg, current, func, context, stack, areas, softvec>>
  BY DEF Rest
<1>2. current \in func
  BY RunningIs
<1>3. OthersGoOn
  BY <1>1, <1>2, OthersKept DEF ContextInv, OthersGoOn
<1>4. Types'
  <2>1. cpu'.sp \in 0 .. INTRSTACK
    BY <1>2, CurrentArea, Numbers DEF OnStack
  <2> QED
    BY <1>1, <2>1 DEF ContextInv, Types
<1>5. Places'
  <2>1. \A u \in Saved' : FrameOn(u, context[u])'
    BY <1>1 DEF ContextInv, Places, Saved, FrameOn
  <2> QED
    BY <1>1, <2>1 DEF Places, OnStack
<1>6. Entry'
  BY <1>1 DEF ContextInv, Entry, InService
<1>7. Layout'
  BY <1>1, LayoutKept DEF ContextInv
<1> QED
  BY <1>3, <1>4, <1>5, <1>6, <1>7

LEMMA RunningNext ==
  ASSUME at' = "thread"
  PROVE  Processor(current)' = Whole(ram, cpu, stack[current])'
<1>1. InPlaces'
  BY Stages, PTL
<1> QED
  BY <1>1 DEF InPlaces, InPlace

(* The call of a thread is affected by no step of another. *)
LEMMA OthersCalls ==
  ASSUME CallsInv, OthersGoOn, current' = current,
         \A u \in func \ {current} : call'[u] = call[u],
         IsMade(call'[current], Processor(current)'),
         at' \in InService /\ entry' = SYSCALL => IsServed(call'[current], Processor(current)')
  PROVE  CallsInv'
BY DEF CallsInv, OthersGoOn, IsMade, IsServed
-----------------------------------------------------------------------------
LEMMA WholeReads ==
  ASSUME NEW m, NEW c, NEW s
  PROVE  Whole(m, c, s).er = c.er /\ Whole(m, c, s).pc = c.pc
BY DEF Whole

LEMMA CodeIs == {INIT, BODY, PARAM, TRAPA} \subseteq Code /\ BODY \notin {PARAM, TRAPA} /\ PARAM # TRAPA
BY DEF INIT, BODY, PARAM, TRAPA, Code

LEMMA ThreadInitStep ==
  ASSUME ContextInv, thread_init
  PROVE  ContextInv' /\ OthersGoOn /\ at' = "thread"
<1>1. /\ at = "thread" /\ cpu' = [cpu EXCEPT !.pc = BODY] /\ UNCHANGED <<Rest, ram, call>>
  BY DEF thread_init, Executes
<1>2. /\ cpu \in Cpus /\ OnStack(current, cpu.sp) /\ ram \in Memory
  BY <1>1, RunningIs
<1>3. cpu' \in Cpus /\ cpu'.sp = cpu.sp /\ cpu'.pc = BODY
  BY <1>1, <1>2, CodeIs DEF Cpus
<1>4. StaysOut
  BY <1>1 DEF StaysOut
<1>5. OthersGoOn /\ Types' /\ Layout' /\ Places' /\ Entry'
  BY <1>1, <1>2, <1>3, <1>4, InstructionStep DEF ContextInv, Types
<1>6. at' = "thread" /\ current' = current /\ call' = call
  BY <1>1 DEF Rest
<1>7. Processor(current)' = Whole(ram, cpu, stack[current])'
  BY <1>6, RunningNext
<1>8. Processor(current)'.pc = BODY
  BY <1>3, <1>7, WholeReads
<1>9. IsMade(call'[current], Processor(current)')
  BY <1>8, CodeIs DEF IsMade
<1>10. CallsInv'
  BY <1>5, <1>6, <1>9, OthersCalls DEF ContextInv, InService
<1> QED
  BY <1>5, <1>6, <1>10 DEF ContextInv

LEMMA ComputeStep ==
  ASSUME ContextInv, Compute
  PROVE  ContextInv' /\ OthersGoOn /\ at' = "thread"
<1>1. /\ at = "thread" /\ cpu.pc = BODY /\ UNCHANGED <<Rest, call>>
  BY DEF Compute, Executes
<1>2. PICK s, sp, er : s = stack[current] /\ sp = cpu.sp /\ er = cpu.er
  OBVIOUS
<1>3. /\ cpu \in Cpus /\ er \in RegFiles /\ sp \in Int /\ ram \in Memory
      /\ OnStack(current, sp)
  BY <1>1, <1>2, RunningIs
<1>4. /\ s \in Int /\ STACK <= s /\ s <= INTRSTACK - 1 /\ Area(s) = s - STACK .. s - 1
      /\ sp >= s - 1 - MaxDepth /\ sp <= s - 1
  BY <1>1, <1>2, <1>3, RunningIs, CurrentArea, Sizes DEF OnStack
<1>5. /\ cpu' \in Cpus /\ cpu'.pc = BODY /\ OnStack(current, cpu'.sp)
      /\ ram' \in Memory /\ StaysOut
  <2>1. CASE \E f \in Files : cpu' = [cpu EXCEPT !.er = f] /\ UNCHANGED ram
    <3>1. PICK f \in Files : cpu' = [cpu EXCEPT !.er = f] /\ UNCHANGED ram
      BY <2>1
    <3>2. f \in RegFiles
      BY ContextAssumption DEF RegFiles
    <3>3. cpu' \in Cpus /\ cpu'.pc = BODY /\ cpu'.sp = sp
      BY <1>1, <1>2, <1>3, <3>1, <3>2 DEF Cpus
    <3> QED
      BY <1>3, <3>1, <3>3 DEF StaysOut
  <2>2. CASE /\ Depth < MaxDepth
             /\ ram' = [ram EXCEPT ![cpu.sp - 1] = cpu.er[LastReg]]
             /\ cpu' = [cpu EXCEPT !.sp = @ - 1]
    <3>1. sp - 1 >= s - 1 - MaxDepth
      BY <1>2, <1>3, <1>4, <2>2, Sizes, SMTT(30) DEF Depth
    <3>2. sp - 1 \in Address /\ sp - 1 \in Area(s)
      BY <1>3, <1>4, <3>1, Numbers
    <3>3. cpu' \in Cpus /\ cpu'.pc = BODY /\ cpu'.sp = sp - 1
      BY <1>1, <1>2, <1>3, <2>2 DEF Cpus
    <3>4. OnStack(current, sp - 1)
      BY <1>2, <1>3, <1>4, <3>1 DEF OnStack
    <3>5. er[LastReg] \in Int
      BY <1>3, Numbers DEF RegFiles
    <3>6. ram' \in Memory /\ StaysOut
      BY <1>2, <1>3, <2>2, <3>2, <3>5 DEF Memory, StaysOut
    <3> QED
      BY <3>3, <3>4, <3>6
  <2>3. CASE /\ Depth > 0
             /\ cpu' = [cpu EXCEPT !.sp = @ + 1, !.er[LastReg] = ram[cpu.sp]]
             /\ Popped
    <3>1. sp + 1 <= s - 1
      BY <1>2, <1>3, <1>4, <2>3, Sizes, SMTT(30) DEF Depth
    <3>2. sp \in Address /\ sp \in Area(s)
      BY <1>3, <1>4, <3>1, Numbers
    <3>3. PICK f : f = [er EXCEPT ![LastReg] = ram[sp]]
      OBVIOUS
    <3>4. f \in RegFiles
      BY <1>3, <3>2, <3>3 DEF RegFiles, Memory
    <3>5. cpu' = [er |-> f, sp |-> sp + 1, pc |-> cpu.pc, masked |-> cpu.masked]
      BY <1>2, <1>3, <2>3, <3>3 DEF Cpus
    <3>6. cpu' \in Cpus /\ cpu'.pc = BODY /\ cpu'.sp = sp + 1
      BY <1>1, <1>3, <3>4, <3>5 DEF Cpus
    <3>7. OnStack(current, sp + 1)
      BY <1>2, <1>3, <1>4, <3>1, Sizes, SMTT(30) DEF OnStack
    <3>8. ram' \in Memory /\ StaysOut
      BY <1>2, <1>3, <2>3, <3>2 DEF Memory, StaysOut, Popped, Unused
    <3> QED
      BY <3>6, <3>7, <3>8
  <2>4. CASE \E masked \in BOOLEAN : cpu' = [cpu EXCEPT !.masked = masked] /\ UNCHANGED ram
    <3>1. PICK masked \in BOOLEAN : cpu' = [cpu EXCEPT !.masked = masked] /\ UNCHANGED ram
      BY <2>4
    <3>2. cpu' \in Cpus /\ cpu'.pc = BODY /\ cpu'.sp = sp
      BY <1>1, <1>2, <1>3, <3>1 DEF Cpus
    <3> QED
      BY <1>3, <3>1, <3>2 DEF StaysOut
  <2> QED
    BY <2>1, <2>2, <2>3, <2>4 DEF Compute
<1>6. OthersGoOn /\ Types' /\ Layout' /\ Places' /\ Entry'
  BY <1>1, <1>5, InstructionStep DEF ContextInv, Types
<1>7. at' = "thread" /\ current' = current /\ call' = call
  BY <1>1 DEF Rest
<1>8. Processor(current)' = Whole(ram, cpu, stack[current])'
  BY <1>7, RunningNext
<1>9. Processor(current)'.pc = BODY
  BY <1>5, <1>8, WholeReads
<1>10. IsMade(call'[current], Processor(current)')
  BY <1>9, CodeIs DEF IsMade
<1>11. CallsInv'
  BY <1>6, <1>7, <1>10, OthersCalls DEF ContextInv, InService
<1> QED
  BY <1>6, <1>7, <1>11 DEF ContextInv

(* The two stores of kz_syscall. *)
LEMMA StoreStep ==
  ASSUME ContextInv,
         \/ /\ Executes(BODY) /\ cpu' = [cpu EXCEPT !.pc = PARAM]
            /\ call' = [call EXCEPT ![current].type = cpu.er[0]]
         \/ /\ Executes(PARAM) /\ cpu' = [cpu EXCEPT !.pc = TRAPA] /\ StoreParam,
         UNCHANGED <<Rest, ram>>
  PROVE  ContextInv' /\ OthersGoOn /\ at' = "thread"
<1>1. at = "thread"
  BY DEF Executes
<1>2. PICK t, er, c, d : t = current /\ er = cpu.er /\ c = call[current] /\ d = call'[current]
  OBVIOUS
<1>3. /\ cpu \in Cpus /\ OnStack(t, cpu.sp) /\ ram \in Memory /\ er \in RegFiles
      /\ t \in func /\ t \in Thread /\ call \in [Thread -> [type : Int, param : Int]]
      /\ er[0] \in Int /\ er[1] \in Int
  <2>1. er \in RegFiles /\ 0 \in Reg /\ 1 \in Reg
    BY <1>1, <1>2, RunningIs, Numbers
  <2>2. er[0] \in Int /\ er[1] \in Int
    BY <2>1 DEF RegFiles
  <2> QED
    BY <1>1, <1>2, <2>1, <2>2, RunningIs, CurrentArea DEF ContextInv, Types
<1>4. IsMade(c, Processor(t))
  BY <1>2, <1>3 DEF ContextInv, CallsInv
<1>5. Processor(t).er = er /\ Processor(t).pc = cpu.pc
  BY <1>1, <1>2, RunningIs, WholeReads
<1>6. /\ cpu' \in Cpus /\ cpu'.sp = cpu.sp /\ cpu'.er = er
      /\ call' \in [Thread -> [type : Int, param : Int]]
      /\ \A u \in Thread : u # t => call'[u] = call[u]
      /\ \/ cpu'.pc = PARAM /\ d.type = er[0]
         \/ /\ cpu.pc = PARAM /\ cpu'.pc = TRAPA
            /\ d.type = c.type /\ d.param = er[1]
  <2>1. CASE /\ Executes(BODY) /\ cpu' = [cpu EXCEPT !.pc = PARAM]
             /\ call' = [call EXCEPT ![current].type = cpu.er[0]]
    <3>1. cpu' \in Cpus /\ cpu'.sp = cpu.sp /\ cpu'.er = er /\ cpu'.pc = PARAM
      BY <1>2, <1>3, <2>1, CodeIs DEF Cpus
    <3>2. call' = [call EXCEPT ![t].type = er[0]]
      BY <1>2, <2>1
    <3>3. /\ call' \in [Thread -> [type : Int, param : Int]] /\ call'[t].type = er[0]
          /\ \A u \in Thread : u # t => call'[u] = call[u]
      BY <1>3, <3>2
    <3> QED
      BY <1>2, <3>1, <3>3
  <2>2. CASE /\ Executes(PARAM) /\ cpu' = [cpu EXCEPT !.pc = TRAPA] /\ StoreParam
    <3>1. cpu' \in Cpus /\ cpu'.sp = cpu.sp /\ cpu'.er = er /\ cpu'.pc = TRAPA
      BY <1>2, <1>3, <2>2, CodeIs DEF Cpus
    <3>2. call' = [call EXCEPT ![t].param = er[1]]
      BY <1>2, <2>2 DEF StoreParam
    <3>3. /\ call' \in [Thread -> [type : Int, param : Int]]
          /\ call'[t].param = er[1] /\ call'[t].type = call[t].type
          /\ \A u \in Thread : u # t => call'[u] = call[u]
      BY <1>3, <3>2
    <3> QED
      BY <1>2, <2>2, <3>1, <3>3 DEF Executes
  <2> QED
    BY <2>1, <2>2
<1>7. StaysOut
  BY DEF StaysOut
<1>8. OthersGoOn /\ Types' /\ Layout' /\ Places' /\ Entry'
  BY <1>1, <1>2, <1>3, <1>6, <1>7, InstructionStep
<1>9. at' = "thread" /\ current' = current
  BY <1>1 DEF Rest
<1>10. Processor(t)'.pc = cpu'.pc /\ Processor(t)'.er = er
  <2>1. Processor(current)' = Whole(ram, cpu, stack[current])'
    BY <1>9, RunningNext
  <2> QED
    BY <1>2, <1>6, <1>9, <2>1, WholeReads
<1>11. IsMade(d, Processor(t)')
  BY <1>4, <1>5, <1>6, <1>10, CodeIs DEF IsMade
<1>12. CallsInv'
  <2>1. \A u \in func \ {current} : call'[u] = call[u]
    BY <1>2, <1>6 DEF ContextInv, Types
  <2>2. IsMade(call'[current], Processor(current)')
    BY <1>2, <1>9, <1>11
  <2> QED
    BY <1>8, <1>9, <2>1, <2>2, OthersCalls DEF ContextInv, InService
<1> QED
  BY <1>8, <1>9, <1>12 DEF ContextInv
-----------------------------------------------------------------------------
(* A thread stops: by its trap, by an error, or because it is interrupted. *)
LEMMA StopStep ==
  ASSUME ContextInv, at = "thread", NEW v \in {8, 9, Serial}, NEW pc, Exception(v, pc),
         \/ v = 8 /\ cpu.pc = TRAPA /\ pc = BODY
         \/ v = 9 /\ pc = BODY
         \/ v = Serial /\ pc = cpu.pc
  PROVE  /\ ContextInv' /\ OthersGoOn /\ current' = current /\ at' = "save"
         /\ entry' = IF v = 8 THEN SYSCALL ELSE IF v = 9 THEN SOFTERR ELSE SERINTR
         /\ Processor(current)' = [Processor(current) EXCEPT !.pc = pc]
<1>1. PICK t, s, c, p : t = current /\ s = stack[current] /\ c = call[current] /\ p = Processor(t)'
  OBVIOUS
<1>2. /\ cpu \in Cpus /\ cpu.pc \in Code /\ t \in func /\ Processor(t) = Whole(ram, cpu, s)
  BY <1>1, RunningIs
<1>3. pc \in Code
  BY <1>2, CodeIs
<1>4. /\ OthersGoOn /\ Types' /\ Layout' /\ Places' /\ Entry'
      /\ p = Whole(ram, [cpu EXCEPT !.pc = pc], s)
      /\ UNCHANGED <<current, call>> /\ at' = "save"
      /\ entry' = IF v = 8 THEN SYSCALL ELSE IF v = 9 THEN SOFTERR ELSE SERINTR
  <2>1. /\ OthersGoOn /\ Types' /\ Layout' /\ Places' /\ Entry'
        /\ Processor(current)' = Whole(ram, [cpu EXCEPT !.pc = pc], stack[current])
        /\ UNCHANGED <<current, call>> /\ at' = "save"
        /\ entry' = IF v = 8 THEN SYSCALL ELSE IF v = 9 THEN SOFTERR ELSE SERINTR
    BY <1>3, ExceptionStep
  <2> QED
    BY <1>1, <2>1
<1>5. p = [Processor(t) EXCEPT !.pc = pc]
  BY <1>2, <1>4 DEF Whole, Cpus
<1>6. p.pc = pc /\ p.er = Processor(t).er /\ Processor(t).pc = cpu.pc
  BY <1>2, <1>5 DEF Whole
<1>7. IsMade(c, Processor(t))
  BY <1>1, <1>2 DEF ContextInv, CallsInv
<1>8. IsMade(c, p)
  BY <1>3, <1>6, <1>7, CodeIs DEF IsMade
<1>9. entry' = SYSCALL => IsServed(c, p)
  BY <1>4, <1>6, <1>7 DEF IsMade, IsServed, SYSCALL, SOFTERR, SERINTR, Serial
<1>10. CallsInv'
  <2>1. c = call'[current] /\ p = Processor(current)'
    BY <1>1, <1>4
  <2> QED
    BY <1>4, <1>8, <1>9, <2>1, OthersCalls DEF ContextInv
<1> QED
  BY <1>1, <1>4, <1>5, <1>10 DEF ContextInv

LEMMA KernelCalls ==
  ASSUME CallsInv, Kept, call' = call, Entry,
         at' \in InService => at \in InService /\ current' = current /\ entry' = entry
  PROVE  CallsInv'
<1>1. at' \in InService => current \in func
  BY DEF Entry, InService
<1> QED
  BY <1>1 DEF CallsInv, Kept

(* The way in and out. *)
LEMMA EntryStep ==
  ASSUME ContextInv,
         \/ save \/ enter \/ interrupt \/ leave \/ restore \/ rte
         \/ thread_intr \/ schedule \/ dispatch
  PROVE  ContextInv' /\ Kept
<1>1. CASE save
  <2>1. CallsInv'
    BY <1>1, SaveStep, KernelCalls DEF save, tcbs, ContextInv, InService
  <2> QED
    BY <1>1, <2>1, SaveStep DEF ContextInv
<1>2. CASE enter
  <2>1. CallsInv'
    BY <1>2, EnterStep, KernelCalls DEF enter, tcbs, ContextInv, InService
  <2> QED
    BY <1>2, <2>1, EnterStep DEF ContextInv
<1>3. CASE interrupt
  <2>1. CallsInv'
    BY <1>3, InterruptStep, KernelCalls DEF interrupt, tcbs, ContextInv, InService
  <2> QED
    BY <1>3, <2>1, InterruptStep DEF ContextInv
<1>4. CASE leave
  <2>1. CallsInv'
    BY <1>4, LeaveStep, KernelCalls DEF leave, tcbs, ContextInv, InService
  <2> QED
    BY <1>4, <2>1, LeaveStep DEF ContextInv
<1>5. CASE restore
  <2>1. CallsInv'
    BY <1>5, RestoreStep, KernelCalls DEF restore, tcbs, ContextInv, InService
  <2> QED
    BY <1>5, <2>1, RestoreStep DEF ContextInv
<1>6. CASE rte
  <2>1. CallsInv'
    BY <1>6, RteStep, KernelCalls DEF rte, tcbs, ContextInv, InService
  <2> QED
    BY <1>6, <2>1, RteStep DEF ContextInv
<1>7. CASE thread_intr
  <2>1. CallsInv'
    BY <1>7, ThreadIntrStep, KernelCalls DEF thread_intr, ContextInv, InService
  <2> QED
    BY <1>7, <2>1, ThreadIntrStep DEF ContextInv
<1>8. CASE schedule
  <2>1. CallsInv'
    BY <1>8, ScheduleStep, KernelCalls DEF schedule, tcbs, ContextInv, InService
  <2> QED
    BY <1>8, <2>1, ScheduleStep DEF ContextInv
<1>9. CASE dispatch
  <2>1. CallsInv'
    BY <1>9, DispatchStep, KernelCalls DEF dispatch, tcbs, ContextInv, InService
  <2> QED
    BY <1>9, <2>1, DispatchStep DEF ContextInv
<1> QED
  BY <1>1, <1>2, <1>3, <1>4, <1>5, <1>6, <1>7, <1>8, <1>9
-----------------------------------------------------------------------------
(* thread_run takes a TCB and a stack area nobody uses, and the first thing the
   new processor holds is what Fresh says. *)
LEMMA RunStep ==
  ASSUME Types, Layout, NEW masked \in BOOLEAN, thread_run(masked)
  PROVE  \E t \in Thread \ func :
           /\ func' = func \cup {t}
           /\ ram' \in Memory /\ context' \in [Thread -> Address] /\ Layout'
           /\ call' \in [Thread -> [type : Int, param : Int]]
           /\ FrameOn(t, context[t])' /\ call'[t] = NoCall
           /\ \A er : Frame(ram', er, 0, context'[t], stack'[t]) = Fresh(t, masked)
           /\ \A u \in func : /\ context'[u] = context[u] /\ stack'[u] = stack[u]
                              /\ call'[u] = call[u]
                              /\ \A x \in Area(stack[u]) : ram'[x] = ram[x]
<1>0. PICK top : top = STACK * (areas + 1)
  OBVIOUS
<1>1. PICK t \in Thread \ func :
        /\ areas < STACK_NUM /\ areas' = areas + 1 /\ top = STACK * (areas + 1)
        /\ func' = func \cup {t}
        /\ ram' = FirstFrame(t, top, masked)
        /\ context' = [context EXCEPT ![t] = FirstSp(top)]
        /\ stack' = [stack EXCEPT ![t] = top]
        /\ call' = [call EXCEPT ![t] = NoCall]
  BY <1>0 DEF thread_run, get_stack_area
<1>2. /\ areas \in Int /\ 0 <= areas /\ top \in Int /\ STACK * areas \in Int /\ STACK * areas >= 0
      /\ top = STACK * areas + STACK /\ top <= INTRSTACK - 1
      /\ top = STACK * areas' /\ areas' \in 0 .. STACK_NUM
  <2>1. areas \in 0 .. STACK_NUM /\ STACK_NUM \in Nat
    BY ContextAssumption DEF Layout
  <2>2. areas' \in 0 .. STACK_NUM
    BY <1>1, <2>1
  <2> QED
    BY <1>1, <2>1, <2>2, Tops, Sizes
<1>3. /\ stack \in [Thread -> Address] /\ context \in [Thread -> Address]
      /\ call \in [Thread -> [type : Int, param : Int]] /\ ram \in Memory /\ func \subseteq Thread
  BY DEF Types, Layout
<1>4. /\ top \in Address /\ FirstSp(top) = top - 1 - FRAME /\ FirstSp(top) \in Address
      /\ top - 1 \in Address /\ top - 2 \in Address /\ top >= STACK
      /\ Area(top) = top - STACK .. top - 1
  BY <1>2, Numbers DEF FirstSp, Area
<1>5. \A u \in func : u # t /\ stack[u] \in Int /\ STACK <= stack[u] /\ stack[u] + STACK <= top
  BY <1>1, <1>2, AreasApart, Sizes DEF Layout
<1>6. stack' \in [Thread -> Address] /\ stack'[t] = top /\ \A u \in func : stack'[u] = stack[u]
  BY <1>1, <1>3, <1>4, <1>5
<1>7. /\ context' \in [Thread -> Address] /\ context'[t] = top - 1 - FRAME
      /\ \A u \in func : context'[u] = context[u]
  BY <1>1, <1>3, <1>4, <1>5
<1>8. NoCall \in [type : Int, param : Int]
  BY DEF NoCall, RUN
<1>9. /\ call' \in [Thread -> [type : Int, param : Int]] /\ call'[t] = NoCall
      /\ \A u \in func : call'[u] = call[u]
  BY <1>1, <1>3, <1>5, <1>8
<1>10. ram' \in Memory
  <2>1. CcrPc(masked, INIT) \in Int /\ t \in Int /\ THREAD_END \in Int
    BY PswRead, CodeIs DEF Thread, THREAD_END
  <2>2. \A x \in Address : ram'[x] \in Int
    BY <1>1, <1>3, <2>1 DEF FirstFrame, Memory
  <2>3. ram' = [x \in Address |-> ram'[x]]
    BY <1>1 DEF FirstFrame
  <2> QED
    BY <2>2, <2>3 DEF Memory
<1>11. \A u \in func : \A x \in Area(stack[u]) : ram'[x] = ram[x]
  <2> TAKE u \in func
  <2> TAKE x \in Area(stack[u])
  <2>1. x \in Address /\ x \notin Area(top)
    BY <1>2, <1>4, <1>5, AreasApart, Sizes DEF Area
  <2>2. x # top - 1 /\ x # top - 2 /\ x # top - 1 - FRAME
    BY <1>2, <1>4, <2>1, Sizes
  <2> QED
    BY <1>1, <2>1, <2>2 DEF FirstFrame
<1>12. /\ ram'[top - 1] = THREAD_END /\ ram'[top - 2] = CcrPc(masked, INIT)
       /\ ram'[top - 1 - FRAME] = t
       /\ \A x \in top - FRAME .. top - 3 : ram'[x] = 0
  <2>1. /\ top - 1 \in Area(top) /\ top - 2 \in Area(top) /\ top - 1 - FRAME \in Area(top)
        /\ top - 2 # top - 1 /\ top - 1 - FRAME # top - 1 /\ top - 1 - FRAME # top - 2
    BY <1>2, <1>4, Sizes
  <2>2. \A x \in top - FRAME .. top - 3 :
          /\ x \in Area(top) /\ x \in Address
          /\ x # top - 1 /\ x # top - 2 /\ x # top - 1 - FRAME
    BY <1>2, <1>4, Numbers
  <2>3. /\ ram'[top - 1] = THREAD_END /\ ram'[top - 2] = CcrPc(masked, INIT)
        /\ ram'[top - 1 - FRAME] = t
    BY <1>1, <1>4, <2>1 DEF FirstFrame
  <2>4. \A x \in top - FRAME .. top - 3 : ram'[x] = 0
    BY <1>1, <2>2 DEF FirstFrame
  <2> QED
    BY <2>3, <2>4
<1>13. ASSUME NEW er PROVE Frame(ram', er, 0, context'[t], stack'[t]) = Fresh(t, masked)
  <2>1. PICK n : n = ram'
    OBVIOUS
  <2>2. Frame(n, er, 0, top - 1 - FRAME, top) = Fresh(t, masked)
    BY <1>2, <1>4, <1>12, <2>1, FrameFirst
  <2> QED
    BY <1>6, <1>7, <2>1, <2>2
<1>14. FrameOn(t, context[t])'
  BY <1>2, <1>6, <1>7, Sizes DEF FrameOn
<1>15. Layout'
  <2>1. ASSUME NEW u \in func' PROVE STACK <= stack'[u] /\ stack'[u] <= STACK * areas'
    BY <1>1, <1>2, <1>4, <1>5, <1>6, <2>1, Sizes
  <2>2. ASSUME NEW u \in func', NEW v \in func', u # v
        PROVE  stack'[u] + STACK <= stack'[v] \/ stack'[v] + STACK <= stack'[u]
    BY <1>1, <1>5, <1>6, <2>2 DEF Layout
  <2> QED
    BY <1>2, <1>6, <2>1, <2>2 DEF Layout
<1> QED
  BY <1>1, <1>6, <1>7, <1>9, <1>10, <1>11, <1>13, <1>14, <1>15
-----------------------------------------------------------------------------
(* The processor of a thread that is not running is its frame. *)
LEMMA FrameStays ==
  ASSUME Types, Layout, Places, at = "handler", at' = "schedule",
         NEW u \in func, context'[u] = context[u], stack'[u] = stack[u],
         \A x \in Area(stack[u]) : ram'[x] = ram[x]
  PROVE  Processor(u)' = Processor(u) /\ FrameOn(u, context[u])'
<1>1. PICK n, f, a : n = ram' /\ f = cpu'.er /\ a = context[u]
  OBVIOUS
<1>2. FrameOn(u, a)
  BY <1>1 DEF Places, Saved
<1>3. Processor(u) = Frame(ram, cpu.er, 0, a, stack[u])
  <2>1. InPlaces
    BY Stages
  <2> QED
    BY <1>1, <2>1 DEF InPlaces, InPlace, FrameOf
<1>4. Processor(u)' = Frame(n, f, 0, a, stack[u])
  <2>1. InPlaces'
    BY Stages, PTL
  <2> QED
    BY <1>1, <2>1 DEF InPlaces, InPlace, FrameOf
<1>5. Frame(n, f, 0, a, stack[u]) = Frame(ram, cpu.er, 0, a, stack[u])
  BY <1>1, <1>2, FrameSafe
<1> QED
  BY <1>1, <1>2, <1>3, <1>4, <1>5 DEF FrameOn

LEMMA FrameBegins ==
  ASSUME at' = "schedule" \/ at' = "dispatch", NEW t, NEW masked,
         \A er : Frame(ram', er, 0, context'[t], stack'[t]) = Fresh(t, masked)
  PROVE  Processor(t)' = Fresh(t, masked)
<1>1. InPlaces'
  BY Stages, PTL
<1>2. PICK n, f, a, s : n = ram' /\ f = cpu'.er /\ a = context'[t] /\ s = stack'[t]
  OBVIOUS
<1>3. Processor(t)' = Frame(n, f, 0, a, s)
  BY <1>1, <1>2 DEF InPlaces, InPlace, FrameOf
<1> QED
  BY <1>2, <1>3

LEMMA FreshCall ==
  ASSUME NEW t, NEW masked PROVE IsMade(NoCall, Fresh(t, masked))
BY CodeIs DEF IsMade, Fresh, INIT, PARAM, TRAPA

(* thread_exit overwrites the area of the current thread only. *)
LEMMA ExitStep ==
  ASSUME Types, Layout, current \in func, thread_exit
  PROVE  /\ func' = func \ {current}
         /\ ram' \in Memory /\ context' \in [Thread -> Address] /\ Layout'
         /\ call' \in [Thread -> [type : Int, param : Int]]
         /\ \A u \in func' : /\ context'[u] = context[u] /\ stack'[u] = stack[u]
                             /\ call'[u] = call[u]
                             /\ \A x \in Area(stack[u]) : ram'[x] = ram[x]
<1>1. PICK t : t = current
  OBVIOUS
<1>2. /\ func' = func \ {t} /\ areas' = areas
      /\ context' = [context EXCEPT ![t] = 0]
      /\ call' = [call EXCEPT ![t] = NoCall]
      /\ stack' = [stack EXCEPT ![t] = 0]
      /\ ram' = [a \in Address |-> IF a \in Area(stack[t]) THEN Unused ELSE ram[a]]
  BY <1>1 DEF thread_exit
<1>3. /\ stack \in [Thread -> Address] /\ context \in [Thread -> Address] /\ func \subseteq Thread
      /\ call \in [Thread -> [type : Int, param : Int]] /\ ram \in Memory /\ 0 \in Address
      /\ NoCall \in [type : Int, param : Int] /\ t \in func
  BY <1>1, Numbers DEF Types, Layout, NoCall, RUN
<1>4. ram' \in Memory /\ context' \in [Thread -> Address] /\ stack' \in [Thread -> Address]
  BY <1>2, <1>3 DEF Memory, Unused
<1>5. call' \in [Thread -> [type : Int, param : Int]]
  BY <1>2, <1>3
<1>6. ASSUME NEW u \in func'
      PROVE  /\ u \in func /\ context'[u] = context[u] /\ stack'[u] = stack[u]
             /\ call'[u] = call[u]
             /\ \A x \in Area(stack[u]) : ram'[x] = ram[x]
  <2>1. u \in func /\ u # t /\ u \in Thread
    BY <1>2, <1>3, <1>6
  <2>2. \A x \in Area(stack[u]) : x \in Address /\ x \notin Area(stack[t])
    BY <1>3, <2>1, AreasApart
  <2> QED
    BY <1>2, <1>3, <2>1, <2>2
<1>7. Layout'
  BY <1>2, <1>4, <1>6 DEF Layout
<1> QED
  BY <1>1, <1>2, <1>4, <1>5, <1>6, <1>7

(* What the handlers do to the processors. *)
Serves ==
  \/ /\ Kept
     /\ ~(entry = SYSCALL /\ call[current].type \in {RUN, EXIT}) /\ entry # SOFTERR
  \/ /\ func' = func \ {current} /\ \A u \in func' : Processor(u)' = Processor(u)
     /\ (entry = SYSCALL /\ call[current].type = EXIT) \/ entry = SOFTERR
  \/ /\ entry = SYSCALL /\ call[current].type = RUN
     /\ \E t \in Thread \ func, masked \in BOOLEAN :
          /\ func' = func \cup {t} /\ Processor(t)' = Fresh(t, masked)
          /\ \A u \in func : Processor(u)' = Processor(u)

LEMMA HandlerStep ==
  ASSUME ContextInv, handler
  PROVE  ContextInv' /\ at' = "schedule" /\ Serves
<1>1. /\ at = "handler" /\ at' = "schedule" /\ cpu' = [cpu EXCEPT !.er = Scratch]
      /\ UNCHANGED <<entry, reg>>
      /\ \/ entry = SYSCALL /\ syscall_intr /\ current' = current
         \/ entry = SOFTERR /\ thread_exit /\ UNCHANGED <<current, softvec>>
         \/ /\ entry = SERINTR /\ current' \in {current, NULL}
            /\ UNCHANGED <<func, context, call, stack, ram, areas, softvec>>
  BY DEF handler, AfterC, ContextInv, Entry, tcbs
<1>2. Types /\ Layout /\ Places /\ Entry /\ CallsInv /\ current \in func
  BY <1>1 DEF ContextInv, Entry
<1>3. cpu' \in Cpus /\ cpu'.sp = cpu.sp
  <2>1. Scratch \in RegFiles
    BY DEF Scratch, RegFiles, Unused
  <2> QED
    BY <1>1, <1>2, <2>1 DEF Types, Cpus
<1>4. /\ current' \in Thread \cup {NULL}
      /\ softvec' \subseteq Softvec /\ softvec \subseteq softvec'
  <2>1. SERINTR \in Softvec
    BY DEF Softvec, SOFTERR, SERINTR
  <2> QED
    BY <1>1, <1>2, <2>1 DEF Types, syscall_intr
<1>5. ASSUME func' \subseteq Thread, ram' \in Memory, context' \in [Thread -> Address],
             call' \in [Thread -> [type : Int, param : Int]], Layout',
             \A u \in func' : FrameOn(u, context[u])' /\ IsMade(call'[u], Processor(u)')
      PROVE  ContextInv'
  <2>1. Types'
    BY <1>1, <1>2, <1>3, <1>4, <1>5 DEF Types
  <2>2. Places'
    BY <1>1, <1>5 DEF Places, Saved
  <2>3. Entry'
    BY <1>1, <1>2, <1>4 DEF Entry, InService
  <2>4. CallsInv'
    BY <1>1, <1>5 DEF CallsInv, InService
  <2> QED
    BY <1>5, <2>1, <2>2, <2>3, <2>4 DEF ContextInv
<1>6. CASE UNCHANGED <<func, context, call, stack, ram, areas>>
           /\ ~(entry = SYSCALL /\ call[current].type \in {RUN, EXIT}) /\ entry # SOFTERR
  <2>1. \A u \in func : Processor(u)' = Processor(u) /\ FrameOn(u, context[u])'
    BY <1>1, <1>2, <1>6, FrameStays
  <2>2. Kept
    BY <1>6, <2>1 DEF Kept
  <2>3. \A u \in func' : IsMade(call'[u], Processor(u)')
    BY <1>2, <1>6, <2>1 DEF CallsInv
  <2>4. Layout'
    BY <1>2, <1>6, LayoutKept
  <2>5. ContextInv'
    BY <1>2, <1>5, <1>6, <2>1, <2>3, <2>4 DEF Types
  <2> QED
    BY <1>1, <1>6, <2>2, <2>5 DEF Serves
<1>7. CASE thread_exit /\ ((entry = SYSCALL /\ call[current].type = EXIT) \/ entry = SOFTERR)
  <2>1. /\ func' = func \ {current}
        /\ ram' \in Memory /\ context' \in [Thread -> Address] /\ Layout'
        /\ call' \in [Thread -> [type : Int, param : Int]]
        /\ \A u \in func' : /\ context'[u] = context[u] /\ stack'[u] = stack[u]
                            /\ call'[u] = call[u]
                            /\ \A x \in Area(stack[u]) : ram'[x] = ram[x]
    BY <1>2, <1>7, ExitStep
  <2>2. \A u \in func' : Processor(u)' = Processor(u) /\ FrameOn(u, context[u])'
    BY <1>1, <1>2, <2>1, FrameStays
  <2>3. \A u \in func' : IsMade(call'[u], Processor(u)')
    BY <1>2, <2>1, <2>2 DEF CallsInv
  <2>4. ContextInv'
    BY <1>2, <1>5, <2>1, <2>2, <2>3 DEF Types
  <2> QED
    BY <1>1, <1>7, <2>1, <2>2, <2>4 DEF Serves
<1>8. CASE /\ entry = SYSCALL /\ call[current].type = RUN
           /\ \E masked \in BOOLEAN : thread_run(masked)
  <2>1. PICK masked \in BOOLEAN : thread_run(masked)
    BY <1>8
  <2>2. PICK t \in Thread \ func :
           /\ func' = func \cup {t}
           /\ ram' \in Memory /\ context' \in [Thread -> Address] /\ Layout'
           /\ call' \in [Thread -> [type : Int, param : Int]]
           /\ FrameOn(t, context[t])' /\ call'[t] = NoCall
           /\ \A er : Frame(ram', er, 0, context'[t], stack'[t]) = Fresh(t, masked)
           /\ \A u \in func : /\ context'[u] = context[u] /\ stack'[u] = stack[u]
                              /\ call'[u] = call[u]
                              /\ \A x \in Area(stack[u]) : ram'[x] = ram[x]
    BY <1>2, <2>1, RunStep
  <2>3. \A u \in func : Processor(u)' = Processor(u) /\ FrameOn(u, context[u])'
    BY <1>1, <1>2, <2>2, FrameStays
  <2>4. Processor(t)' = Fresh(t, masked)
    BY <1>1, <2>2, FrameBegins
  <2>5. \A u \in func' : IsMade(call'[u], Processor(u)')
    BY <1>2, <2>2, <2>3, <2>4, FreshCall DEF CallsInv
  <2>6. ContextInv'
    BY <1>2, <1>5, <2>2, <2>3, <2>5 DEF Types
  <2> QED
    BY <1>1, <1>8, <2>2, <2>3, <2>4, <2>6 DEF Serves
<1>9. CASE entry = SYSCALL /\ syscall_intr
  BY <1>6, <1>7, <1>8, <1>9 DEF syscall_intr, tcbs, SYSCALL, SOFTERR
<1>10. CASE entry = SERINTR /\ UNCHANGED <<func, context, call, stack, ram, areas, softvec>>
  BY <1>6, <1>10 DEF SYSCALL, SOFTERR, SERINTR
<1> QED
  BY <1>1, <1>7, <1>9, <1>10
-----------------------------------------------------------------------------
(* kz_start is the first call, which nobody made. *)
Starting ==
  \E t \in Thread :
    /\ func = {} /\ func' = {t} /\ current' = t
    /\ Processor(t)' = Fresh(t, TRUE)

LEMMA StartStep ==
  ASSUME ContextInv, kz_start
  PROVE  ContextInv' /\ at' = "dispatch" /\ Starting
<1>1. /\ at = "boot" /\ at' = "dispatch" /\ softvec' = {SYSCALL, SOFTERR}
      /\ current' \in func' /\ UNCHANGED <<cpu, entry, reg>>
      /\ Types /\ Layout /\ Entry /\ func = {}
  BY DEF kz_start, ContextInv, Entry
<1>2. PICK t \in Thread \ func :
         /\ func' = func \cup {t}
         /\ ram' \in Memory /\ context' \in [Thread -> Address] /\ Layout'
         /\ call' \in [Thread -> [type : Int, param : Int]]
         /\ FrameOn(t, context[t])' /\ call'[t] = NoCall
         /\ \A er : Frame(ram', er, 0, context'[t], stack'[t]) = Fresh(t, TRUE)
  BY <1>1, RunStep DEF kz_start
<1>3. func' = {t} /\ current' = t
  BY <1>1, <1>2
<1>4. Processor(t)' = Fresh(t, TRUE)
  BY <1>1, <1>2, FrameBegins
<1>5. Types'
  <2>1. softvec' \subseteq Softvec
    BY <1>1 DEF Softvec, SYSCALL, SOFTERR, SERINTR
  <2> QED
    BY <1>1, <1>2, <1>3, <2>1 DEF Types
<1>6. Places'
  BY <1>1, <1>2, <1>3 DEF Places, Saved
<1>7. Entry'
  BY <1>1, <1>3 DEF Entry, InService
<1>8. CallsInv'
  <2>0. IsMade(NoCall, Fresh(t, TRUE))
    BY FreshCall
  <2>1. \A u \in func' : IsMade(call'[u], Processor(u)')
    <3>1. IsMade(call'[t], Processor(t)')
      BY <1>2, <1>4, <2>0
    <3> QED
      BY <1>3, <3>1
  <2> QED
    BY <1>1, <2>1 DEF CallsInv, InService
<1> QED
  BY <1>1, <1>2, <1>3, <1>4, <1>5, <1>6, <1>7, <1>8 DEF ContextInv, Starting

LEMMA InitContext == Init => ContextInv
<1> SUFFICES ASSUME Init PROVE ContextInv
  OBVIOUS
<1>1. /\ cpu = [er |-> Scratch, sp |-> BOOTSTACK, pc |-> BODY, masked |-> TRUE]
      /\ at = "boot" /\ entry = NULL /\ reg = 0
      /\ ram = [a \in Address |-> 0]
      /\ current = NULL
      /\ func = {} /\ context = [t \in Thread |-> 0]
      /\ call = [t \in Thread |-> NoCall] /\ stack = [t \in Thread |-> 0]
      /\ areas = 0 /\ softvec = {}
  BY DEF Init
<1>2. /\ Scratch \in RegFiles /\ INTRSTACK \in Int /\ INTRSTACK \in 0 .. INTRSTACK
      /\ 0 \in Address /\ 0 \in Reg /\ BOOTSTACK = INTRSTACK
      /\ NoCall \in [type : Int, param : Int] /\ BODY \in Code
  BY Numbers, CodeIs DEF Scratch, RegFiles, Unused, NoCall, RUN, BOOTSTACK
<1>3. cpu \in Cpus /\ cpu.sp = INTRSTACK
  BY <1>1, <1>2 DEF Cpus
<1>4. Types
  BY <1>1, <1>2, <1>3 DEF Types, Memory
<1>5. Layout
  <2>1. 0 \in 0 .. STACK_NUM
    BY ContextAssumption
  <2> QED
    BY <1>1, <1>2, <2>1 DEF Layout
<1>6. Places
  BY <1>1 DEF Places, Saved
<1>7. Entry
  BY <1>1, <1>3 DEF Entry, InService
<1>8. CallsInv
  BY <1>1 DEF CallsInv, InService
<1> QED
  BY <1>4, <1>5, <1>6, <1>7, <1>8 DEF ContextInv

LEMMA IdleStep ==
  ASSUME ContextInv, UNCHANGED vars
  PROVE  ContextInv' /\ Kept
<1>1. UNCHANGED <<cpu, at, entry, reg, ram, current, func, context, call, stack, areas, softvec>>
  BY DEF vars, tcbs
<1>2. \A t : Processor(t)' = Processor(t)
  BY <1>1 DEF Processor, Partly, Words
<1>3. Types' /\ Layout'
  BY <1>1, LayoutKept DEF ContextInv, Types
<1>4. Places'
  BY <1>1 DEF ContextInv, Places, Saved, FrameOn, OnStack
<1>5. Entry'
  BY <1>1 DEF ContextInv, Entry
<1>6. CallsInv'
  BY <1>1, <1>2 DEF ContextInv, CallsInv
<1> QED
  BY <1>1, <1>2, <1>3, <1>4, <1>5, <1>6 DEF ContextInv, Kept
-----------------------------------------------------------------------------
(* What a step is to the processors of the threads. *)
Instruction == at = "thread" /\ at' = "thread" /\ OthersGoOn /\ current' = current

Stops(v) ==
  /\ at = "thread" /\ at' = "save" /\ OthersGoOn /\ current' = current
  /\ entry' = IF v = 8 THEN SYSCALL ELSE IF v = 9 THEN SOFTERR ELSE SERINTR
  /\ Processor(current)' = IF v = Serial THEN Processor(current) ELSE Past(Processor(current))
  /\ v = Serial => ~cpu.masked

EntryCode ==
  \/ save \/ enter \/ interrupt \/ leave \/ restore \/ rte
  \/ thread_intr \/ schedule \/ dispatch

(* Every step keeps the invariant, and is one of six kinds. *)
LEMMA StepIs ==
  ASSUME ContextInv, KernelIsMasked, [Next]_vars
  PROVE  /\ ContextInv'
         /\ \/ EntryCode /\ Kept
            \/ at = "handler" /\ at' = "schedule" /\ Serves
            \/ at = "boot" /\ at' = "dispatch" /\ Starting
            \/ Instruction
            \/ \E v \in {8, 9, Serial} : Stops(v)
            \/ UNCHANGED vars /\ Kept
<1>1. CASE EntryCode
  BY <1>1, EntryStep DEF EntryCode
<1>2. CASE handler
  BY <1>2, HandlerStep DEF handler
<1>3. CASE kz_start
  BY <1>3, StartStep DEF kz_start
<1>4. CASE thread_init
  BY <1>4, ThreadInitStep DEF thread_init, Executes, Rest, Instruction
<1>5. CASE Compute
  BY <1>5, ComputeStep DEF Compute, Executes, Rest, Instruction
<1>6. ASSUME at = "thread", NEW v \in {8, 9, Serial}, NEW pc, Exception(v, pc),
             \/ v = 8 /\ cpu.pc = TRAPA /\ pc = BODY
             \/ v = 9 /\ pc = BODY
             \/ v = Serial /\ pc = cpu.pc /\ ~cpu.masked
      PROVE  ContextInv' /\ Stops(v)
  <2>1. /\ ContextInv' /\ OthersGoOn /\ current' = current /\ at' = "save"
        /\ entry' = IF v = 8 THEN SYSCALL ELSE IF v = 9 THEN SOFTERR ELSE SERINTR
        /\ Processor(current)' = [Processor(current) EXCEPT !.pc = pc]
    BY <1>6, StopStep
  <2>2. PICK p : p = Processor(current)
    OBVIOUS
  <2>3. p = Whole(ram, cpu, stack[current])
    BY <1>6, <2>2, RunningIs
  <2>4. [p EXCEPT !.pc = cpu.pc] = p
    BY <2>3 DEF Whole
  <2>5. v = Serial => Processor(current)' = Processor(current)
    BY <1>6, <2>1, <2>2, <2>4 DEF Serial
  <2>6. v # Serial => Processor(current)' = Past(Processor(current))
    BY <1>6, <2>1 DEF Past
  <2>7. v = Serial => ~cpu.masked
    BY <1>6 DEF Serial
  <2> QED
    BY <1>6, <2>1, <2>5, <2>6, <2>7 DEF Stops
<1>7. CASE kz_syscall
  <2>1. CASE Executes(TRAPA) /\ Exception(8, BODY)
    BY <1>6, <2>1 DEF Executes
  <2>2. CASE /\ \/ /\ Executes(BODY) /\ cpu' = [cpu EXCEPT !.pc = PARAM]
                   /\ call' = [call EXCEPT ![current].type = cpu.er[0]]
                \/ /\ Executes(PARAM) /\ cpu' = [cpu EXCEPT !.pc = TRAPA] /\ StoreParam
             /\ UNCHANGED <<Rest, ram>>
    BY <2>2, StoreStep DEF Executes, Rest, Instruction
  <2> QED
    BY <1>7, <2>1, <2>2 DEF kz_syscall
<1>8. CASE softerr
  BY <1>6, <1>8 DEF softerr, Executes
<1>9. CASE SerialInterrupt
  <2>1. at = "thread" /\ ~cpu.masked /\ Exception(Serial, cpu.pc)
    BY <1>9 DEF SerialInterrupt, KernelIsMasked
  <2> QED
    BY <1>6, <2>1
<1>10. CASE UNCHANGED vars
  BY <1>10, IdleStep
<1> QED
  BY <1>1, <1>2, <1>3, <1>4, <1>5, <1>7, <1>8, <1>9, <1>10 DEF Next, Kernel, EntryCode, Idle
-----------------------------------------------------------------------------
(* The invariants hold for ever. *)
LEMMA InvariantContext == Spec => [](ContextInv /\ KernelIsMasked)
<1>1. ContextInv /\ KernelIsMasked /\ [Next]_vars => ContextInv'
  BY StepIs
<1> QED
  BY <1>1, InitContext, KernelMasked, PTL DEF Spec

(* The registers, the memory, the stack pointer and the variables of the kernel
   have their types: no stage of the entry code pushes, pops or saves outside of
   the memory, whatever the sizes of stacks and register files. *)
THEOREM ContextTypeCorrect == Spec => []TypeOK
<1>1. ContextInv => TypeOK
  <2> SUFFICES ASSUME ContextInv PROVE TypeOK
    OBVIOUS
  <2>1. DOMAIN cpu.er = Reg /\ cpu.sp \in Address \cup {INTRSTACK} /\ cpu.pc \in Code /\ cpu.masked \in BOOLEAN
    <3>1. Address \cup {INTRSTACK} = 0 .. INTRSTACK
      BY Numbers
    <3> QED
      BY <3>1 DEF ContextInv, Types, Cpus, RegFiles
  <2>2. DOMAIN ram = Address
    BY DEF ContextInv, Types, Memory
  <2> QED
    BY <2>1, <2>2 DEF ContextInv, Types, Layout, TypeOK
<1> QED
  BY <1>1, InvariantContext, PTL

(* The call the kernel serves is the one its caller made: kz_syscall stores the
   type and the parameter in two steps, with interrupts and calls of others in
   between, and both are what er0 and er1 of the caller were. *)
THEOREM ContextCallIsCallers == Spec => []CallIsCallers
<1>1. ContextInv => CallIsCallers
  <2> SUFFICES ASSUME ContextInv, at = "handler", entry = SYSCALL
               PROVE  /\ call[current].type = ram[context[current]]
                      /\ call[current].param = ram[context[current] + 1]
    BY DEF CallIsCallers
  <2>1. IsServed(call[current], Processor(current)) /\ current \in func
    BY DEF ContextInv, CallsInv, Entry, InService
  <2>2. PICK a : a = context[current]
    OBVIOUS
  <2>3. a \in Int
    BY <2>1, <2>2, Numbers DEF ContextInv, Types
  <2>4. Processor(current) = Frame(ram, cpu.er, 0, a, stack[current])
    <3>1. InPlaces
      BY Stages
    <3> QED
      BY <2>2, <3>1 DEF InPlaces, InPlace, FrameOf
  <2>5. a + 0 - 0 = a /\ a + 1 - 0 = a + 1 /\ 0 \in Reg /\ 1 \in Reg
    BY <2>3, Numbers
  <2>6. Processor(current).er[0] = ram[a] /\ Processor(current).er[1] = ram[a + 1]
    BY <2>4, <2>5 DEF Frame
  <2> QED
    BY <2>1, <2>2, <2>6 DEF IsServed
<1> QED
  BY <1>1, InvariantContext, PTL

(* The frame of every thread that is not running lies in its own stack area, and
   no two areas meet: what thread_run and thread_stack hand out and what the
   entry code pushes stay apart for any number of threads and areas. *)
THEOREM ContextFramesInPlace == Spec => []FramesInPlace
<1>1. ContextInv => FramesInPlace
  <2> SUFFICES ASSUME ContextInv PROVE FramesInPlace
    OBVIOUS
  <2>1. ASSUME NEW t \in Saved
        PROVE  context[t] \in stack[t] - STACK .. stack[t] - 1 - FRAME
    <3>1. t \in func /\ FrameOn(t, context[t])
      BY <2>1 DEF ContextInv, Places, Saved
    <3>2. stack[t] \in Int
      BY <3>1, AreasApart DEF ContextInv
    <3> QED
      BY <3>1, <3>2, Sizes DEF FrameOn
  <2>2. ASSUME NEW t \in func, NEW u \in func, t # u
        PROVE  stack[t] - stack[u] \notin -STACK + 1 .. STACK - 1
    <3>1. stack[t] \in Int /\ stack[u] \in Int
      BY AreasApart DEF ContextInv
    <3>2. stack[t] + STACK <= stack[u] \/ stack[u] + STACK <= stack[t]
      BY <2>2 DEF ContextInv, Layout
    <3> QED
      BY <3>1, <3>2, Sizes
  <2> QED
    BY <2>1, <2>2 DEF FramesInPlace
<1> QED
  BY <1>1, InvariantContext, PTL
-----------------------------------------------------------------------------
(* The refinement. *)
OwnProcessors == [t \in func |-> Processor(t)]

Runs == IF at = "thread" THEN current ELSE NULL

LEMMA InitEach == Init => Each!Init
<1> SUFFICES ASSUME Init PROVE Each!Init
  OBVIOUS
<1>1. func = {} /\ at = "boot"
  BY DEF Init
<1>2. Request = [type |-> SYSCALL, from |-> NULL]
  BY <1>1 DEF Request
<1> QED
  BY <1>1, <1>2 DEF Each!Init

LEMMA KeptProcessors == ASSUME Kept PROVE OwnProcessors' = OwnProcessors
BY DEF Kept, OwnProcessors

RequestIs ==
  /\ at = "boot" => Request = [type |-> SYSCALL, from |-> NULL]
  /\ at \in InService => Request = [type |-> entry, from |-> current]
  /\ at \notin InService \cup {"boot"} => Request = [type |-> NULL, from |-> NULL]

LEMMA Requests == RequestIs
BY DEF RequestIs, Request, InService

(* The entry code: seen only when it leaves a vector that has no handler, and
   when the thread goes on. *)
LEMMA EntryEach ==
  ASSUME ContextInv, ContextInv', EntryCode, Kept, NULL \notin Thread \cup Softvec
  PROVE  [Each!Next]_(Each!vars)
<1>1. /\ RequestIs /\ RequestIs'
      /\ [t \in func' |-> Processor(t)'] = [t \in func |-> Processor(t)]
      /\ Entry /\ Entry' /\ Types
  <2>1. RequestIs'
    BY Requests, PTL
  <2> QED
    BY <2>1, Requests, KeptProcessors DEF OwnProcessors, ContextInv
<1>2. CASE rte
  <2>1. at = "rte" /\ at' = "thread" /\ current' = current /\ current' \in func'
    BY <1>1, <1>2 DEF rte, Entry
  <2>2. func' = func
    BY DEF Kept
  <2>3. Request = [type |-> NULL, from |-> NULL] /\ Request' = Request
    BY <1>1, <2>1 DEF RequestIs, InService
  <2> QED
    BY <1>1, <2>1, <2>2, <2>3 DEF Each!Next, Each!Resume, Each!Alive
<1>3. CASE interrupt /\ at' = "leave"
  <2>1. at = "interrupt" /\ current' = current /\ entry' = entry /\ entry \notin softvec
    BY <1>1, <1>3 DEF interrupt, Entry
  <2>2. entry \in Softvec /\ entry \notin {SYSCALL, SOFTERR} /\ entry # NULL
    BY <1>1, <2>1 DEF Entry, InService
  <2>3. /\ Request = [type |-> entry, from |-> current]
        /\ Request' = [type |-> NULL, from |-> NULL]
    BY <1>1, <1>3, <2>1 DEF RequestIs, InService
  <2> QED
    BY <1>1, <1>3, <2>1, <2>2, <2>3
    DEF Each!Next, Each!Serve, Each!Served, Each!Starts, Each!Ends, Each!Calls
<1>4. CASE ~rte /\ ~(interrupt /\ at' = "leave")
  <2>1. Request' = Request
    <3>1. CASE save
      BY <1>1, <3>1 DEF save, RequestIs, InService
    <3>2. CASE enter
      BY <1>1, <3>2 DEF enter, RequestIs, InService
    <3>3. CASE interrupt
      BY <1>1, <1>4, <3>3 DEF interrupt, RequestIs, InService
    <3>4. CASE leave
      BY <1>1, <3>4 DEF leave, RequestIs, InService
    <3>5. CASE restore
      BY <1>1, <3>5 DEF restore, RequestIs, InService
    <3>6. CASE thread_intr
      BY <1>1, <3>6 DEF thread_intr, RequestIs, InService
    <3>7. CASE schedule
      BY <1>1, <3>7 DEF schedule, RequestIs, InService
    <3>8. CASE dispatch
      BY <1>1, <3>8 DEF dispatch, RequestIs, InService
    <3> QED
      BY <1>4, <3>1, <3>2, <3>3, <3>4, <3>5, <3>6, <3>7, <3>8 DEF EntryCode
  <2>2. at # "thread" /\ at' # "thread"
    BY <1>4 DEF EntryCode, save, enter, interrupt, leave, restore, thread_intr, schedule, dispatch
  <2> QED
    BY <1>1, <2>1, <2>2 DEF Each!vars
<1> QED
  BY <1>2, <1>3, <1>4

LEMMA ServeEach ==
  ASSUME ContextInv, at = "handler", at' = "schedule", Serves, NULL \notin Thread \cup Softvec
  PROVE  Each!Serve
<1>1. RequestIs /\ RequestIs'
  <2>1. RequestIs'
    BY Requests, PTL
  <2> QED
    BY <2>1, Requests
<1>2. /\ Request = [type |-> entry, from |-> current]
      /\ Request' = [type |-> NULL, from |-> NULL]
  BY <1>1 DEF RequestIs, InService
<1>3. entry \in Softvec /\ current \in func /\ func \subseteq Thread /\ entry # NULL /\ current # NULL
  BY DEF ContextInv, Types, Entry, InService
<1>4. entry = SYSCALL => Processor(current).er[0] = call[current].type
  BY DEF ContextInv, CallsInv, InService, IsServed
<1> DEFINE p == [t \in func |-> Processor(t)]
<1>5. p[current] = Processor(current)
  BY <1>3
<1>6. \A c : Each!Calls(c) <=> (entry = SYSCALL /\ call[current].type = c)
  BY <1>2, <1>3, <1>4, <1>5 DEF Each!Calls
<1>7. /\ Each!Starts <=> (entry = SYSCALL /\ call[current].type = RUN)
      /\ Each!Ends <=> (entry = SOFTERR \/ (entry = SYSCALL /\ call[current].type = EXIT))
  BY <1>2, <1>3, <1>6 DEF Each!Starts, Each!Ends
<1>8. \/ Each!Starts /\ \E t \in Thread \ Each!Alive, masked \in BOOLEAN : Each!Start(t, masked)
      \/ Each!Ends /\ Each!End(current)
      \/ ~Each!Starts /\ ~Each!Ends /\ [t \in func' |-> Processor(t)'] = p
  <2>1. CASE /\ Kept
             /\ ~(entry = SYSCALL /\ call[current].type \in {RUN, EXIT}) /\ entry # SOFTERR
    <3>1. [t \in func' |-> Processor(t)'] = p
      BY <2>1, KeptProcessors DEF OwnProcessors
    <3> QED
      BY <1>7, <2>1, <3>1
  <2>2. CASE /\ func' = func \ {current} /\ \A u \in func' : Processor(u)' = Processor(u)
             /\ (entry = SYSCALL /\ call[current].type = EXIT) \/ entry = SOFTERR
    <3>1. [t \in func' |-> Processor(t)'] = [u \in func \ {current} |-> p[u]]
      BY <2>2
    <3> QED
      BY <1>7, <2>2, <3>1 DEF Each!End, Each!Alive
  <2>3. CASE /\ entry = SYSCALL /\ call[current].type = RUN
             /\ \E t \in Thread \ func, masked \in BOOLEAN :
                  /\ func' = func \cup {t} /\ Processor(t)' = Fresh(t, masked)
                  /\ \A u \in func : Processor(u)' = Processor(u)
    <3>1. PICK t \in Thread \ func, masked \in BOOLEAN :
             /\ func' = func \cup {t} /\ Processor(t)' = Fresh(t, masked)
             /\ \A u \in func : Processor(u)' = Processor(u)
      BY <2>3
    <3>2. [u \in func' |-> Processor(u)']
            = [u \in func \cup {t} |-> IF u = t THEN Fresh(t, masked) ELSE p[u]]
      BY <3>1
    <3>3. Each!Start(t, masked)
      BY <3>2 DEF Each!Start, Each!Alive
    <3> QED
      BY <1>7, <2>3, <3>1, <3>3 DEF Each!Alive
  <2> QED
    BY <2>1, <2>2, <2>3 DEF Serves
<1> QED
  BY <1>2, <1>3, <1>8 DEF Each!Serve, Each!Served

LEMMA StartEach ==
  ASSUME at = "boot", at' = "dispatch", Starting, NULL \notin Thread \cup Softvec
  PROVE  Each!Serve
<1>1. RequestIs /\ RequestIs'
  <2>1. RequestIs'
    BY Requests, PTL
  <2> QED
    BY <2>1, Requests
<1>2. /\ Request = [type |-> SYSCALL, from |-> NULL]
      /\ Request' = [type |-> NULL, from |-> NULL] /\ SYSCALL # NULL
  <2>1. SYSCALL \in Softvec
    BY DEF Softvec, SYSCALL, SOFTERR, SERINTR
  <2> QED
    BY <1>1, <2>1 DEF RequestIs, InService
<1>3. Each!Starts
  BY <1>2 DEF Each!Starts
<1>4. PICK t \in Thread : func = {} /\ func' = {t} /\ Processor(t)' = Fresh(t, TRUE)
  BY DEF Starting
<1>5. Each!Start(t, TRUE)
  BY <1>4 DEF Each!Start, Each!Alive
<1> QED
  BY <1>2, <1>3, <1>4, <1>5 DEF Each!Serve, Each!Served, Each!Alive

LEMMA InstructionEach ==
  ASSUME ContextInv, Instruction, NULL \notin Thread \cup Softvec
  PROVE  Each!Compute
<1>1. RequestIs'
  BY Requests, PTL
<1>2. Request' = Request
  BY <1>1, Requests DEF RequestIs, Instruction, InService
<1>3. current \in func /\ current # NULL
  BY DEF ContextInv, Types, Entry, Instruction
<1> QED
  BY <1>2, <1>3 DEF Each!Compute, Each!Alive, Instruction, OthersGoOn

LEMMA StopEach ==
  ASSUME ContextInv, NEW v \in {8, 9, Serial}, Stops(v), NULL \notin Thread \cup Softvec
  PROVE  Each!Next
<1>1. RequestIs'
  BY Requests, PTL
<1>2. /\ at = "thread" /\ at' = "save" /\ current' = current /\ func' = func
      /\ \A u \in func \ {current} : Processor(u)' = Processor(u)
      /\ entry' = IF v = 8 THEN SYSCALL ELSE IF v = 9 THEN SOFTERR ELSE SERINTR
      /\ Processor(current)' = IF v = Serial THEN Processor(current) ELSE Past(Processor(current))
      /\ v = Serial => ~cpu.masked
  BY DEF Stops, OthersGoOn
<1>3. current \in func /\ current # NULL
  BY <1>2 DEF ContextInv, Types, Entry
<1>4. Request' = [type |-> entry', from |-> current]
  BY <1>1, <1>2 DEF RequestIs, InService
<1>5. CASE v # Serial
  <2>1. entry' \in {SYSCALL, SOFTERR}
    BY <1>2, <1>5
  <2>2. [t \in func' |-> Processor(t)']
          = [[t \in func |-> Processor(t)] EXCEPT ![current] = Past(@)]
    BY <1>2, <1>3, <1>5
  <2>3. Each!Trap(entry')
    BY <1>2, <1>3, <1>4, <2>2 DEF Each!Trap
  <2> QED
    BY <2>1, <2>3 DEF Each!Next
<1>6. CASE v = Serial
  <2>1. Processor(current) = Whole(ram, cpu, stack[current])
    BY <1>2, RunningIs
  <2>2. Processor(current).masked = cpu.masked
    BY <2>1 DEF Whole
  <2>3. [t \in func' |-> Processor(t)'] = [t \in func |-> Processor(t)]
    BY <1>2, <1>6
  <2>4. entry' = SERINTR
    BY <1>2, <1>6 DEF Serial
  <2>5. [t \in func |-> Processor(t)][current] = Processor(current)
    BY <1>3
  <2>6. Each!Interrupt
    BY <1>2, <1>3, <1>4, <1>6, <2>2, <2>3, <2>4, <2>5 DEF Each!Interrupt
  <2> QED
    BY <2>6 DEF Each!Next
<1> QED
  BY <1>5, <1>6

LEMMA StepEach ==
  ASSUME ContextInv, ContextInv', KernelIsMasked, [Next]_vars
  PROVE  [Each!Next]_(Each!vars)
<1>1. NULL \notin Thread \cup Softvec
  BY ContextAssumption
<1>2. CASE EntryCode /\ Kept
  BY <1>1, <1>2, EntryEach
<1>3. CASE at = "handler" /\ at' = "schedule" /\ Serves
  BY <1>1, <1>3, ServeEach DEF Each!Next
<1>4. CASE at = "boot" /\ at' = "dispatch" /\ Starting
  BY <1>1, <1>4, StartEach DEF Each!Next
<1>5. CASE Instruction
  BY <1>1, <1>5, InstructionEach DEF Each!Next
<1>6. ASSUME NEW v \in {8, 9, Serial}, Stops(v) PROVE Each!Next
  BY <1>1, <1>6, StopEach
<1>7. CASE UNCHANGED vars /\ Kept
  <2>1. UNCHANGED <<at, entry, current, func>>
    BY <1>7 DEF vars, tcbs
  <2>2. RequestIs'
    BY Requests, PTL
  <2>3. Request' = Request
    BY <2>1, <2>2, Requests DEF RequestIs
  <2>4. [t \in func' |-> Processor(t)'] = [t \in func |-> Processor(t)]
    BY <1>7, KeptProcessors DEF OwnProcessors
  <2> QED
    BY <2>1, <2>3, <2>4 DEF Each!vars
<1> QED
  BY <1>2, <1>3, <1>4, <1>5, <1>6, <1>7, StepIs

(* Every thread computes as if it had a processor of its own: the entry code,
   thread_intr, the handlers, dispatch and kz_syscall, step by step, do to the
   threads what the module Processors does in one, or nothing. *)
THEOREM ContextImplementsProcessors == Spec => ImplementsProcessors
<1>1. ContextInv /\ ContextInv' /\ KernelIsMasked /\ [Next]_vars => [Each!Next]_(Each!vars)
  BY StepEach
<1> QED
  BY <1>1, InitEach, InvariantContext, PTL DEF Spec, ImplementsProcessors, Each!Spec
=============================================================================
