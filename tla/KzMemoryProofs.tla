--------------------------- MODULE KzMemoryProofs ---------------------------
(***************************************************************************)
(* The memory manager for any number of pools and blocks.  That the head   *)
(* of a free list is held by nobody is not inductive: the block behind it, *)
(* which an allocation makes the new head, must be free too, and so on to  *)
(* the end.  The invariant is therefore about whole lists: each holds the  *)
(* blocks of its pool that no client has, every one of them once.          *)
(***************************************************************************)
EXTENDS KzMemory, KzPoolProofs

MemInv == TypeOK /\ ExactLists(mem, held)
-----------------------------------------------------------------------------
LEMMA InitInv == Init => MemInv
BY InitPools, InitLists DEF Init, MemInv, TypeOK

LEMMA NextInv == MemInv /\ [Next]_vars => MemInv'
<1> SUFFICES ASSUME MemInv, [Next]_vars PROVE MemInv'
  OBVIOUS
<1>0. mem \in Pools /\ held \in SUBSET Block /\ down \in BOOLEAN /\ ExactLists(mem, held)
  BY DEF MemInv, TypeOK
<1>1. ASSUME NEW size \in Sizes, Alloc(size) PROVE MemInv'
  <2>1. ASSUME NEW i \in Pool, FirstFit(mem, size, i), mem' = kzmem_alloc(mem, i),
               held' = held \cup {mem.free[i]}, UNCHANGED down
        PROVE  MemInv'
    <3>1. mem.free[i] # NULL
      BY <2>1 DEF FirstFit, Fits
    <3>2. mem.free[i] \in Block /\ mem' \in Pools
      BY <1>0, <2>1, <3>1, AllocPools
    <3>3. ExactLists(mem', held')
      BY <1>0, <2>1, <3>1, AllocLists
    <3> QED
      BY <1>0, <2>1, <3>2, <3>3 DEF MemInv, TypeOK
  <2>2. CASE down' = TRUE /\ UNCHANGED <<mem, held>>
    BY <1>0, <2>2 DEF MemInv, TypeOK
  <2> QED
    BY <1>1, <2>1, <2>2 DEF Alloc
<1>2. ASSUME NEW b \in Block, Free(b) PROVE MemInv'
  <2>1. b \in held /\ mem' = kzmem_free(mem, b) /\ held' = held \ {b} /\ down' = down
    BY <1>2 DEF Free
  <2>2. mem' \in Pools
    BY <1>0, <2>1, FreePools
  <2>3. ExactLists(mem', held')
    BY <1>0, <2>1, FreeLists
  <2> QED
    BY <1>0, <2>1, <2>2, <2>3 DEF MemInv, TypeOK
<1>3. CASE FreeStatic
  BY <1>0, <1>3 DEF FreeStatic, MemInv, TypeOK
<1>4. CASE UNCHANGED vars
  BY <1>0, <1>4 DEF vars, MemInv, TypeOK
<1> QED
  BY <1>1, <1>2, <1>3, <1>4 DEF Next, Spin

(* The memory manager keeps the invariant its free lists rest on, *)
THEOREM MemoryInvariant == Spec => []MemInv
BY InitInv, NextInv, PTL DEF Spec

(* and its variables their types. *)
THEOREM MemoryTypes == Spec => []TypeOK
<1>1. MemInv => TypeOK
  BY DEF MemInv
<1> QED
  BY MemoryInvariant, <1>1, PTL

(* No block is lost and none is on a list twice: the list kzmem_alloc takes
   from and kzmem_free adds to holds exactly the blocks of its pool that no
   client has, whatever clients ask for and in whatever order they free. *)
THEOREM MemoryFreeListsExact == Spec => []FreeListsExact
<1>1. ASSUME MemInv PROVE FreeListsExact
  <2> SUFFICES ASSUME NEW i \in Pool
               PROVE  /\ FreeBlocks(i) = {b \in Block : b[1] = i} \ held
                      /\ IsAcyclic(mem.next, mem.free[i], Cardinality(Block))
    BY DEF FreeListsExact
  <2>1. PICK s \in Seq(Block) : /\ IsList(mem.next, mem.free[i], s)
                                /\ Nodes(s) = PoolBlocks(i) \ held
    BY <1>1 DEF MemInv, ExactLists
  <2> QED
    BY <2>1, FreeSeqIs DEF FreeBlocks, PoolBlocks
<1> QED
  BY <1>1, MemoryInvariant, PTL

(* kzmem_alloc never gives a client a block that another still has. *)
THEOREM MemoryNoDoubleAlloc == Spec => NoDoubleAlloc
<1>1. ASSUME MemInv, NEW size \in Sizes, Alloc(size), ~down'
      PROVE  \E b \in Block \ held : held' = held \cup {b}
  <2>1. PICK i \in Pool : FirstFit(mem, size, i) /\ held' = held \cup {mem.free[i]}
    BY <1>1 DEF Alloc
  <2>2. mem.free[i] \in PoolBlocks(i) \ held
    BY <1>1, <2>1, AllocLists DEF FirstFit, Fits, MemInv, TypeOK
  <2> QED
    BY <2>1, <2>2 DEF PoolBlocks
<1>2. MemInv => [\A size \in Sizes : Alloc(size) =>
                   \/ down'
                   \/ \E b \in Block \ held : held' = held \cup {b}]_vars
  BY <1>1
<1> QED
  BY MemoryInvariant, <1>2, PTL DEF NoDoubleAlloc

(* Its search, which tries the pools in order of size and skips those that have
   run out, finds a block of the smallest pool with room for the request that
   has any left, and gives the system up only when there is none. *)
SmallestFitStep(size) ==
  LET left == {b \in Block \ held : size <= PoolSize[b[1]] - HEADER_SIZE}
  IN  IF left = {} THEN down'
      ELSE ~down' /\ \E b \in left :
                        /\ held' = held \cup {b}
                        /\ \A c \in left : b[1] <= c[1]

LEMMA AllocSmallest ==
  ASSUME MemInv, NEW size \in Sizes, Alloc(size)
  PROVE  SmallestFitStep(size)
<1> DEFINE left == {b \in Block \ held : size <= PoolSize[b[1]] - HEADER_SIZE}
<1>1. ASSUME NEW c \in left PROVE c[1] \in Pool /\ Fits(mem, size, c[1])
  BY <1>1, UsedUp, BlockPool DEF Fits, MemInv
<1>2. ASSUME NEW i \in Pool, FirstFit(mem, size, i), held' = held \cup {mem.free[i]}
      PROVE  /\ mem.free[i] \in left
             /\ \A c \in left : mem.free[i][1] <= c[1]
  <2>1. mem.free[i] \in PoolBlocks(i) \ held
    BY <1>2, AllocLists DEF FirstFit, Fits, MemInv, TypeOK
  <2>2. mem.free[i] \in left /\ mem.free[i][1] = i
    BY <1>2, <2>1 DEF PoolBlocks, FirstFit, Fits
  <2>3. ASSUME NEW c \in left PROVE i <= c[1]
    <3>1. c[1] \in Pool /\ c[1] \notin 1 .. i - 1
      BY <1>1, <1>2, <2>3 DEF FirstFit
    <3>2. i \in Nat /\ c[1] \in Nat /\ 1 <= c[1]
      BY <3>1 DEF Pool
    <3> QED
      BY <3>1, <3>2
  <2> QED
    BY <2>2, <2>3
<1>3. CASE NoFit(mem, size) /\ down' = TRUE
  <2>1. left = {}
    BY <1>1, <1>3 DEF NoFit
  <2> QED
    BY <1>3, <2>1 DEF SmallestFitStep
<1>4. CASE \E i \in Pool : /\ FirstFit(mem, size, i)
                           /\ held' = held \cup {mem.free[i]}
                           /\ down' = down /\ ~down
  BY <1>2, <1>4 DEF SmallestFitStep
<1> QED
  BY <1>3, <1>4 DEF Alloc

(* What kzmem_alloc does, for pools of any number and size: the request gets a
   block of the smallest pool that can serve it, and the system goes down only
   when no pool can. *)
THEOREM MemorySmallestFit == Spec => SmallestFit
<1>1. MemInv => [\A size \in Sizes : Alloc(size) => SmallestFitStep(size)]_vars
  BY AllocSmallest
<1> QED
  BY MemoryInvariant, <1>1, PTL DEF SmallestFit, SmallestFitStep
=============================================================================
