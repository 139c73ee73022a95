------------------------------ MODULE KzMemory ------------------------------
(***************************************************************************)
(* The memory manager of os/memory.c with its clients.  kzmem_init runs    *)
(* once, in kz_start; afterwards the kernel allocates and frees, one call  *)
(* at a time (every caller is inside a trap or an interrupt, with further  *)
(* interrupts masked).                                                     *)
(***************************************************************************)
EXTENDS KzPool, FiniteSets

CONSTANT Sizes   \* the sizes clients ask for

ASSUME SizesAssumption == Sizes \subseteq Nat

VARIABLES
  mem,    \* the pools
  held,   \* the blocks clients have been given and have not freed
  down    \* TRUE once kz_sysdown has been called

vars == <<mem, held, down>>

TypeOK == mem \in Pools /\ held \subseteq Block /\ down \in BOOLEAN

Init == mem = kzmem_init /\ held = {} /\ down = FALSE

(* kzmem_alloc(size). *)
Alloc(size) ==
  /\ ~down
  /\ \/ \E i \in Pool :
          /\ FirstFit(mem, size, i)
          /\ mem' = kzmem_alloc(mem, i)
          /\ held' = held \cup {mem.free[i]}
          /\ UNCHANGED down
     \/ /\ NoFit(mem, size)
        /\ down' = TRUE
        /\ UNCHANGED <<mem, held>>

(* kzmem_free(p) by a client that holds p. *)
Free(b) ==
  /\ ~down
  /\ b \in held
  /\ mem' = kzmem_free(mem, b)
  /\ held' = held \ {b}
  /\ UNCHANGED down

(* kzmem_free(p) for a pointer to static storage: what precedes it is the
   size of no pool, and the search ends in kz_sysdown. *)
FreeStatic ==
  /\ ~down
  /\ down' = TRUE
  /\ UNCHANGED <<mem, held>>

(* The endless loop of kz_sysdown. *)
Spin == down /\ UNCHANGED vars

Next ==
  \/ \E size \in Sizes : Alloc(size)
  \/ \E b \in Block : Free(b)
  \/ FreeStatic
  \/ Spin

Spec == Init /\ [][Next]_vars
-----------------------------------------------------------------------------
FreeBlocks(i) == ListNodes(mem.next, mem.free[i], Cardinality(Block))

(* Neither lost nor doubled: the free list of every pool is acyclic and holds
   exactly the blocks of that pool that no client has. *)
FreeListsExact ==
  \A i \in Pool :
    /\ FreeBlocks(i) = {b \in Block : b[1] = i} \ held
    /\ IsAcyclic(mem.next, mem.free[i], Cardinality(Block))

(* A block is never given to a second client while the first still has it. *)
NoDoubleAlloc ==
  [][\A size \in Sizes : Alloc(size) =>
       \/ down'
       \/ \E b \in Block \ held : held' = held \cup {b}]_vars

(* First fit over increasing sizes is best fit: an allocation takes a block of
   the smallest pool with room for the request that has any block left, and the
   system goes down only when every pool with room is used up. *)
SmallestFit ==
  [][\A size \in Sizes : Alloc(size) =>
       LET left == {b \in Block \ held : size <= PoolSize[b[1]] - HEADER_SIZE}
       IN  IF left = {} THEN down'
           ELSE ~down' /\ \E b \in left :
                             /\ held' = held \cup {b}
                             /\ \A c \in left : b[1] <= c[1]]_vars
=============================================================================
