------------------------------- MODULE KzPool -------------------------------
(***************************************************************************)
(* The fixed-size block pools of os/memory.c, as operators on one value:   *)
(*   m.free[i]  the `free' field of pool[i], its first free block or NULL; *)
(*   m.next[b]  the `next' field in the header of block b.                 *)
(* A block is <<i, j>>, the j-th block of pool i, standing for its address *)
(* (area + size * j).  The `size' field of a header is written once by     *)
(* kzmem_init_pool and is a function of the block.                         *)
(***************************************************************************)
EXTENDS LinkedList

CONSTANTS
  PoolSize,     \* block size of each pool, header included: <<16, 32, 64>>
  PoolNum,      \* how many blocks each pool has: <<8, 8, 4>>
  HEADER_SIZE,  \* sizeof(kzmem_block): a pointer, an int and padding
  STATIC        \* a pointer to static storage: no header precedes it

Pool  == 1 .. Len(PoolSize)
Block == UNION {{i} \X (0 .. PoolNum[i] - 1) : i \in Pool}

ASSUME PoolAssumption ==
  /\ PoolSize \in Seq(Nat) /\ PoolNum \in Seq(Nat \ {0})
  /\ Len(PoolNum) = Len(PoolSize)
  /\ \A i, j \in Pool : i < j => PoolSize[i] < PoolSize[j]
  /\ HEADER_SIZE \in Nat
  /\ NULL \notin Block /\ STATIC \notin Block /\ NULL # STATIC

Pools == [free : [Pool -> Block \cup {NULL}],
          next : [Block -> Block \cup {NULL}]]

(* Mutants, each a slip the code could have made.  The list of a pool runs into
   the block after its last one: *)
kzmem_init_TooLong ==
  [free |-> [i \in Pool |-> <<i, 0>>],
   next |-> [b \in Block |-> <<b[1], b[2] + 1>>]]

(* the size test forgets that size may just fill the block: *)
Fits_Strict(m, size, i) == m.free[i] # NULL /\ size < PoolSize[i] - HEADER_SIZE

(* the pool keeps pointing to the block it has handed out: *)
kzmem_alloc_KeepsHead(m, i) == [m EXCEPT !.next[m.free[i]] = @]

(* the rest of the list is cut off before the pool has taken it over: *)
kzmem_alloc_CutsList(m, i) == [m EXCEPT !.next[m.free[i]] = NULL, !.free[i] = NULL]

(* a freed block forgets to point to the ones freed before: *)
kzmem_free_DropsList(m, b) == [m EXCEPT !.free[b[1]] = b]

(* a freed block is made the head before it is pointed to the old head: *)
kzmem_free_Swapped(m, b) == [m EXCEPT !.free[b[1]] = b, !.next[b] = b]

(* Every block on the list of its pool, in address order. *)
kzmem_init ==
  [free |-> [i \in Pool |-> <<i, 0>>],
   next |-> [b \in Block |-> IF b[2] + 1 < PoolNum[b[1]]
                             THEN <<b[1], b[2] + 1>> ELSE NULL]]

(* Pool i has a free block with room for `size' bytes after the header. *)
Fits(m, size, i) == m.free[i] # NULL /\ size <= PoolSize[i] - HEADER_SIZE

(* The search loop of kzmem_alloc stops at pool i. *)
FirstFit(m, size, i) == Fits(m, size, i) /\ \A j \in 1 .. i - 1 : ~Fits(m, size, j)

(* No pool will do: kzmem_alloc calls kz_sysdown and does not return. *)
NoFit(m, size) == \A i \in Pool : ~Fits(m, size, i)

(* kzmem_alloc once its loop has stopped at pool i: the block returned is
   m.free[i], and the pools are left as follows. *)
kzmem_alloc(m, i) ==
  [m EXCEPT !.free[i] = m.next[m.free[i]], !.next[m.free[i]] = NULL]

(* kzmem_free finds the pool by the size in the header, here the size of the
   pool the block was cut from, and conses the block onto its list. *)
kzmem_free(m, b) ==
  LET i == CHOOSE k \in Pool : PoolSize[k] = PoolSize[b[1]]
  IN  [m EXCEPT !.next[b] = m.free[i], !.free[i] = b]
=============================================================================
