----------------------------- MODULE LinkedList -----------------------------
(***************************************************************************)
(* The singly linked lists of the kernel, read as sets and as sequences.   *)
(* The C code keeps three kinds of list (ready queues, message boxes, free *)
(* blocks), each a first pointer and a `next' field in its elements.  The  *)
(* models keep the pointers; this module is how properties and refinement  *)
(* mappings read them.                                                     *)
(***************************************************************************)
EXTENDS Integers, Sequences, FiniteSets

CONSTANT NULL   \* the null pointer, the end of every list

(* The node reached from `first' after i steps along `next', NULL once the
   list has ended. *)
NodeAt(next, first, n) ==
  LET node[i \in 0..n] ==
        IF i = 0 THEN first
        ELSE LET before == node[i - 1] IN
             IF before = NULL THEN NULL ELSE next[before]
  IN  node

(* The first n nodes of a list, in order.  A list without a cycle over at
   most n nodes is read completely; a cycle shows up as a repetition. *)
ListSeq(next, first, n) ==
  LET node   == NodeAt(next, first, n)
      length == Cardinality({i \in 1..n : node[i - 1] # NULL})
  IN  [i \in 1..length |-> node[i - 1]]

ListNodes(next, first, n) ==
  LET seq == ListSeq(next, first, n)
  IN  {seq[i] : i \in 1..Len(seq)}

(* No node is met twice. *)
IsAcyclic(next, first, n) ==
  LET node == NodeAt(next, first, n)
  IN  \A i, j \in 0..n : i # j /\ node[i] = node[j] => node[i] = NULL
=============================================================================
