---------------------------- MODULE KzPoolProofs ----------------------------
(***************************************************************************)
(* First, what the operators of LinkedList return for a list that is       *)
(* known: the pointers are a list s (IsList) exactly when following them   *)
(* from the first gives the nodes of s one after another; and what becomes *)
(* of s when nodes are taken off or put on the way the kernel does it.     *)
(* The operators read a list by recursion on its length.  Induction takes  *)
(* the form of a least element: if two functions differ, they differ at a  *)
(* least argument, where one step of the recursion makes them agree.       *)
(*                                                                         *)
(* Then, what the operators of the block pools do to values of the right   *)
(* type, and to the free lists: as long as these hold exactly the blocks   *)
(* of their pool that are not in use, they go on doing so.                 *)
(***************************************************************************)
EXTENDS KzPool, FiniteSetTheorems, SequenceTheorems, NaturalsInduction, WellFoundedInduction, TLAPS

(* s is the list that begins at `first': its elements in order, none of them
   twice, the last one pointing to nothing. *)
IsList(next, first, s) ==
  /\ first = IF Len(s) = 0 THEN NULL ELSE s[1]
  /\ \A i \in 1 .. Len(s) :
       /\ s[i] # NULL
       /\ next[s[i]] = IF i = Len(s) THEN NULL ELSE s[i + 1]
       /\ \A j \in 1 .. Len(s) : s[i] = s[j] => i = j

(* A set of natural numbers has a least element. *)
LEMMA LeastElement ==
  ASSUME NEW T \in SUBSET Nat, T # {}
  PROVE  \E i \in T : \A j \in T : i <= j
<1>1. PICK R : R = OpToRel(<, Nat)
  BY ZenonT(60)
<1>2. IsWellFoundedOn(R, Nat)
  BY <1>1, NatLessThanWellFounded, ZenonT(60)
<1>3. \A i, j \in Nat : j < i => <<j, i>> \in R
  BY <1>1 DEF OpToRel
<1>4. PICK i \in T : \A j \in T : ~(<<j, i>> \in R)
  BY <1>2, WFMin
<1>5. ASSUME NEW j \in T PROVE i <= j
  <2>1. i \in Nat /\ j \in Nat /\ ~(<<j, i>> \in R)
    BY <1>4
  <2>2. ~(j < i)
    BY <1>3, <2>1
  <2> QED
    BY <2>1, <2>2
<1> QED
  BY <1>4, <1>5

(* f and g agree wherever they agree on all smaller arguments. *)
AgreesNext(f, g, n) ==
  \A i \in 0 .. n : (\A j \in 0 .. n : j < i => f[j] = g[j]) => f[i] = g[i]

(* Then they agree everywhere. *)
LEMMA AgreeStepwise ==
  ASSUME NEW n \in Nat, NEW f, NEW g, AgreesNext(f, g, n)
  PROVE  \A i \in 0 .. n : f[i] = g[i]
<1> SUFFICES ASSUME NEW k \in 0 .. n, f[k] # g[k] PROVE FALSE
  OBVIOUS
<1>1. PICK bad \in SUBSET Nat : \A i \in Nat : i \in bad <=> i \in 0 .. n /\ f[i] # g[i]
  <2>1. {i \in Nat : i \in 0 .. n /\ f[i] # g[i]} \in SUBSET Nat
    OBVIOUS
  <2> QED
    BY <2>1
<1>2. k \in bad
  BY <1>1
<1>3. PICK i \in bad : \A j \in bad : i <= j
  BY <1>2, LeastElement
<1>4. i \in 0 .. n /\ f[i] # g[i]
  BY <1>1
<1>5. ASSUME NEW j \in 0 .. n, j < i PROVE f[j] = g[j]
  BY <1>1, <1>3, <1>4, <1>5
<1> QED
  BY <1>4, <1>5 DEF AgreesNext

(* What the recursive function of NodeAt is, for a list that is known. *)
LEMMA NodeAtList ==
  ASSUME NEW next, NEW first, NEW S, NULL \notin S, NEW s \in Seq(S), IsList(next, first, s),
         NEW n \in Nat
  PROVE  NodeAt(next, first, n) = [i \in 0 .. n |-> IF i < Len(s) THEN s[i + 1] ELSE NULL]
<1> DEFINE Step(f) == [i \in 0 .. n |-> 
              IF i = 0 THEN first
              ELSE LET before == f[i - 1] IN
                IF before = NULL THEN NULL ELSE next[before]]
           g == [i \in 0 .. n |-> IF i < Len(s) THEN s[i + 1] ELSE NULL]
<1>0. Len(s) \in Nat
    OBVIOUS
<1>1. g = Step(g)
  <2> SUFFICES ASSUME NEW i \in 0 .. n
               PROVE  g[i] = Step(g)[i]
    OBVIOUS
  <2>1. CASE i = 0
    BY <1>0, <2>1 DEF IsList
  <2>2. CASE i # 0 /\ i - 1 < Len(s)
    <3>1. g[i - 1] = s[i] /\ i - 1 \in 0 .. n /\ i \in 1 .. Len(s)
      BY <1>0, <2>2
    <3>2. s[i] # NULL /\ next[s[i]] = IF i = Len(s) THEN NULL ELSE s[i + 1]
      BY <3>1 DEF IsList
    <3> QED
      BY <1>0, <2>2, <3>1, <3>2
  <2>3. CASE i # 0 /\ ~(i - 1 < Len(s))
    BY <1>0, <2>3
  <2> QED
    BY <2>1, <2>2, <2>3
<1>2. g = [i \in 0 .. n |-> g[i]]
  OBVIOUS
<1> HIDE DEF g
<1>3. ASSUME NEW f, f = Step(f)
      PROVE  f = g
  <2>1. f = [i \in 0 .. n |-> f[i]]
    BY <1>3
  <2>2. ASSUME NEW i \in 0 .. n, \A j \in 0 .. n : j < i => f[j] = g[j]
        PROVE  f[i] = g[i]
    <3>1. f[i] = Step(f)[i] /\ g[i] = Step(g)[i]
      BY <1>1, <1>3
    <3>2. i # 0 => f[i - 1] = g[i - 1]
      BY <2>2
    <3> QED
      BY <3>1, <3>2
  <2> HIDE DEF Step
  <2>3. AgreesNext(f, g, n)
    BY <2>2 DEF AgreesNext
  <2>4. \A i \in 0 .. n : f[i] = g[i]
    BY <2>3, AgreeStepwise
  <2> QED
    BY <1>2, <2>1, <2>4
<1>4. NodeAt(next, first, n) = CHOOSE f : f = Step(f)
  BY Zenon DEF NodeAt
<1> HIDE DEF Step
<1>5. g = CHOOSE f : f = Step(f)
  BY <1>1, <1>3
<1> QED
  BY <1>4, <1>5 DEF g
-----------------------------------------------------------------------------
(* The nodes of a list. *)
Nodes(s) == {s[i] : i \in 1 .. Len(s)}

(* The numbers up to n are n in number. *)
LEMMA IntervalCard == \A n \in Nat : IsFiniteSet(1 .. n) /\ Cardinality(1 .. n) = n
<1> SUFFICES ASSUME NEW n \in Nat PROVE IsFiniteSet(1 .. n) /\ Cardinality(1 .. n) = n
  OBVIOUS
<1>1. 1 \in Int /\ n \in Int
  OBVIOUS
<1>2. /\ IsFiniteSet(1 .. n)
      /\ Cardinality(1 .. n) = IF 1 > n THEN 0 ELSE n - 1 + 1
  BY <1>1, FS_Interval
<1> QED
  BY <1>2

(* A list has no more nodes than there are. *)
LEMMA ListFits ==
  ASSUME NEW next, NEW first, NEW S, IsFiniteSet(S), NEW s \in Seq(S), IsList(next, first, s)
  PROVE  Len(s) <= Cardinality(S)
<1>1. s \in Injection(1 .. Len(s), S)
  BY DEF IsList, Injection, IsInjective
<1>2. Len(s) \in Nat
  OBVIOUS
<1>3. Cardinality(1 .. Len(s)) = Len(s)
  BY <1>2, IntervalCard
<1> QED
  BY <1>1, <1>3, FS_Injection

(* A list that is known is read completely. *)
LEMMA ListRead ==
  ASSUME NEW next, NEW first, NEW S, NULL \notin S, NEW s \in Seq(S), IsList(next, first, s),
         NEW n \in Nat, Len(s) <= n
  PROVE  /\ ListSeq(next, first, n) = s
         /\ ListNodes(next, first, n) = Nodes(s)
         /\ IsAcyclic(next, first, n)
<1> DEFINE node == NodeAt(next, first, n)
           length == Cardinality({i \in 1 .. n : node[i - 1] # NULL})
<1>0. Len(s) \in Nat /\ \A i \in 1 .. Len(s) : s[i] # NULL
  OBVIOUS
<1>1. \A i \in 0 .. n : node[i] = IF i < Len(s) THEN s[i + 1] ELSE NULL
  <2>1. NodeAt(next, first, n) = [i \in 0 .. n |-> IF i < Len(s) THEN s[i + 1] ELSE NULL]
    BY NodeAtList
  <2> QED
    BY <2>1
<1> HIDE DEF node
<1>2. {i \in 1 .. n : node[i - 1] # NULL} = 1 .. Len(s)
  BY <1>0, <1>1, SMTT(30)
<1>3. length = Len(s)
  BY <1>0, <1>2, IntervalCard
<1>4. ListSeq(next, first, n) = [i \in 1 .. length |-> node[i - 1]]
  BY DEF ListSeq, node
<1> HIDE DEF length
<1>5. ListSeq(next, first, n) = s
  BY <1>0, <1>1, <1>3, <1>4
<1>6. ListNodes(next, first, n) = Nodes(s)
  BY <1>5 DEF ListNodes, Nodes
<1>7. IsAcyclic(next, first, n)
  <2> SUFFICES ASSUME NEW i \in 0 .. n, NEW j \in 0 .. n, i # j, node[i] = node[j], node[i] # NULL
               PROVE  FALSE
    BY DEF IsAcyclic, node
  <2>1. i < Len(s) /\ j < Len(s) /\ s[i + 1] = s[j + 1]
    BY <1>1
  <2> QED
    BY <1>0, <2>1 DEF IsList
<1> QED
  BY <1>5, <1>6, <1>7

(* A list is not disturbed by pointers of nodes that are not on it. *)
LEMMA ListUnchanged ==
  ASSUME NEW next, NEW new, NEW first, NEW s, IsList(next, first, s),
         \A x \in Nodes(s) : new[x] = next[x]
  PROVE  IsList(new, first, s)
BY DEF IsList, Nodes

(* The list without nodes. *)
LEMMA ListEmpty ==
  ASSUME NEW next
  PROVE  IsList(next, NULL, <<>>) /\ Nodes(<<>>) = {}
BY DEF IsList, Nodes

(* The first node is taken off. *)
LEMMA ListTail ==
  ASSUME NEW next, NEW new, NEW first, NEW S, NEW s \in Seq(S), IsList(next, first, s),
         first # NULL, \A x \in Nodes(s) \ {first} : new[x] = next[x]
  PROVE  /\ s # <<>> /\ first = Head(s) /\ first \in S
         /\ IsList(new, next[first], Tail(s)) /\ Tail(s) \in Seq(S)
         /\ Nodes(Tail(s)) = Nodes(s) \ {first}
<1>1. Len(s) \in Nat /\ Len(s) > 0 /\ first = s[1] /\ s # <<>>
  BY DEF IsList
<1>2. /\ Tail(s) \in Seq(S) /\ Len(Tail(s)) = Len(s) - 1
      /\ \A i \in 1 .. Len(Tail(s)) : Tail(s)[i] = s[i + 1]
      /\ Head(s) = s[1] /\ first \in S
  BY <1>1
<1> DEFINE t == Tail(s)
<1> HIDE DEF t
<1>3. /\ t \in Seq(S) /\ Len(t) = Len(s) - 1
      /\ \A i \in 1 .. Len(t) : t[i] = s[i + 1]
  BY <1>2 DEF t
<1>4. Nodes(t) = Nodes(s) \ {first}
  <2>1. ASSUME NEW x \in Nodes(t) PROVE x \in Nodes(s) \ {first}
    <3>1. PICK i \in 1 .. Len(t) : x = t[i]
      BY <2>1 DEF Nodes
    <3>2. i + 1 \in 1 .. Len(s) /\ x = s[i + 1] /\ 1 \in 1 .. Len(s) /\ i + 1 # 1
      BY <1>1, <1>3, <3>1
    <3> QED
      BY <1>1, <3>2 DEF IsList, Nodes
  <2>2. ASSUME NEW x \in Nodes(s) \ {first} PROVE x \in Nodes(t)
    <3>1. PICK i \in 1 .. Len(s) : x = s[i]
      BY <2>2 DEF Nodes
    <3>2. i # 1 /\ i - 1 \in 1 .. Len(t) /\ x = t[i - 1]
      BY <1>1, <1>3, <2>2, <3>1
    <3> QED
      BY <3>2 DEF Nodes
  <2> QED
    BY <2>1, <2>2
<1>5. IsList(new, next[first], t)
  <2>1. next[first] = IF Len(t) = 0 THEN NULL ELSE t[1]
    BY <1>1, <1>3 DEF IsList
  <2>2. ASSUME NEW i \in 1 .. Len(t)
        PROVE  /\ t[i] # NULL
               /\ new[t[i]] = IF i = Len(t) THEN NULL ELSE t[i + 1]
               /\ \A j \in 1 .. Len(t) : t[i] = t[j] => i = j
    <3>1. i + 1 \in 1 .. Len(s) /\ t[i] = s[i + 1]
      BY <1>1, <1>3
    <3>2. s[i + 1] # NULL /\ next[s[i + 1]] = IF i + 1 = Len(s) THEN NULL ELSE s[i + 2]
      BY <3>1 DEF IsList
    <3>3. new[t[i]] = next[t[i]]
      <4>1. t[i] \in Nodes(t)
        BY DEF Nodes
      <4> QED
        BY <1>4, <4>1
    <3>4. ASSUME NEW j \in 1 .. Len(t), t[i] = t[j] PROVE i = j
      <4>1. j + 1 \in 1 .. Len(s) /\ t[j] = s[j + 1]
        BY <1>1, <1>3
      <4>2. s[i + 1] = s[j + 1] => i + 1 = j + 1
        BY <3>1, <4>1 DEF IsList
      <4> QED
        BY <3>1, <3>4, <4>1, <4>2
    <3> QED
      BY <1>1, <1>3, <3>1, <3>2, <3>3, <3>4
  <2> QED
    BY <2>1, <2>2 DEF IsList
<1> QED
  BY <1>1, <1>2, <1>4, <1>5 DEF t

(* A node is put before the first one. *)
LEMMA ListCons ==
  ASSUME NEW next, NEW new, NEW first, NEW S, NEW s \in Seq(S), IsList(next, first, s),
         NEW b \in S, b # NULL, b \notin Nodes(s), new[b] = first,
         \A x \in Nodes(s) : new[x] = next[x]
  PROVE  \E t \in Seq(S) : IsList(new, b, t) /\ Nodes(t) = Nodes(s) \cup {b}
<1>1. PICK t \in Seq(S) : /\ Len(t) = Len(s) + 1
                          /\ \A i \in 1 .. Len(t) : t[i] = IF i = 1 THEN b ELSE s[i - 1]
  <2> DEFINE t == <<b>> \o s
  <2>1. <<b>> \in Seq(S) /\ Len(<<b>>) = 1 /\ <<b>>[1] = b
    OBVIOUS
  <2>2. /\ t \in Seq(S) /\ Len(t) = 1 + Len(s)
        /\ \A i \in 1 .. 1 + Len(s) : t[i] = IF i <= 1 THEN <<b>>[i] ELSE s[i - 1]
    BY <2>1, ConcatProperties
  <2> HIDE DEF t
  <2>3. Len(s) \in Nat
    OBVIOUS
  <2> QED
    BY <2>1, <2>2, <2>3
<1>2. Len(s) \in Nat
  OBVIOUS
<1>3. \A i \in 1 .. Len(t) : i # 1 => i - 1 \in 1 .. Len(s) /\ t[i] = s[i - 1]
  BY <1>1, <1>2
<1>4. \A i \in 1 .. Len(s) : i + 1 \in 1 .. Len(t) /\ t[i + 1] = s[i]
  BY <1>1, <1>2
<1>5. 1 \in 1 .. Len(t) /\ t[1] = b
  BY <1>1, <1>2
<1>6. \A k \in 1 .. Len(s) : s[k] \in Nodes(s) /\ s[k] # b
  BY DEF Nodes
<1>7. Nodes(t) = Nodes(s) \cup {b}
  <2>1. ASSUME NEW x \in Nodes(t) PROVE x \in Nodes(s) \cup {b}
    <3>1. PICK i \in 1 .. Len(t) : x = t[i]
      BY <2>1 DEF Nodes
    <3> QED
      BY <1>3, <1>5, <1>6, <3>1
  <2>2. ASSUME NEW x \in Nodes(s) PROVE x \in Nodes(t)
    BY <1>4, <2>2 DEF Nodes
  <2>3. b \in Nodes(t)
    BY <1>5 DEF Nodes
  <2> QED
    BY <2>1, <2>2, <2>3
<1>8. ASSUME NEW i \in 1 .. Len(t)
      PROVE  /\ t[i] # NULL
             /\ new[t[i]] = IF i = Len(t) THEN NULL ELSE t[i + 1]
             /\ \A j \in 1 .. Len(t) : t[i] = t[j] => i = j
  <2>1. CASE i = 1
    <3>1. \A j \in 1 .. Len(t) : t[i] = t[j] => i = j
      BY <1>3, <1>5, <1>6, <2>1
    <3>2. first = IF Len(s) = 0 THEN NULL ELSE s[1]
      BY DEF IsList
    <3>3. Len(s) # 0 => t[2] = s[1]
      BY <1>2, <1>4
    <3> QED
      BY <1>1, <1>2, <1>5, <2>1, <3>1, <3>2, <3>3
  <2>2. CASE i # 1
    <3>1. PICK k \in 1 .. Len(s) : k = i - 1 /\ i = k + 1 /\ t[i] = s[k]
      BY <1>3, <2>2
    <3>2. new[t[i]] = next[s[k]]
      BY <1>6, <3>1
    <3>3. s[k] # NULL /\ next[s[k]] = IF k = Len(s) THEN NULL ELSE s[k + 1]
      BY DEF IsList
    <3>4. i # Len(t) => k + 1 \in 1 .. Len(s) /\ t[i + 1] = s[k + 1]
      BY <1>1, <1>2, <1>4, <3>1
    <3>5. i = Len(t) <=> k = Len(s)
      BY <1>1, <1>2, <3>1
    <3>6. ASSUME NEW j \in 1 .. Len(t), t[i] = t[j] PROVE i = j
      <4>1. j # 1
        BY <1>5, <1>6, <3>1, <3>6
      <4>2. PICK l \in 1 .. Len(s) : l = j - 1 /\ j = l + 1 /\ t[j] = s[l]
        BY <1>3, <4>1
      <4>3. k = l
        BY <3>1, <3>6, <4>2 DEF IsList
      <4> QED
        BY <3>1, <4>2, <4>3
    <3> QED
      BY <3>1, <3>2, <3>3, <3>4, <3>5, <3>6
  <2> QED
    BY <2>1, <2>2
<1>9. IsList(new, b, t)
  <2>1. Len(t) # 0
    BY <1>1, <1>2
  <2> QED
    BY <1>5, <1>8, <2>1 DEF IsList
<1> QED
  BY <1>7, <1>9

(* A node is put behind the last one. *)
PutsLast(next, new, s, b) ==
  /\ new[b] = NULL
  /\ Len(s) > 0 => new[s[Len(s)]] = b
  /\ \A i \in 1 .. Len(s) : i # Len(s) => new[s[i]] = next[s[i]]

LEMMA ListAppend ==
  ASSUME NEW next, NEW new, NEW first, NEW S, NEW s \in Seq(S), IsList(next, first, s),
         NEW b \in S, b # NULL, b \notin Nodes(s), PutsLast(next, new, s, b),
         NEW h, h = IF Len(s) = 0 THEN b ELSE first
  PROVE  /\ IsList(new, h, Append(s, b)) /\ Append(s, b) \in Seq(S)
         /\ Nodes(Append(s, b)) = Nodes(s) \cup {b}
<1>0. /\ new[b] = NULL
      /\ Len(s) > 0 => new[s[Len(s)]] = b
      /\ \A i \in 1 .. Len(s) : i # Len(s) => new[s[i]] = next[s[i]]
  BY DEF PutsLast
<1>1. PICK t \in Seq(S) : /\ t = Append(s, b)
                          /\ Len(t) = Len(s) + 1 /\ t[Len(t)] = b
                          /\ \A i \in 1 .. Len(s) : t[i] = s[i]
  <2> DEFINE t == Append(s, b)
  <2>1. /\ t \in Seq(S) /\ Len(t) = Len(s) + 1 /\ t[Len(s) + 1] = b
        /\ \A i \in 1 .. Len(s) : t[i] = s[i]
    BY AppendProperties
  <2> HIDE DEF t
  <2> QED
    BY <2>1 DEF t
<1>2. Len(s) \in Nat
  OBVIOUS
<1>3. Nodes(t) = Nodes(s) \cup {b}
  <2>1. ASSUME NEW x \in Nodes(t) PROVE x \in Nodes(s) \cup {b}
    BY <1>1, <1>2, <2>1 DEF Nodes
  <2>2. ASSUME NEW x \in Nodes(s) PROVE x \in Nodes(t)
    <3>1. PICK i \in 1 .. Len(s) : x = s[i]
      BY <2>2 DEF Nodes
    <3>2. i \in 1 .. Len(t) /\ x = t[i]
      BY <1>1, <1>2, <3>1
    <3> QED
      BY <3>2 DEF Nodes
  <2>3. Len(t) \in 1 .. Len(t) /\ b = t[Len(t)]
    BY <1>1, <1>2
  <2>4. b \in Nodes(t)
    BY <2>3 DEF Nodes
  <2> QED
    BY <2>1, <2>2, <2>4
<1>4. ASSUME NEW i \in 1 .. Len(t)
      PROVE  /\ t[i] # NULL
             /\ new[t[i]] = IF i = Len(t) THEN NULL ELSE t[i + 1]
             /\ \A j \in 1 .. Len(t) : t[i] = t[j] => i = j
  <2>0. \A k \in 1 .. Len(s) : s[k] \in Nodes(s)
    BY DEF Nodes
  <2>1. \A j \in 1 .. Len(t) : j # Len(t) => j \in 1 .. Len(s) /\ t[j] = s[j] /\ t[j] # b
    BY <1>1, <1>2, <2>0
  <2>2. CASE i = Len(t)
    BY <1>0, <1>1, <2>1, <2>2
  <2>3. CASE i # Len(t) /\ i # Len(s)
    <3>1. i \in 1 .. Len(s) /\ i + 1 \in 1 .. Len(s) /\ t[i] = s[i] /\ t[i + 1] = s[i + 1]
      BY <1>1, <1>2, <2>3
    <3> QED
      BY <1>0, <1>1, <1>2, <2>1, <2>3, <3>1 DEF IsList
  <2>4. CASE i = Len(s)
    <3>1. i \in 1 .. Len(s) /\ i + 1 = Len(t) /\ i # Len(t) /\ t[i] = s[i] /\ Len(s) > 0
      BY <1>1, <1>2, <2>4
    <3>2. new[t[i]] = t[i + 1] /\ t[i] # NULL
      BY <1>0, <1>1, <2>4, <3>1 DEF IsList
    <3>3. \A j \in 1 .. Len(t) : t[i] = t[j] => i = j
      BY <1>1, <2>1, <3>1 DEF IsList
    <3> QED
      BY <3>1, <3>2, <3>3
  <2> QED
    BY <2>2, <2>3, <2>4
<1>5. h = t[1]
  BY <1>1, <1>2 DEF IsList
<1>6. IsList(new, h, t)
  BY <1>1, <1>2, <1>4, <1>5 DEF IsList
<1> QED
  BY <1>1, <1>3, <1>6
-----------------------------------------------------------------------------
(* A block knows its pool. *)
LEMMA BlockPool == \A b \in Block : b[1] \in Pool /\ b[2] \in 0 .. PoolNum[b[1]] - 1
BY DEF Block

(* A pool has at least the block at its start. *)
LEMMA FirstBlock == \A i \in Pool : <<i, 0>> \in Block
<1> SUFFICES ASSUME NEW i \in Pool PROVE <<i, 0>> \in Block
  BY ZenonT(60)
<1>1. PoolNum[i] \in Nat \ {0}
  BY PoolAssumption DEF Pool
<1>2. 0 \in 0 .. PoolNum[i] - 1
  BY <1>1
<1> QED
  BY <1>2 DEF Block

(* No two pools have blocks of one size. *)
LEMMA SizesDiffer == \A i, k \in Pool : PoolSize[i] = PoolSize[k] => i = k
<1> SUFFICES ASSUME NEW i \in Pool, NEW k \in Pool, PoolSize[i] = PoolSize[k]
             PROVE  i = k
  OBVIOUS
<1>1. i \in Int /\ k \in Int /\ PoolSize[i] \in Int /\ PoolSize[k] \in Int
  BY PoolAssumption DEF Pool
<1>2. ~(i < k) /\ ~(k < i)
  BY <1>1, PoolAssumption
<1> QED
  BY <1>1, <1>2

(* The search of kzmem_free ends at the pool the block was cut from. *)
LEMMA FreePool ==
  ASSUME NEW b \in Block
  PROVE  (CHOOSE k \in Pool : PoolSize[k] = PoolSize[b[1]]) = b[1]
BY BlockPool, SizesDiffer

(* kzmem_init threads the blocks of each pool in address order. *)
LEMMA InitNext ==
  ASSUME NEW b \in Block, kzmem_init.next[b] # NULL
  PROVE  /\ kzmem_init.next[b] = <<b[1], b[2] + 1>>
         /\ kzmem_init.next[b] \in Block
<1>1. kzmem_init.next[b] = <<b[1], b[2] + 1>> /\ b[2] + 1 < PoolNum[b[1]]
  BY DEF kzmem_init
<1>2. b[1] \in Pool /\ b[2] \in 0 .. PoolNum[b[1]] - 1 /\ PoolNum[b[1]] \in Nat
  BY BlockPool, PoolAssumption DEF Pool
<1>3. b[2] + 1 \in 0 .. PoolNum[b[1]] - 1
  BY <1>1, <1>2
<1> QED
  BY <1>1, <1>2, <1>3 DEF Block

(* The pools start well formed. *)
LEMMA InitPools == kzmem_init \in Pools
<1>1. \A i \in Pool : kzmem_init.free[i] = <<i, 0>>
  BY DEF kzmem_init
<1>2. \A b \in Block : kzmem_init.next[b] \in Block \cup {NULL}
  BY InitNext
<1> QED
  BY <1>1, <1>2, FirstBlock DEF Pools, kzmem_init

(* kzmem_alloc takes the first block of pool i off its list. *)
LEMMA AllocPools ==
  ASSUME NEW m \in Pools, NEW i \in Pool, m.free[i] # NULL
  PROVE  /\ m.free[i] \in Block
         /\ kzmem_alloc(m, i) \in Pools
         /\ \A j \in Pool : kzmem_alloc(m, i).free[j] =
                             IF j = i THEN m.next[m.free[i]] ELSE m.free[j]
         /\ \A b \in Block : kzmem_alloc(m, i).next[b] =
                              IF b = m.free[i] THEN NULL ELSE m.next[b]
<1>1. m.free[i] \in Block
  BY DEF Pools
<1>2. kzmem_alloc(m, i) \in Pools
  BY <1>1 DEF kzmem_alloc, Pools
<1>3. /\ kzmem_alloc(m, i).free = [m.free EXCEPT ![i] = m.next[m.free[i]]]
      /\ kzmem_alloc(m, i).next = [m.next EXCEPT ![m.free[i]] = NULL]
  BY <1>1 DEF kzmem_alloc, Pools
<1> QED
  BY <1>1, <1>2, <1>3 DEF Pools

(* kzmem_free puts a block first on the list of the pool it came from. *)
LEMMA FreePools ==
  ASSUME NEW m \in Pools, NEW b \in Block
  PROVE  /\ kzmem_free(m, b) \in Pools
         /\ \A j \in Pool : kzmem_free(m, b).free[j] =
                             IF j = b[1] THEN b ELSE m.free[j]
         /\ \A c \in Block : kzmem_free(m, b).next[c] =
                              IF c = b THEN m.free[b[1]] ELSE m.next[c]
<1>1. PICK i \in Pool : i = b[1]
  BY BlockPool
<1>2. kzmem_free(m, b) = [m EXCEPT !.next[b] = m.free[i], !.free[i] = b]
  BY <1>1, FreePool DEF kzmem_free
<1>3. [m EXCEPT !.next[b] = m.free[i], !.free[i] = b] \in Pools
  BY DEF Pools
<1>4. /\ [m EXCEPT !.next[b] = m.free[i], !.free[i] = b].free = [m.free EXCEPT ![i] = b]
      /\ [m EXCEPT !.next[b] = m.free[i], !.free[i] = b].next
         = [m.next EXCEPT ![b] = m.free[i]]
  BY DEF Pools
<1> QED
  BY <1>1, <1>2, <1>3, <1>4 DEF Pools
-----------------------------------------------------------------------------
(* There are finitely many blocks, and FreeSeq below looks at that many. *)
LEMMA BlocksFinite == IsFiniteSet(Block) /\ Cardinality(Block) \in Nat
<1>1. Len(PoolSize) \in Nat /\ \A i \in Pool : PoolNum[i] \in Nat
  BY PoolAssumption DEF Pool
<1>2. \A i \in Pool : IsFiniteSet({i} \X (0 .. PoolNum[i] - 1))
  <2> SUFFICES ASSUME NEW i \in Pool PROVE IsFiniteSet({i} \X (0 .. PoolNum[i] - 1))
    OBVIOUS
  <2>1. 0 \in Int /\ PoolNum[i] - 1 \in Int
    BY <1>1
  <2>2. IsFiniteSet(0 .. PoolNum[i] - 1)
    BY <2>1, FS_Interval
  <2> QED
    BY <2>2, FS_Singleton, FS_Product
<1>3. IsFiniteSet(Pool)
  BY <1>1, IntervalCard DEF Pool
<1> DEFINE parts == {{i} \X (0 .. PoolNum[i] - 1) : i \in Pool}
<1>4. IsFiniteSet(parts)
  <2> DEFINE f == [i \in Pool |-> {i} \X (0 .. PoolNum[i] - 1)]
  <2>1. f \in Surjection(Pool, parts)
    BY DEF Surjection
  <2> QED
    BY <1>3, <2>1, FS_Surjection
<1>5. IsFiniteSet(UNION parts)
  BY <1>2, <1>4, FS_UNION
<1>6. IsFiniteSet(Block)
  BY <1>5 DEF Block
<1> QED
  BY <1>6, FS_CardinalityType

(* The free list of a pool, and what a list that is exact has to be while the
   blocks `used' are not free. *)
FreeSeq(m, i) == ListSeq(m.next, m.free[i], Cardinality(Block))

PoolBlocks(i) == {b \in Block : b[1] = i}

ExactLists(m, used) ==
  \A i \in Pool : /\ FreeSeq(m, i) \in Seq(Block)
                  /\ IsList(m.next, m.free[i], FreeSeq(m, i))
                  /\ Nodes(FreeSeq(m, i)) = PoolBlocks(i) \ used

(* Whatever list is found to be that of a pool, FreeSeq reads it. *)
LEMMA FreeSeqIs ==
  ASSUME NEW m, NEW i, NEW s \in Seq(Block), IsList(m.next, m.free[i], s)
  PROVE  /\ FreeSeq(m, i) = s
         /\ ListNodes(m.next, m.free[i], Cardinality(Block)) = Nodes(s)
         /\ IsAcyclic(m.next, m.free[i], Cardinality(Block))
<1>1. Len(s) <= Cardinality(Block)
  BY BlocksFinite, ListFits
<1> QED
  BY <1>1, BlocksFinite, PoolAssumption, ListRead DEF FreeSeq

(* At the start nothing is in use. *)
LEMMA InitLists == ExactLists(kzmem_init, {})
<1> SUFFICES ASSUME NEW i \in Pool
             PROVE  \E s \in Seq(Block) : /\ IsList(kzmem_init.next, kzmem_init.free[i], s)
                                          /\ Nodes(s) = PoolBlocks(i)
  BY FreeSeqIs DEF ExactLists
<1>1. PICK n \in Nat \ {0} : n = PoolNum[i]
  BY PoolAssumption, SMTT(30) DEF Pool
<1>2. \A j \in 1 .. n : <<i, j - 1>> \in PoolBlocks(i)
  <2> SUFFICES ASSUME NEW j \in 1 .. n PROVE <<i, j - 1>> \in PoolBlocks(i)
    OBVIOUS
  <2>1. j - 1 \in 0 .. PoolNum[i] - 1
    BY <1>1
  <2> QED
    BY <2>1 DEF PoolBlocks, Block
<1>3. PICK s \in Seq(Block) : Len(s) = n /\ \A j \in 1 .. n : s[j] = <<i, j - 1>>
  <2> DEFINE f == [j \in 1 .. n |-> <<i, j - 1>>]
  <2>1. f \in [1 .. n -> Block] /\ \A j \in 1 .. n : f[j] = <<i, j - 1>>
    BY <1>2 DEF PoolBlocks
  <2> HIDE DEF f
  <2>2. f \in Seq(Block) /\ Len(f) = n
    BY <1>1, <2>1
  <2> QED
    BY <2>1, <2>2
<1>4. \A b \in PoolBlocks(i) : b[2] \in 0 .. n - 1 /\ b = <<i, b[2]>>
  BY <1>1 DEF PoolBlocks, Block
<1>5. Nodes(s) = PoolBlocks(i)
  <2>1. ASSUME NEW b \in PoolBlocks(i) PROVE b \in Nodes(s)
    <3>1. PICK k \in 0 .. n - 1 : k = b[2] /\ b = <<i, k>>
      BY <1>4
    <3>2. k + 1 \in 1 .. n /\ (k + 1) - 1 = k
      BY <1>1, <3>1, SMTT(30)
    <3>3. s[k + 1] = b
      BY <1>3, <3>1, <3>2
    <3> QED
      BY <1>3, <3>2, <3>3 DEF Nodes
  <2> QED
    BY <1>2, <1>3, <2>1 DEF Nodes
<1>6. kzmem_init.free[i] = s[1] /\ Len(s) # 0
  BY <1>1, <1>3 DEF kzmem_init
<1>7. ASSUME NEW j \in 1 .. n
      PROVE  /\ s[j] # NULL
             /\ kzmem_init.next[s[j]] = IF j = n THEN NULL ELSE s[j + 1]
             /\ \A k \in 1 .. n : s[j] = s[k] => j = k
  <2>1. s[j] = <<i, j - 1>> /\ s[j] \in Block
    BY <1>2, <1>3 DEF PoolBlocks
  <2>2. kzmem_init.next[s[j]] = IF (j - 1) + 1 < n THEN <<i, (j - 1) + 1>> ELSE NULL
    BY <1>1, <2>1 DEF kzmem_init
  <2>3. j # n => j + 1 \in 1 .. n /\ s[j + 1] = <<i, j>>
    <3>1. j # n => j + 1 \in 1 .. n /\ (j + 1) - 1 = j
      BY <1>1
    <3> QED
      BY <1>3, <3>1
  <2>4. \A k \in 1 .. n : s[j] = s[k] => j = k
    BY <1>3, <2>1
  <2>5. kzmem_init.next[s[j]] = IF j = n THEN NULL ELSE s[j + 1]
    <3>1. (j - 1) + 1 = j /\ (j < n <=> j # n)
      BY <1>1
    <3>2. kzmem_init.next[s[j]] = IF j < n THEN <<i, j>> ELSE NULL
      BY <2>2, <3>1
    <3> QED
      BY <2>3, <3>1, <3>2
  <2>6. s[j] # NULL
    BY <2>1, PoolAssumption
  <2> QED
    BY <2>4, <2>5, <2>6
<1>8. IsList(kzmem_init.next, kzmem_init.free[i], s)
  BY <1>3, <1>6, <1>7 DEF IsList
<1> QED
  BY <1>5, <1>8

(* The head of a list is free, and an allocation takes just this block off. *)
LEMMA AllocLists ==
  ASSUME NEW m \in Pools, NEW used \in SUBSET Block, ExactLists(m, used),
         NEW i \in Pool, m.free[i] # NULL
  PROVE  /\ m.free[i] \in PoolBlocks(i) \ used
         /\ ExactLists(kzmem_alloc(m, i), used \cup {m.free[i]})
<1> DEFINE h == m.free[i]
           new == kzmem_alloc(m, i)
<1>1. /\ h \in Block
      /\ \A j \in Pool : new.free[j] = IF j = i THEN m.next[h] ELSE m.free[j]
      /\ \A b \in Block : new.next[b] = IF b = h THEN NULL ELSE m.next[b]
  BY AllocPools
<1> HIDE DEF new
<1>2. \A j \in Pool : /\ FreeSeq(m, j) \in Seq(Block)
                      /\ IsList(m.next, m.free[j], FreeSeq(m, j))
                      /\ Nodes(FreeSeq(m, j)) = PoolBlocks(j) \ used
  BY DEF ExactLists
<1>3. /\ FreeSeq(m, i) # <<>> /\ h = Head(FreeSeq(m, i))
      /\ IsList(new.next, m.next[h], Tail(FreeSeq(m, i))) /\ Tail(FreeSeq(m, i)) \in Seq(Block)
      /\ Nodes(Tail(FreeSeq(m, i))) = Nodes(FreeSeq(m, i)) \ {h}
  <2>1. \A b \in Nodes(FreeSeq(m, i)) \ {h} : new.next[b] = m.next[b]
    BY <1>1, <1>2 DEF PoolBlocks
  <2>2. PICK s \in Seq(Block) : s = FreeSeq(m, i) /\ IsList(m.next, h, s)
    BY <1>2
  <2>3. PICK old, then, first : old = m.next /\ then = new.next /\ first = h
    OBVIOUS
  <2>4. /\ first # NULL /\ IsList(old, first, s)
        /\ \A b \in Nodes(s) \ {first} : then[b] = old[b]
    BY <2>1, <2>2, <2>3
  <2>5. /\ s # <<>> /\ first = Head(s)
        /\ IsList(then, old[first], Tail(s)) /\ Tail(s) \in Seq(Block)
        /\ Nodes(Tail(s)) = Nodes(s) \ {first}
    BY <2>4, ListTail
  <2> QED
    BY <2>2, <2>3, <2>5
<1>4. h \in PoolBlocks(i) \ used
  <2>1. 1 \in 1 .. Len(FreeSeq(m, i)) /\ h = FreeSeq(m, i)[1]
    BY <1>2 DEF IsList
  <2>2. h \in Nodes(FreeSeq(m, i))
    BY <2>1 DEF Nodes
  <2> QED
    BY <1>2, <2>2
<1>5. ASSUME NEW j \in Pool
      PROVE  \E s \in Seq(Block) : /\ IsList(new.next, new.free[j], s)
                                   /\ Nodes(s) = PoolBlocks(j) \ (used \cup {h})
  <2>1. CASE j = i
    BY <1>1, <1>2, <1>3, <2>1
  <2>2. CASE j # i
    <3>1. h \notin PoolBlocks(j)
      BY <1>4, <2>2 DEF PoolBlocks
    <3>2. IsList(new.next, m.free[j], FreeSeq(m, j))
      BY <1>1, <1>2, <3>1, ListUnchanged DEF PoolBlocks
    <3> QED
      BY <1>1, <1>2, <2>2, <3>1, <3>2
  <2> QED
    BY <2>1, <2>2
<1>6. ExactLists(new, used \cup {h})
  BY <1>5, FreeSeqIs DEF ExactLists
<1> QED
  BY <1>4, <1>6 DEF new

(* A block in use that is freed is put on its list. *)
LEMMA FreeLists ==
  ASSUME NEW m \in Pools, NEW used \in SUBSET Block, ExactLists(m, used), NEW b \in used
  PROVE  ExactLists(kzmem_free(m, b), used \ {b})
<1> DEFINE new == kzmem_free(m, b)
<1>1. /\ \A j \in Pool : new.free[j] = IF j = b[1] THEN b ELSE m.free[j]
      /\ \A c \in Block : new.next[c] = IF c = b THEN m.free[b[1]] ELSE m.next[c]
  BY FreePools
<1> HIDE DEF new
<1>2. \A j \in Pool : /\ FreeSeq(m, j) \in Seq(Block)
                      /\ IsList(m.next, m.free[j], FreeSeq(m, j))
                      /\ Nodes(FreeSeq(m, j)) = PoolBlocks(j) \ used
  BY DEF ExactLists
<1>3. ASSUME NEW j \in Pool
      PROVE  \E s \in Seq(Block) : /\ IsList(new.next, new.free[j], s)
                                   /\ Nodes(s) = PoolBlocks(j) \ (used \ {b})
  <2>0. b \notin Nodes(FreeSeq(m, j)) /\ b # NULL /\ \A x \in Nodes(FreeSeq(m, j)) : new.next[x] = m.next[x]
    BY <1>1, <1>2, PoolAssumption DEF PoolBlocks
  <2>1. CASE j = b[1]
    <3>1. /\ new.next[b] = m.free[j] /\ new.free[j] = b
          /\ b \in PoolBlocks(j)
      BY <1>1, <2>1 DEF PoolBlocks
    <3>2. PICK t \in Seq(Block) : IsList(new.next, b, t) /\ Nodes(t) = Nodes(FreeSeq(m, j)) \cup {b}
      <4>1. PICK s \in Seq(Block) : s = FreeSeq(m, j) /\ IsList(m.next, m.free[j], s)
        BY <1>2
      <4>2. /\ b \in Block /\ b # NULL /\ b \notin Nodes(s)
            /\ \A x \in Nodes(s) : new.next[x] = m.next[x]
        BY <2>0, <4>1
      <4>3. \E t \in Seq(Block) : IsList(new.next, b, t) /\ Nodes(t) = Nodes(s) \cup {b}
        BY <3>1, <4>1, <4>2, ListCons, SMTT(30)
      <4> QED
        BY <4>1, <4>3
    <3>3. Nodes(t) = PoolBlocks(j) \ (used \ {b})
      BY <1>2, <3>1, <3>2
    <3> QED
      BY <3>1, <3>2, <3>3
  <2>2. CASE j # b[1]
    <3>1. IsList(new.next, m.free[j], FreeSeq(m, j)) /\ new.free[j] = m.free[j]
      BY <1>1, <1>2, <2>0, <2>2, ListUnchanged
    <3>2. PoolBlocks(j) \ (used \ {b}) = PoolBlocks(j) \ used
      BY <2>2 DEF PoolBlocks
    <3> QED
      BY <1>2, <3>1, <3>2
  <2> QED
    BY <2>1, <2>2
<1>4. ExactLists(new, used \ {b})
  BY <1>3, FreeSeqIs DEF ExactLists
<1> QED
  BY <1>4 DEF new

(* A pool has nothing to give only when all of its blocks are in use. *)
LEMMA UsedUp ==
  ASSUME NEW m, NEW used, ExactLists(m, used), NEW b \in Block \ used
  PROVE  m.free[b[1]] # NULL
<1>1. PICK i \in Pool : i = b[1] /\ b \in PoolBlocks(i) \ used
  BY BlockPool DEF PoolBlocks
<1>2. IsList(m.next, m.free[i], FreeSeq(m, i)) /\ b \in Nodes(FreeSeq(m, i))
  BY <1>1 DEF ExactLists
<1>3. PICK k \in 1 .. Len(FreeSeq(m, i)) : b = FreeSeq(m, i)[k]
  BY <1>2 DEF Nodes
<1>4. FreeSeq(m, i) \in Seq(Block)
  BY <1>1 DEF ExactLists
<1>5. 1 \in 1 .. Len(FreeSeq(m, i)) /\ Len(FreeSeq(m, i)) # 0
  BY <1>3, <1>4
<1> QED
  BY <1>1, <1>2, <1>5 DEF IsList
=============================================================================
