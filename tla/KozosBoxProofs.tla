--------------------------- MODULE KozosBoxProofs ---------------------------
(***************************************************************************)
(* Where the blocks of memory are, for any number of threads, boxes, pools *)
(* and blocks and any applications: no block has two owners; none is lost  *)
(* if no thread ends and no box gets a third message; and in that case the *)
(* boxes are those of Mailbox.                                             *)
(*                                                                         *)
(* enque links a new buffer behind the first one.  A box therefore never   *)
(* has more than two buffers on its list, and its list is known from its   *)
(* head and tail alone.                                                    *)
(***************************************************************************)
EXTENDS KozosRefinement, KozosProofs

(* Either pointer is NULL if the other is; the last buffer points to nothing
   and the first one, if it is another, to the last. *)
BoxShape(x) ==
  \A id \in MsgBox :
    \/ x.head[id] = NULL /\ x.tail[id] = NULL
    \/ /\ x.head[id] # NULL /\ x.tail[id] # NULL
       /\ x.next[x.tail[id]] = NULL
       /\ x.head[id] # x.tail[id] => x.next[x.head[id]] = x.tail[id]

BoxSeq(x, id) ==
  IF x.head[id] = NULL THEN <<>>
  ELSE IF x.head[id] = x.tail[id] THEN <<x.head[id]>>
  ELSE <<x.head[id], x.tail[id]>>

(* The blocks that are buffers, of one box and of all. *)
Ends(x, id) == {x.head[id], x.tail[id]} \ {NULL}

InBoxes(x) == UNION {Ends(x, id) : id \in MsgBox}

(* Places without the free lists, for boxes x and holders h. *)
Owners(x, h, b) ==
  {<<"buffer", id>> : id \in {k \in MsgBox : b \in Ends(x, k)}}
  \cup {<<"data", m>> : m \in {k \in InBoxes(x) : x.data[k] = b}}
  \cup {<<"held", t>> : t \in {u \in Thread : b \in h[u]}}

(* No thread takes blocks to its grave and no box gets a third message. *)
Lossless == Calls \cap {"EXIT", "SOFTERR"} = {} /\ MaxPending <= 2

(* The books of a kernel entry: blocks `used' are off the free lists, and of
   these `loose' are in the hands of the kernel itself; no other block has two
   owners, or one while it is free, and none lacks one if nothing gets lost. *)
Accounted(used, loose, x, h) ==
  /\ loose \subseteq used
  /\ \A b \in Block : /\ \A o, p \in Owners(x, h, b) : o = p
                      /\ Owners(x, h, b) # {} => b \in used \ loose
  /\ Lossless => \A b \in used \ loose : Owners(x, h, b) # {}

(* Between kernel entries the kernel has no block in its hands. *)
BlocksInv ==
  /\ BoxShape(mb)
  /\ \E used \in SUBSET Block : ExactLists(mem, used) /\ Accounted(used, {}, mb, held)
-----------------------------------------------------------------------------
(* What the operators of LinkedList read in a box. *)
LEMMA BoxList ==
  ASSUME NEW x \in Boxes, BoxShape(x), NEW id \in MsgBox
  PROVE  /\ BoxSeq(x, id) \in Seq(Block)
         /\ ListSeq(x.next, x.head[id], Cardinality(Block)) = BoxSeq(x, id)
         /\ ListNodes(x.next, x.head[id], Cardinality(Block)) = Ends(x, id)
<1>1. PICK h, e, next : /\ h \in Block \cup {NULL} /\ e \in Block \cup {NULL}
                         /\ h = x.head[id] /\ e = x.tail[id] /\ next = x.next
  BY DEF Boxes
<1>2. \/ h = NULL /\ e = NULL
      \/ /\ h # NULL /\ e # NULL /\ next[e] = NULL
         /\ h # e => next[h] = e
  BY <1>1 DEF BoxShape
<1>3. /\ BoxSeq(x, id) = IF h = NULL THEN <<>> ELSE IF h = e THEN <<h>> ELSE <<h, e>>
      /\ Ends(x, id) = {h, e} \ {NULL}
  BY <1>1 DEF BoxSeq, Ends
<1>4. \E s \in Seq(Block) : /\ s = BoxSeq(x, id) /\ IsList(next, h, s)
                            /\ Nodes(s) = Ends(x, id)
  <2>1. CASE h = NULL
    <3>1. <<>> \in Seq(Block) /\ Ends(x, id) = {} /\ BoxSeq(x, id) = <<>>
      BY <1>2, <1>3, <2>1
    <3> QED
      BY <2>1, <3>1, ListEmpty
  <2>2. CASE h # NULL /\ h = e
    <3>0. h \in Block /\ <<h>> \in Seq(Block) /\ Len(<<h>>) = 1 /\ <<h>>[1] = h
      BY <1>1, <2>2
    <3>1. PICK s \in Seq(Block) : s = <<h>> /\ Len(s) = 1 /\ s[1] = h
      BY <3>0
    <3>2. IsList(next, h, s)
      BY <1>2, <2>2, <3>1 DEF IsList
    <3>3. Nodes(s) = {h}
      BY <3>1 DEF Nodes
    <3> QED
      BY <1>3, <2>2, <3>1, <3>2, <3>3
  <2>3. CASE h # NULL /\ h # e
    <3>0. /\ h \in Block /\ e \in Block
          /\ <<h, e>> \in Seq(Block) /\ Len(<<h, e>>) = 2
          /\ <<h, e>>[1] = h /\ <<h, e>>[2] = e
      BY <1>1, <1>2, <2>3
    <3>1. PICK s \in Seq(Block) : s = <<h, e>> /\ Len(s) = 2 /\ s[1] = h /\ s[2] = e
      BY <3>0
    <3>2. \A i \in 1 .. 2 : i = 1 \/ i = 2
      OBVIOUS
    <3>3. IsList(next, h, s)
      BY <1>2, <2>3, <3>1, <3>2 DEF IsList
    <3>4. Nodes(s) = {h, e}
      BY <3>1, <3>2 DEF Nodes
    <3> QED
      BY <1>2, <1>3, <2>3, <3>1, <3>3, <3>4
  <2> QED
    BY <2>1, <2>2, <2>3
<1>5. PICK s \in Seq(Block) : s = BoxSeq(x, id) /\ IsList(next, h, s) /\ Nodes(s) = Ends(x, id)
  BY <1>4
<1>6. Len(s) <= Cardinality(Block)
  BY <1>5, BlocksFinite, ListFits
<1>7. NULL \notin Block /\ Cardinality(Block) \in Nat
  BY BlocksFinite, PoolAssumption
<1>8. ListSeq(next, h, Cardinality(Block)) = s /\ ListNodes(next, h, Cardinality(Block)) = Nodes(s)
  BY <1>5, <1>6, <1>7, ListRead
<1> QED
  BY <1>1, <1>5, <1>8

(* No buffer is in two boxes. *)
BoxesApart(x) ==
  \A j, k \in MsgBox : j # k => Ends(x, j) \cap Ends(x, k) = {}

(* sendmsg, field by field, for a block that is not yet a buffer: *)
LEMMA SendmsgFields ==
  ASSUME NEW x \in Boxes, BoxShape(x), BoxesApart(x), NEW id \in MsgBox, NEW b \in Block,
         b \notin InBoxes(x), NEW from \in ThreadPtr, NEW data \in Block \cup {STATIC},
         NEW y, y = sendmsg(x, id, b, from, data)
  PROVE  /\ y \in Boxes /\ BoxShape(y) /\ y.reciever = x.reciever
         /\ y.head[id] = IF x.head[id] = NULL THEN b ELSE x.head[id]
         /\ y.tail[id] = b
         /\ \A k \in MsgBox : k # id => y.head[k] = x.head[k] /\ y.tail[k] = x.tail[k]
         /\ \A c \in Block : /\ y.sender[c] = IF c = b THEN from ELSE x.sender[c]
                             /\ y.data[c] = IF c = b THEN data ELSE x.data[c]
<1>0. b # NULL /\ NULL \notin Block
  BY PoolAssumption
<1> DEFINE z == [x EXCEPT !.next[b] = NULL, !.sender[b] = from, !.data[b] = data]
<1>1. /\ z \in Boxes /\ z.head = x.head /\ z.tail = x.tail /\ z.reciever = x.reciever
      /\ z.next = [x.next EXCEPT ![b] = NULL]
      /\ z.sender = [x.sender EXCEPT ![b] = from] /\ z.data = [x.data EXCEPT ![b] = data]
  BY DEF Boxes
<1>2. y = enque(z, id, b)
  BY DEF sendmsg
<1> HIDE DEF z
<1>3. \A k \in MsgBox : x.head[k] # b /\ x.tail[k] # b
  BY <1>0 DEF InBoxes, Ends
<1>4. \A k \in MsgBox : /\ x.head[k] \in Block \cup {NULL}
                        /\ x.tail[k] \in Block \cup {NULL}
                        /\ x.head[k] = NULL <=> x.tail[k] = NULL
  BY DEF Boxes, BoxShape
<1>5. CASE z.tail[id] = NULL
  <2> DEFINE w == [z EXCEPT !.head[id] = b, !.tail[id] = b]
  <2>1. y = w
    BY <1>2, <1>5 DEF enque
  <2>2. /\ w \in Boxes /\ w.reciever = z.reciever /\ w.next = z.next
        /\ w.sender = z.sender /\ w.data = z.data
        /\ w.head = [z.head EXCEPT ![id] = b] /\ w.tail = [z.tail EXCEPT ![id] = b]
    BY <1>1 DEF Boxes
  <2> HIDE DEF w
  <2>3. \A k \in MsgBox :
          /\ y.head[k] = IF k = id THEN b ELSE x.head[k]
          /\ y.tail[k] = IF k = id THEN b ELSE x.tail[k]
    BY <1>1, <2>1, <2>2 DEF Boxes
  <2>4. \A c \in Block : y.next[c] = IF c = b THEN NULL ELSE x.next[c]
    BY <1>1, <2>1, <2>2 DEF Boxes
  <2>5. BoxShape(y)
    BY <1>0, <1>3, <1>4, <2>3, <2>4 DEF BoxShape
  <2>6. \A c \in Block : /\ y.sender[c] = IF c = b THEN from ELSE x.sender[c]
                         /\ y.data[c] = IF c = b THEN data ELSE x.data[c]
    BY <1>1, <2>1, <2>2 DEF Boxes
  <2> QED
    BY <1>1, <1>4, <1>5, <2>1, <2>2, <2>3, <2>5, <2>6
<1>6. CASE z.tail[id] # NULL
  <2>1. PICK h \in Block : h = z.head[id] /\ h = x.head[id]
    BY <1>1, <1>4, <1>6
  <2> DEFINE w == [z EXCEPT !.next[h] = b, !.tail[id] = b]
  <2>2. y = w
    BY <1>2, <1>6, <2>1 DEF enque
  <2>3. /\ w \in Boxes /\ w.reciever = z.reciever /\ w.next = [z.next EXCEPT ![h] = b]
        /\ w.sender = z.sender /\ w.data = z.data
        /\ w.head = z.head /\ w.tail = [z.tail EXCEPT ![id] = b]
    BY <1>1 DEF Boxes
  <2> HIDE DEF w
  <2>4. \A k \in MsgBox :
          /\ y.head[k] = x.head[k]
          /\ y.tail[k] = IF k = id THEN b ELSE x.tail[k]
    BY <1>1, <2>2, <2>3 DEF Boxes
  <2>5. \A c \in Block : y.next[c] = IF c = h THEN b ELSE IF c = b THEN NULL ELSE x.next[c]
    BY <1>1, <2>2, <2>3 DEF Boxes
  <2>6. ASSUME NEW k \in MsgBox
        PROVE  \/ y.head[k] = NULL /\ y.tail[k] = NULL
               \/ /\ y.head[k] # NULL /\ y.tail[k] # NULL
                  /\ y.next[y.tail[k]] = NULL
                  /\ y.head[k] # y.tail[k] => y.next[y.head[k]] = y.tail[k]
    <3>1. CASE k = id
      BY <1>0, <1>3, <2>1, <2>4, <2>5, <3>1
    <3>2. CASE k # id
      <4>1. x.head[k] # h /\ x.tail[k] # h
        BY <1>0, <2>1, <3>2 DEF BoxesApart, Ends
      <4> QED
        BY <1>3, <1>4, <2>4, <2>5, <3>2, <4>1 DEF BoxShape
    <3> QED
      BY <3>1, <3>2
  <2>7. BoxShape(y)
    BY <2>6 DEF BoxShape
  <2>8. \A c \in Block : /\ y.sender[c] = IF c = b THEN from ELSE x.sender[c]
                         /\ y.data[c] = IF c = b THEN data ELSE x.data[c]
    BY <1>1, <2>2, <2>3 DEF Boxes
  <2> QED
    BY <1>0, <1>1, <2>1, <2>2, <2>3, <2>4, <2>7, <2>8
<1> QED
  BY <1>5, <1>6

(* recvmsg, field by field. *)
LEMMA RecvmsgFields ==
  ASSUME NEW x \in Boxes, BoxShape(x), BoxesApart(x), NEW id \in MsgBox,
         NEW f, f = x.head[id], f # NULL, NEW y, y = recvmsg(x, id)
  PROVE  /\ f \in Block /\ y \in Boxes /\ BoxShape(y)
         /\ \A k \in MsgBox : /\ y.reciever[k] = IF k = id THEN NULL ELSE x.reciever[k]
                              /\ k # id => y.head[k] = x.head[k] /\ y.tail[k] = x.tail[k]
         /\ y.head[id] = IF f = x.tail[id] THEN NULL ELSE x.tail[id]
         /\ y.tail[id] = IF f = x.tail[id] THEN NULL ELSE x.tail[id]
         /\ \A c \in Block : /\ y.sender[c] = IF c = f THEN NULL ELSE x.sender[c]
                             /\ y.data[c] = IF c = f THEN NULL ELSE x.data[c]
<1>1. f \in Block
  BY DEF Boxes
<1>2. PICK n \in Block \cup {NULL} : n = x.next[f]
  BY DEF Boxes
<1>3. PICK e \in Block \cup {NULL} : e = IF n = NULL THEN NULL ELSE x.tail[id]
  BY DEF Boxes
<1>4. NULL \notin Block /\ f # NULL
  BY PoolAssumption
<1> DEFINE z == [x EXCEPT !.head[id] = n, !.tail[id] = e, !.next[f] = NULL]
<1>5. deque(x, id) = z
  BY <1>1, <1>2, <1>3 DEF deque
<1>6. /\ z \in Boxes /\ z.reciever = x.reciever
      /\ z.head = [x.head EXCEPT ![id] = n] /\ z.tail = [x.tail EXCEPT ![id] = e]
      /\ z.next = [x.next EXCEPT ![f] = NULL] /\ z.sender = x.sender /\ z.data = x.data
  BY DEF Boxes
<1> HIDE DEF z
<1> DEFINE w == [z EXCEPT !.reciever[id] = NULL, !.sender[f] = NULL, !.data[f] = NULL]
<1>7. y = w
  BY <1>5 DEF recvmsg
<1>8. /\ w \in Boxes /\ w.reciever = [z.reciever EXCEPT ![id] = NULL]
      /\ w.head = z.head /\ w.tail = z.tail /\ w.next = z.next
      /\ w.sender = [z.sender EXCEPT ![f] = NULL] /\ w.data = [z.data EXCEPT ![f] = NULL]
  BY <1>6 DEF Boxes, ThreadPtr
<1> HIDE DEF w
<1>9. /\ \A k \in MsgBox :
           /\ y.head[k] = IF k = id THEN n ELSE x.head[k]
           /\ y.tail[k] = IF k = id THEN e ELSE x.tail[k]
           /\ y.reciever[k] = IF k = id THEN NULL ELSE x.reciever[k]
      /\ \A c \in Block : y.next[c] = IF c = f THEN NULL ELSE x.next[c]
  BY <1>6, <1>7, <1>8 DEF Boxes
<1>10. /\ n = IF f = x.tail[id] THEN NULL ELSE x.tail[id]
       /\ e = n
       /\ n # NULL => x.next[n] = NULL /\ n # f
  BY <1>1, <1>2, <1>3, <1>4 DEF BoxShape
<1>11. ASSUME NEW k \in MsgBox
       PROVE  \/ y.head[k] = NULL /\ y.tail[k] = NULL
              \/ /\ y.head[k] # NULL /\ y.tail[k] # NULL
                 /\ y.next[y.tail[k]] = NULL
                 /\ y.head[k] # y.tail[k] => y.next[y.head[k]] = y.tail[k]
  <2>1. CASE k = id
    BY <1>2, <1>9, <1>10, <2>1
  <2>2. CASE k # id
    <3>1. x.head[k] # f /\ x.tail[k] # f
      BY <1>1, <1>4, <2>2 DEF BoxesApart, Ends
    <3>2. x.head[k] \in Block \cup {NULL} /\ x.tail[k] \in Block \cup {NULL}
      BY DEF Boxes
    <3> QED
      BY <1>9, <2>2, <3>1, <3>2 DEF BoxShape
  <2> QED
    BY <2>1, <2>2
<1>12. BoxShape(y)
  BY <1>11 DEF BoxShape
<1>13. \A c \in Block : /\ y.sender[c] = IF c = f THEN NULL ELSE x.sender[c]
                        /\ y.data[c] = IF c = f THEN NULL ELSE x.data[c]
  BY <1>6, <1>7, <1>8 DEF Boxes
<1> QED
  BY <1>1, <1>6, <1>7, <1>8, <1>9, <1>10, <1>12, <1>13
-----------------------------------------------------------------------------
LEMMA OwnersAre ==
  ASSUME NEW x, NEW h, NEW b, NEW o
  PROVE  o \in Owners(x, h, b) <=>
           \/ \E id \in MsgBox : o = <<"buffer", id>> /\ b \in Ends(x, id)
           \/ \E m \in InBoxes(x) : o = <<"data", m>> /\ x.data[m] = b
           \/ \E t \in Thread : o = <<"held", t>> /\ b \in h[t]
BY DEF Owners

(* What is accounted for is in one place, in particular in one box. *)
LEMMA AccountedApart ==
  ASSUME NEW used, NEW loose, NEW x \in Boxes, NEW h, Accounted(used, loose, x, h)
  PROVE  /\ BoxesApart(x)
         /\ \A b \in Block : b \in loose \/ b \notin used => Owners(x, h, b) = {}
         /\ InBoxes(x) \subseteq Block
         /\ \A b \in Block : Owners(x, h, b) = {} => b \notin InBoxes(x)
<1>1. InBoxes(x) \subseteq Block
  BY DEF InBoxes, Ends, Boxes
<1>2. ASSUME NEW b \in Block, NEW id \in MsgBox, b \in Ends(x, id)
      PROVE  <<"buffer", id>> \in Owners(x, h, b)
  BY <1>2, OwnersAre
<1>3. BoxesApart(x)
  <2> SUFFICES ASSUME NEW j \in MsgBox, NEW k \in MsgBox, NEW b,
                      b \in Ends(x, j), b \in Ends(x, k)
               PROVE  j = k
    BY DEF BoxesApart
  <2>1. b \in Block
    BY <1>1 DEF InBoxes
  <2>2. <<"buffer", j>> \in Owners(x, h, b) /\ <<"buffer", k>> \in Owners(x, h, b)
    BY <1>2, <2>1
  <2>3. <<"buffer", j>> = <<"buffer", k>>
    BY <2>1, <2>2 DEF Accounted
  <2> QED
    BY <2>3
<1>4. \A b \in Block : Owners(x, h, b) = {} => b \notin InBoxes(x)
  BY <1>2 DEF InBoxes
<1>5. \A b \in Block : b \in loose \/ b \notin used => Owners(x, h, b) = {}
  BY DEF Accounted
<1> QED
  BY <1>1, <1>3, <1>4, <1>5

(* From boxes x and holders h to y and g, blocks `back' have found an owner and
   the others have kept theirs. *)
Settles(x, h, y, g, back) ==
  /\ \A c \in Block \ back : Owners(y, g, c) \subseteq Owners(x, h, c)
  /\ \A c \in Block \cap back : \A o, p \in Owners(y, g, c) : o = p
  /\ Lossless => /\ \A c \in Block \ back : Owners(x, h, c) \subseteq Owners(y, g, c)
                 /\ \A c \in Block \cap back : Owners(y, g, c) # {}

LEMMA Settled ==
  ASSUME NEW used \in SUBSET Block, NEW loose, NEW x, NEW h, Accounted(used, loose, x, h),
         NEW y, NEW g, NEW back, back \cap Block \subseteq loose, Settles(x, h, y, g, back)
  PROVE  Accounted(used, loose \ back, y, g)
<1>1. \A c \in Block \ back : Owners(y, g, c) # {} => c \in used \ loose
  BY DEF Accounted, Settles
<1>2. ASSUME NEW c \in Block
      PROVE  /\ \A o, p \in Owners(y, g, c) : o = p
             /\ Owners(y, g, c) # {} => c \in used \ (loose \ back)
  BY <1>1 DEF Accounted, Settles
<1>3. ASSUME Lossless, NEW c \in used \ (loose \ back) PROVE Owners(y, g, c) # {}
  <2>1. CASE c \in back
    BY <1>3, <2>1 DEF Settles
  <2>2. CASE c \notin back
    BY <1>3, <2>2 DEF Accounted, Settles
  <2> QED
    BY <2>1, <2>2
<1> QED
  BY <1>2, <1>3 DEF Accounted

(* The kernel gives a block to a thread, *)
LEMMA GiveBlock ==
  ASSUME NEW used \in SUBSET Block, NEW loose, NEW x, NEW h \in [Thread -> SUBSET Block],
         Accounted(used, loose, x, h), NEW t \in Thread, NEW d, d \in Block => d \in loose
  PROVE  Accounted(used, loose \ {d}, x, [h EXCEPT ![t] = @ \cup ({d} \cap Block)])
<1> DEFINE g == [h EXCEPT ![t] = @ \cup ({d} \cap Block)]
<1>1. /\ \A u \in Thread : u # t => g[u] = h[u]
      /\ g[t] = h[t] \cup ({d} \cap Block)
  OBVIOUS
<1> HIDE DEF g
<1>2. ASSUME NEW c \in Block, c # d PROVE Owners(x, g, c) = Owners(x, h, c)
  <2>1. {u \in Thread : c \in g[u]} = {u \in Thread : c \in h[u]}
    BY <1>1, <1>2
  <2> QED
    BY <2>1 DEF Owners
<1>3. ASSUME d \in Block PROVE Owners(x, g, d) = {<<"held", t>>}
  <2>1. Owners(x, h, d) = {}
    BY <1>3 DEF Accounted
  <2> QED
    BY <1>1, <1>3, <2>1, OwnersAre
<1>4. Accounted(used, loose \ {d}, x, g)
  <2> DEFINE back == {d}
  <2>1. /\ back \cap Block \subseteq loose
        /\ \A c \in Block \ back : Owners(x, g, c) = Owners(x, h, c)
        /\ \A c \in Block \cap back : Owners(x, g, c) = {<<"held", t>>}
    BY <1>2, <1>3
  <2> HIDE DEF back
  <2>2. Settles(x, h, x, g, back)
    BY <2>1 DEF Settles
  <2>3. Accounted(used, loose \ back, x, g)
    BY <2>1, <2>2, Settled
  <2> QED
    BY <2>3 DEF back
<1> QED
  BY <1>4 DEF g

(* it takes one from a thread, *)
LEMMA DropBlock ==
  ASSUME NEW used \in SUBSET Block, NEW loose, NEW x, NEW h \in [Thread -> SUBSET Block],
         Accounted(used, loose, x, h), NEW t \in Thread, NEW d \in h[t] \cup {STATIC}
  PROVE  Accounted(used, loose \cup ({d} \cap Block), x, [h EXCEPT ![t] = @ \ {d}])
<1> DEFINE g == [h EXCEPT ![t] = @ \ {d}]
<1>1. /\ \A u \in Thread : u # t => g[u] = h[u]
      /\ g[t] = h[t] \ {d} /\ h[t] \subseteq Block
  OBVIOUS
<1> HIDE DEF g
<1>2. ASSUME NEW c \in Block, c # d PROVE Owners(x, g, c) = Owners(x, h, c)
  <2>1. {u \in Thread : c \in g[u]} = {u \in Thread : c \in h[u]}
    BY <1>1, <1>2
  <2> QED
    BY <2>1 DEF Owners
<1>3. ASSUME d \in Block PROVE Owners(x, g, d) = {} /\ d \in used \ loose
  <2>1. <<"held", t>> \in Owners(x, h, d)
    BY <1>3, OwnersAre, PoolAssumption
  <2>2. /\ \A o \in Owners(x, h, d) : o = <<"held", t>>
        /\ d \in used \ loose
    BY <1>3, <2>1 DEF Accounted
  <2>3. ASSUME NEW o \in Owners(x, g, d) PROVE FALSE
    <3>1. o \in Owners(x, h, d)
      BY <1>1, <2>3, OwnersAre
    <3>2. o = <<"held", t>>
      BY <2>2, <3>1
    <3> QED
      BY <1>1, <2>3, <3>2, OwnersAre
  <2> QED
    BY <2>2, <2>3
<1>4. Accounted(used, loose \cup ({d} \cap Block), x, g)
  BY <1>2, <1>3 DEF Accounted
<1> QED
  BY <1>4 DEF g

(* one from a pool, *)
LEMMA TakeBlock ==
  ASSUME NEW used \in SUBSET Block, NEW loose, NEW x, NEW h,
         Accounted(used, loose, x, h), NEW b \in Block \ used
  PROVE  Accounted(used \cup {b}, loose \cup {b}, x, h)
BY DEF Accounted

(* and puts one back there. *)
LEMMA ReturnBlock ==
  ASSUME NEW used \in SUBSET Block, NEW loose, NEW x, NEW h,
         Accounted(used, loose, x, h), NEW b \in loose
  PROVE  Accounted(used \ {b}, loose \ {b}, x, h)
BY DEF Accounted

(* What a thread that ends still holds is lost. *)
LEMMA LoseBlocks ==
  ASSUME NEW used \in SUBSET Block, NEW x, NEW h \in [Thread -> SUBSET Block],
         Accounted(used, {}, x, h), NEW t \in Thread, ~Lossless
  PROVE  Accounted(used, {}, x, [h EXCEPT ![t] = {}])
<1> DEFINE g == [h EXCEPT ![t] = {}]
<1>1. \A u \in Thread : g[u] \subseteq h[u]
  OBVIOUS
<1> HIDE DEF g
<1>2. ASSUME NEW c \in Block, NEW o \in Owners(x, g, c) PROVE o \in Owners(x, h, c)
  BY <1>1, <1>2, OwnersAre
<1>3. Accounted(used, {}, x, g)
  BY <1>2 DEF Accounted
<1> QED
  BY <1>3 DEF g
-----------------------------------------------------------------------------
(* sendmsg makes block b a buffer of the box and `data' what it carries.  Only
   a box with two buffers already loses one over it. *)
LEMMA SendAccounted ==
  ASSUME NEW used \in SUBSET Block, NEW loose, NEW x \in Boxes, BoxShape(x), NEW h,
         Accounted(used, loose, x, h),
         NEW id \in MsgBox, NEW b \in loose, NEW from \in ThreadPtr,
         NEW data \in loose \cup {STATIC}, data # b,
         Lossless => x.head[id] = x.tail[id]
  PROVE  Accounted(used, loose \ {b, data}, sendmsg(x, id, b, from, data), h)
<1>1. b \in Block /\ loose \subseteq Block /\ data \in Block \cup {STATIC}
      /\ NULL \notin Block /\ STATIC \notin Block
  BY PoolAssumption DEF Accounted
<1>2. /\ BoxesApart(x) /\ InBoxes(x) \subseteq Block /\ b \notin InBoxes(x)
      /\ \A c \in Block \cap {b, data} : Owners(x, h, c) = {}
  <2>1. /\ BoxesApart(x) /\ InBoxes(x) \subseteq Block
        /\ \A c \in Block : c \in loose => Owners(x, h, c) = {}
        /\ \A c \in Block : Owners(x, h, c) = {} => c \notin InBoxes(x)
    BY AccountedApart
  <2>2. \A c \in Block \cap {b, data} : c \in loose
    BY <1>1
  <2> QED
    BY <1>1, <2>1, <2>2
<1>3. PICK y : y = sendmsg(x, id, b, from, data)
  OBVIOUS
<1>4. /\ y.head[id] = IF x.head[id] = NULL THEN b ELSE x.head[id]
      /\ y.tail[id] = b
      /\ \A k \in MsgBox : k # id => y.head[k] = x.head[k] /\ y.tail[k] = x.tail[k]
      /\ \A c \in Block : y.data[c] = IF c = b THEN data ELSE x.data[c]
  <2>1. data \in Block \cup {STATIC} /\ b \in Block /\ b \notin InBoxes(x) /\ BoxesApart(x)
    BY <1>1, <1>2
  <2> QED
    BY <1>3, <2>1, SendmsgFields
<1>5. \A c \in Block : y.data[c] = IF c = b THEN data ELSE x.data[c]
  BY <1>4
<1>6. /\ \A k \in MsgBox : k # id => Ends(y, k) = Ends(x, k)
      /\ Ends(y, id) \subseteq Ends(x, id) \cup {b} /\ b \in Ends(y, id)
      /\ Lossless => Ends(x, id) \subseteq Ends(y, id)
  BY <1>1, <1>4 DEF Ends, BoxShape
<1>7. /\ InBoxes(y) \subseteq InBoxes(x) \cup {b} /\ b \in InBoxes(y)
      /\ Lossless => InBoxes(x) \subseteq InBoxes(y)
  BY <1>6 DEF InBoxes
<1>8. ASSUME NEW c \in Block, NEW o \in Owners(y, h, c)
      PROVE  \/ o \in Owners(x, h, c)
             \/ c = b /\ o = <<"buffer", id>>
             \/ c = data /\ o = <<"data", b>>
  <2>1. CASE \E k \in MsgBox : o = <<"buffer", k>> /\ c \in Ends(y, k)
    <3>1. PICK k \in MsgBox : o = <<"buffer", k>> /\ c \in Ends(y, k)
      BY <2>1
    <3>2. CASE c \in Ends(x, k)
      BY <3>1, <3>2, OwnersAre
    <3>3. CASE c \notin Ends(x, k)
      BY <1>6, <3>1, <3>3
    <3> QED
      BY <3>2, <3>3
  <2>2. CASE \E m \in InBoxes(y) : o = <<"data", m>> /\ y.data[m] = c
    <3>1. PICK m \in InBoxes(y) : o = <<"data", m>> /\ y.data[m] = c
      BY <2>2
    <3>2. CASE m \in InBoxes(x)
      <4>1. x.data[m] = c
        BY <1>2, <1>5, <3>1, <3>2
      <4> QED
        BY <3>1, <3>2, <4>1, OwnersAre
    <3>3. CASE m \notin InBoxes(x)
      <4>1. m = b
        BY <1>7, <3>3
      <4> QED
        BY <1>1, <1>5, <3>1, <4>1
    <3> QED
      BY <3>2, <3>3
  <2>3. CASE \E t \in Thread : o = <<"held", t>> /\ c \in h[t]
    BY <2>3, OwnersAre
  <2> QED
    BY <2>1, <2>2, <2>3, OwnersAre
<1>9. ASSUME Lossless, NEW c \in Block, NEW o \in Owners(x, h, c)
      PROVE  o \in Owners(y, h, c)
  <2>1. CASE \E k \in MsgBox : o = <<"buffer", k>> /\ c \in Ends(x, k)
    <3>1. PICK k \in MsgBox : o = <<"buffer", k>> /\ c \in Ends(x, k)
      BY <2>1
    <3>2. c \in Ends(y, k)
      BY <1>6, <1>9, <3>1
    <3> QED
      BY <3>1, <3>2, OwnersAre
  <2>2. CASE \E m \in InBoxes(x) : o = <<"data", m>> /\ x.data[m] = c
    <3>1. PICK m \in InBoxes(x) : o = <<"data", m>> /\ x.data[m] = c
      BY <2>2
    <3>2. m \in InBoxes(y) /\ y.data[m] = c
      BY <1>2, <1>5, <1>7, <1>9, <3>1
    <3> QED
      BY <3>1, <3>2, OwnersAre
  <2>3. CASE \E t \in Thread : o = <<"held", t>> /\ c \in h[t]
    BY <2>3, OwnersAre
  <2> QED
    BY <1>9, <2>1, <2>2, <2>3, OwnersAre
<1>10. /\ <<"buffer", id>> \in Owners(y, h, b)
       /\ data \in Block => <<"data", b>> \in Owners(y, h, data)
  <2>1. y.data[b] = data
    BY <1>1, <1>5
  <2> QED
    BY <1>6, <1>7, <2>1, OwnersAre
<1> DEFINE back == {b, data}
<1>11. /\ back \cap Block \subseteq loose
       /\ \A c \in Block \ back : Owners(y, h, c) \subseteq Owners(x, h, c)
  BY <1>1, <1>8
<1>12. \A c \in Block \cap back : \A o, p \in Owners(y, h, c) : o = p
  <2> SUFFICES ASSUME NEW c \in Block \cap back, NEW o \in Owners(y, h, c), NEW p \in Owners(y, h, c)
               PROVE  o = p
    OBVIOUS
  <2>1. Owners(x, h, c) = {}
    BY <1>2
  <2> QED
    BY <1>8, <2>1
<1>13. Lossless => /\ \A c \in Block \ back : Owners(x, h, c) \subseteq Owners(y, h, c)
                   /\ \A c \in Block \cap back : Owners(y, h, c) # {}
  BY <1>9, <1>10
<1> HIDE DEF back
<1>14. Settles(x, h, y, h, back)
  BY <1>11, <1>12, <1>13 DEF Settles
<1>15. Accounted(used, loose \ back, y, h)
  BY <1>11, <1>14, Settled
<1> QED
  BY <1>3, <1>15 DEF back

(* recvmsg takes the first buffer and the data it carries out of the box. *)
LEMMA RecvAccounted ==
  ASSUME NEW used \in SUBSET Block, NEW loose, NEW x \in Boxes, BoxShape(x), NEW h,
         Accounted(used, loose, x, h), NEW id \in MsgBox,
         NEW f, f = x.head[id], f # NULL, NEW d, d = x.data[f],
         NEW y, y = recvmsg(x, id)
  PROVE  d # f /\ Accounted(used, loose \cup ({f, d} \cap Block), y, h)
<1>1. BoxesApart(x) /\ InBoxes(x) \subseteq Block
  BY AccountedApart
<1>2. f \in Block
  BY DEF Boxes
<1>3. /\ y.head[id] = IF f = x.tail[id] THEN NULL ELSE x.tail[id]
      /\ y.tail[id] = IF f = x.tail[id] THEN NULL ELSE x.tail[id]
      /\ \A k \in MsgBox : k # id => y.head[k] = x.head[k] /\ y.tail[k] = x.tail[k]
      /\ \A c \in Block : y.data[c] = IF c = f THEN NULL ELSE x.data[c]
  BY <1>1, RecvmsgFields
<1>4. d = x.data[f]
  OBVIOUS
<1>5. f \in Ends(x, id) /\ f \in InBoxes(x)
  BY DEF Ends, InBoxes
<1>6. /\ Ends(y, id) = Ends(x, id) \ {f}
      /\ \A k \in MsgBox : k # id => Ends(y, k) = Ends(x, k) /\ f \notin Ends(x, k)
  BY <1>1, <1>3, <1>5 DEF Ends, BoxesApart
<1>7. InBoxes(y) = InBoxes(x) \ {f}
  BY <1>6 DEF InBoxes
<1>8. \A c \in InBoxes(y) : y.data[c] = x.data[c]
  BY <1>1, <1>3, <1>7
<1>9. ASSUME NEW c \in Block, NEW o
      PROVE  o \in Owners(y, h, c) <=>
               /\ o \in Owners(x, h, c)
               /\ ~(c = f /\ o = <<"buffer", id>>) /\ ~(c = d /\ o = <<"data", f>>)
  <2>1. \A k \in MsgBox : c \in Ends(y, k) <=> c \in Ends(x, k) /\ ~(c = f /\ k = id)
    BY <1>6
  <2>2. \A m : m \in InBoxes(y) /\ y.data[m] = c <=> 
                m \in InBoxes(x) /\ x.data[m] = c /\ ~(m = f)
    BY <1>7, <1>8
  <2> QED
    BY <1>4, <2>1, <2>2, OwnersAre
<1>10. <<"buffer", id>> \in Owners(x, h, f) /\ f \in used \ loose
       /\ \A o \in Owners(x, h, f) : o = <<"buffer", id>>
  <2>1. <<"buffer", id>> \in Owners(x, h, f)
    BY <1>5, OwnersAre
  <2> QED
    BY <1>2, <2>1 DEF Accounted
<1>11. ASSUME d \in Block
       PROVE  /\ <<"data", f>> \in Owners(x, h, d) /\ d \in used \ loose
              /\ \A o \in Owners(x, h, d) : o = <<"data", f>>
  <2>1. <<"data", f>> \in Owners(x, h, d)
    BY <1>4, <1>5, OwnersAre
  <2> QED
    BY <1>11, <2>1 DEF Accounted
<1>12. d # f
  BY <1>10, <1>11
<1>13. Owners(y, h, f) = {} /\ (d \in Block => Owners(y, h, d) = {})
  BY <1>9, <1>10, <1>11
<1>14. \A c \in Block : c # f /\ c # d => Owners(y, h, c) = Owners(x, h, c)
  BY <1>9
<1>15. PICK more : more = {f, d} \cap Block
  OBVIOUS
<1>16. /\ more \subseteq used \ loose
       /\ \A c \in Block : IF c \in more THEN Owners(y, h, c) = {}
                            ELSE Owners(y, h, c) = Owners(x, h, c)
  BY <1>10, <1>11, <1>13, <1>14, <1>15
<1>17. Accounted(used, loose \cup more, y, h)
  BY <1>16 DEF Accounted
<1> QED
  BY <1>12, <1>15, <1>17
-----------------------------------------------------------------------------
LEMMA InitBlocks == Init => BlocksInv
<1> SUFFICES ASSUME Init PROVE BlocksInv
  OBVIOUS
<1>1. PICK x : x = mb /\ x = EmptyBoxes(Block)
  BY DEF Init
<1>2. \A id \in MsgBox : x.head[id] = NULL /\ x.tail[id] = NULL
  BY <1>1 DEF EmptyBoxes
<1>3. BoxShape(x) /\ \A id \in MsgBox : Ends(x, id) = {}
  BY <1>2 DEF BoxShape, Ends
<1>4. InBoxes(x) = {}
  BY <1>3 DEF InBoxes
<1>5. \A t \in Thread : held[t] = {}
  BY DEF Init
<1>6. \A b \in Block : \A o : o \notin Owners(x, held, b)
  BY <1>3, <1>4, <1>5, OwnersAre
<1>7. Accounted({}, {}, x, held)
  BY <1>6 DEF Accounted
<1>8. ExactLists(mem, {})
  BY InitLists DEF Init
<1> QED
  BY <1>1, <1>3, <1>7, <1>8 DEF BlocksInv

(* What a step that leaves boxes, pools and holders alone keeps. *)
LEMMA BlocksUnchanged == BlocksInv /\ UNCHANGED ipcVars => BlocksInv'
BY DEF BlocksInv, ipcVars

(* The bound on messages lets a second message into a box, but no third. *)
LEMMA PendingOne ==
  ASSUME mb \in Boxes, BoxShape(mb), NEW id \in MsgBox, Pending(id) < MaxPending, MaxPending <= 2
  PROVE  mb.head[id] = mb.tail[id]
<1>1. Pending(id) = Len(BoxSeq(mb, id))
  BY BoxList DEF Pending
<1>2. PICK h, e : h = mb.head[id] /\ e = mb.tail[id]
  OBVIOUS
<1>3. Len(<<h, e>>) = 2 /\ MaxPending \in Nat
  BY KozosAssumption
<1> QED
  BY <1>1, <1>2, <1>3 DEF BoxSeq, BoxShape

(* A block taken from a pool for a message buffer. *)
LEMMA TakeBuffer ==
  ASSUME NEW m \in Pools, NEW i \in Pool, m.free[i] # NULL,
         NEW used \in SUBSET Block, ExactLists(m, used),
         NEW loose, NEW x, NEW h, Accounted(used, loose, x, h)
  PROVE  LET b == m.free[i]
         IN  /\ b \in Block \ used
             /\ kzmem_alloc(m, i) \in Pools
             /\ ExactLists(kzmem_alloc(m, i), used \cup {b})
             /\ Accounted(used \cup {b}, loose \cup {b}, x, h)
<1>1. PICK b : b = m.free[i]
  OBVIOUS
<1>2. /\ b \in Block \ used /\ kzmem_alloc(m, i) \in Pools
      /\ ExactLists(kzmem_alloc(m, i), used \cup {b})
  BY <1>1, AllocPools, AllocLists DEF PoolBlocks
<1>3. Accounted(used \cup {b}, loose \cup {b}, x, h)
  BY <1>2, TakeBlock
<1> QED
  BY <1>1, <1>2, <1>3

(* A buffer given back to its pool. *)
LEMMA ReturnBuffer ==
  ASSUME NEW m \in Pools, NEW used \in SUBSET Block, ExactLists(m, used),
         NEW loose, NEW x, NEW h, Accounted(used, loose, x, h), NEW b \in loose
  PROVE  /\ ExactLists(kzmem_free(m, b), used \ {b})
         /\ Accounted(used \ {b}, loose \ {b}, x, h)
         /\ used \ {b} \in SUBSET Block
<1>1. b \in used
  BY DEF Accounted
<1> QED
  BY <1>1, FreeLists, ReturnBlock

(* A message on its way, `data' being in the kernel's hands, gets a buffer and
   enters its box. *)
LEMMA SentBlocks ==
  ASSUME KernelInv, BlocksInv, NEW m \in Pools, NEW used \in SUBSET Block, ExactLists(m, used),
         NEW h \in [Thread -> SUBSET Block], NEW from \in ThreadPtr, NEW id \in MsgBox,
         NEW data \in Block \cup {STATIC}, Accounted(used, {data} \cap Block, mb, h),
         Pending(id) < MaxPending, NEW i \in Pool, FirstFit(m, MSGBUF_SIZE, i),
         NEW b, b = m.free[i], NEW x, x = sendmsg(mb, id, b, from, data)
  PROVE  /\ b \in Block \ used /\ b \notin InBoxes(mb) /\ kzmem_alloc(m, i) \in Pools
         /\ ExactLists(kzmem_alloc(m, i), used \cup {b})
         /\ x \in Boxes /\ BoxShape(x) /\ BoxesApart(x)
         /\ mb.head[id] = NULL => x.head[id] = b /\ x.data[b] = data
         /\ Accounted(used \cup {b}, {}, x, h)
<1>0. /\ mb \in Boxes /\ BoxShape(mb) /\ STATIC \notin Block /\ NULL \notin Block
  BY PoolAssumption DEF KernelInv, IpcInv, BlocksInv
<1> DEFINE loose == ({data} \cap Block) \cup {b}
<1>1. /\ b \in Block \ used /\ kzmem_alloc(m, i) \in Pools
      /\ ExactLists(kzmem_alloc(m, i), used \cup {b})
      /\ Accounted(used \cup {b}, loose, mb, h)
  BY TakeBuffer DEF FirstFit, Fits
<1>2. /\ b \in loose /\ data \in loose \cup {STATIC} /\ data # b
      /\ loose \ {b, data} = {} /\ used \cup {b} \in SUBSET Block
  BY <1>0, <1>1 DEF Accounted
<1> HIDE DEF loose
<1>3. Lossless => mb.head[id] = mb.tail[id]
  BY <1>0, PendingOne DEF Lossless
<1>4. Accounted(used \cup {b}, loose \ {b, data}, x, h)
  BY <1>0, <1>1, <1>2, <1>3, SendAccounted
<1>5. BoxesApart(mb) /\ b \notin InBoxes(mb)
  BY <1>0, <1>1, <1>2, AccountedApart
<1>6. /\ x \in Boxes /\ BoxShape(x)
      /\ x.head[id] = IF mb.head[id] = NULL THEN b ELSE mb.head[id]
      /\ x.data[b] = data
  BY <1>0, <1>1, <1>5, SendmsgFields
<1>7. BoxesApart(x)
  BY <1>4, <1>6, AccountedApart
<1> QED
  BY <1>1, <1>2, <1>4, <1>5, <1>6, <1>7

(* If somebody waits for it, it goes on to him. *)
LEMMA PostBlocks ==
  ASSUME KernelInv, BlocksInv,
         NEW q, NEW m \in Pools, NEW used \in SUBSET Block, ExactLists(m, used),
         NEW h \in [Thread -> SUBSET Block], NEW from \in ThreadPtr, NEW id \in MsgBox,
         NEW data \in Block \cup {STATIC}, Accounted(used, {data} \cap Block, mb, h),
         Pending(id) < MaxPending, func' = func, Post(q, m, h, from, id, data)
  PROVE  BlocksInv'
<1>0. /\ mb \in Boxes /\ WaitsEmpty(mb) /\ BoxShape(mb) /\ func \subseteq Thread
      /\ STATIC \notin Block /\ NULL \notin Block
  BY PoolAssumption DEF KernelInv, IpcInv, SchedInv, BlocksInv
<1>1. CASE Halt("down") \/ Halt("wild")
  BY <1>1, BlocksUnchanged DEF Halt
<1>2. ASSUME NEW i \in Pool, FirstFit(m, MSGBUF_SIZE, i), NEW b, b = m.free[i],
             NEW x, x = sendmsg(mb, id, b, from, data)
      PROVE  /\ b \in Block \ used /\ kzmem_alloc(m, i) \in Pools
             /\ ExactLists(kzmem_alloc(m, i), used \cup {b})
             /\ x \in Boxes /\ BoxShape(x) /\ BoxesApart(x)
             /\ mb.head[id] = NULL => x.head[id] = b /\ x.data[b] = data
             /\ Accounted(used \cup {b}, {}, x, h)
  BY <1>2, SentBlocks, SMTT(30)
<1>3. ASSUME NEW i \in Pool, FirstFit(m, MSGBUF_SIZE, i), NEW b, b = m.free[i],
             NEW x, x = sendmsg(mb, id, b, from, data), mb' = x,
             mem' = kzmem_alloc(m, i), held' = h
      PROVE  BlocksInv'
  <2>1. used \cup {b} \in SUBSET Block
    BY <1>2, <1>3
  <2> QED
    BY <1>2, <1>3, <2>1 DEF BlocksInv
<1>4. ASSUME NEW i \in Pool, FirstFit(m, MSGBUF_SIZE, i), NEW b, b = m.free[i],
             NEW x, x = sendmsg(mb, id, b, from, data),
             NEW r, r = mb.reciever[id], r # NULL, r \in func, mb' = recvmsg(x, id),
             mem' = kzmem_free(kzmem_alloc(m, i), x.head[id]), held' = Deliver(h, x, id, r)
      PROVE  BlocksInv'
  <2>1. mb.head[id] = NULL
    BY <1>0, <1>4 DEF WaitsEmpty
  <2>2. /\ b \in Block \ used /\ kzmem_alloc(m, i) \in Pools
        /\ ExactLists(kzmem_alloc(m, i), used \cup {b})
        /\ x \in Boxes /\ BoxShape(x) /\ x.head[id] = b /\ x.data[b] = data
        /\ Accounted(used \cup {b}, {}, x, h) /\ used \cup {b} \in SUBSET Block
    BY <1>2, <1>4, <2>1
  <2>3. b # NULL
    BY <1>0, <2>2
  <2>4. PICK y : y = recvmsg(x, id)
    OBVIOUS
  <2>5. Accounted(used \cup {b}, {} \cup ({b, data} \cap Block), y, h) /\ data # b
    <3>1. PICK all, none : all \in SUBSET Block /\ all = used \cup {b} /\ none = {}
      BY <2>2
    <3>2. Accounted(all, none, x, h)
      BY <2>2, <3>1
    <3>3. Accounted(all, none \cup ({b, data} \cap Block), y, h) /\ data # b
      BY <2>2, <2>3, <2>4, <3>1, <3>2, RecvAccounted
    <3> QED
      BY <3>1, <3>3
  <2>6. BoxesApart(x)
    BY <1>2, <1>4
  <2>7. BoxShape(y)
    BY <2>2, <2>3, <2>4, <2>6, RecvmsgFields
  <2>8. PICK loose : loose = {} \cup ({b, data} \cap Block) /\ b \in loose
    BY <2>2
  <2>9. /\ ExactLists(mem', (used \cup {b}) \ {b})
        /\ Accounted((used \cup {b}) \ {b}, loose \ {b}, y, h)
        /\ (used \cup {b}) \ {b} \in SUBSET Block
    BY <1>4, <2>2, <2>5, <2>8, ReturnBuffer
  <2>10. PICK left \in SUBSET Block : left = (used \cup {b}) \ {b}
    BY <2>9
  <2>11. data \in Block => data \in loose \ {b}
    BY <2>5, <2>8
  <2>12. held' = [h EXCEPT ![r] = @ \cup ({data} \cap Block)] /\ r \in Thread
    BY <1>0, <1>4, <2>2 DEF Deliver
  <2>13. Accounted(left, (loose \ {b}) \ {data}, y, held')
    BY <2>9, <2>10, <2>11, <2>12, GiveBlock
  <2>14. (loose \ {b}) \ {data} = {}
    BY <2>8
  <2> QED
    BY <1>4, <2>4, <2>7, <2>9, <2>10, <2>13, <2>14 DEF BlocksInv
<1> QED
  BY <1>1, <1>3, <1>4 DEF Post, InRecvOf
-----------------------------------------------------------------------------
(* What a kernel entry finds. *)
LEMMA Books ==
  ASSUME KernelInv, BlocksInv
  PROVE  /\ mb \in Boxes /\ BoxShape(mb) /\ mem \in Pools
         /\ held \in [Thread -> SUBSET Block] /\ current \in Thread /\ current \in ThreadPtr
         /\ \E used \in SUBSET Block : ExactLists(mem, used) /\ Accounted(used, {}, mb, held)
BY DEF KernelInv, IpcInv, SchedInv, BlocksInv, ThreadPtr

LEMMA KmallocBlocks ==
  ASSUME KernelInv, BlocksInv, NEW size, thread_kmalloc(size)
  PROVE  BlocksInv'
<1>1. CASE Halt("down")
  BY <1>1, BlocksUnchanged DEF Halt
<1>2. ASSUME NEW i \in Pool, FirstFit(mem, size, i), mem' = kzmem_alloc(mem, i),
             held' = [held EXCEPT ![current] = @ \cup {mem.free[i]}], mb' = mb
      PROVE  BlocksInv'
  <2>1. PICK used \in SUBSET Block : ExactLists(mem, used) /\ Accounted(used, {}, mb, held)
    BY Books
  <2>2. PICK b : b = mem.free[i] /\ b # NULL
    BY <1>2 DEF FirstFit, Fits
  <2>3. /\ b \in Block /\ ExactLists(mem', used \cup {b})
        /\ Accounted(used \cup {b}, {} \cup {b}, mb, held)
    BY <1>2, <2>1, <2>2, Books, TakeBuffer
  <2>4. PICK all, loose : all \in SUBSET Block /\ all = used \cup {b} /\ loose = {} \cup {b}
    BY <2>3
  <2>5. held' = [held EXCEPT ![current] = @ \cup ({b} \cap Block)]
    BY <1>2, <2>2, <2>3
  <2>6. Accounted(all, loose \ {b}, mb, held')
    BY <2>3, <2>4, <2>5, Books, GiveBlock
  <2>7. loose \ {b} = {}
    BY <2>4
  <2> QED
    BY <1>2, <2>3, <2>4, <2>6, <2>7, Books DEF BlocksInv
<1> QED
  BY <1>1, <1>2 DEF thread_kmalloc

LEMMA KmfreeBlocks ==
  ASSUME KernelInv, BlocksInv, NEW b \in Block, thread_kmfree(b)
  PROVE  BlocksInv'
<1>1. PICK used \in SUBSET Block : ExactLists(mem, used) /\ Accounted(used, {}, mb, held)
  BY Books
<1>2. /\ b \in held[current] /\ mem' = kzmem_free(mem, b) /\ mb' = mb
      /\ held' = [held EXCEPT ![current] = @ \ {b}]
  BY DEF thread_kmfree
<1>3. Accounted(used, {} \cup ({b} \cap Block), mb, held')
  BY <1>1, <1>2, Books, DropBlock
<1>4. PICK loose : loose = {} \cup ({b} \cap Block) /\ b \in loose
  OBVIOUS
<1>5. /\ ExactLists(mem', used \ {b}) /\ Accounted(used \ {b}, loose \ {b}, mb, held')
      /\ used \ {b} \in SUBSET Block
  BY <1>1, <1>2, <1>3, <1>4, Books, ReturnBuffer
<1>6. loose \ {b} = {}
  BY <1>4
<1> QED
  BY <1>2, <1>5, <1>6, Books DEF BlocksInv

LEMMA SendBlocks ==
  ASSUME KernelInv, BlocksInv, NEW id \in MsgBox, NEW data \in Block \cup {STATIC},
         thread_send(id, data)
  PROVE  BlocksInv'
<1>1. PICK used \in SUBSET Block : ExactLists(mem, used) /\ Accounted(used, {}, mb, held)
  BY Books
<1>2. PICK h : h = [held EXCEPT ![current] = @ \ {data}]
  OBVIOUS
<1>3. /\ data \in held[current] \cup {STATIC} /\ Pending(id) < MaxPending
      /\ Post(put(Removed, current), mem, h, current, id, data) /\ func' = func
  BY <1>2 DEF thread_send, threadVars
<1>4. Accounted(used, {} \cup ({data} \cap Block), mb, h)
  BY <1>1, <1>2, <1>3, Books, DropBlock
<1>5. {} \cup ({data} \cap Block) = {data} \cap Block
  OBVIOUS
<1>6. h \in [Thread -> SUBSET Block]
  BY <1>2, Books
<1> QED
  BY <1>1, <1>3, <1>4, <1>5, <1>6, Books, PostBlocks

LEMMA RecvBlocks ==
  ASSUME KernelInv, BlocksInv, NEW id \in MsgBox, thread_recv(id)
  PROVE  BlocksInv'
<1>1. PICK used \in SUBSET Block : ExactLists(mem, used) /\ Accounted(used, {}, mb, held)
  BY Books
<1>2. CASE Halt("down")
  BY <1>2, BlocksUnchanged DEF Halt
<1>3. CASE /\ mb.head[id] # NULL
           /\ mb' = recvmsg(mb, id) /\ mem' = kzmem_free(mem, mb.head[id])
           /\ held' = Deliver(held, mb, id, current)
  <2>1. PICK f, d : f = mb.head[id] /\ d = mb.data[f]
    OBVIOUS
  <2>2. d # f /\ Accounted(used, {} \cup ({f, d} \cap Block), mb', held)
    BY <1>1, <1>3, <2>1, Books, RecvAccounted
  <2>3. BoxesApart(mb)
    BY <1>1, Books, AccountedApart
  <2>4. f \in Block /\ BoxShape(mb')
    BY <1>3, <2>1, <2>3, Books, RecvmsgFields
  <2>5. PICK loose : loose = {} \cup ({f, d} \cap Block) /\ f \in loose
    BY <2>4
  <2>6. /\ ExactLists(mem', used \ {f}) /\ Accounted(used \ {f}, loose \ {f}, mb', held)
        /\ used \ {f} \in SUBSET Block
    BY <1>1, <1>3, <2>1, <2>2, <2>5, Books, ReturnBuffer
  <2>7. PICK left \in SUBSET Block : left = used \ {f}
    BY <2>6
  <2>8. d \in Block => d \in loose \ {f}
    BY <2>2, <2>5
  <2>9. held' = [held EXCEPT ![current] = @ \cup ({d} \cap Block)]
    BY <1>3, <2>1 DEF Deliver
  <2>10. Accounted(left, (loose \ {f}) \ {d}, mb', held')
    BY <2>6, <2>7, <2>8, <2>9, Books, GiveBlock
  <2>11. (loose \ {f}) \ {d} = {}
    BY <2>5
  <2> QED
    BY <2>4, <2>6, <2>7, <2>10, <2>11 DEF BlocksInv
<1>4. CASE mb' = [mb EXCEPT !.reciever[id] = current] /\ UNCHANGED <<mem, held>>
  <2>1. PICK y : y = mb'
    OBVIOUS
  <2>2. /\ y.head = mb.head /\ y.tail = mb.tail /\ y.next = mb.next /\ y.data = mb.data
    BY <1>4, <2>1, Books DEF Boxes
  <2>3. BoxShape(y) /\ \A k : Ends(y, k) = Ends(mb, k)
    BY <2>2, Books DEF BoxShape, Ends
  <2>4. InBoxes(y) = InBoxes(mb)
    BY <2>3 DEF InBoxes
  <2>5. \A b : Owners(y, held, b) = Owners(mb, held, b)
    BY <2>2, <2>3, <2>4 DEF Owners
  <2>6. Accounted(used, {}, y, held)
    BY <1>1, <2>5 DEF Accounted
  <2> QED
    BY <1>1, <1>4, <2>1, <2>3, <2>6 DEF BlocksInv
<1> QED
  BY <1>2, <1>3, <1>4 DEF thread_recv, wait_msg_of

(* A thread takes what it holds to its grave. *)
LEMMA TerminateBlocks ==
  ASSUME KernelInv, BlocksInv, Terminate, ~Lossless
  PROVE  BlocksInv'
<1>1. PICK used \in SUBSET Block : ExactLists(mem, used) /\ Accounted(used, {}, mb, held)
  BY Books
<1>2. mb' = mb /\ mem' = mem /\ held' = [held EXCEPT ![current] = {}]
  BY DEF Terminate
<1>3. Accounted(used, {}, mb, held')
  BY <1>1, <1>2, Books, LoseBlocks
<1> QED
  BY <1>1, <1>2, <1>3, Books DEF BlocksInv

LEMMA IntrBlocks ==
  ASSUME KernelInv, BlocksInv, thread_intr
  PROVE  BlocksInv'
<1>1. CASE UNCHANGED ipcVars
  BY <1>1, BlocksUnchanged
<1>2. ASSUME NEW i \in Pool, NEW id \in MsgBox, FirstFit(mem, CONS_SIZE, i),
             Pending(id) < MaxPending,
             Post(rq, kzmem_alloc(mem, i), held, NULL, id, mem.free[i])
      PROVE  BlocksInv'
  <2>1. PICK used \in SUBSET Block : ExactLists(mem, used) /\ Accounted(used, {}, mb, held)
    BY Books
  <2>2. PICK b : b = mem.free[i] /\ b # NULL
    BY <1>2 DEF FirstFit, Fits
  <2>3. /\ b \in Block /\ kzmem_alloc(mem, i) \in Pools
        /\ ExactLists(kzmem_alloc(mem, i), used \cup {b})
        /\ Accounted(used \cup {b}, {} \cup {b}, mb, held)
    BY <1>2, <2>1, <2>2, Books, TakeBuffer
  <2>4. PICK all \in SUBSET Block : all = used \cup {b}
    BY <2>3
  <2>5. {} \cup {b} = {b} \cap Block /\ NULL \in ThreadPtr
    BY <2>3 DEF ThreadPtr
  <2>6. func' = func
    BY DEF thread_intr, threadVars
  <2> QED
    BY <1>2, <2>2, <2>3, <2>4, <2>5, <2>6, Books, PostBlocks
<1> QED
  BY <1>1, <1>2 DEF thread_intr, Halt

LEMMA NextBlocks == KernelInv /\ BlocksInv /\ [Next]_vars => BlocksInv'
<1> SUFFICES ASSUME KernelInv, BlocksInv, [Next]_vars PROVE BlocksInv'
  OBVIOUS
<1>1. ASSUME NEW p, thread_run(p) PROVE BlocksInv'
  BY <1>1, BlocksUnchanged DEF thread_run, Halt
<1>2. CASE thread_exit \/ softerr_intr
  BY <1>2, TerminateBlocks DEF thread_exit, softerr_intr, Syscall, Lossless
<1>3. CASE thread_wait \/ thread_sleep \/ thread_getid
  BY <1>3, BlocksUnchanged DEF thread_wait, thread_sleep, thread_getid
<1>4. ASSUME NEW t, thread_wakeup(t) \/ thread_chpri(t) \/ thread_setintr(t) \/ SetCcr(t)
      PROVE  BlocksInv'
  BY <1>4, BlocksUnchanged DEF thread_wakeup, thread_chpri, thread_setintr, SetCcr
<1>5. CASE Spin \/ UNCHANGED vars
  BY <1>5, BlocksUnchanged DEF Spin, vars, ipcVars
<1>6. CASE SystemCall
  BY <1>1, <1>2, <1>3, <1>4, <1>6, KmallocBlocks, KmfreeBlocks, SendBlocks, RecvBlocks
     DEF SystemCall
<1> QED
  BY <1>2, <1>4, <1>5, <1>6, IntrBlocks DEF Next
-----------------------------------------------------------------------------
(* The places of a block, as the properties read them from the lists. *)
LEMMA PlacesAre ==
  ASSUME mb \in Boxes, BoxShape(mb), NEW used \in SUBSET Block, ExactLists(mem, used),
         NEW b \in Block
  PROVE  /\ b \in used => Places(b) = Owners(mb, held, b)
         /\ b \notin used => Places(b) = Owners(mb, held, b) \cup {<<"free", b[1]>>}
<1>1. \A id \in MsgBox : Buffers(id) = Ends(mb, id)
  BY BoxList DEF Buffers
<1>2. UNION {Buffers(id) : id \in MsgBox} = InBoxes(mb)
  BY <1>1 DEF InBoxes
<1>3. \A i \in Pool : FreeBlocks(i) = PoolBlocks(i) \ used
  BY FreeSeqIs DEF ExactLists, FreeBlocks
<1>4. {k \in Pool : b \in FreeBlocks(k)} = IF b \in used THEN {} ELSE {b[1]}
  BY <1>3, BlockPool DEF PoolBlocks
<1>5. {k \in MsgBox : b \in Buffers(k)} = {k \in MsgBox : b \in Ends(mb, k)}
  BY <1>1
<1>6. Places(b) = {<<"free", i>> : i \in IF b \in used THEN {} ELSE {b[1]}}
                  \cup Owners(mb, held, b)
  BY <1>2, <1>4, <1>5 DEF Places, Owners
<1> QED
  BY <1>6

LEMMA AtMostOne ==
  ASSUME NEW S, \A x, y \in S : x = y
  PROVE  Cardinality(S) <= 1
<1>1. CASE S = {}
  BY <1>1, FS_EmptySet
<1>2. CASE S # {}
  <2>1. PICK x : S = {x}
    BY <1>2
  <2> QED
    BY <2>1, FS_Singleton
<1> QED
  BY <1>1, <1>2

LEMMA InvariantBlocks == Spec => [](KernelInv /\ BlocksInv)
<1>1. Init => KernelInv /\ BlocksInv
  BY InitKernel, InitBlocks
<1>2. KernelInv /\ BlocksInv /\ [Next]_vars => (KernelInv /\ BlocksInv)'
  BY NextKernel, NextBlocks
<1> QED
  BY <1>1, <1>2, PTL DEF Spec

(* A block is on a free list, or is a buffer in one box, or the data of one
   message, or held by one thread, whatever applications and handlers do with
   kz_kmalloc, kz_kmfree, kz_send and kz_recv: the ones that wake ready threads
   and fill boxes beyond two messages included. *)
THEOREM KernelBlockExclusive == Spec => []BlockExclusive
<1>1. KernelInv /\ BlocksInv => BlockExclusive
  <2> SUFFICES ASSUME KernelInv, BlocksInv, NEW b \in Block
               PROVE  Cardinality(Places(b)) <= 1
    BY DEF BlockExclusive
  <2>1. PICK used \in SUBSET Block : ExactLists(mem, used) /\ Accounted(used, {}, mb, held)
    BY Books
  <2>2. /\ b \in used => Places(b) = Owners(mb, held, b)
        /\ b \notin used => Places(b) = Owners(mb, held, b) \cup {<<"free", b[1]>>}
    BY <2>1, Books, PlacesAre
  <2>3. /\ \A o, p \in Owners(mb, held, b) : o = p
        /\ b \notin used => Owners(mb, held, b) = {}
    BY <2>1 DEF Accounted
  <2>4. \A o, p \in Places(b) : o = p
    BY <2>2, <2>3
  <2> QED
    BY <2>4, AtMostOne
<1> QED
  BY <1>1, InvariantBlocks, PTL

(* As long as no thread ends and no box is given a third message, every block
   is accounted for: what is not free is in a box or with a thread. *)
THEOREM KernelNoBlockLeaked ==
  ASSUME Lossless
  PROVE  Spec => []NoBlockLeaked
<1>1. KernelInv /\ BlocksInv => NoBlockLeaked
  <2> SUFFICES ASSUME KernelInv, BlocksInv, NEW b \in Block
               PROVE  Places(b) # {}
    BY DEF NoBlockLeaked
  <2>1. PICK used \in SUBSET Block : ExactLists(mem, used) /\ Accounted(used, {}, mb, held)
    BY Books
  <2>2. /\ b \in used => Places(b) = Owners(mb, held, b)
        /\ b \notin used => Places(b) = Owners(mb, held, b) \cup {<<"free", b[1]>>}
    BY <2>1, Books, PlacesAre
  <2>3. b \in used => Owners(mb, held, b) # {}
    BY <2>1 DEF Accounted
  <2> QED
    BY <2>2, <2>3
<1> QED
  BY <1>1, InvariantBlocks, PTL
-----------------------------------------------------------------------------
(* The messages of a box, oldest first. *)
Msg(x, b) == [sender |-> x.sender[b], data |-> x.data[b]]

MsgSeq(x, id) ==
  IF x.head[id] = NULL THEN <<>>
  ELSE IF x.head[id] = x.tail[id] THEN <<Msg(x, x.head[id])>>
  ELSE <<Msg(x, x.head[id]), Msg(x, x.tail[id])>>

(* They are what the refinement mapping reads. *)
LEMMA MessagesRead ==
  ASSUME NEW x \in Boxes, BoxShape(x), NEW id \in MsgBox, NEW s,
         s = ListSeq(x.next, x.head[id], Cardinality(Block))
  PROVE  [k \in 1 .. Len(s) |-> Msg(x, s[k])] = MsgSeq(x, id)
<1>1. s = BoxSeq(x, id)
  BY BoxList
<1>2. PICK h, e : h = x.head[id] /\ e = x.tail[id]
  OBVIOUS
<1>3. PICK f, g : f = Msg(x, h) /\ g = Msg(x, e)
  OBVIOUS
<1>4. CASE h = NULL
  <2>1. s = <<>> /\ MsgSeq(x, id) = <<>> /\ 1 .. 0 = {}
    BY <1>1, <1>2, <1>4 DEF BoxSeq, MsgSeq
  <2>2. [k \in 1 .. Len(s) |-> Msg(x, s[k])] = <<>>
    BY <2>1
  <2> QED
    BY <2>1, <2>2
<1>5. CASE h # NULL /\ h = e
  <2>1. s = <<h>> /\ MsgSeq(x, id) = <<f>>
    BY <1>1, <1>2, <1>3, <1>5 DEF BoxSeq, MsgSeq
  <2>2. Len(s) = 1 /\ s[1] = h
    BY <2>1
  <2>3. [k \in 1 .. 1 |-> Msg(x, s[k])] = [k \in 1 .. 1 |-> f]
    BY <1>3, <2>2
  <2>4. [k \in 1 .. 1 |-> f] = <<f>>
    OBVIOUS
  <2> QED
    BY <2>1, <2>2, <2>3, <2>4
<1>6. CASE h # NULL /\ h # e
  <2>1. s = <<h, e>> /\ MsgSeq(x, id) = <<f, g>>
    BY <1>1, <1>2, <1>3, <1>6 DEF BoxSeq, MsgSeq
  <2>2. Len(s) = 2 /\ s[1] = h /\ s[2] = e
    BY <2>1
  <2>3. [k \in 1 .. 2 |-> Msg(x, s[k])] = [k \in 1 .. 2 |-> IF k = 1 THEN f ELSE g]
    BY <1>3, <2>2
  <2>4. [k \in 1 .. 2 |-> IF k = 1 THEN f ELSE g] = <<f, g>>
    OBVIOUS
  <2> QED
    BY <2>1, <2>2, <2>3, <2>4
<1> QED
  BY <1>4, <1>5, <1>6

LEMMA BoxMessages ==
  ASSUME KernelInv, BlocksInv
  PROVE  [k \in MsgBox |-> Messages(k)] = [k \in MsgBox |-> MsgSeq(mb, k)]
<1>1. ASSUME NEW k \in MsgBox PROVE Messages(k) = MsgSeq(mb, k)
  <2>1. PICK s : s = ListSeq(mb.next, mb.head[k], Cardinality(Block))
    OBVIOUS
  <2>2. Messages(k) = [j \in 1 .. Len(s) |-> Msg(mb, s[j])]
    BY <2>1 DEF Messages, Message, Msg
  <2> QED
    BY <2>1, <2>2, MessagesRead, Books
<1> QED
  BY <1>1

LEMMA BoxMessagesNext ==
  ASSUME KernelInv', BlocksInv'
  PROVE  [k \in MsgBox |-> Messages(k)]' = [k \in MsgBox |-> MsgSeq(mb', k)]
<1>0. mb' \in Boxes /\ BoxShape(mb')
  BY DEF KernelInv, IpcInv, BlocksInv
<1>1. ASSUME NEW k \in MsgBox PROVE Messages(k)' = MsgSeq(mb', k)
  <2>1. PICK s : s = ListSeq(mb'.next, mb'.head[k], Cardinality(Block))
    OBVIOUS
  <2>2. Messages(k)' = [j \in 1 .. Len(s) |-> Msg(mb', s[j])]
    BY <2>1 DEF Messages, Message, Msg
  <2> QED
    BY <1>0, <2>1, <2>2, MessagesRead
<1> QED
  BY <1>1

LEMMA AppendToOne == \A old, new : Append(<<old>>, new) = <<old, new>>
<1> SUFFICES ASSUME NEW old, NEW new PROVE Append(<<old>>, new) = <<old, new>>
  BY ZenonT(60)
<1>1. PICK s, t : s = Append(<<old>>, new) /\ t = <<old, new>>
  OBVIOUS
<1>2. /\ <<old>> \in Seq({old, new}) /\ Len(<<old>>) = 1 /\ <<old>>[1] = old
      /\ t \in Seq({old, new}) /\ Len(t) = 2 /\ t[1] = old /\ t[2] = new
  BY <1>1
<1>3. s \in Seq({old, new}) /\ Len(s) = 2 /\ s[1] = old /\ s[2] = new
  BY <1>1, <1>2, AppendProperties
<1>4. \A i \in 1 .. 2 : i = 1 \/ i = 2
  OBVIOUS
<1>5. \A i \in 1 .. Len(s) : s[i] = t[i]
  BY <1>2, <1>3, <1>4
<1>6. s = t
  BY <1>2, <1>3, <1>5
<1> QED
  BY <1>1, <1>6

(* A box with at most one message takes another one at its end, *)
LEMMA SentMessage ==
  ASSUME NEW x \in Boxes, BoxShape(x), BoxesApart(x), NEW id \in MsgBox, NEW b \in Block,
         b \notin InBoxes(x), NEW from \in ThreadPtr, NEW data \in Block \cup {STATIC},
         x.head[id] = x.tail[id], NEW y, y = sendmsg(x, id, b, from, data),
         NEW item, item = [sender |-> from, data |-> data]
  PROVE  \A k \in MsgBox : MsgSeq(y, k) =
           IF k = id THEN Append(MsgSeq(x, id), item) ELSE MsgSeq(x, k)
<1>1. /\ y.head[id] = IF x.head[id] = NULL THEN b ELSE x.head[id]
      /\ y.tail[id] = b
      /\ \A k \in MsgBox : k # id => y.head[k] = x.head[k] /\ y.tail[k] = x.tail[k]
      /\ \A c \in Block : /\ y.sender[c] = IF c = b THEN from ELSE x.sender[c]
                          /\ y.data[c] = IF c = b THEN data ELSE x.data[c]
  BY SendmsgFields
<1>2. \A c \in Block : Msg(y, c) = IF c = b THEN item ELSE Msg(x, c)
  BY <1>1 DEF Msg
<1>3. \A k \in MsgBox : /\ x.head[k] # NULL => x.head[k] \in Block /\ x.head[k] # b
                        /\ x.tail[k] # NULL => x.tail[k] \in Block /\ x.tail[k] # b
                        /\ x.head[k] = NULL <=> x.tail[k] = NULL
  BY DEF Boxes, BoxShape, InBoxes, Ends
<1>4. ASSUME NEW k \in MsgBox, k # id PROVE MsgSeq(y, k) = MsgSeq(x, k)
  BY <1>1, <1>2, <1>3, <1>4 DEF MsgSeq
<1>5. MsgSeq(y, id) = Append(MsgSeq(x, id), item)
  <2>1. item = Msg(y, b)
    BY <1>2
  <2>2. PICK h : h = x.head[id]
    OBVIOUS
  <2>3. CASE h = NULL
    <3>1. MsgSeq(x, id) = <<>> /\ MsgSeq(y, id) = <<item>>
      BY <1>1, <2>1, <2>2, <2>3, PoolAssumption DEF MsgSeq
    <3>2. Append(<<>>, item) = <<item>>
      OBVIOUS
    <3> QED
      BY <2>1, <3>1, <3>2
  <2>4. CASE h # NULL
    <3>1. PICK old : old = Msg(x, h)
      OBVIOUS
    <3>2. MsgSeq(x, id) = <<old>> /\ MsgSeq(y, id) = <<old, item>>
      BY <1>1, <1>2, <1>3, <2>1, <2>2, <2>4, <3>1 DEF MsgSeq
    <3>3. Append(<<old>>, item) = <<old, item>>
      BY AppendToOne
    <3> QED
      BY <2>1, <3>2, <3>3
  <2> QED
    BY <2>3, <2>4
<1> QED
  BY <1>4, <1>5

(* and one with messages gives up the first. *)
LEMMA ReceivedMessage ==
  ASSUME NEW x \in Boxes, BoxShape(x), BoxesApart(x), NEW id \in MsgBox,
         NEW f, f = x.head[id], f # NULL, NEW y, y = recvmsg(x, id)
  PROVE  /\ \A k \in MsgBox : MsgSeq(y, k) =
               IF k = id THEN Tail(MsgSeq(x, id)) ELSE MsgSeq(x, k)
         /\ MsgSeq(x, id) # <<>> /\ Head(MsgSeq(x, id)) = Msg(x, f)
<1>1. /\ f \in Block
      /\ \A k \in MsgBox : k # id => y.head[k] = x.head[k] /\ y.tail[k] = x.tail[k]
      /\ y.head[id] = IF f = x.tail[id] THEN NULL ELSE x.tail[id]
      /\ y.tail[id] = IF f = x.tail[id] THEN NULL ELSE x.tail[id]
      /\ \A c \in Block : /\ y.sender[c] = IF c = f THEN NULL ELSE x.sender[c]
                          /\ y.data[c] = IF c = f THEN NULL ELSE x.data[c]
  BY RecvmsgFields
<1>2. \A c \in Block : c # f => Msg(y, c) = Msg(x, c)
  BY <1>1 DEF Msg
<1>3. \A k \in MsgBox : /\ x.head[k] # NULL => x.head[k] \in Block
                        /\ x.tail[k] # NULL => x.tail[k] \in Block
                        /\ x.head[k] = NULL <=> x.tail[k] = NULL
                        /\ k # id => x.head[k] # f /\ x.tail[k] # f
  BY DEF Boxes, BoxShape, BoxesApart, Ends
<1>4. ASSUME NEW k \in MsgBox, k # id PROVE MsgSeq(y, k) = MsgSeq(x, k)
  BY <1>1, <1>2, <1>3, <1>4 DEF MsgSeq
<1>5. /\ MsgSeq(y, id) = Tail(MsgSeq(x, id))
      /\ MsgSeq(x, id) # <<>> /\ Head(MsgSeq(x, id)) = Msg(x, f)
  <2>1. PICK first : first = Msg(x, f)
    OBVIOUS
  <2>2. CASE f = x.tail[id]
    <3>1. MsgSeq(x, id) = <<first>> /\ MsgSeq(y, id) = <<>>
      BY <1>1, <2>1, <2>2 DEF MsgSeq
    <3>2. Tail(<<first>>) = <<>> /\ Head(<<first>>) = first /\ <<first>> # <<>>
      OBVIOUS
    <3> QED
      BY <2>1, <3>1, <3>2
  <2>3. CASE f # x.tail[id]
    <3>1. PICK last : last = Msg(x, x.tail[id])
      OBVIOUS
    <3>2. MsgSeq(x, id) = <<first, last>> /\ MsgSeq(y, id) = <<last>>
      BY <1>1, <1>2, <1>3, <2>1, <2>3, <3>1 DEF MsgSeq
    <3>3. /\ Tail(<<first, last>>) = <<last>> /\ Head(<<first, last>>) = first
          /\ <<first, last>> # <<>>
      OBVIOUS
    <3> QED
      BY <2>1, <3>2, <3>3
  <2> QED
    BY <2>2, <2>3
<1> QED
  BY <1>4, <1>5
-----------------------------------------------------------------------------
(* A block that is not in use has no owner in the abstract system. *)
LEMMA UnusedIsFresh ==
  ASSUME KernelInv, BlocksInv, NEW used \in SUBSET Block, Accounted(used, {}, mb, held),
         NEW b \in Block \ used
  PROVE  b \in Mail!Fresh
<1>1. \A o : o \notin Owners(mb, held, b)
  BY DEF Accounted
<1>2. \A t \in Thread : b \notin held[t]
  BY <1>1, OwnersAre
<1>3. ASSUME NEW id \in MsgBox, NEW k \in 1 .. Len(MsgSeq(mb, id)), MsgSeq(mb, id)[k].data = b
      PROVE  FALSE
  <2>1. PICK h, e : h = mb.head[id] /\ e = mb.tail[id]
    OBVIOUS
  <2>2. h = NULL <=> e = NULL
    BY <2>1, Books DEF BoxShape
  <2>3. \E c \in {h, e} \ {NULL} : MsgSeq(mb, id)[k] = Msg(mb, c)
    <3>1. PICK f, g : f = Msg(mb, h) /\ g = Msg(mb, e)
      OBVIOUS
    <3>2. CASE h = NULL
      BY <1>3, <2>1, <3>2 DEF MsgSeq
    <3>3. CASE h # NULL /\ h = e
      <4>1. MsgSeq(mb, id) = <<f>>
        BY <2>1, <3>1, <3>3 DEF MsgSeq
      <4>2. Len(<<f>>) = 1 /\ <<f>>[1] = f
        OBVIOUS
      <4>3. k = 1
        BY <1>3, <4>1, <4>2
      <4> QED
        BY <3>1, <3>3, <4>1, <4>2, <4>3
    <3>4. CASE h # NULL /\ h # e
      <4>1. MsgSeq(mb, id) = <<f, g>>
        BY <2>1, <3>1, <3>4 DEF MsgSeq
      <4>2. Len(<<f, g>>) = 2 /\ <<f, g>>[1] = f /\ <<f, g>>[2] = g
        OBVIOUS
      <4>3. k = 1 \/ k = 2
        BY <1>3, <4>1, <4>2
      <4> QED
        BY <2>2, <3>1, <3>4, <4>1, <4>2, <4>3
    <3> QED
      BY <3>2, <3>3, <3>4
  <2>4. PICK c : c \in {h, e} \ {NULL} /\ MsgSeq(mb, id)[k] = Msg(mb, c)
    BY <2>3
  <2>5. c \in InBoxes(mb) /\ mb.data[c] = b
    BY <1>3, <2>1, <2>4 DEF InBoxes, Ends, Msg
  <2>6. <<"data", c>> \in Owners(mb, held, b)
    BY <2>5, OwnersAre
  <2> QED
    BY <1>1, <2>6
<1>4. b \notin Mail!InMessage
  <2>1. \A id \in MsgBox : Messages(id) = MsgSeq(mb, id)
    BY BoxMessages
  <2> QED
    BY <1>3, <2>1 DEF Mail!InMessage
<1> QED
  BY <1>2, <1>4 DEF Mail!Fresh
-----------------------------------------------------------------------------
(* From here on, steps are seen with the invariants on both sides. *)
Before == KernelInv /\ BlocksInv

(* A step that leaves boxes, pools and holders alone is a stutter. *)
LEMMA IpcStutter == Before /\ Before' /\ UNCHANGED ipcVars => UNCHANGED Mail!vars
BY BoxMessages, BoxMessagesNext DEF Before, ipcVars, Mail!vars

LEMMA PostMail ==
  ASSUME Before, Before', MaxPending <= 2,
         NEW q, NEW m \in Pools, NEW used \in SUBSET Block, ExactLists(m, used),
         NEW h \in [Thread -> SUBSET Block], NEW from \in ThreadPtr, NEW id \in MsgBox,
         NEW data \in Block \cup {STATIC}, Accounted(used, {data} \cap Block, mb, h),
         Pending(id) < MaxPending, Post(q, m, h, from, id, data)
  PROVE  UNCHANGED ipcVars \/ Mail!Post(from, id, data, h)
<1> DEFINE box == [k \in MsgBox |-> Messages(k)]
<1> PICK item : item = [sender |-> from, data |-> data]
  OBVIOUS
<1>0. /\ KernelInv /\ BlocksInv /\ mb \in Boxes /\ WaitsEmpty(mb) /\ BoxShape(mb)
      /\ mb' \in Boxes
  BY DEF Before, KernelInv, IpcInv, BlocksInv
<1>1. /\ box = [k \in MsgBox |-> MsgSeq(mb, k)]
      /\ box' = [k \in MsgBox |-> MsgSeq(mb', k)]
  BY BoxMessages, BoxMessagesNext DEF Before
<1>2. \A k \in MsgBox : mb.head[k] = NULL => MsgSeq(mb, k) = <<>>
  BY DEF MsgSeq
<1>3. CASE Halt("down") \/ Halt("wild")
  BY <1>3 DEF Halt
<1>4. ASSUME NEW i \in Pool, FirstFit(m, MSGBUF_SIZE, i), NEW b, b = m.free[i],
             NEW x, x = sendmsg(mb, id, b, from, data)
      PROVE  /\ x \in Boxes /\ BoxShape(x) /\ BoxesApart(x) /\ x.reciever = mb.reciever
             /\ mb.head[id] = NULL => x.head[id] = b /\ x.data[b] = data /\ b # NULL
             /\ \A k \in MsgBox : MsgSeq(x, k) =
                  IF k = id THEN Append(MsgSeq(mb, id), item) ELSE MsgSeq(mb, k)
  <2>1. BoxesApart(mb) /\ mb.head[id] = mb.tail[id]
    BY <1>0, PendingOne, AccountedApart
  <2>2. /\ b \in Block \ used /\ b \notin InBoxes(mb) /\ kzmem_alloc(m, i) \in Pools
        /\ ExactLists(kzmem_alloc(m, i), used \cup {b})
        /\ x \in Boxes /\ BoxShape(x) /\ BoxesApart(x)
        /\ mb.head[id] = NULL => x.head[id] = b /\ x.data[b] = data
        /\ Accounted(used \cup {b}, {}, x, h)
    <3>1. KernelInv /\ BlocksInv
      BY <1>0
    <3> QED
      BY <1>4, <3>1, SentBlocks
  <2>3. x.reciever = mb.reciever
    BY <1>0, <1>4, <2>1, <2>2, SendmsgFields
  <2>4. \A k \in MsgBox : MsgSeq(x, k) =
          IF k = id THEN Append(MsgSeq(mb, id), item) ELSE MsgSeq(mb, k)
    <3>1. /\ mb \in Boxes /\ BoxShape(mb) /\ BoxesApart(mb) /\ b \in Block
          /\ b \notin InBoxes(mb) /\ mb.head[id] = mb.tail[id]
          /\ x = sendmsg(mb, id, b, from, data)
      BY <1>0, <1>4, <2>1, <2>2
    <3> QED
      BY <3>1, SentMessage
  <2> QED
    BY <2>2, <2>3, <2>4, PoolAssumption
<1>5. ASSUME NEW i \in Pool, FirstFit(m, MSGBUF_SIZE, i), NEW b, b = m.free[i],
             NEW x, x = sendmsg(mb, id, b, from, data), mb.reciever[id] = NULL,
             mb' = x, held' = h
      PROVE  Mail!Post(from, id, data, h)
  <2>1. mb'.reciever = mb.reciever
    BY <1>4, <1>5
  <2>2. PICK now : now = [k \in MsgBox |-> MsgSeq(mb, k)]
    OBVIOUS
  <2>3. \A k \in MsgBox : MsgSeq(x, k) =
                  IF k = id THEN Append(MsgSeq(mb, id), item) ELSE MsgSeq(mb, k)
    BY <1>4, <1>5, ZenonT(60)
  <2>4. [k \in MsgBox |-> MsgSeq(x, k)] = [now EXCEPT ![id] = Append(@, item)]
    BY <2>2, <2>3
  <2>5. box' = [box EXCEPT ![id] = Append(@, item)]
    BY <1>1, <1>5, <2>2, <2>4
  <2> QED
    BY <1>5, <2>1, <2>5 DEF Mail!Post
<1>6. ASSUME NEW i \in Pool, FirstFit(m, MSGBUF_SIZE, i), NEW b, b = m.free[i],
             NEW x, x = sendmsg(mb, id, b, from, data),
             NEW r, r = mb.reciever[id], r # NULL, mb' = recvmsg(x, id),
             held' = Deliver(h, x, id, r)
      PROVE  Mail!Post(from, id, data, h)
  <2>1. mb.head[id] = NULL /\ box[id] = <<>> /\ MsgSeq(mb, id) = <<>>
    BY <1>0, <1>1, <1>2, <1>6 DEF WaitsEmpty
  <2>2. /\ x \in Boxes /\ BoxShape(x) /\ BoxesApart(x) /\ x.reciever = mb.reciever
        /\ x.head[id] = b /\ x.data[b] = data /\ b # NULL
        /\ \A k \in MsgBox : MsgSeq(x, k) =
                  IF k = id THEN Append(MsgSeq(mb, id), item) ELSE MsgSeq(mb, k)
    BY <1>4, <1>6, <2>1
  <2>3. PICK y : y = mb' /\ y = recvmsg(x, id)
    BY <1>6
  <2>4. \A k \in MsgBox : y.reciever[k] = IF k = id THEN NULL ELSE mb.reciever[k]
    BY <2>2, <2>3, RecvmsgFields
  <2>5. mb'.reciever = [mb.reciever EXCEPT ![id] = NULL]
    BY <1>0, <2>3, <2>4 DEF Boxes
  <2>6. Tail(Append(<<>>, item)) = <<>>
    OBVIOUS
  <2>7. \A k \in MsgBox : MsgSeq(y, k) =
          IF k = id THEN Tail(MsgSeq(x, id)) ELSE MsgSeq(x, k)
    BY <2>2, <2>3, ReceivedMessage
  <2>8. \A k \in MsgBox : MsgSeq(y, k) = MsgSeq(mb, k)
    BY <2>1, <2>2, <2>6, <2>7
  <2>9. box' = box
    BY <1>1, <2>3, <2>8
  <2>10. held' = [h EXCEPT ![r] = @ \cup ({data} \cap Block)]
    BY <1>6, <2>2 DEF Deliver
  <2> QED
    BY <1>6, <2>1, <2>5, <2>9, <2>10 DEF Mail!Post, Mail!Gain
<1> QED
  BY <1>3, <1>5, <1>6 DEF Post

LEMMA KmallocMail ==
  ASSUME Before, Before', NEW size, thread_kmalloc(size)
  PROVE  UNCHANGED ipcVars \/ \E b \in Block : Mail!Allocate(current, b)
<1>1. CASE Halt("down")
  BY <1>1 DEF Halt
<1>2. ASSUME NEW i \in Pool, FirstFit(mem, size, i),
             held' = [held EXCEPT ![current] = @ \cup {mem.free[i]}], mb' = mb
      PROVE  \E b \in Block : Mail!Allocate(current, b)
  <2>1. PICK used \in SUBSET Block : ExactLists(mem, used) /\ Accounted(used, {}, mb, held)
    BY Books DEF Before
  <2>2. PICK b : b = mem.free[i] /\ b # NULL
    BY <1>2 DEF FirstFit, Fits
  <2>3. b \in Block \ used
    BY <1>2, <2>1, <2>2, Books, TakeBuffer DEF Before
  <2>4. b \in Mail!Fresh
    BY <2>1, <2>3, UnusedIsFresh DEF Before
  <2>5. held' = Mail!Gain(held, current, b)
    BY <1>2, <2>2, <2>3 DEF Mail!Gain
  <2>6. [k \in MsgBox |-> Messages(k)]' = [k \in MsgBox |-> Messages(k)]
    BY <1>2, BoxMessages, BoxMessagesNext DEF Before
  <2> QED
    BY <1>2, <2>3, <2>4, <2>5, <2>6 DEF Mail!Allocate
<1> QED
  BY <1>1, <1>2 DEF thread_kmalloc

LEMMA KmfreeMail ==
  ASSUME Before, Before', NEW b, thread_kmfree(b)
  PROVE  Mail!Free(current, b)
<1>1. [k \in MsgBox |-> Messages(k)]' = [k \in MsgBox |-> Messages(k)]
  BY BoxMessages, BoxMessagesNext DEF Before, thread_kmfree
<1> QED
  BY <1>1 DEF thread_kmfree, Mail!Free

LEMMA TerminateMail ==
  ASSUME Before, Before', Terminate
  PROVE  Mail!End(current)
<1>1. [k \in MsgBox |-> Messages(k)]' = [k \in MsgBox |-> Messages(k)]
  BY BoxMessages, BoxMessagesNext DEF Before, Terminate
<1> QED
  BY <1>1 DEF Terminate, Mail!End

LEMMA SendMail ==
  ASSUME Before, Before', MaxPending <= 2, NEW id \in MsgBox,
         NEW data \in Block \cup {STATIC}, thread_send(id, data)
  PROVE  UNCHANGED ipcVars \/ Mail!Send(current, id, data)
<1>1. PICK used \in SUBSET Block : ExactLists(mem, used) /\ Accounted(used, {}, mb, held)
  BY Books DEF Before
<1>2. PICK h : h = [held EXCEPT ![current] = @ \ {data}]
  OBVIOUS
<1>3. /\ data \in held[current] \cup {STATIC} /\ Pending(id) < MaxPending
      /\ Post(put(Removed, current), mem, h, current, id, data)
  BY <1>2 DEF thread_send
<1>4. Accounted(used, {} \cup ({data} \cap Block), mb, h)
  BY <1>1, <1>2, <1>3, Books, DropBlock DEF Before
<1>5. {} \cup ({data} \cap Block) = {data} \cap Block
  OBVIOUS
<1>6. h \in [Thread -> SUBSET Block]
  BY <1>2, Books DEF Before
<1>7. UNCHANGED ipcVars \/ Mail!Post(current, id, data, h)
  BY <1>1, <1>3, <1>4, <1>5, <1>6, Books, PostMail DEF Before
<1> QED
  BY <1>2, <1>3, <1>7 DEF Mail!Send

LEMMA RecvMail ==
  ASSUME Before, Before', NEW id \in MsgBox, thread_recv(id)
  PROVE  UNCHANGED ipcVars \/ Mail!Receive(current, id) \/ Mail!Wait(current, id)
<1> DEFINE box == [k \in MsgBox |-> Messages(k)]
<1>0. /\ mb \in Boxes /\ BoxShape(mb) /\ BoxesApart(mb) /\ mb' \in Boxes
  BY Books, AccountedApart DEF Before, KernelInv, IpcInv
<1>1. /\ box = [k \in MsgBox |-> MsgSeq(mb, k)]
      /\ box' = [k \in MsgBox |-> MsgSeq(mb', k)]
  BY BoxMessages, BoxMessagesNext DEF Before
<1>2. CASE Halt("down")
  BY <1>2 DEF Halt
<1>3. CASE /\ mb.reciever[id] = NULL /\ mb.head[id] # NULL
           /\ mb' = recvmsg(mb, id) /\ held' = Deliver(held, mb, id, current)
  <2>1. PICK f : f = mb.head[id]
    OBVIOUS
  <2>2. PICK y : y = mb' /\ y = recvmsg(mb, id)
    BY <1>3
  <2>3. /\ \A k \in MsgBox : MsgSeq(y, k) =
               IF k = id THEN Tail(MsgSeq(mb, id)) ELSE MsgSeq(mb, k)
        /\ MsgSeq(mb, id) # <<>> /\ Head(MsgSeq(mb, id)) = Msg(mb, f)
    BY <1>0, <1>3, <2>1, <2>2, ReceivedMessage
  <2>4. \A k \in MsgBox : y.reciever[k] = IF k = id THEN NULL ELSE mb.reciever[k]
    BY <1>0, <1>3, <2>1, <2>2, RecvmsgFields
  <2>5. mb'.reciever = mb.reciever
    BY <1>0, <1>3, <2>2, <2>4 DEF Boxes
  <2>6. box' = [box EXCEPT ![id] = Tail(@)] /\ box[id] # <<>>
    <3>1. PICK P, Q : P = box /\ Q = box'
      OBVIOUS
    <3>2. P = [k \in MsgBox |-> MsgSeq(mb, k)] /\ Q = [k \in MsgBox |-> MsgSeq(y, k)]
      BY <1>1, <2>2, <3>1
    <3>3. \A k \in MsgBox : Q[k] = IF k = id THEN Tail(P[id]) ELSE P[k]
      BY <2>3, <3>2
    <3>4. Q = [P EXCEPT ![id] = Tail(P[id])]
      BY <3>2, <3>3
    <3>5. P[id] # <<>>
      BY <2>3, <3>2
    <3> QED
      BY <3>1, <3>4, <3>5
  <2>7. Head(box[id]).data = mb.data[f]
    BY <1>1, <2>3 DEF Msg
  <2>8. held' = Mail!Gain(held, current, Head(box[id]).data)
    BY <1>3, <2>1, <2>7 DEF Deliver, Mail!Gain
  <2> QED
    BY <1>3, <2>5, <2>6, <2>8 DEF Mail!Receive
<1>4. CASE /\ mb.reciever[id] = NULL /\ mb.head[id] = NULL
           /\ mb' = [mb EXCEPT !.reciever[id] = current] /\ UNCHANGED <<mem, held>>
  <2>1. /\ mb'.head = mb.head /\ mb'.tail = mb.tail /\ mb'.sender = mb.sender
        /\ mb'.data = mb.data /\ mb'.reciever = [mb.reciever EXCEPT ![id] = current]
    BY <1>0, <1>4 DEF Boxes
  <2>2. \A k \in MsgBox : MsgSeq(mb', k) = MsgSeq(mb, k)
    BY <2>1 DEF MsgSeq, Msg
  <2>3. box' = box
    BY <1>1, <2>2
  <2>4. MsgSeq(mb, id) = <<>>
    BY <1>4 DEF MsgSeq
  <2>5. box[id] = <<>>
    BY <1>1, <2>4
  <2> QED
    BY <1>4, <2>1, <2>3, <2>5 DEF Mail!Wait
<1> QED
  BY <1>2, <1>3, <1>4 DEF thread_recv, wait_msg_of

LEMMA IntrMail ==
  ASSUME Before, Before', MaxPending <= 2, thread_intr
  PROVE  UNCHANGED ipcVars \/ \E id \in MsgBox : Mail!HandlerSend(id)
<1>1. ASSUME NEW i \in Pool, NEW id \in MsgBox, FirstFit(mem, CONS_SIZE, i),
             Pending(id) < MaxPending,
             Post(rq, kzmem_alloc(mem, i), held, NULL, id, mem.free[i])
      PROVE  UNCHANGED ipcVars \/ Mail!HandlerSend(id)
  <2>1. PICK used \in SUBSET Block : ExactLists(mem, used) /\ Accounted(used, {}, mb, held)
    BY Books DEF Before
  <2>2. PICK b : b = mem.free[i] /\ b # NULL
    BY <1>1 DEF FirstFit, Fits
  <2>3. /\ b \in Block \ used /\ kzmem_alloc(mem, i) \in Pools
        /\ ExactLists(kzmem_alloc(mem, i), used \cup {b})
        /\ Accounted(used \cup {b}, {} \cup {b}, mb, held)
    BY <1>1, <2>1, <2>2, Books, TakeBuffer DEF Before
  <2>4. PICK all \in SUBSET Block : all = used \cup {b}
    BY <2>3
  <2>5. {} \cup {b} = {b} \cap Block /\ NULL \in ThreadPtr
    BY <2>3 DEF ThreadPtr
  <2>6. UNCHANGED ipcVars \/ Mail!Post(NULL, id, b, held)
    BY <1>1, <2>2, <2>3, <2>4, <2>5, Books, PostMail DEF Before
  <2>7. b \in Mail!Fresh
    BY <2>1, <2>3, UnusedIsFresh DEF Before
  <2> QED
    BY <2>6, <2>7 DEF Mail!HandlerSend
<1> QED
  BY <1>1 DEF thread_intr, Halt

LEMMA InitMail == Init => Mail!Init
<1> SUFFICES ASSUME Init PROVE Mail!Init
  OBVIOUS
<1>1. mb = EmptyBoxes(Block) /\ KernelInv /\ BlocksInv
  BY InitKernel, InitBlocks DEF Init
<1>2. \A id \in MsgBox : mb.head[id] = NULL
  BY <1>1 DEF EmptyBoxes
<1>3. [k \in MsgBox |-> Messages(k)] = [k \in MsgBox |-> <<>>]
  BY <1>1, <1>2, BoxMessages DEF MsgSeq
<1> QED
  BY <1>1, <1>3 DEF Init, Mail!Init, EmptyBoxes

LEMMA NextMail ==
  ASSUME Before, Before', [Next]_vars, MaxPending <= 2
  PROVE  [Mail!Next]_(Mail!vars)
<1> SUFFICES UNCHANGED ipcVars \/ Mail!Next
  BY IpcStutter
<1>0. current \in Thread
  BY Books DEF Before
<1>1. ASSUME NEW p, thread_run(p) PROVE UNCHANGED ipcVars
  BY <1>1 DEF thread_run, Halt
<1>2. CASE thread_exit \/ softerr_intr
  BY <1>0, <1>2, TerminateMail DEF thread_exit, softerr_intr, Mail!Next
<1>3. CASE thread_wait \/ thread_sleep \/ thread_getid
  BY <1>3 DEF thread_wait, thread_sleep, thread_getid
<1>4. ASSUME NEW t, thread_wakeup(t) \/ thread_chpri(t) \/ thread_setintr(t) \/ SetCcr(t)
      PROVE  UNCHANGED ipcVars
  BY <1>4 DEF thread_wakeup, thread_chpri, thread_setintr, SetCcr
<1>5. CASE Spin \/ UNCHANGED vars
  BY <1>5 DEF Spin, vars, ipcVars
<1>6. ASSUME NEW size, thread_kmalloc(size) PROVE UNCHANGED ipcVars \/ Mail!Next
  BY <1>0, <1>6, KmallocMail DEF Mail!Next
<1>7. ASSUME NEW b \in Block, thread_kmfree(b) PROVE Mail!Next
  BY <1>0, <1>7, KmfreeMail DEF Mail!Next
<1>8. ASSUME NEW id \in MsgBox, NEW data \in Block \cup {STATIC}, thread_send(id, data)
      PROVE  UNCHANGED ipcVars \/ Mail!Next
  BY <1>0, <1>8, SendMail DEF Mail!Next
<1>9. ASSUME NEW id \in MsgBox, thread_recv(id) PROVE UNCHANGED ipcVars \/ Mail!Next
  BY <1>0, <1>9, RecvMail DEF Mail!Next
<1>10. CASE thread_intr
  BY <1>10, IntrMail DEF Mail!Next
<1>11. CASE SystemCall
  BY <1>1, <1>2, <1>3, <1>4, <1>6, <1>7, <1>8, <1>9, <1>11 DEF SystemCall
<1> QED
  BY <1>2, <1>4, <1>5, <1>10, <1>11 DEF Next

(* The boxes of kozos.c are FIFO queues through which data blocks change hands,
   whoever sends to them, threads or the interrupt handler, provided no box is
   given a third message while two lie in it. *)
THEOREM KernelImplementsMailbox ==
  ASSUME MaxPending <= 2
  PROVE  Spec => ImplementsMailbox
<1>1. Spec => []Before
  BY InvariantBlocks, PTL DEF Before
<1>2. Before /\ Before' /\ [Next]_vars => [Mail!Next]_(Mail!vars)
  BY NextMail
<1> QED
  BY InitMail, <1>1, <1>2, PTL DEF Spec, ImplementsMailbox, Mail!Spec
=============================================================================
