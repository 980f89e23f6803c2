--------------------------- MODULE LinkedListProofs ---------------------------
(***************************************************************************)
(* Proofs about LinkedList, for every number of clients and elements: under *)
(* one mutex the list is a queue, and nobody follows a pointer to a freed   *)
(* node.  With the copied mutex none of this holds.                         *)
(***************************************************************************)
EXTENDS LinkedList, SequenceTheorems, TLAPS

(* The mutex main meant the cleaner to lock.                                 *)
OneMutex == CleanerLock = "list"

Inserting(t) == pc[t] \in {"insert head", "insert link", "insert tail",
                           "insert size", "insert end"}
Popping(t) == pc[t] \in {"pop last", "pop tail", "pop first", "pop size", "pop end"}
Updating(t) == Inserting(t) \/ Popping(t)

(* The pointers hold the elements of s together, from head to tail.          *)
Linked(s) ==
  /\ s = << >> => head = NULL /\ tail = NULL
  /\ s # << >> => /\ head = s[1] /\ tail = s[Len(s)]
                  /\ next[s[Len(s)]] = NULL
                  /\ Chained(s)

(* Whoever is inside an operation has the mutex.                             *)
MutexHeld == \A t \in Thread : pc[t] # "idle" => holder["list"] = t

(* The elements are alive, and each is older than those behind it; size      *)
(* counts them.                                                             *)
ElementsRight ==
  /\ contents \in Seq(Node)
  /\ \A i \in 1..Len(contents) : contents[i] <= used /\ contents[i] \notin freed
  /\ \A i, j \in 1..Len(contents) : i < j => contents[i] < contents[j]
  /\ size = Len(contents) /\ Len(contents) <= used

(* A node that is still to be allocated was never freed or linked.           *)
NodesFresh ==
  /\ \A n \in freed : n <= used
  /\ \A n \in Node : n > used => next[n] = NULL

(* A node on its way into the list is the newest there is, at each line      *)
(* linked as far as the lines before it go.                                 *)
InsertionRight(t) ==
  /\ Inserting(t) =>
       /\ node[t] = used /\ node[t] \in Node /\ node[t] \notin freed /\ next[node[t]] = NULL
       /\ Len(contents) < used
       /\ \A i \in 1..Len(contents) : contents[i] < used
  /\ pc[t] = "insert head" => contents = << >>
  /\ pc[t] = "insert link" => contents # << >>
  /\ pc[t] \in {"insert head", "insert link"} => Linked(contents)
  /\ pc[t] = "insert tail" => head = Append(contents, node[t])[1]
                              /\ Chained(Append(contents, node[t]))
  /\ pc[t] \in {"insert size", "insert end"} => Linked(Append(contents, node[t]))

(* The node on its way out is the first, and leaves the rest linked.         *)
PopRight(t) ==
  /\ Popping(t) => contents # << >> /\ node[t] = contents[1]
  /\ pc[t] \in {"pop last", "pop tail"} => Len(contents) = 1
  /\ pc[t] = "pop first" => Len(contents) > 1
  /\ pc[t] \in {"pop last", "pop first"} => Linked(contents)
  /\ pc[t] = "pop tail" => head = NULL
  /\ pc[t] \in {"pop size", "pop end"} => Linked(Tail(contents))

(* A search stands on an element; the size read is the size still.           *)
ThreadRight(t) ==
  /\ InsertionRight(t)
  /\ PopRight(t)
  /\ pc[t] = "find" =>
       node[t] = NULL \/ \E i \in 1..Len(contents) : node[t] = contents[i]
  /\ pc[t] \in {"insert end", "pop end"} => sizeRead[t] = size

(* While nobody changes the list it is intact.                               *)
QuietRight == (\A t \in Thread : ~Updating(t)) => Linked(contents)

IInv ==
  /\ TypeOK
  /\ MutexHeld
  /\ ElementsRight
  /\ NodesFresh
  /\ \A t \in Thread : ThreadRight(t)
  /\ QuietRight
-----------------------------------------------------------------------------
LEMMA NodesAreNat ==
  /\ \A n \in Node \cup {NULL} : n \in Nat
  /\ \A n \in Node : n \in Nat \ {0} /\ n # NULL /\ n <= MaxInserts
  /\ MaxInserts \in Nat /\ NULL = 0
BY MaxInsertsIsNat DEF Node, NULL

(* Who has the mutex, or gets it, is alone with the list.                    *)
LEMMA Alone ==
  ASSUME MutexHeld, NEW t \in Thread, pc[t] # "idle" \/ holder["list"] = Nobody,
         NEW u \in Thread, u # t
  PROVE  pc[u] = "idle"
BY NobodyIsNoThread DEF MutexHeld, Thread, Nobody

(* A step inside an operation, and one that enters it, leave it alone.       *)
LEMMA StepInside ==
  ASSUME TypeOK, MutexHeld, NEW t \in Thread, pc[t] # "idle",
         NEW where, Goto(t, where), holder' = holder
  PROVE  /\ pc'[t] = where
         /\ \A u \in Thread \ {t} : pc[u] = "idle" /\ pc'[u] = "idle"
         /\ MutexHeld'
<1>1. pc'[t] = where /\ \A u \in Thread \ {t} : pc'[u] = pc[u]
  BY DEF TypeOK, Goto
<1>2. \A u \in Thread \ {t} : pc[u] = "idle"
  BY Alone
<1>3. MutexHeld'
  BY <1>1, <1>2 DEF MutexHeld
<1> QED
  BY <1>1, <1>2, <1>3

LEMMA StepInto ==
  ASSUME OneMutex, TypeOK, MutexHeld, NEW t \in Thread,
         NEW where, Acquire(t), Goto(t, where)
  PROVE  /\ pc'[t] = where
         /\ \A u \in Thread : pc[u] = "idle"
         /\ \A u \in Thread \ {t} : pc'[u] = "idle"
         /\ holder' \in [{"list", "copy"} -> Thread \cup {Nobody}]
         /\ MutexHeld'
<1>1. pc'[t] = where /\ \A u \in Thread \ {t} : pc'[u] = pc[u]
  BY DEF TypeOK, Goto
<1>2. /\ holder["list"] = Nobody
      /\ holder' \in [{"list", "copy"} -> Thread \cup {Nobody}]
      /\ holder'["list"] = t
  BY DEF Acquire, LockOf, OneMutex, TypeOK
<1>3. \A u \in Thread : pc[u] = "idle"
  BY <1>2, Alone DEF Acquire
<1>4. MutexHeld'
  BY <1>1, <1>2, <1>3 DEF MutexHeld
<1> QED
  BY <1>1, <1>2, <1>3, <1>4

(* What is left to show of such a step.                                      *)
LEMMA OneAtATime ==
  ASSUME NEW t \in Thread, \A u \in Thread \ {t} : pc'[u] = "idle",
         TypeOK', MutexHeld', ElementsRight', NodesFresh',
         ThreadRight(t)', Updating(t)' \/ Linked(contents)'
  PROVE  IInv'
<1>1. ASSUME NEW u \in Thread PROVE ThreadRight(u)'
  <2>1. CASE u = t
    BY <2>1
  <2>2. CASE u # t
    BY <2>2 DEF ThreadRight, InsertionRight, PopRight, Inserting, Popping
  <2> QED
    BY <2>1, <2>2
<1>2. QuietRight'
  BY DEF QuietRight
<1> QED
  BY <1>1, <1>2 DEF IInv

(* The list is linked for whoever finds it that way.                         *)
LEMMA LinkedForOne ==
  ASSUME IInv, NEW t \in Thread, ~Updating(t), \A u \in Thread \ {t} : pc[u] = "idle"
  PROVE  Linked(contents)
BY DEF IInv, QuietRight, Updating, Inserting, Popping
-----------------------------------------------------------------------------
(* The first occurrence of the first element is the first.                   *)
LEMMA RemoveFirstIsTail ==
  ASSUME NEW S, NEW s \in Seq(S), s # << >>
  PROVE  RemoveFirst(s, s[1]) = Tail(s)
<1> DEFINE I == {i \in 1..Len(s) : s[i] = s[1]}
<1>1. Len(s) \in Nat \ {0}
  BY LenProperties, EmptySeq
<1>2. 1 \in I /\ I \subseteq Nat \ {0}
  BY <1>1
<1>3. Min(I) = 1
  <2>1. \A y \in I : 1 <= y
    BY <1>2
  <2>2. \A x \in I : (\A y \in I : x <= y) => x = 1
    BY <1>2, <2>1
  <2> QED
    BY <1>2, <2>1, <2>2 DEF Min
<1>4. RemoveFirst(s, s[1]) = RemoveAt(s, 1)
  <2>1. /\ \E i \in 1..Len(s) : s[i] = s[1]
        /\ (IF I # {} THEN Min(I) ELSE 0) = 1
    BY <1>2, <1>3
  <2> QED
    BY <2>1 DEF RemoveFirst, SelectInSeq
<1>5. RemoveAt(s, 1) = SubSeq(s, 1, 0) \o SubSeq(s, 2, Len(s))
  BY DEF RemoveAt
<1>6. SubSeq(s, 1, 0) = << >>
  BY SubSeqEmpty
<1>7. SubSeq(s, 2, Len(s)) = Tail(s) /\ Tail(s) \in Seq(S)
  BY TailIsSubSeq, HeadTailProperties
<1> QED
  BY <1>4, <1>5, <1>6, <1>7, ConcatEmptySeq

(* What is left when the first of several linked elements goes: the rest.    *)
LEMMA TailIsLinked ==
  ASSUME NEW s \in Seq(Node), Len(s) > 1, Linked(s), head' = next[s[1]],
         UNCHANGED <<tail, next>>
  PROVE  Linked(Tail(s))'
<1>1. s # << >> /\ Len(s) \in Nat
  BY LenProperties
<1>2. /\ Tail(s) \in Seq(Node) /\ Len(Tail(s)) = Len(s) - 1
      /\ \A i \in 1..Len(Tail(s)) : Tail(s)[i] = s[i+1]
  BY <1>1, HeadTailProperties
<1>3. /\ tail = s[Len(s)] /\ next[s[Len(s)]] = NULL
      /\ \A i \in 1..(Len(s)-1) : next[s[i]] = s[i+1]
  BY <1>1 DEF Linked, Chained
<1>4. Tail(s) # << >> /\ Tail(s)[1] = s[2] /\ Tail(s)[Len(Tail(s))] = s[Len(s)]
  <2>1. Tail(s)[1] = s[1+1] /\ Tail(s)[Len(s)-1] = s[(Len(s)-1)+1] /\ Len(Tail(s)) # 0
    BY <1>1, <1>2
  <2>2. 1 + 1 = 2 /\ (Len(s)-1)+1 = Len(s)
    BY <1>1
  <2>3. Tail(s) # << >>
    BY <1>2, <2>1, EmptySeq
  <2> QED
    BY <1>2, <2>1, <2>2, <2>3
<1>5. head' = Tail(s)[1]
  BY <1>1, <1>3, <1>4
<1>6. Chained(Tail(s))'
  <2> SUFFICES ASSUME NEW i \in 1..(Len(Tail(s))-1)
               PROVE  next[Tail(s)[i]] = Tail(s)[i+1]
    BY DEF Chained
  <2>1. Tail(s)[i] = s[i+1] /\ Tail(s)[i+1] = s[(i+1)+1] /\ i+1 \in 1..(Len(s)-1)
    BY <1>1, <1>2
  <2> QED
    BY <1>3, <2>1
<1> QED
  BY <1>3, <1>4, <1>5, <1>6 DEF Linked
-----------------------------------------------------------------------------
LEMMA UsedIsNat ==
  ASSUME TypeOK
  PROVE  used \in Nat /\ used <= MaxInserts
<1>1. used \in 0..MaxInserts
  BY DEF TypeOK
<1> QED
  BY <1>1, MaxInsertsIsNat

LEMMA ContentsAreNodes ==
  ASSUME IInv
  PROVE  /\ contents \in Seq(Node) /\ Len(contents) \in Nat
         /\ \A i \in 1..Len(contents) : /\ contents[i] \in Node /\ contents[i] \in Nat
                                        /\ contents[i] \notin freed /\ contents[i] <= used
         /\ Len(contents) <= used
         /\ contents = << >> <=> Len(contents) = 0
         /\ contents # << >> => contents[1] \in Node /\ contents[Len(contents)] \in Node
<1>1. contents \in Seq(Node)
  BY DEF IInv, ElementsRight
<1>2. /\ Len(contents) \in Nat
      /\ \A i \in 1..Len(contents) : contents[i] \in Node
      /\ contents = << >> <=> Len(contents) = 0
  BY <1>1, EmptySeq
<1>3. \A i \in 1..Len(contents) : contents[i] \in Nat
  BY <1>2, NodesAreNat
<1> QED
  BY <1>1, <1>2, <1>3 DEF IInv, ElementsRight

LEMMA BeginInsertKeeps ==
  ASSUME OneMutex, IInv, NEW t \in Client, BeginInsert(t)
  PROVE  IInv'
<1> DEFINE where == IF tail = NULL THEN "insert head" ELSE "insert link"
<1>1. t \in Thread /\ Acquire(t) /\ Goto(t, where)
  BY DEF Thread, BeginInsert
<1> HIDE DEF where
<1>0. used \in Nat /\ used < MaxInserts /\ node \in [Thread -> Node \cup {NULL}]
  <2>1. TypeOK /\ used < MaxInserts
    BY DEF IInv, BeginInsert
  <2> QED
    BY <2>1, UsedIsNat DEF TypeOK
<1>2. /\ pc'[t] = where
      /\ \A u \in Thread : pc[u] = "idle"
      /\ \A u \in Thread \ {t} : pc'[u] = "idle"
      /\ holder' \in [{"list", "copy"} -> Thread \cup {Nobody}]
      /\ MutexHeld'
  BY <1>1, StepInto DEF IInv
<1>3. where = "insert head" \/ where = "insert link"
  BY DEF where
<1>4. /\ used' = used + 1 /\ used' \in Node /\ used' <= MaxInserts
      /\ node' = [node EXCEPT ![t] = used'] /\ node'[t] = used'
      /\ UNCHANGED <<head, tail, size, next, freed, sizeRead, contents>>
  <2>1. /\ used' = used + 1 /\ node' = [node EXCEPT ![t] = used']
        /\ UNCHANGED <<head, tail, size, next, freed, sizeRead, contents>>
    BY DEF BeginInsert, listVars
  <2> QED
    BY <1>0, <1>1, <2>1, NodesAreNat DEF Node
<1>5. TypeOK'
  <2>1. pc' \in [Thread -> {"idle", "insert head", "insert link", "insert tail",
                        "insert size", "insert end", "pop last", "pop tail",
                        "pop first", "pop size", "pop end", "find", "unlock"}]
    BY <1>1, <1>3 DEF IInv, TypeOK, Goto
  <2>2. node' \in [Thread -> Node \cup {NULL}]
    BY <1>0, <1>4
  <2>3. used' \in 0..MaxInserts
    BY <1>0, <1>4, MaxInsertsIsNat
  <2> QED
    BY <2>1, <2>2, <2>3, <1>2, <1>4 DEF IInv, TypeOK
<1>6. ElementsRight' /\ NodesFresh'
  <2>1. /\ \A i \in 1..Len(contents) : contents[i] <= used'
        /\ Len(contents) <= used'
    BY <1>0, <1>4, ContentsAreNodes
  <2>2. ElementsRight'
    BY <2>1, <1>4 DEF IInv, ElementsRight
  <2>3. freed \subseteq Node
    BY DEF IInv, TypeOK
  <2>4. NodesFresh'
    BY <2>3, <1>0, <1>4, NodesAreNat DEF IInv, NodesFresh
  <2> QED
    BY <2>2, <2>4
<1>7. Linked(contents) /\ Linked(contents)'
  <2>1. Linked(contents)
    BY <1>1, <1>2, LinkedForOne DEF Updating, Inserting, Popping
  <2> QED
    BY <2>1, <1>4 DEF Linked, Chained
<1>8. tail = NULL <=> contents = << >>
  BY <1>7, ContentsAreNodes, NodesAreNat DEF Linked
<1>9. node'[t] \notin freed /\ next[node'[t]] = NULL
  <2>1. freed \subseteq Node
    BY DEF IInv, TypeOK
  <2> QED
    BY <2>1, <1>0, <1>4, NodesAreNat DEF IInv, NodesFresh
<1>10. Len(contents) < used' /\ \A i \in 1..Len(contents) : contents[i] < used'
  BY <1>0, <1>4, ContentsAreNodes
<1>11. InsertionRight(t)'
  BY <1>2, <1>3, <1>4, <1>7, <1>8, <1>9, <1>10 DEF InsertionRight, Inserting, where
<1>12. ThreadRight(t)' /\ Updating(t)'
  BY <1>2, <1>3, <1>11 DEF ThreadRight, PopRight, Popping, Updating, Inserting
<1> QED
  BY <1>1, <1>2, <1>5, <1>6, <1>12, OneAtATime

LEMMA SetHeadKeeps ==
  ASSUME IInv, NEW t \in Client, SetHead(t)
  PROVE  IInv'
<1>1. t \in Thread /\ pc[t] = "insert head" /\ Goto(t, "insert tail") /\ holder' = holder
  BY DEF Thread, SetHead
<1>2. /\ pc'[t] = "insert tail"
      /\ \A u \in Thread \ {t} : pc[u] = "idle" /\ pc'[u] = "idle"
      /\ MutexHeld'
  BY <1>1, StepInside DEF IInv
<1>3. head' = node[t] /\ UNCHANGED <<tail, size, next, freed, node, sizeRead, used, contents>>
  BY DEF SetHead
<1>4. InsertionRight(t) /\ contents = << >>
  BY <1>1 DEF IInv, ThreadRight, InsertionRight
<1>5. TypeOK'
  BY <1>1, <1>3, <1>4 DEF IInv, TypeOK, Goto, SetHead, InsertionRight, Inserting
<1>6. ElementsRight' /\ NodesFresh'
  BY <1>3 DEF IInv, ElementsRight, NodesFresh
<1>7. Append(contents, node[t]) = <<node[t]>>
  BY <1>4
<1>8. head' = Append(contents, node[t])[1] /\ Chained(Append(contents, node[t]))'
  BY <1>3, <1>7 DEF Chained
<1>9. InsertionRight(t)'
  BY <1>1, <1>2, <1>3, <1>4, <1>8 DEF InsertionRight, Inserting
<1>10. ThreadRight(t)' /\ Updating(t)'
  BY <1>2, <1>9 DEF ThreadRight, PopRight, Popping, Updating, Inserting
<1> QED
  BY <1>1, <1>2, <1>5, <1>6, <1>10, OneAtATime

(* Linking the new node behind the tail leaves the others linked.            *)
LEMMA LinkTailKeeps ==
  ASSUME IInv, NEW t \in Client, LinkTail(t)
  PROVE  IInv'
<1> DEFINE n == node[t]  s == contents
<1>1. t \in Thread /\ pc[t] = "insert link" /\ Goto(t, "insert tail") /\ holder' = holder
  BY DEF Thread, LinkTail
<1>2. /\ pc'[t] = "insert tail"
      /\ \A u \in Thread \ {t} : pc[u] = "idle" /\ pc'[u] = "idle"
      /\ MutexHeld'
  BY <1>1, StepInside DEF IInv
<1>3. /\ next' = [next EXCEPT ![tail] = n]
      /\ UNCHANGED <<head, tail, size, freed, node, sizeRead, used, contents>>
  BY DEF LinkTail
<1>4. /\ InsertionRight(t) /\ s # << >> /\ Linked(s)
      /\ n = used /\ n \in Node /\ n \notin freed /\ next[n] = NULL
      /\ Len(s) < used /\ \A i \in 1..Len(s) : s[i] < used
  BY <1>1 DEF IInv, ThreadRight, InsertionRight, Inserting
<1>5. s \in Seq(Node) /\ Len(s) \in Nat \ {0} /\ \A i \in 1..Len(s) : s[i] \in Node
  BY <1>4, ContentsAreNodes
<1>6. tail = s[Len(s)] /\ tail \in Node /\ tail < used /\ tail # n
  BY <1>4, <1>5, NodesAreNat DEF Linked
<1>7. /\ next' \in [Node -> Node \cup {NULL}] /\ next'[tail] = n
      /\ \A m \in Node \ {tail} : next'[m] = next[m]
  BY <1>3, <1>4, <1>6 DEF IInv, TypeOK
<1>8. TypeOK'
  BY <1>1, <1>3, <1>7 DEF IInv, TypeOK, Goto, LinkTail
<1>9. ElementsRight' /\ NodesFresh'
  <2>1. ElementsRight'
    BY <1>3 DEF IInv, ElementsRight
  <2>2. \A m \in Node : m > used => m # tail
    BY <1>4, <1>6, NodesAreNat
  <2>3. NodesFresh'
    BY <1>3, <1>7, <2>2 DEF IInv, NodesFresh
  <2> QED
    BY <2>1, <2>3
<1>10. /\ Len(Append(s, n)) = Len(s) + 1 /\ Append(s, n)[Len(s) + 1] = n
       /\ \A i \in 1..Len(s) : Append(s, n)[i] = s[i]
  BY <1>4, <1>5, AppendProperties
<1>11. \A i \in 1..(Len(s)-1) : s[i] # tail /\ next'[s[i]] = s[i+1]
  <2> SUFFICES ASSUME NEW i \in 1..(Len(s)-1)
               PROVE  s[i] # tail /\ next'[s[i]] = s[i+1]
    OBVIOUS
  <2>1. next[s[i]] = s[i+1]
    BY <1>4 DEF Linked, Chained
  <2>2. s[i] < s[Len(s)] /\ i \in 1..Len(s) /\ s[i] \in Node
    BY <1>5 DEF IInv, ElementsRight
  <2> QED
    BY <2>1, <2>2, <1>6, <1>7, NodesAreNat
<1>12. Chained(Append(s, n))'
  <2> SUFFICES ASSUME NEW i \in 1..(Len(Append(s, n))-1)
               PROVE  next'[Append(s, n)[i]] = Append(s, n)[i+1]
    BY <1>3 DEF Chained
  <2>1. CASE i = Len(s)
    BY <2>1, <1>5, <1>6, <1>7, <1>10
  <2>2. CASE i # Len(s)
    BY <2>2, <1>5, <1>10, <1>11
  <2> QED
    BY <2>1, <2>2
<1>13. head' = Append(s, n)[1]
  BY <1>3, <1>4, <1>5, <1>10 DEF Linked
<1>14. next'[n] = NULL
  BY <1>4, <1>6, <1>7
<1>15. InsertionRight(t)'
  BY <1>2, <1>3, <1>4, <1>12, <1>13, <1>14 DEF InsertionRight, Inserting
<1>16. ThreadRight(t)' /\ Updating(t)'
  BY <1>2, <1>15 DEF ThreadRight, PopRight, Popping, Updating, Inserting
<1> QED
  BY <1>1, <1>2, <1>8, <1>9, <1>16, OneAtATime

LEMMA SetTailKeeps ==
  ASSUME IInv, NEW t \in Client, SetTail(t)
  PROVE  IInv'
<1> DEFINE s == contents  a == Append(contents, node[t])
<1>1. t \in Thread /\ pc[t] = "insert tail" /\ Goto(t, "insert size") /\ holder' = holder
  BY DEF Thread, SetTail
<1>2. /\ pc'[t] = "insert size"
      /\ \A u \in Thread \ {t} : pc[u] = "idle" /\ pc'[u] = "idle"
      /\ MutexHeld'
  BY <1>1, StepInside DEF IInv
<1>3. tail' = node[t] /\ UNCHANGED <<head, size, next, freed, node, sizeRead, used, contents>>
  BY DEF SetTail
<1>4. /\ InsertionRight(t) /\ node[t] \in Node /\ next[node[t]] = NULL
      /\ head = a[1] /\ Chained(a)
  BY <1>1 DEF IInv, ThreadRight, InsertionRight, Inserting
<1>5. TypeOK'
  BY <1>1, <1>3, <1>4 DEF IInv, TypeOK, Goto
<1>6. ElementsRight' /\ NodesFresh'
  BY <1>3 DEF IInv, ElementsRight, NodesFresh
<1>7. a # << >> /\ a[Len(a)] = node[t]
  <2>1. s \in Seq(Node)
    BY ContentsAreNodes
  <2> QED
    BY <2>1, <1>4, AppendProperties
<1>8. Linked(a)'
  BY <1>3, <1>4, <1>7 DEF Linked, Chained
<1>9. InsertionRight(t)'
  BY <1>1, <1>2, <1>3, <1>4, <1>8 DEF InsertionRight, Inserting
<1>10. ThreadRight(t)' /\ Updating(t)'
  BY <1>2, <1>9 DEF ThreadRight, PopRight, Popping, Updating, Inserting
<1> QED
  BY <1>1, <1>2, <1>5, <1>6, <1>10, OneAtATime

LEMMA ReadSizeKeeps ==
  ASSUME IInv, NEW t \in Thread, ReadSize(t)
  PROVE  IInv'
<1> DEFINE where == IF pc[t] = "insert size" THEN "insert end" ELSE "pop end"
<1>1. /\ \/ pc[t] = "insert size" /\ where = "insert end"
         \/ pc[t] = "pop size" /\ where = "pop end"
      /\ Goto(t, where) /\ holder' = holder
  <2>1. pc[t] = "insert size" \/ pc[t] = "pop size"
    BY DEF ReadSize
  <2>2. Goto(t, where) /\ holder' = holder
    BY DEF ReadSize
  <2>3. pc[t] = "insert size" => where = "insert end"
    OBVIOUS
  <2>4. pc[t] = "pop size" => where = "pop end"
    OBVIOUS
  <2> HIDE DEF where
  <2> QED
    BY <2>1, <2>2, <2>3, <2>4
<1> HIDE DEF where
<1>2. /\ pc'[t] = where
      /\ \A u \in Thread \ {t} : pc[u] = "idle" /\ pc'[u] = "idle"
      /\ MutexHeld'
  BY <1>1, StepInside DEF IInv
<1>3. /\ sizeRead' = [sizeRead EXCEPT ![t] = size]
      /\ UNCHANGED <<head, tail, size, next, freed, node, used, contents>>
  BY DEF ReadSize, listVars
<1>4. TypeOK'
  <2>1. pc' \in [Thread -> {"idle", "insert head", "insert link", "insert tail",
                        "insert size", "insert end", "pop last", "pop tail",
                        "pop first", "pop size", "pop end", "find", "unlock"}]
    BY <1>1 DEF IInv, TypeOK, Goto
  <2> QED
    BY <1>1, <1>3, <2>1 DEF IInv, TypeOK
<1>5. sizeRead'[t] = size
  BY <1>3 DEF IInv, TypeOK
<1>6. ElementsRight' /\ NodesFresh'
  BY <1>3 DEF IInv, ElementsRight, NodesFresh
<1>7. InsertionRight(t) /\ PopRight(t)
  BY DEF IInv, ThreadRight
<1>8. Linked(contents)' = Linked(contents) /\ Linked(Tail(contents))' = Linked(Tail(contents))
      /\ Linked(Append(contents, node[t]))' = Linked(Append(contents, node[t]))
  BY <1>3 DEF Linked, Chained
<1>9. InsertionRight(t)' /\ PopRight(t)'
  BY <1>1, <1>2, <1>3, <1>7, <1>8 DEF InsertionRight, Inserting, PopRight, Popping
<1>10. ThreadRight(t)' /\ Updating(t)'
  BY <1>1, <1>2, <1>3, <1>5, <1>9 DEF ThreadRight, Updating, Inserting, Popping
<1> QED
  BY <1>2, <1>4, <1>6, <1>10, OneAtATime

LEMMA EndInsertKeeps ==
  ASSUME IInv, NEW t \in Client, EndInsert(t)
  PROVE  IInv'
<1> DEFINE s == contents  n == node[t]
<1>1. t \in Thread /\ pc[t] = "insert end" /\ Goto(t, "unlock") /\ holder' = holder
  BY DEF Thread, EndInsert
<1>2. /\ pc'[t] = "unlock"
      /\ \A u \in Thread \ {t} : pc[u] = "idle" /\ pc'[u] = "idle"
      /\ MutexHeld'
  BY <1>1, StepInside DEF IInv
<1>3. /\ size' = sizeRead[t] + 1 /\ contents' = Append(s, n)
      /\ UNCHANGED <<head, tail, next, freed, node, sizeRead, used>>
  BY DEF EndInsert
<1>4. /\ n = used /\ n \in Node /\ n \notin freed /\ Len(s) < used
      /\ \A i \in 1..Len(s) : s[i] < used
      /\ Linked(Append(s, n)) /\ sizeRead[t] = Len(s)
  BY <1>1 DEF IInv, ThreadRight, InsertionRight, Inserting, ElementsRight
<1>5. s \in Seq(Node) /\ Len(s) \in Nat /\ used \in Nat /\ used <= MaxInserts
  BY ContentsAreNodes, UsedIsNat DEF IInv
<1>6. /\ contents' \in Seq(Node) /\ Len(contents') = Len(s) + 1
      /\ \A i \in 1..Len(s) : contents'[i] = s[i]
      /\ contents'[Len(s) + 1] = n
  BY <1>3, <1>4, <1>5, AppendProperties
<1>7. size' = Len(contents') /\ Len(contents') <= used /\ size' \in 0..MaxInserts
  <2>1. size' = Len(s) + 1
    BY <1>3, <1>4
  <2> QED
    BY <2>1, <1>4, <1>5, <1>6, MaxInsertsIsNat
<1>8. TypeOK'
  BY <1>1, <1>3, <1>7 DEF IInv, TypeOK, Goto
<1>9. ElementsRight'
  <2>1. \A i \in 1..Len(contents') : i \in 1..Len(s) \/ i = Len(s) + 1
    BY <1>5, <1>6
  <2>2. \A i \in 1..Len(contents') : contents'[i] <= used /\ contents'[i] \notin freed
    BY <2>1, <1>4, <1>5, <1>6 DEF IInv, ElementsRight
  <2>3. ASSUME NEW i \in 1..Len(contents'), NEW j \in 1..Len(contents'), i < j
        PROVE  contents'[i] < contents'[j]
    <3>1. i \in 1..Len(s)
      BY <2>3, <1>5, <1>6
    <3>2. CASE j \in 1..Len(s)
      BY <3>1, <3>2, <2>3, <1>6 DEF IInv, ElementsRight
    <3>3. CASE j = Len(s) + 1
      BY <3>1, <3>3, <1>4, <1>6
    <3> QED
      BY <3>2, <3>3, <2>1
  <2> QED
    BY <2>2, <2>3, <1>3, <1>6, <1>7 DEF ElementsRight
<1>10. NodesFresh'
  BY <1>3 DEF IInv, NodesFresh
<1>11. Linked(contents)'
  BY <1>3, <1>4 DEF Linked, Chained
<1>12. ThreadRight(t)'
  BY <1>2 DEF ThreadRight, InsertionRight, PopRight, Popping, Inserting
<1> QED
  BY <1>1, <1>2, <1>8, <1>9, <1>10, <1>11, <1>12, OneAtATime

LEMMA ReleaseKeeps ==
  ASSUME OneMutex, IInv, NEW t \in Thread, Release(t)
  PROVE  IInv'
<1>1. pc[t] = "unlock" /\ Goto(t, "idle")
  BY DEF Release
<1>2. pc'[t] = "idle" /\ \A u \in Thread \ {t} : pc'[u] = pc[u]
  BY <1>1 DEF IInv, TypeOK, Goto
<1>3. \A u \in Thread \ {t} : pc[u] = "idle"
  BY <1>1, Alone DEF IInv
<1>4. MutexHeld'
  BY <1>2, <1>3 DEF MutexHeld
<1>5. /\ UNCHANGED <<head, tail, size, next, freed, used, contents>>
      /\ holder' = [holder EXCEPT !["list"] = Nobody]
      /\ node' = [node EXCEPT ![t] = NULL]
      /\ sizeRead' = [sizeRead EXCEPT ![t] = 0]
  BY DEF Release, listVars, OneMutex, LockOf
<1>6. TypeOK'
  <2>1. 0 \in 0..MaxInserts
    BY MaxInsertsIsNat
  <2> QED
    BY <2>1, <1>1, <1>5 DEF IInv, TypeOK, Goto
<1>7. ElementsRight' /\ NodesFresh'
  BY <1>5 DEF IInv, ElementsRight, NodesFresh
<1>8. Linked(contents)'
  <2>1. Linked(contents)
    BY <1>1, <1>3, LinkedForOne DEF Updating, Inserting, Popping
  <2> QED
    BY <2>1, <1>5 DEF Linked, Chained
<1>9. ThreadRight(t)'
  BY <1>2 DEF ThreadRight, InsertionRight, PopRight, Popping, Inserting
<1> QED
  BY <1>2, <1>3, <1>4, <1>6, <1>7, <1>8, <1>9, OneAtATime

LEMMA BeginFindKeeps ==
  ASSUME OneMutex, IInv, NEW t \in Client, BeginFind(t)
  PROVE  IInv'
<1>1. t \in Thread /\ Acquire(t) /\ Goto(t, "find")
  BY DEF Thread, BeginFind
<1>2. /\ pc'[t] = "find"
      /\ \A u \in Thread : pc[u] = "idle"
      /\ \A u \in Thread \ {t} : pc'[u] = "idle"
      /\ holder' \in [{"list", "copy"} -> Thread \cup {Nobody}]
      /\ MutexHeld'
  BY <1>1, StepInto DEF IInv
<1>3. /\ node' = [node EXCEPT ![t] = head]
      /\ UNCHANGED <<head, tail, size, next, freed, sizeRead, used, contents>>
  BY DEF BeginFind, listVars
<1>4. TypeOK'
  BY <1>1, <1>2, <1>3 DEF IInv, TypeOK, Goto
<1>5. ElementsRight' /\ NodesFresh'
  BY <1>3 DEF IInv, ElementsRight, NodesFresh
<1>6. Linked(contents) /\ Linked(contents)'
  <2>1. Linked(contents)
    BY <1>1, <1>2, LinkedForOne DEF Updating, Inserting, Popping
  <2> QED
    BY <2>1, <1>3 DEF Linked, Chained
<1>7. node'[t] = NULL \/ \E i \in 1..Len(contents) : node'[t] = contents[i]
  <2>1. node'[t] = head
    BY <1>1, <1>3 DEF IInv, TypeOK
  <2> QED
    BY <2>1, <1>6, ContentsAreNodes DEF Linked
<1>8. ThreadRight(t)'
  BY <1>2, <1>3, <1>7 DEF ThreadRight, InsertionRight, PopRight, Popping, Inserting
<1> QED
  BY <1>1, <1>2, <1>4, <1>5, <1>6, <1>8, OneAtATime

(* The element after one of the list is one of the list, or the end.         *)
LEMMA FindNextKeeps ==
  ASSUME IInv, NEW t \in Client, FindNext(t)
  PROVE  IInv'
<1>1. t \in Thread /\ pc[t] = "find" /\ holder' = holder
  BY DEF Thread, FindNext
<1>2. UNCHANGED <<head, tail, size, next, freed, sizeRead, used, contents>>
  BY DEF FindNext, listVars
<1>3. \A u \in Thread \ {t} : pc[u] = "idle"
  BY <1>1, Alone DEF IInv
<1>4. Linked(contents) /\ Linked(contents)'
  <2>1. Linked(contents)
    BY <1>1, <1>3, LinkedForOne DEF Updating, Inserting, Popping
  <2> QED
    BY <2>1, <1>2 DEF Linked, Chained
<1>5. ElementsRight' /\ NodesFresh'
  BY <1>2 DEF IInv, ElementsRight, NodesFresh
<1>6. CASE Goto(t, "unlock") /\ UNCHANGED node
  <2>1. pc'[t] = "unlock" /\ (\A u \in Thread \ {t} : pc'[u] = "idle") /\ MutexHeld'
    BY <1>1, <1>6, StepInside DEF IInv
  <2>2. TypeOK'
    BY <1>1, <1>2, <1>6 DEF IInv, TypeOK, Goto
  <2>3. ThreadRight(t)'
    BY <2>1 DEF ThreadRight, InsertionRight, PopRight, Popping, Inserting
  <2> QED
    BY <1>1, <1>4, <1>5, <2>1, <2>2, <2>3, OneAtATime
<1>7. CASE node[t] # NULL /\ node' = [node EXCEPT ![t] = next[node[t]]] /\ UNCHANGED pc
  <2>1. (\A u \in Thread \ {t} : pc'[u] = "idle") /\ MutexHeld'
    BY <1>1, <1>3, <1>7 DEF IInv, MutexHeld
  <2>2. PICK i \in 1..Len(contents) : node[t] = contents[i]
    BY <1>1, <1>7 DEF IInv, ThreadRight
  <2>3. node'[t] = next[contents[i]] /\ contents[i] \in Node
    BY <1>1, <1>7, <2>2, ContentsAreNodes DEF IInv, TypeOK
  <2>4. TypeOK'
    <3>1. next[node[t]] \in Node \cup {NULL}
      BY <2>2, <2>3 DEF IInv, TypeOK
    <3> QED
      BY <1>1, <1>2, <1>7, <3>1 DEF IInv, TypeOK
  <2>5. node'[t] = NULL \/ \E j \in 1..Len(contents) : node'[t] = contents[j]
    <3>1. CASE i = Len(contents)
      BY <3>1, <2>3, <1>4, ContentsAreNodes DEF Linked
    <3>2. CASE i # Len(contents)
      <4>1. i \in 1..(Len(contents)-1) /\ i+1 \in 1..Len(contents)
        BY <3>2, ContentsAreNodes
      <4>2. next[contents[i]] = contents[i+1]
        BY <4>1, <1>4 DEF Linked, Chained
      <4> QED
        BY <4>1, <4>2, <2>3
    <3> QED
      BY <3>1, <3>2
  <2>6. ThreadRight(t)'
    BY <1>1, <1>2, <1>7, <2>5 DEF ThreadRight, InsertionRight, PopRight, Popping, Inserting
  <2> QED
    BY <1>1, <1>4, <1>5, <2>1, <2>4, <2>6, OneAtATime
<1> QED
  BY <1>6, <1>7 DEF FindNext
-----------------------------------------------------------------------------
(* A head that is not NULL is an element, so size is not 0.                  *)
LEMMA BeginPopKeeps ==
  ASSUME OneMutex, IInv, BeginPop
  PROVE  IInv'
<1> DEFINE where == IF size = 0 THEN "unlock" ELSE IF size = 1 THEN "pop last" ELSE "pop first"
<1>1. Cleaner \in Thread /\ Acquire(Cleaner) /\ Goto(Cleaner, where)
  BY DEF Thread, BeginPop
<1> HIDE DEF where
<1>2. /\ pc'[Cleaner] = where
      /\ \A u \in Thread : pc[u] = "idle"
      /\ \A u \in Thread \ {Cleaner} : pc'[u] = "idle"
      /\ holder' \in [{"list", "copy"} -> Thread \cup {Nobody}]
      /\ MutexHeld'
  BY <1>1, StepInto DEF IInv
<1>3. /\ head # NULL /\ node' = [node EXCEPT ![Cleaner] = head]
      /\ UNCHANGED <<head, tail, size, next, freed, sizeRead, used, contents>>
  BY DEF BeginPop, listVars
<1>4. Linked(contents) /\ Linked(contents)'
  <2>1. Linked(contents)
    BY <1>1, <1>2, LinkedForOne DEF Updating, Inserting, Popping
  <2> QED
    BY <2>1, <1>3 DEF Linked, Chained
<1>5. contents # << >> /\ head = contents[1] /\ size = Len(contents) /\ size \in Nat \ {0}
  BY <1>3, <1>4, ContentsAreNodes DEF Linked, IInv, ElementsRight
<1>6. (where = "pop last" /\ Len(contents) = 1) \/ (where = "pop first" /\ Len(contents) > 1)
  BY <1>5 DEF where
<1>7. node'[Cleaner] = contents[1]
  BY <1>1, <1>3, <1>5 DEF IInv, TypeOK
<1>8. TypeOK'
  <2>1. pc' \in [Thread -> {"idle", "insert head", "insert link", "insert tail",
                        "insert size", "insert end", "pop last", "pop tail",
                        "pop first", "pop size", "pop end", "find", "unlock"}]
    BY <1>1, <1>6 DEF IInv, TypeOK, Goto
  <2> QED
    BY <1>1, <1>2, <1>3, <2>1 DEF IInv, TypeOK
<1>9. ElementsRight' /\ NodesFresh'
  BY <1>3 DEF IInv, ElementsRight, NodesFresh
<1>10. PopRight(Cleaner)'
  BY <1>2, <1>3, <1>4, <1>5, <1>6, <1>7 DEF PopRight, Popping
<1>11. ThreadRight(Cleaner)'
  BY <1>2, <1>6, <1>10 DEF ThreadRight, InsertionRight, Inserting
<1> QED
  BY <1>1, <1>2, <1>4, <1>8, <1>9, <1>11, OneAtATime

LEMMA ClearHeadKeeps ==
  ASSUME IInv, ClearHead
  PROVE  IInv'
<1>1. Cleaner \in Thread /\ pc[Cleaner] = "pop last" /\ Goto(Cleaner, "pop tail") /\ holder' = holder
  BY DEF Thread, ClearHead
<1>2. /\ pc'[Cleaner] = "pop tail"
      /\ \A u \in Thread \ {Cleaner} : pc'[u] = "idle"
      /\ MutexHeld'
  BY <1>1, StepInside DEF IInv
<1>3. head' = NULL /\ UNCHANGED <<tail, size, next, freed, node, sizeRead, used, contents>>
  BY DEF ClearHead
<1>4. TypeOK'
  BY <1>1, <1>3 DEF IInv, TypeOK, Goto
<1>5. ElementsRight' /\ NodesFresh'
  BY <1>3 DEF IInv, ElementsRight, NodesFresh
<1>6. PopRight(Cleaner)
  BY <1>1 DEF IInv, ThreadRight
<1>7. PopRight(Cleaner)'
  BY <1>1, <1>2, <1>3, <1>6 DEF PopRight, Popping
<1>8. ThreadRight(Cleaner)' /\ Updating(Cleaner)'
  BY <1>2, <1>7 DEF ThreadRight, InsertionRight, Inserting, Updating, Popping
<1> QED
  BY <1>1, <1>2, <1>4, <1>5, <1>8, OneAtATime

LEMMA TailOfOne ==
  ASSUME NEW S, NEW s \in Seq(S), Len(s) = 1
  PROVE  Tail(s) = << >>
<1>1. s # << >>
  BY EmptySeq
<1>2. Tail(s) \in Seq(S) /\ Len(Tail(s)) = 0
  BY <1>1, HeadTailProperties
<1> QED
  BY <1>2, EmptySeq

LEMMA ClearTailKeeps ==
  ASSUME IInv, ClearTail
  PROVE  IInv'
<1>1. Cleaner \in Thread /\ pc[Cleaner] = "pop tail" /\ Goto(Cleaner, "pop size") /\ holder' = holder
  BY DEF Thread, ClearTail
<1>2. /\ pc'[Cleaner] = "pop size"
      /\ \A u \in Thread \ {Cleaner} : pc'[u] = "idle"
      /\ MutexHeld'
  BY <1>1, StepInside DEF IInv
<1>3. tail' = NULL /\ UNCHANGED <<head, size, next, freed, node, sizeRead, used, contents>>
  BY DEF ClearTail
<1>4. TypeOK'
  BY <1>1, <1>3 DEF IInv, TypeOK, Goto
<1>5. ElementsRight' /\ NodesFresh'
  BY <1>3 DEF IInv, ElementsRight, NodesFresh
<1>6. PopRight(Cleaner)
  BY <1>1 DEF IInv, ThreadRight
<1>7. Tail(contents) = << >> /\ head = NULL
  BY <1>1, <1>6, TailOfOne, ContentsAreNodes DEF PopRight
<1>8. Linked(Tail(contents))'
  BY <1>3, <1>7 DEF Linked
<1>9. PopRight(Cleaner)'
  BY <1>1, <1>2, <1>3, <1>6, <1>8 DEF PopRight, Popping
<1>10. ThreadRight(Cleaner)' /\ Updating(Cleaner)'
  BY <1>2, <1>9 DEF ThreadRight, InsertionRight, Inserting, Updating, Popping
<1> QED
  BY <1>1, <1>2, <1>4, <1>5, <1>10, OneAtATime

LEMMA AdvanceHeadKeeps ==
  ASSUME IInv, AdvanceHead
  PROVE  IInv'
<1>1. Cleaner \in Thread /\ pc[Cleaner] = "pop first" /\ Goto(Cleaner, "pop size") /\ holder' = holder
  BY DEF Thread, AdvanceHead
<1>2. /\ pc'[Cleaner] = "pop size"
      /\ \A u \in Thread \ {Cleaner} : pc'[u] = "idle"
      /\ MutexHeld'
  BY <1>1, StepInside DEF IInv
<1>3. head' = next[node[Cleaner]]
      /\ UNCHANGED <<tail, size, next, freed, node, sizeRead, used, contents>>
  BY DEF AdvanceHead
<1>4. PopRight(Cleaner)
  BY <1>1 DEF IInv, ThreadRight
<1>5. /\ node[Cleaner] = contents[1] /\ contents[1] \in Node /\ contents # << >>
      /\ Len(contents) > 1 /\ Linked(contents)
  BY <1>1, <1>4, ContentsAreNodes DEF PopRight, Popping
<1>6. TypeOK'
  <2>1. head' \in Node \cup {NULL}
    BY <1>3, <1>5 DEF IInv, TypeOK
  <2> QED
    BY <2>1, <1>1, <1>3 DEF IInv, TypeOK, Goto
<1>7. ElementsRight' /\ NodesFresh'
  BY <1>3 DEF IInv, ElementsRight, NodesFresh
<1>8. Linked(Tail(contents))'
  <2>1. head' = next[contents[1]] /\ contents \in Seq(Node) /\ UNCHANGED <<tail, next, contents>>
    BY <1>3, <1>5, ContentsAreNodes
  <2> QED
    BY <2>1, <1>5, TailIsLinked DEF Linked, Chained
<1>9. PopRight(Cleaner)'
  BY <1>1, <1>2, <1>3, <1>4, <1>8 DEF PopRight, Popping
<1>10. ThreadRight(Cleaner)' /\ Updating(Cleaner)'
  BY <1>2, <1>9 DEF ThreadRight, InsertionRight, Inserting, Updating, Popping
<1> QED
  BY <1>1, <1>2, <1>6, <1>7, <1>10, OneAtATime

LEMMA EndPopKeeps ==
  ASSUME IInv, EndPop
  PROVE  IInv'
<1> DEFINE s == contents
<1>1. Cleaner \in Thread /\ pc[Cleaner] = "pop end" /\ Goto(Cleaner, "unlock") /\ holder' = holder
  BY DEF Thread, EndPop
<1>2. /\ pc'[Cleaner] = "unlock"
      /\ \A u \in Thread \ {Cleaner} : pc'[u] = "idle"
      /\ MutexHeld'
  BY <1>1, StepInside DEF IInv
<1>3. /\ size' = sizeRead[Cleaner] - 1 /\ freed' = freed \cup {node[Cleaner]}
      /\ contents' = RemoveFirst(s, node[Cleaner])
      /\ UNCHANGED <<head, tail, next, node, sizeRead, used>>
  BY DEF EndPop
<1>4. ThreadRight(Cleaner) /\ PopRight(Cleaner)
  BY <1>1 DEF IInv, ThreadRight
<1>5. /\ node[Cleaner] = s[1] /\ s # << >> /\ Linked(Tail(s))
      /\ sizeRead[Cleaner] = size /\ size = Len(s)
  BY <1>1, <1>4 DEF ThreadRight, PopRight, Popping, IInv, ElementsRight
<1>6. /\ s \in Seq(Node) /\ Len(s) \in Nat \ {0} /\ s[1] \in Node /\ s[1] <= used
      /\ Len(s) <= used /\ used \in Nat /\ used <= MaxInserts
  BY <1>5, ContentsAreNodes, UsedIsNat DEF IInv
<1>7. contents' = Tail(s)
  BY <1>3, <1>5, <1>6, RemoveFirstIsTail
<1>8. /\ contents' \in Seq(Node) /\ Len(contents') = Len(s) - 1
      /\ \A i \in 1..Len(contents') : contents'[i] = s[i+1] /\ i+1 \in 1..Len(s)
  BY <1>5, <1>6, <1>7, HeadTailProperties
<1>9. size' = Len(contents') /\ Len(contents') <= used /\ size' \in 0..MaxInserts
  <2>1. size' = Len(s) - 1
    BY <1>3, <1>5
  <2> QED
    BY <2>1, <1>6, <1>8, MaxInsertsIsNat
<1>10. TypeOK'
  BY <1>1, <1>3, <1>5, <1>6, <1>9 DEF IInv, TypeOK, Goto
<1>11. ElementsRight'
  <2>1. ASSUME NEW i \in 1..Len(contents')
        PROVE  contents'[i] <= used /\ contents'[i] \notin freed'
    <3>1. contents'[i] = s[i+1] /\ i+1 \in 1..Len(s)
      BY <1>8
    <3>2. s[1] < s[i+1] /\ s[i+1] \notin freed /\ s[i+1] <= used
      <4>1. 1 \in 1..Len(s) /\ 1 < i+1
        BY <1>6, <1>8
      <4> QED
        BY <3>1, <4>1 DEF IInv, ElementsRight
    <3>3. s[i+1] # s[1]
      BY <3>1, <3>2, <1>6, ContentsAreNodes
    <3> QED
      BY <3>1, <3>2, <3>3, <1>3, <1>5
  <2>2. ASSUME NEW i \in 1..Len(contents'), NEW j \in 1..Len(contents'), i < j
        PROVE  contents'[i] < contents'[j]
    <3>1. /\ contents'[i] = s[i+1] /\ i+1 \in 1..Len(s)
          /\ contents'[j] = s[j+1] /\ j+1 \in 1..Len(s) /\ i+1 < j+1
      BY <2>2, <1>8
    <3> QED
      BY <3>1 DEF IInv, ElementsRight
  <2> QED
    BY <2>1, <2>2, <1>3, <1>8, <1>9 DEF ElementsRight
<1>12. NodesFresh'
  BY <1>3, <1>5, <1>6 DEF IInv, NodesFresh
<1>13. Linked(contents)'
  BY <1>3, <1>5, <1>7 DEF Linked, Chained
<1>14. ThreadRight(Cleaner)'
  BY <1>2 DEF ThreadRight, InsertionRight, PopRight, Popping, Inserting
<1> QED
  BY <1>1, <1>2, <1>10, <1>11, <1>12, <1>13, <1>14, OneAtATime
-----------------------------------------------------------------------------
LEMMA HeadIsFirst ==
  ASSUME NEW S, NEW s \in Seq(S), s # << >>
  PROVE  Head(s) = s[1]
OBVIOUS

LEMMA InitIsRight == Init => IInv
<1> SUFFICES ASSUME Init PROVE IInv
  OBVIOUS
<1>1. TypeOK
  BY MaxInsertsIsNat DEF Init, TypeOK
<1>2. \A t \in Thread : pc[t] = "idle"
  BY DEF Init
<1>3. ElementsRight /\ NodesFresh /\ MutexHeld
  <2>1. contents \in Seq(Node) /\ Len(contents) = 0
    BY EmptySeq DEF Init
  <2> QED
    BY <1>2, <2>1 DEF Init, ElementsRight, NodesFresh, MutexHeld
<1>4. QuietRight
  BY DEF Init, QuietRight, Linked
<1>5. \A t \in Thread : ThreadRight(t)
  BY <1>2 DEF ThreadRight, InsertionRight, PopRight, Inserting, Popping
<1> QED
  BY <1>1, <1>3, <1>4, <1>5 DEF IInv

LEMMA StepsKeep == ASSUME OneMutex PROVE IInv /\ [Next]_vars => IInv'
<1> SUFFICES ASSUME IInv, [Next]_vars PROVE IInv'
  OBVIOUS
<1>1. CASE \E t \in Client : ClientStep(t)
  BY <1>1, BeginInsertKeeps, SetHeadKeeps, LinkTailKeeps, SetTailKeeps,
     EndInsertKeeps, BeginFindKeeps, FindNextKeeps DEF ClientStep
<1>2. CASE CleanerStep
  BY <1>2, BeginPopKeeps, ClearHeadKeeps, ClearTailKeeps, AdvanceHeadKeeps,
     EndPopKeeps DEF CleanerStep
<1>3. CASE \E t \in Thread : ReadSize(t) \/ Release(t)
  BY <1>3, ReadSizeKeeps, ReleaseKeeps
<1>4. CASE UNCHANGED vars
  <2>1. UNCHANGED <<head, tail, size, next, freed, holder, pc, node, sizeRead, used, contents>>
    BY <1>4 DEF vars, listVars
  <2>2. TypeOK' /\ MutexHeld' /\ ElementsRight' /\ NodesFresh'
    BY <2>1 DEF IInv, TypeOK, MutexHeld, ElementsRight, NodesFresh
  <2>3. ASSUME NEW t \in Thread PROVE ThreadRight(t)'
    <3>1. ThreadRight(t)
      BY DEF IInv
    <3>2. InsertionRight(t) /\ PopRight(t)
      BY <3>1 DEF ThreadRight
    <3>3. /\ Linked(contents)' = Linked(contents)
          /\ Linked(Tail(contents))' = Linked(Tail(contents))
          /\ Linked(Append(contents, node[t]))' = Linked(Append(contents, node[t]))
          /\ Chained(Append(contents, node[t]))' = Chained(Append(contents, node[t]))
      BY <2>1 DEF Linked, Chained
    <3>4. InsertionRight(t)'
      BY <2>1, <3>2, <3>3 DEF InsertionRight, Inserting
    <3>5. PopRight(t)'
      BY <2>1, <3>2, <3>3 DEF PopRight, Popping
    <3> QED
      BY <2>1, <3>1, <3>4, <3>5 DEF ThreadRight
  <2>4. QuietRight'
    BY <2>1 DEF IInv, QuietRight, Updating, Inserting, Popping, Linked, Chained
  <2> QED
    BY <2>2, <2>3, <2>4 DEF IInv
<1> QED
  BY <1>1, <1>2, <1>3, <1>4 DEF Next

LEMMA IInvAlways == ASSUME OneMutex PROVE Spec => []IInv
<1>1. Init => IInv
  BY InitIsRight
<1>2. IInv /\ [Next]_vars => IInv'
  BY StepsKeep
<1> QED
  BY <1>1, <1>2, PTL DEF Spec

(* Under one mutex every field of the list and every local of a thread keeps *)
(* its type: size never goes below 0 (the code's size is an int that two     *)
(* threads update by a read and a write).                                   *)
THEOREM TypeCorrect == ASSUME OneMutex PROVE Spec => []TypeOK
<1>1. IInv => TypeOK
  BY DEF IInv
<1> QED
  BY <1>1, IInvAlways, PTL

(* Under one mutex the list of NAT/LinkedList.c is a queue: whenever no      *)
(* thread is between two of its writes, head, tail, size and the next fields *)
(* hold what was inserted and not popped, in order, nothing lost or twice.   *)
THEOREM ListStaysIntact == ASSUME OneMutex PROVE Spec => []Intact
<1>1. IInv => Intact
  <2> SUFFICES ASSUME IInv, \A t \in Thread : pc[t] \in {"idle", "unlock", "find"}
               PROVE  /\ size = Len(contents)
                      /\ IF contents = << >> THEN head = NULL /\ tail = NULL
                         ELSE /\ head = Head(contents)
                              /\ tail = Last(contents)
                              /\ next[tail] = NULL
                              /\ Chained(contents)
    BY DEF Intact
  <2>1. Linked(contents) /\ size = Len(contents)
    BY DEF IInv, QuietRight, Updating, Inserting, Popping, ElementsRight
  <2>2. contents # << >> => Head(contents) = contents[1]
    BY ContentsAreNodes, HeadIsFirst
  <2> QED
    BY <2>1, <2>2 DEF Linked, Last
<1> QED
  BY <1>1, IInvAlways, PTL

(* Under one mutex no thread uses a pointer to a node that was freed: the    *)
(* walk of findElement, the tail insertElement writes behind, and the head   *)
(* popElement takes are alive for as long as they are used.                  *)
THEOREM PointersStayAlive == ASSUME OneMutex PROVE Spec => []PointersAlive
<1>1. IInv => PointersAlive
  <2> SUFFICES ASSUME IInv PROVE PointersAlive
    OBVIOUS
  <2>0. freed \subseteq Node /\ NULL \notin Node
    BY NodesAreNat DEF IInv, TypeOK
  <2>1. ASSUME NEW t \in Client, pc[t] = "find" PROVE node[t] \notin freed
    <3>1. node[t] = NULL \/ \E i \in 1..Len(contents) : node[t] = contents[i]
      BY <2>1 DEF IInv, ThreadRight, Thread
    <3> QED
      BY <3>1, <2>0, ContentsAreNodes
  <2>2. ASSUME NEW t \in Client, pc[t] = "insert link" PROVE tail \notin freed \cup {NULL}
    <3>1. Linked(contents) /\ contents # << >>
      BY <2>2 DEF IInv, ThreadRight, InsertionRight, Thread
    <3> QED
      BY <3>1, <2>0, ContentsAreNodes DEF Linked
  <2>3. ASSUME pc[Cleaner] \in {"pop last", "pop first"} PROVE node[Cleaner] \notin freed
    <3>1. node[Cleaner] = contents[1] /\ contents # << >>
      BY <2>3 DEF IInv, ThreadRight, PopRight, Popping, Thread
    <3> QED
      BY <3>1, ContentsAreNodes
  <2> QED
    BY <2>1, <2>2, <2>3 DEF PointersAlive
<1> QED
  BY <1>1, IInvAlways, PTL

(* Under one mutex popElement takes out the element that was inserted first  *)
(* of all the list holds.                                                   *)
THEOREM OldestIsPopped == ASSUME OneMutex PROVE Spec => PopsOldest
<1>1. IInv /\ [Next]_vars =>
        [pc[Cleaner] = "pop end" /\ pc'[Cleaner] = "unlock"
           => contents # << >> /\ node[Cleaner] = Head(contents)]_vars
  <2> SUFFICES ASSUME IInv, pc[Cleaner] = "pop end"
               PROVE  contents # << >> /\ node[Cleaner] = Head(contents)
    OBVIOUS
  <2>1. contents # << >> /\ node[Cleaner] = contents[1]
    BY DEF IInv, ThreadRight, PopRight, Popping, Thread
  <2>2. Head(contents) = contents[1]
    <3>1. contents \in Seq(Node)
      BY ContentsAreNodes
    <3> QED
      BY <2>1, <3>1, HeadIsFirst
  <2> QED
    BY <2>1, <2>2
<1> QED
  BY <1>1, IInvAlways, PTL DEF Spec, PopsOldest

-----------------------------------------------------------------------------
(* Only the last line of an insertion or a pop changes the queue.            *)
LEMMA OtherStepsLeaveQueue ==
  ASSUME [Next]_vars
  PROVE  \/ UNCHANGED <<contents, freed>>
         \/ \E t \in Client : EndInsert(t)
         \/ EndPop
<1>1. CASE \E t \in Client : ClientStep(t)
  BY <1>1 DEF ClientStep, BeginInsert, SetHead, LinkTail, SetTail, BeginFind, FindNext, listVars
<1>2. CASE CleanerStep
  BY <1>2 DEF CleanerStep, BeginPop, ClearHead, ClearTail, AdvanceHead, listVars
<1>3. CASE \E t \in Thread : ReadSize(t) \/ Release(t)
  BY <1>3 DEF ReadSize, Release, listVars
<1>4. CASE UNCHANGED vars
  BY <1>4 DEF vars, listVars
<1> QED
  BY <1>1, <1>2, <1>3, <1>4 DEF Next

(* The node at its end of an insertion is in the queue for the first time.   *)
LEMMA EndInsertInserts ==
  ASSUME IInv, NEW t \in Client, EndInsert(t)
  PROVE  Queue!Insert(node[t]) /\ node[t] \in Node
<1>1. /\ pc[t] = "insert end" /\ t \in Thread
      /\ contents' = Append(contents, node[t]) /\ UNCHANGED freed
  BY DEF EndInsert, Thread
<1>2. /\ node[t] = used /\ node[t] \in Node /\ node[t] \notin freed
      /\ \A i \in 1..Len(contents) : contents[i] < used
  BY <1>1 DEF IInv, ThreadRight, InsertionRight, Inserting
<1>3. \A i \in 1..Len(contents) : contents[i] # node[t]
  BY <1>2, ContentsAreNodes, UsedIsNat DEF IInv
<1> QED
  BY <1>1, <1>2, <1>3 DEF Queue!Insert

(* The node that is freed is the first, and it is what leaves the queue.     *)
LEMMA EndPopRemoves ==
  ASSUME IInv, EndPop
  PROVE  Queue!Remove
<1>1. /\ pc[Cleaner] = "pop end" /\ Cleaner \in Thread
      /\ contents' = RemoveFirst(contents, node[Cleaner])
      /\ freed' = freed \cup {node[Cleaner]}
  BY DEF EndPop, Thread
<1>2. contents # << >> /\ node[Cleaner] = contents[1] /\ contents \in Seq(Node)
  BY <1>1, ContentsAreNodes DEF IInv, ThreadRight, PopRight, Popping
<1>3. contents' = Tail(contents) /\ Head(contents) = node[Cleaner]
  BY <1>1, <1>2, RemoveFirstIsTail, HeadIsFirst
<1> QED
  BY <1>1, <1>2, <1>3 DEF Queue!Remove

(* Under one mutex all the lines that touch a pointer or the size are two    *)
(* atomic steps to the users of the list: insertElement puts a new element   *)
(* at the end, popElement takes the oldest one and only then gives its node  *)
(* back.                                                                    *)
THEOREM ListIsQueue == ASSUME OneMutex PROVE Spec => ImplementsQueue
<1>1. Init => Queue!Init
  BY DEF Init, Queue!Init
<1>2. IInv /\ [Next]_vars => [Queue!Next]_(Queue!vars)
  <2> SUFFICES ASSUME IInv, [Next]_vars PROVE [Queue!Next]_(Queue!vars)
    OBVIOUS
  <2>1. CASE UNCHANGED <<contents, freed>>
    BY <2>1 DEF Queue!vars
  <2>2. CASE \E t \in Client : EndInsert(t)
    BY <2>2, EndInsertInserts DEF Queue!Next
  <2>3. CASE EndPop
    BY <2>3, EndPopRemoves DEF Queue!Next
  <2> QED
    BY <2>1, <2>2, <2>3, OtherStepsLeaveQueue
<1> QED
  BY <1>1, <1>2, IInvAlways, PTL DEF Spec, ImplementsQueue, Queue!Spec
=============================================================================
