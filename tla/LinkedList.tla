----------------------------- MODULE LinkedList -----------------------------
(***************************************************************************)
(* The linked list of NAT/LinkedList.c, line by line, as the NAT's threads  *)
(* use it: client threads insert elements and search them, the cleaner pops *)
(* the head.  A client locks the list's mutex around each operation; the    *)
(* cleaner locks the mutex in its CleanerData, which main filled by copying *)
(* the list's mutex.                                                        *)
(***************************************************************************)
EXTENDS Naturals, Sequences, SequencesExt

CONSTANTS
  Client,        \* threads that insert and search
  Cleaner,       \* the thread that pops
  CleanerLock,   \* the mutex the cleaner locks: "list" or "copy"
  MaxInserts     \* bound on the elements inserted

ASSUME CleanerIsNotClient == Cleaner \notin Client
ASSUME NobodyIsNoThread == "nobody" \notin Client \cup {Cleaner}
ASSUME CleanerLockIsALock == CleanerLock \in {"list", "copy"}
ASSUME MaxInsertsIsNat == MaxInserts \in Nat

VARIABLES
  head, tail, size,   \* the LinkedList
  next,               \* the next field of every node
  freed,              \* the nodes given back to free
  holder,             \* who holds which mutex
  pc,                 \* the line each thread is about to execute
  node,               \* node[t]: the local pointer of t's operation
  sizeRead,           \* sizeRead[t]: the size t read to update it
  used,               \* nodes allocated so far
  contents            \* history: elements by completed insertion, less the popped

listVars == <<head, tail, size, next, freed>>
vars == <<listVars, holder, pc, node, sizeRead, used, contents>>
-----------------------------------------------------------------------------
Thread == Client \cup {Cleaner}
NULL == 0
Node == 1..MaxInserts
Nobody == "nobody"

(* mappingListLock is one mutex, the listLock of CleanerData another one     *)
(* unless the cleaner were given the address of the first.                  *)
LockOfCopied(t) == IF t = Cleaner THEN "copy" ELSE "list"
LockOf(t) == IF t = Cleaner THEN CleanerLock ELSE "list"

Goto(t, line) == pc' = [pc EXCEPT ![t] = line]

Acquire(t) ==
  /\ pc[t] = "idle"
  /\ holder[LockOf(t)] = Nobody
  /\ holder' = [holder EXCEPT ![LockOf(t)] = t]

(* pthread_mutex_unlock                                                      *)
Release(t) ==
  /\ pc[t] = "unlock"
  /\ holder' = [holder EXCEPT ![LockOf(t)] = Nobody]
  /\ node' = [node EXCEPT ![t] = NULL]
  /\ sizeRead' = [sizeRead EXCEPT ![t] = 0]
  /\ Goto(t, "idle")
  /\ UNCHANGED <<listVars, used, contents>>

(* size is updated by a read and a write.                                    *)
ReadSize(t) ==
  /\ pc[t] \in {"insert size", "pop size"}
  /\ sizeRead' = [sizeRead EXCEPT ![t] = size]
  /\ Goto(t, IF pc[t] = "insert size" THEN "insert end" ELSE "pop end")
  /\ UNCHANGED <<listVars, holder, node, used, contents>>
-----------------------------------------------------------------------------
(* insertElement: a new node, whose next is NULL, and the test of tail       *)
BeginInsert(t) ==
  /\ used < MaxInserts
  /\ Acquire(t)
  /\ used' = used + 1
  /\ node' = [node EXCEPT ![t] = used']
  /\ Goto(t, IF tail = NULL THEN "insert head" ELSE "insert link")
  /\ UNCHANGED <<listVars, sizeRead, contents>>

SetHead(t) ==
  /\ pc[t] = "insert head"
  /\ head' = node[t]
  /\ Goto(t, "insert tail")
  /\ UNCHANGED <<tail, size, next, freed, holder, node, sizeRead, used, contents>>

(* list->tail->next = node                                                   *)
LinkTail(t) ==
  /\ pc[t] = "insert link"
  /\ tail # NULL
  /\ next' = [next EXCEPT ![tail] = node[t]]
  /\ Goto(t, "insert tail")
  /\ UNCHANGED <<head, tail, size, freed, holder, node, sizeRead, used, contents>>

SetTail(t) ==
  /\ pc[t] = "insert tail"
  /\ tail' = node[t]
  /\ Goto(t, "insert size")
  /\ UNCHANGED <<head, size, next, freed, holder, node, sizeRead, used, contents>>

EndInsertCountsTwice(t) ==
  /\ pc[t] = "insert end"
  /\ size' = sizeRead[t] + 2
  /\ contents' = Append(contents, node[t])
  /\ Goto(t, "unlock")
  /\ UNCHANGED <<head, tail, next, freed, holder, node, sizeRead, used>>
EndInsert(t) ==
  /\ pc[t] = "insert end"
  /\ size' = sizeRead[t] + 1
  /\ contents' = Append(contents, node[t])
  /\ Goto(t, "unlock")
  /\ UNCHANGED <<head, tail, next, freed, holder, node, sizeRead, used>>
-----------------------------------------------------------------------------
(* popElement, which the cleaner calls when it saw a head that is due        *)
BeginPop ==
  /\ head # NULL
  /\ Acquire(Cleaner)
  /\ node' = [node EXCEPT ![Cleaner] = head]
  /\ Goto(Cleaner, IF size = 0 THEN "unlock"
                   ELSE IF size = 1 THEN "pop last" ELSE "pop first")
  /\ UNCHANGED <<listVars, sizeRead, used, contents>>

ClearHead ==
  /\ pc[Cleaner] = "pop last"
  /\ head' = NULL
  /\ Goto(Cleaner, "pop tail")
  /\ UNCHANGED <<tail, size, next, freed, holder, node, sizeRead, used, contents>>

ClearTailForgotten ==
  /\ pc[Cleaner] = "pop tail"
  /\ Goto(Cleaner, "pop size")
  /\ UNCHANGED <<listVars, holder, node, sizeRead, used, contents>>
ClearTail ==
  /\ pc[Cleaner] = "pop tail"
  /\ tail' = NULL
  /\ Goto(Cleaner, "pop size")
  /\ UNCHANGED <<head, size, next, freed, holder, node, sizeRead, used, contents>>

AdvanceHeadToTail ==
  /\ pc[Cleaner] = "pop first"
  /\ head' = tail
  /\ Goto(Cleaner, "pop size")
  /\ UNCHANGED <<tail, size, next, freed, holder, node, sizeRead, used, contents>>
AdvanceHead ==
  /\ pc[Cleaner] = "pop first"
  /\ head' = next[node[Cleaner]]
  /\ Goto(Cleaner, "pop size")
  /\ UNCHANGED <<tail, size, next, freed, holder, node, sizeRead, used, contents>>

(* size is written back, the element is taken out of the node, the node freed *)
EndPop ==
  /\ pc[Cleaner] = "pop end"
  /\ size' = sizeRead[Cleaner] - 1
  /\ freed' = freed \cup {node[Cleaner]}
  /\ contents' = RemoveFirst(contents, node[Cleaner])
  /\ Goto(Cleaner, "unlock")
  /\ UNCHANGED <<head, tail, next, holder, node, sizeRead, used>>
-----------------------------------------------------------------------------
(* findElement: the walk from head to the first match, or to the end         *)
BeginFind(t) ==
  /\ Acquire(t)
  /\ node' = [node EXCEPT ![t] = head]
  /\ Goto(t, "find")
  /\ UNCHANGED <<listVars, sizeRead, used, contents>>

FindNext(t) ==
  /\ pc[t] = "find"
  /\ \/ /\ node[t] # NULL
        /\ node' = [node EXCEPT ![t] = next[node[t]]]
        /\ UNCHANGED pc
     \/ /\ Goto(t, "unlock")          \* a match, or the end of the list
        /\ UNCHANGED node
  /\ UNCHANGED <<listVars, holder, sizeRead, used, contents>>
-----------------------------------------------------------------------------
(* createList                                                                *)
Init ==
  /\ head = NULL
  /\ tail = NULL
  /\ size = 0
  /\ next = [n \in Node |-> NULL]
  /\ freed = {}
  /\ holder = [l \in {"list", "copy"} |-> Nobody]
  /\ pc = [t \in Thread |-> "idle"]
  /\ node = [t \in Thread |-> NULL]
  /\ sizeRead = [t \in Thread |-> 0]
  /\ used = 0
  /\ contents = << >>

ClientStep(t) ==
  \/ BeginInsert(t)
  \/ SetHead(t)
  \/ LinkTail(t)
  \/ SetTail(t)
  \/ EndInsert(t)
  \/ BeginFind(t)
  \/ FindNext(t)

CleanerStep == BeginPop \/ ClearHead \/ ClearTail \/ AdvanceHead \/ EndPop

Next ==
  \/ \E t \in Client : ClientStep(t)
  \/ CleanerStep
  \/ \E t \in Thread : ReadSize(t) \/ Release(t)

Spec == Init /\ [][Next]_vars
-----------------------------------------------------------------------------
TypeOK ==
  /\ head \in Node \cup {NULL}
  /\ tail \in Node \cup {NULL}
  /\ size \in 0..MaxInserts
  /\ next \in [Node -> Node \cup {NULL}]
  /\ freed \subseteq Node
  /\ holder \in [{"list", "copy"} -> Thread \cup {Nobody}]
  /\ pc \in [Thread -> {"idle", "insert head", "insert link", "insert tail",
                        "insert size", "insert end", "pop last", "pop tail",
                        "pop first", "pop size", "pop end", "find", "unlock"}]
  /\ node \in [Thread -> Node \cup {NULL}]
  /\ sizeRead \in [Thread -> 0..MaxInserts]
  /\ used \in 0..MaxInserts

(* The nodes that hang together as s, from first to last.                    *)
Chained(s) == \A i \in 1..(Len(s)-1) : next[s[i]] = s[i+1]

(* Whenever nobody is inside an operation, the list is the elements inserted *)
(* and not popped, in the order of their insertion: none is lost, none comes *)
(* twice, the tail is the last one and the size counts them.                *)
Intact ==
  (\A t \in Thread : pc[t] \in {"idle", "unlock", "find"}) =>
    /\ size = Len(contents)
    /\ IF contents = << >> THEN head = NULL /\ tail = NULL
       ELSE /\ head = Head(contents)
            /\ tail = Last(contents)
            /\ next[tail] = NULL
            /\ Chained(contents)

(* "Lock the list and insert the mapping into the list" (NATServer.c:592):   *)
(* the same, with the mutexes the threads of the NAT really lock.           *)
InsertedUnderLock == Intact

(* No thread follows a pointer to a node that was freed: a search, an        *)
(* insertion behind the tail and a pop all stay on nodes that are alive.     *)
PointersAlive ==
  /\ \A t \in Client : pc[t] = "find" => node[t] \notin freed
  /\ \A t \in Client : pc[t] = "insert link" => tail \notin freed \cup {NULL}
  /\ pc[Cleaner] \in {"pop last", "pop first"} => node[Cleaner] \notin freed

(* The list is first in, first out: what is popped is the oldest element.    *)
PopsOldest == [][pc[Cleaner] = "pop end" /\ pc'[Cleaner] = "unlock"
                   => contents # << >> /\ node[Cleaner] = Head(contents)]_vars

(* The elements enter the queue when insertElement is through and leave it   *)
(* when popElement is: whatever the threads' lines between, every step is    *)
(* one of an atomic queue or none.                                          *)
Queue == INSTANCE ElementQueue WITH Element <- Node, items <- contents, removed <- freed
ImplementsQueue == Queue!Spec
=============================================================================
