---------------------------- MODULE ResolverProofs ----------------------------
(***************************************************************************)
(* Proofs about Resolver, for every number of threads, hosts and attempts   *)
(* and every time to live: the removals leave wrong prev pointers behind,   *)
(* and still no good answer is lost, asked for twice, used after it is      *)
(* freed or left behind.                                                    *)
(***************************************************************************)
EXTENDS Resolver, FiniteSetTheorems, TLAPS

(* Following for any next pointers n.                                        *)
Closed(n, S) == \A x \in S \ {NULL} : n[x] \in S

Chain(n, first) ==
  {e \in Entry : \A S \in SUBSET (Entry \cup {NULL}) : first \in S /\ Closed(n, S) => e \in S}

Pointers == [Entry -> Entry \cup {NULL}]

Descending(n) == \A e \in Entry : n[e] < e

LEMMA FollowingIsChain ==
  ASSUME NEW first
  PROVE  Following(first) = Chain(next, first)
BY DEF Following, Chain, Closed

LEMMA EntriesAreNat ==
  /\ \A e \in Entry \cup {NULL} : e \in Nat
  /\ \A e \in Entry : e \in Nat /\ e > 0 /\ e <= MaxCalls
  /\ NULL = 0 /\ NULL \notin Entry /\ MaxCalls \in Nat
BY BoundsAreNat DEF Entry, NULL

LEMMA ChainStart ==
  ASSUME NEW n, NEW c \in Entry
  PROVE  c \in Chain(n, c)
BY DEF Chain

LEMMA ChainEmpty ==
  ASSUME NEW n
  PROVE  Chain(n, NULL) = {}
<1>1. {NULL} \in SUBSET (Entry \cup {NULL}) /\ Closed(n, {NULL})
  BY DEF Closed
<1>2. ASSUME NEW e \in Chain(n, NULL) PROVE FALSE
  <2>1. e \in {NULL} /\ e \in Entry
    BY <1>1, <1>2 DEF Chain
  <2> QED BY <2>1, EntriesAreNat
<1> QED BY <1>2

(* Past the first entry, the rest of the chain.                              *)
LEMMA ChainNext ==
  ASSUME NEW n, NEW c \in Entry, NEW e \in Chain(n, c), e # c
  PROVE  e \in Chain(n, n[c])
<1>1. SUFFICES ASSUME NEW S \in SUBSET (Entry \cup {NULL}), n[c] \in S, Closed(n, S)
               PROVE  e \in S
  BY DEF Chain
<1>2. S \cup {c} \in SUBSET (Entry \cup {NULL}) /\ Closed(n, S \cup {c})
  BY <1>1 DEF Closed
<1>3. e \in S \cup {c}
  BY <1>2 DEF Chain
<1> QED BY <1>3

LEMMA ChainBack ==
  ASSUME NEW n, NEW c \in Entry, NEW e \in Chain(n, n[c])
  PROVE  e \in Chain(n, c)
<1>1. SUFFICES ASSUME NEW S \in SUBSET (Entry \cup {NULL}), c \in S, Closed(n, S)
               PROVE  e \in S
  BY DEF Chain
<1>2. n[c] \in S
  BY <1>1, EntriesAreNat DEF Closed
<1> QED BY <1>1, <1>2 DEF Chain

LEMMA ChainGoesOn ==
  ASSUME NEW n, NEW first, NEW c \in Chain(n, first), n[c] \in Entry
  PROVE  n[c] \in Chain(n, first)
<1>1. SUFFICES ASSUME NEW S \in SUBSET (Entry \cup {NULL}), first \in S, Closed(n, S)
               PROVE  n[c] \in S
  BY DEF Chain
<1>2. c \in S /\ c # NULL
  BY <1>1, EntriesAreNat DEF Chain
<1> QED BY <1>1, <1>2 DEF Closed

(* Pointers lead to older entries only.                                      *)
LEMMA ChainDescends ==
  ASSUME NEW n \in Pointers, Descending(n), NEW c \in Entry \cup {NULL}, NEW e \in Chain(n, c)
  PROVE  e <= c
<1> DEFINE S == {x \in Entry \cup {NULL} : x <= c}
<1>1. c \in Nat /\ NULL = 0
  BY EntriesAreNat
<1>2. c \in S
  BY <1>1
<1>3. Closed(n, S)
  <2>1. ASSUME NEW x \in S, x # NULL PROVE n[x] \in S
    <3>1. x \in Entry /\ x \in Nat /\ x <= c /\ n[x] \in Entry \cup {NULL} /\ n[x] < x
      BY <2>1, EntriesAreNat DEF Pointers, Descending
    <3>2. n[x] \in Nat
      BY <3>1, EntriesAreNat
    <3> QED BY <1>1, <3>1, <3>2
  <2> QED BY <2>1 DEF Closed
<1>4. e \in S
  BY <1>2, <1>3 DEF Chain
<1> QED BY <1>4

(* A pointer of an entry that is younger than the first is none of the       *)
(* chain's.                                                                  *)
LEMMA ChainBelow ==
  ASSUME NEW n \in Pointers, NEW m \in Pointers, Descending(n), NEW c \in Entry \cup {NULL},
         \A x \in Entry : x <= c => m[x] = n[x]
  PROVE  Chain(n, c) \subseteq Chain(m, c)
<1>1. SUFFICES ASSUME NEW e \in Chain(n, c), NEW S \in SUBSET (Entry \cup {NULL}),
                      c \in S, Closed(m, S)
               PROVE  e \in S
  BY DEF Chain
<1> DEFINE T == {x \in S : x <= c}
<1>2. c \in Nat /\ c \in T /\ T \in SUBSET (Entry \cup {NULL})
  BY <1>1, EntriesAreNat
<1>3. Closed(n, T)
  <2>1. ASSUME NEW x \in T, x # NULL PROVE n[x] \in T
    <3>1. x \in Entry /\ x \in Nat /\ x <= c /\ n[x] \in Entry \cup {NULL} /\ n[x] < x
      BY <1>1, <2>1, EntriesAreNat DEF Pointers, Descending
    <3>2. n[x] \in Nat
      BY <3>1, EntriesAreNat
    <3>3. n[x] = m[x] /\ m[x] \in S
      BY <1>1, <2>1, <3>1 DEF Closed
    <3>4. n[x] <= c
      BY <1>2, <3>1, <3>2
    <3> QED BY <3>3, <3>4
  <2> QED BY <2>1 DEF Closed
<1>4. e \in T
  BY <1>1, <1>2, <1>3 DEF Chain
<1> QED BY <1>4

(* Taking back a pointer adds nothing to a chain.                            *)
LEMMA ChainShrinks ==
  ASSUME NEW n \in Pointers, NEW m \in Pointers, NEW c,
         \A x \in Entry : m[x] = n[x] \/ m[x] = NULL
  PROVE  Chain(m, c) \subseteq Chain(n, c)
<1>1. SUFFICES ASSUME NEW e \in Chain(m, c), NEW S \in SUBSET (Entry \cup {NULL}),
                      c \in S, Closed(n, S)
               PROVE  e \in S
  BY DEF Chain
<1>2. S \cup {NULL} \in SUBSET (Entry \cup {NULL}) /\ Closed(m, S \cup {NULL})
  BY <1>1 DEF Closed
<1>3. e \in S \cup {NULL} /\ e \in Entry
  BY <1>1, <1>2 DEF Chain
<1> QED BY <1>3, EntriesAreNat

(* Taking back the pointer to the last entry loses that entry only.          *)
LEMMA ChainLosesLast ==
  ASSUME NEW n \in Pointers, NEW m \in Pointers, NEW p, NEW last \in Entry, NEW c,
         n[last] = NULL, n[p] = last,
         \A x \in Entry : m[x] = n[x] \/ x = p
  PROVE  \A e \in Chain(n, c) : e = last \/ e \in Chain(m, c)
<1>1. SUFFICES ASSUME NEW e \in Chain(n, c), NEW S \in SUBSET (Entry \cup {NULL}),
                      c \in S, Closed(m, S)
               PROVE  e = last \/ e \in S
  BY DEF Chain
<1>2. S \cup {last, NULL} \in SUBSET (Entry \cup {NULL})
  OBVIOUS
<1>3. Closed(n, S \cup {last, NULL})
  <2>1. ASSUME NEW x \in S \cup {last, NULL}, x # NULL PROVE n[x] \in S \cup {last, NULL}
    <3>1. CASE x = last \/ x = p
      BY <3>1
    <3>2. CASE x # last /\ x # p
      BY <1>1, <2>1, <3>2 DEF Closed
    <3> QED BY <3>1, <3>2
  <2> QED BY <2>1 DEF Closed
<1>4. e \in S \cup {last, NULL} /\ e \in Entry
  BY <1>1, <1>2, <1>3 DEF Chain
<1> QED BY <1>4, EntriesAreNat
-----------------------------------------------------------------------------
(* A thread is inside the lock from its search to the end of its query, and  *)
(* run_trial once there are no threads left.                                 *)
LockHeld ==
  /\ \A t \in Thread : pc[t] \in {"search", "query"} <=> rwlock = t
  /\ mainAt = "join" <=> rwlock # Main
  /\ mainAt # "join" => \A t \in Thread : pc[t] = "done"
  /\ \A t \in Thread : pc[t] \in {"idle", "lock", "done"} => cursor[t] = NULL

(* Every entry, and every thread that may still make one, is an attempt.     *)
Asking == {"lock", "search", "query"}
Pending == {t \in Thread : pc[t] \in Asking}

TypeInv ==
  /\ TypeOK
  /\ LockHeld
  /\ used + Cardinality(Pending) <= calls

LEMMA Holders == Nobody \notin Thread /\ Main \notin Thread /\ Nobody # Main
BY ThreadIsFinite DEF Nobody, Main

LEMMA PendingTypes == IsFiniteSet(Pending) /\ Cardinality(Pending) \in Nat
<1>1. Pending \in SUBSET Thread
  BY DEF Pending
<1>2. IsFiniteSet(Pending)
  BY <1>1, ThreadIsFinite, FS_Subset
<1> QED BY <1>2, FS_CardinalityType

(* What moving a thread does to the number of those who may make an entry.   *)
LEMMA PendingMoves ==
  ASSUME TypeOK, NEW t \in Thread, NEW where, Goto(t, where)
  PROVE  Cardinality(Pending') =
           Cardinality(Pending)
           + (IF where \in Asking /\ pc[t] \notin Asking THEN 1 ELSE 0)
           - (IF where \notin Asking /\ pc[t] \in Asking THEN 1 ELSE 0)
<1>1. IsFiniteSet(Pending) /\ Cardinality(Pending) \in Nat
  BY PendingTypes
<1>2. /\ pc'[t] = where /\ \A u \in Thread \ {t} : pc'[u] = pc[u]
      /\ t \in Pending <=> pc[t] \in Asking
  BY DEF TypeOK, Goto, Pending
<1>3. CASE where \in Asking /\ pc[t] \notin Asking
  <2>1. Pending' = Pending \cup {t}
    BY <1>2, <1>3 DEF Pending
  <2>2. Cardinality(Pending \cup {t}) = Cardinality(Pending) + 1
    BY <1>1, <1>2, <1>3, FS_AddElement
  <2> QED BY <1>1, <1>3, <2>1, <2>2
<1>4. CASE where \notin Asking /\ pc[t] \in Asking
  <2>1. Pending' = Pending \ {t}
    BY <1>2, <1>4 DEF Pending
  <2>2. Cardinality(Pending \ {t}) = Cardinality(Pending) - 1
    BY <1>1, <1>2, <1>4, FS_RemoveElement
  <2> QED BY <1>1, <1>4, <2>1, <2>2
<1>5. CASE where \in Asking <=> pc[t] \in Asking
  <2>1. Pending' = Pending
    BY <1>2, <1>5 DEF Pending
  <2> QED BY <1>1, <1>5, <2>1
<1> QED BY <1>3, <1>4, <1>5

LEMMA InitTypes == Init => TypeInv
<1> SUFFICES ASSUME Init PROVE TypeInv
  OBVIOUS
<1>1. TypeOK
  BY BoundsAreNat DEF Init, TypeOK, NoEntry
<1>2. LockHeld
  BY Holders DEF Init, LockHeld
<1>3. Cardinality(Pending) = 0
  <2>1. Pending = {}
    BY DEF Init, Pending, Asking
  <2> QED BY <2>1, FS_EmptySet
<1> QED BY <1>1, <1>2, <1>3 DEF Init, TypeInv

(* The next, prev and head of a removal.                                     *)
LEMMA RemovalTypes ==
  ASSUME TypeOK, NEW e \in Entry, RemoveEntry(e)
  PROVE  next' \in Pointers /\ prev' \in Pointers /\ head' \in Entry \cup {NULL}
<1>1. /\ next \in Pointers /\ prev \in Pointers /\ head \in Entry \cup {NULL}
      /\ next[e] \in Entry \cup {NULL} /\ prev[e] \in Entry \cup {NULL}
  BY DEF TypeOK, Pointers
<1> QED BY <1>1 DEF RemoveEntry, Pointers

LEMMA ThreadStepTypes ==
  ASSUME TypeInv, NEW t \in Thread, ThreadStep(t)
  PROVE  TypeInv'
<1> USE DEF listVars, mainVars
<1>1. /\ TypeOK /\ LockHeld /\ used \in Nat /\ calls \in Nat /\ MaxCalls \in Nat
      /\ used + Cardinality(Pending) <= calls
      /\ Cardinality(Pending) \in Nat /\ calls <= MaxCalls
  BY BoundsAreNat, PendingTypes DEF TypeInv, TypeOK
<1>2. ASSUME NEW h \in Host, Resolve(t, h) PROVE TypeInv'
  <2>1. calls' = calls + 1 /\ calls' \in 0..MaxCalls /\ used' = used
    BY <1>1, <1>2 DEF Resolve
  <2>2. TypeOK'
    BY <1>1, <1>2, <2>1 DEF Resolve, TypeOK, Goto
  <2>3. LockHeld'
    BY <1>1, <1>2 DEF Resolve, Goto, LockHeld, TypeOK
  <2>4. Cardinality(Pending') = Cardinality(Pending) + 1
    BY <1>1, <1>2, PendingMoves DEF Resolve, Asking
  <2> QED BY <1>1, <2>1, <2>2, <2>3, <2>4 DEF TypeInv
<1>3. CASE Lock(t)
  <2>1. TypeOK'
    BY <1>1, <1>3 DEF Lock, TypeOK, Goto
  <2>2. LockHeld'
    BY <1>1, <1>3, Holders DEF Lock, Goto, LockHeld, TypeOK
  <2>3. Cardinality(Pending') = Cardinality(Pending)
    BY <1>1, <1>3, PendingMoves DEF Lock, Asking
  <2> QED BY <1>1, <1>3, <2>1, <2>2, <2>3 DEF TypeInv, Lock
<1>4. CASE DropExpired(t)
  <2>1. /\ cursor[t] \in Entry /\ pc[t] = "search"
        /\ UNCHANGED <<now, calls, table, used, rwlock, pc, hostname, timestamp, mainVars>>
    BY <1>1, <1>4 DEF DropExpired, TypeOK
  <2>2. next' \in Pointers /\ prev' \in Pointers /\ head' \in Entry \cup {NULL}
    BY <1>1, <1>4, <2>1, RemovalTypes DEF DropExpired
  <2>3. next'[cursor[t]] \in Entry \cup {NULL} /\ cursor' = [cursor EXCEPT ![t] = next'[cursor[t]]]
    BY <1>4, <2>1, <2>2 DEF Pointers, DropExpired
  <2>4. TypeOK'
    BY <1>1, <2>1, <2>2, <2>3 DEF TypeOK, Pointers
  <2>5. LockHeld'
    BY <1>1, <2>1, <2>3 DEF LockHeld, TypeOK
  <2> QED BY <1>1, <2>1, <2>4, <2>5 DEF TypeInv, Pending
<1>5. CASE PassEntry(t)
  <2>1. TypeOK'
    BY <1>1, <1>5 DEF PassEntry, TypeOK
  <2>2. LockHeld'
    BY <1>1, <1>5 DEF PassEntry, LockHeld, TypeOK
  <2> QED BY <1>1, <1>5, <2>1, <2>2 DEF TypeInv, PassEntry, Pending
<1>6. CASE AnswerFromCache(t) \/ QueryFails(t)
  <2>1. TypeOK'
    BY <1>1, <1>6, BoundsAreNat DEF AnswerFromCache, QueryFails, Unlock, Return, TypeOK, Goto
  <2>2. LockHeld'
    BY <1>1, <1>6, Holders
       DEF AnswerFromCache, QueryFails, Unlock, Return, Goto, LockHeld, TypeOK
  <2>3. Cardinality(Pending') = Cardinality(Pending) - 1
    BY <1>1, <1>6, PendingMoves DEF AnswerFromCache, QueryFails, Unlock, Return, Asking
  <2> QED BY <1>1, <1>6, <2>1, <2>2, <2>3 DEF TypeInv, AnswerFromCache, QueryFails
<1>7. CASE SendQuery(t)
  <2>1. TypeOK'
    BY <1>1, <1>7 DEF SendQuery, TypeOK, Goto
  <2>2. LockHeld'
    BY <1>1, <1>7 DEF SendQuery, Goto, LockHeld, TypeOK
  <2>3. Cardinality(Pending') = Cardinality(Pending)
    BY <1>1, <1>7, PendingMoves DEF SendQuery, Asking
  <2> QED BY <1>1, <1>7, <2>1, <2>2, <2>3 DEF TypeInv, SendQuery
<1>8. ASSUME NEW ttl \in TTLs, CacheAnswer(t, ttl) PROVE TypeInv'
  <2>1. pc[t] = "query" /\ used' = used + 1 /\ calls' = calls
    BY <1>8 DEF CacheAnswer
  <2>2. Cardinality(Pending') = Cardinality(Pending) - 1
    BY <1>1, <1>8, PendingMoves DEF CacheAnswer, Asking
  <2>3. Cardinality(Pending') \in Nat
    <3>1. Pending' \in SUBSET Thread
      BY DEF Pending
    <3>2. IsFiniteSet(Pending')
      BY <3>1, ThreadIsFinite, FS_Subset
    <3> QED BY <3>2, FS_CardinalityType
  <2>4. used' \in Entry /\ used' \in 0..MaxCalls
    BY <1>1, <2>1, <2>2, <2>3 DEF Entry
  <2>5. table' \in [Entry -> [name: Host \cup {NoHost}, ttl: TTLs \cup {0}, timestamp: 0..MaxTime]]
    <3>1. hostname[t] \in Host \cup {NoHost} /\ timestamp[t] \in 0..MaxTime
      BY <1>1 DEF TypeOK
    <3>2. [name |-> hostname[t], ttl |-> ttl, timestamp |-> timestamp[t]]
            \in [name: Host \cup {NoHost}, ttl: TTLs \cup {0}, timestamp: 0..MaxTime]
      BY <3>1
    <3> QED BY <1>1, <1>8, <3>2 DEF CacheAnswer, TypeOK
  <2>6. next' \in Pointers /\ prev' \in Pointers /\ head' \in Entry \cup {NULL}
    BY <1>1, <1>8, <2>4 DEF CacheAnswer, TypeOK, Pointers
  <2>7. TypeOK'
    BY <1>1, <1>8, <2>4, <2>5, <2>6 DEF CacheAnswer, TypeOK, Goto, Pointers
  <2>8. LockHeld'
    BY <1>1, <1>8, Holders DEF CacheAnswer, Goto, LockHeld, TypeOK
  <2> QED BY <1>1, <2>1, <2>2, <2>7, <2>8 DEF TypeInv
<1>9. CASE ReadAnswer(t)
  <2>1. TypeOK'
    BY <1>1, <1>9, BoundsAreNat DEF ReadAnswer, Return, TypeOK, Goto
  <2>2. LockHeld'
    BY <1>1, <1>9 DEF ReadAnswer, Return, Goto, LockHeld, TypeOK
  <2>3. Cardinality(Pending') = Cardinality(Pending)
    BY <1>1, <1>9, PendingMoves DEF ReadAnswer, Return, Asking
  <2> QED BY <1>1, <1>9, <2>1, <2>2, <2>3 DEF TypeInv, ReadAnswer
<1>10. CASE Exit(t)
  <2>1. TypeOK'
    BY <1>1, <1>10 DEF Exit, TypeOK, Goto
  <2>2. LockHeld'
    BY <1>1, <1>10 DEF Exit, Goto, LockHeld, TypeOK
  <2>3. Cardinality(Pending') = Cardinality(Pending)
    BY <1>1, <1>10, PendingMoves DEF Exit, Asking
  <2> QED BY <1>1, <1>10, <2>1, <2>2, <2>3 DEF TypeInv, Exit
<1> QED BY <1>2, <1>3, <1>4, <1>5, <1>6, <1>7, <1>8, <1>9, <1>10 DEF ThreadStep

LEMMA OtherStepTypes ==
  ASSUME TypeInv, MainStep \/ Tick
  PROVE  TypeInv'
<1> USE DEF listVars, mainVars
<1>1. TypeOK /\ LockHeld
  BY DEF TypeInv
<1>2. CASE BeginCleanup
  <2>1. TypeOK' /\ LockHeld'
    BY <1>1, <1>2, Holders DEF BeginCleanup, TypeOK, LockHeld
  <2> QED BY <1>2, <2>1 DEF TypeInv, BeginCleanup, Pending
<1>3. CASE FreeEntry
  <2>1. doomed \in Entry /\ next[doomed] \in Entry \cup {NULL}
    BY <1>1, <1>3 DEF FreeEntry, TypeOK
  <2>2. TypeOK' /\ LockHeld'
    BY <1>1, <1>3, <2>1 DEF FreeEntry, TypeOK, LockHeld
  <2> QED BY <1>3, <2>2 DEF TypeInv, FreeEntry, Pending
<1>4. CASE EndCleanup
  <2>1. TypeOK' /\ LockHeld'
    BY <1>1, <1>4 DEF EndCleanup, TypeOK, LockHeld
  <2> QED BY <1>4, <2>1 DEF TypeInv, EndCleanup, Pending
<1>5. CASE Tick
  <2>1. now' \in 0..MaxTime
    BY <1>1, <1>5, BoundsAreNat DEF Tick, TypeOK
  <2>2. TypeOK' /\ LockHeld'
    BY <1>1, <1>5, <2>1 DEF Tick, TypeOK, LockHeld
  <2> QED BY <1>5, <2>2 DEF TypeInv, Tick, Pending
<1> QED BY <1>2, <1>3, <1>4, <1>5 DEF MainStep

LEMMA Typed == Spec => []TypeInv
<1>1. ASSUME TypeInv, [Next]_vars PROVE TypeInv'
  <2>1. CASE UNCHANGED vars
    BY <1>1, <2>1 DEF vars, listVars, mainVars, TypeInv, TypeOK, LockHeld, Pending
  <2> QED BY <1>1, <2>1, ThreadStepTypes, OtherStepTypes DEF Next
<1> QED BY <1>1, InitTypes, PTL DEF Spec

(* Every variable keeps its type: no more entries are made than there are    *)
(* attempts, and only who holds the lock searches or asks.                   *)
THEOREM TypeCorrect == Spec => []TypeOK
<1>1. TypeInv => TypeOK
  BY DEF TypeInv
<1> QED BY <1>1, Typed, PTL
-----------------------------------------------------------------------------
(* The pointers: next leads to an older entry; a prev that is wrong leads to *)
(* an entry whose next has been taken back or that is the own next.          *)
PointersRight ==
  /\ Descending(next)
  /\ \A e \in Entry : e > used => next[e] = NULL
  /\ head <= used
  /\ mainAt = "join" =>
       /\ \A e \in Entry : /\ prev[e] <= used
                           /\ prev[e] = NULL \/ prev[e] = next[e] \/ next[prev[e]] \in {e, NULL}
       /\ \A e \in Following(head) : prev[e] = NULL => e = head

(* A search has the answers that it wants still before it, and the query     *)
(* goes out only when there is none.                                         *)
SearchesRight ==
  /\ \A t \in Thread : timestamp[t] <= now
  /\ \A t \in Thread : pc[t] = "search" =>
       /\ cursor[t] = NULL \/ cursor[t] \in Following(head)
       /\ \A e \in Entry : Fresh(e) /\ table[e].name = hostname[t] => e \in Following(cursor[t])
  /\ \A t \in Thread : pc[t] = "query" =>
       \A e \in Entry : Fresh(e) => table[e].name # hostname[t]

(* What dns_cleanup has freed lies behind it, what is good before it.        *)
CleanupRight ==
  /\ mainAt = "join" => freed = {} /\ doomed = NULL
  /\ \A e \in freed : e > doomed
  /\ mainAt # "join" => \A e \in Entry : Fresh(e) => e \in freed \/ e \in Following(doomed)
  /\ mainAt = "end" => doomed = NULL

AnswerInv ==
  /\ PointersRight
  /\ SearchesRight
  /\ CleanupRight
  /\ NoFreshAnswerLost
  /\ OneFreshAnswer

(* The numbers of a state.                                                   *)
LEMMA StateNumbers ==
  ASSUME TypeOK
  PROVE  /\ next \in Pointers /\ prev \in Pointers
         /\ head \in Entry \cup {NULL} /\ doomed \in Entry \cup {NULL}
         /\ head \in Nat /\ doomed \in Nat /\ used \in Nat /\ used <= MaxCalls
         /\ now \in Nat /\ freed \subseteq Entry
         /\ \A t \in Thread : timestamp[t] \in Nat /\ cursor[t] \in Entry \cup {NULL}
         /\ \A e \in Entry : /\ table[e].timestamp \in Nat /\ table[e].ttl \in Nat
                             /\ next[e] \in Nat /\ prev[e] \in Nat
<1>1. \A t \in Thread : timestamp[t] \in Nat /\ cursor[t] \in Entry \cup {NULL}
  BY DEF TypeOK
<1>2. /\ next \in Pointers /\ prev \in Pointers
      /\ head \in Entry \cup {NULL} /\ doomed \in Entry \cup {NULL}
      /\ used \in Nat /\ used <= MaxCalls /\ now \in Nat /\ freed \subseteq Entry
  BY BoundsAreNat DEF TypeOK, Pointers
<1>3. \A e \in Entry : next[e] \in Nat /\ prev[e] \in Nat
  BY <1>2, EntriesAreNat DEF Pointers
<1>4. \A e \in Entry : table[e].timestamp \in Nat /\ table[e].ttl \in Nat
  <2>1. ASSUME NEW e \in Entry PROVE table[e].timestamp \in Nat /\ table[e].ttl \in TTLs \cup {0}
    BY DEF TypeOK
  <2> QED BY <2>1, TTLsAreNat
<1>5. head \in Nat /\ doomed \in Nat
  BY <1>2, EntriesAreNat
<1> QED BY <1>1, <1>2, <1>3, <1>4, <1>5

(* What a search finds expired is not good any more.                         *)
LEMMA ExpiredIsNotFresh ==
  ASSUME TypeOK, NEW e \in Entry, NEW time \in Nat, time <= now, Expired(e, time)
  PROVE  ~Fresh(e)
BY StateNumbers DEF Expired, Fresh

(* A removal keeps the list right; only the entry itself may drop out, and   *)
(* the search goes on where it should.                                       *)
LEMMA RemovalStep ==
  ASSUME TypeInv, PointersRight, mainAt = "join", UNCHANGED <<used, mainAt>>,
         NEW c \in Entry, c \in Following(head), RemoveEntry(c)
  PROVE  /\ PointersRight'
         /\ \A e \in Following(head) : e = c \/ e \in Following(head)'
         /\ next'[c] = NULL \/ next'[c] \in Following(head)'
         /\ \A e \in Following(c) : e = c \/ e \in Chain(next', next'[c])
<1> DEFINE n == next[c]
           p == prev[c]
<1>1. /\ next \in Pointers /\ prev \in Pointers /\ head \in Entry \cup {NULL}
      /\ \A e \in Entry : next[e] \in Nat /\ prev[e] \in Nat
      /\ n \in Entry \cup {NULL} /\ p \in Entry \cup {NULL}
      /\ used \in Nat /\ head \in Nat
  BY StateNumbers DEF TypeInv, Pointers
<1>2. /\ Following(head) = Chain(next, head) /\ Following(head)' = Chain(next', head')
      /\ Following(c) = Chain(next, c)
  BY DEF Following, Chain, Closed
<1>3. /\ Descending(next) /\ head <= used /\ n < c
      /\ \A e \in Entry : e > used => next[e] = NULL
      /\ \A e \in Entry : /\ prev[e] <= used
                          /\ prev[e] = NULL \/ prev[e] = next[e] \/ next[prev[e]] \in {e, NULL}
      /\ \A e \in Chain(next, head) : prev[e] = NULL => e = head
  BY <1>2 DEF PointersRight, Descending
<1>4. c <= head /\ c \in Nat /\ n <= used
  <2>1. c <= head
    BY <1>1, <1>2, <1>3, ChainDescends
  <2>2. c \in Nat
    BY EntriesAreNat
  <2> QED BY <1>1, <1>3, <2>1, <2>2
<1>5. \A e \in Chain(next, c) : e = c \/ e \in Chain(next, n)
  BY ChainNext
<1>6. CASE n # NULL /\ p # NULL
  <2>1. prev' = [prev EXCEPT ![c] = n] /\ next' = next /\ head' = head
    BY <1>6 DEF RemoveEntry
  <2>2. n \in Chain(next, head)
    BY <1>1, <1>2, <1>6, ChainGoesOn
  <2>3. \A e \in Entry : prev'[e] = IF e = c THEN n ELSE prev[e]
    BY <1>1, <2>1 DEF Pointers
  <2>4. \A e \in Entry :
          /\ prev'[e] <= used
          /\ prev'[e] = NULL \/ prev'[e] = next[e] \/ next[prev'[e]] \in {e, NULL}
    <3> SUFFICES ASSUME NEW e \in Entry
                 PROVE  /\ prev'[e] <= used
                        /\ prev'[e] = NULL \/ prev'[e] = next[e] \/ next[prev'[e]] \in {e, NULL}
      OBVIOUS
    <3>1. CASE e = c
      BY <1>4, <2>3, <3>1
    <3>2. CASE e # c
      BY <1>3, <2>3, <3>2
    <3> QED BY <3>1, <3>2
  <2>5. \A e \in Chain(next, head) : prev'[e] = NULL => e = head
    BY <1>3, <1>6, <2>3 DEF Chain
  <2>6. PointersRight'
    BY <1>2, <1>3, <2>1, <2>4, <2>5 DEF PointersRight
  <2> QED BY <1>2, <1>5, <2>1, <2>2, <2>6
<1>7. CASE n = NULL /\ p # NULL
  <2>1. next' = [next EXCEPT ![p] = NULL] /\ prev' = prev /\ head' = head /\ p \in Entry
    BY <1>1, <1>7 DEF RemoveEntry
  <2>2. next[p] \in {c, NULL}
    BY <1>3, <1>7
  <2>3. /\ next' \in Pointers
        /\ \A e \in Entry : next'[e] = IF e = p THEN NULL ELSE next[e]
    BY <1>1, <2>1 DEF Pointers
  <2>4. Descending(next')
    BY <1>3, <2>3, EntriesAreNat DEF Descending
  <2>5. next'[c] = NULL
    BY <1>7, <2>3
  <2>6. \A e \in Entry :
          prev[e] = NULL \/ prev[e] = next'[e] \/ next'[prev[e]] \in {e, NULL}
    <3> SUFFICES ASSUME NEW e \in Entry, prev[e] # NULL
                 PROVE  prev[e] = next'[e] \/ next'[prev[e]] \in {e, NULL}
      OBVIOUS
    <3>1. prev[e] \in Entry
      BY <1>1 DEF Pointers
    <3>2. CASE prev[e] = next[e]
      <4>1. CASE e # p
        BY <2>3, <3>2, <4>1
      <4>2. CASE e = p
        BY <2>2, <2>5, <3>2, <4>2
      <4> QED BY <4>1, <4>2
    <3>3. CASE next[prev[e]] \in {e, NULL}
      BY <2>3, <3>1, <3>3
    <3> QED BY <1>3, <3>2, <3>3
  <2>7. Chain(next', head) \subseteq Chain(next, head)
    BY <1>1, <2>3, ChainShrinks
  <2>8. \A e \in Entry : e > used => next'[e] = NULL
    BY <1>3, <2>3
  <2>9. PointersRight'
    <3>1. \A e \in Following(head)' : prev'[e] = NULL => e = head'
      BY <1>2, <1>3, <2>1, <2>7
    <3>2. \A e \in Entry :
            /\ prev'[e] <= used'
            /\ prev'[e] = NULL \/ prev'[e] = next'[e] \/ next'[prev'[e]] \in {e, NULL}
      BY <1>3, <2>1, <2>6
    <3>3. head' <= used' /\ \A e \in Entry : e > used' => next'[e] = NULL
      BY <1>3, <2>1, <2>8
    <3> QED BY <2>4, <3>1, <3>2, <3>3 DEF PointersRight
  <2>10. \A e \in Chain(next, head) : e = c \/ e \in Chain(next', head)
    <3>1. CASE next[p] = NULL
      <4>1. next' = next
        BY <1>1, <2>1, <3>1 DEF Pointers
      <4> QED BY <4>1
    <3>2. CASE next[p] = c
      BY <1>1, <1>7, <2>3, <3>2, ChainLosesLast
    <3> QED BY <2>2, <3>1, <3>2
  <2>11. \A e \in Chain(next, c) : e = c
    BY <1>5, <1>7, ChainEmpty
  <2> QED BY <1>2, <2>1, <2>5, <2>9, <2>10, <2>11
<1>8. CASE p = NULL
  <2>1. next' = next /\ prev' = prev /\ head' = n
    BY <1>8 DEF RemoveEntry
  <2>2. c = head
    BY <1>2, <1>3, <1>8
  <2>3. ASSUME NEW e \in Chain(next, n), prev[e] = NULL PROVE FALSE
    <3>1. e = head
      BY <1>3, <2>2, <2>3, ChainBack
    <3>2. e <= n
      BY <1>1, <1>3, ChainDescends
    <3> QED BY <1>1, <1>3, <1>4, <2>2, <3>1, <3>2
  <2>4. PointersRight'
    BY <1>2, <1>3, <1>4, <2>1, <2>3 DEF PointersRight
  <2>5. n = NULL \/ n \in Chain(next, n)
    BY <1>1, ChainStart
  <2> QED BY <1>2, <1>5, <2>1, <2>2, <2>4, <2>5
<1> QED BY <1>6, <1>7, <1>8

(* Steps that leave the list alone only let answers expire.                  *)
LEMMA QuietStep ==
  ASSUME TypeInv, AnswerInv, UNCHANGED <<listVars, mainVars>>, now' = now \/ now' = now + 1
  PROVE  /\ PointersRight' /\ CleanupRight' /\ NoFreshAnswerLost' /\ OneFreshAnswer'
         /\ \A e \in Entry : Fresh(e)' => Fresh(e)
         /\ \A x : Following(x)' = Following(x)
<1>1. /\ UNCHANGED <<head, next, prev, table, used, mainAt, doomed, freed>>
      /\ now \in Nat /\ now' \in Nat /\ now' >= now
  BY StateNumbers DEF listVars, mainVars, TypeInv
<1>2. \A x : Following(x)' = Following(x)
  BY <1>1 DEF Following
<1>3. \A e \in Entry : Fresh(e)' => Fresh(e)
  BY <1>1, StateNumbers DEF Fresh, Expired, TypeInv
<1>4. PointersRight' /\ CleanupRight'
  BY <1>1, <1>2, <1>3 DEF AnswerInv, PointersRight, CleanupRight
<1>5. NoFreshAnswerLost' /\ OneFreshAnswer'
  BY <1>1, <1>2, <1>3 DEF AnswerInv, NoFreshAnswerLost, OneFreshAnswer
<1> QED BY <1>2, <1>3, <1>4, <1>5

(* The steps of a thread that change no list: what its new place demands is  *)
(* all that is left to show.                                                 *)
LEMMA QuietThreadStep ==
  ASSUME TypeInv, AnswerInv, UNCHANGED <<listVars, mainVars, now>>, NEW t \in Thread,
         \A u \in Thread \ {t} :
           /\ pc'[u] = pc[u] /\ cursor'[u] = cursor[u]
           /\ hostname'[u] = hostname[u] /\ timestamp'[u] = timestamp[u],
         timestamp'[t] <= now,
         pc'[t] = "search" =>
           /\ cursor'[t] = NULL \/ cursor'[t] \in Following(head)
           /\ \A e \in Entry : Fresh(e) /\ table[e].name = hostname'[t]
                              => e \in Following(cursor'[t]),
         pc'[t] = "query" =>
           \A e \in Entry : Fresh(e) => table[e].name # hostname'[t]
  PROVE  AnswerInv'
<1>1. /\ PointersRight' /\ CleanupRight' /\ NoFreshAnswerLost' /\ OneFreshAnswer'
      /\ \A e \in Entry : Fresh(e)' => Fresh(e)
      /\ \A x : Following(x)' = Following(x)
  BY QuietStep
<1>2. UNCHANGED <<head, table, now>>
  BY DEF listVars
<1>3. \A u \in Thread : timestamp'[u] <= now'
  BY <1>2 DEF AnswerInv, SearchesRight
<1>4. ASSUME NEW u \in Thread, pc'[u] = "search"
      PROVE  /\ cursor'[u] = NULL \/ cursor'[u] \in Following(head)'
             /\ \A e \in Entry : Fresh(e)' /\ table'[e].name = hostname'[u]
                                => e \in Following(cursor'[u])
  BY <1>1, <1>2, <1>4 DEF AnswerInv, SearchesRight
<1>5. ASSUME NEW u \in Thread, pc'[u] = "query"
      PROVE  \A e \in Entry : Fresh(e)' => table'[e].name # hostname'[u]
  BY <1>1, <1>2, <1>5 DEF AnswerInv, SearchesRight
<1>6. SearchesRight'
  BY <1>1, <1>3, <1>4, <1>5 DEF SearchesRight
<1> QED BY <1>1, <1>6 DEF AnswerInv

(* A new head: the old list follows it.                                      *)
LEMMA InsertionStep ==
  ASSUME TypeInv, AnswerInv, NEW t \in Thread, NEW ttl \in TTLs, CacheAnswer(t, ttl), used' \in Entry
  PROVE  /\ PointersRight' /\ mainAt = "join"
         /\ used' \in Following(head)'
         /\ \A e \in Following(head) : e \in Following(head)' /\ e # used'
<1> USE DEF listVars, mainVars
<1> DEFINE u == used'
<1>1. /\ next \in Pointers /\ prev \in Pointers /\ head \in Entry \cup {NULL}
      /\ \A e \in Entry : next[e] \in Nat /\ prev[e] \in Nat
      /\ used \in Nat /\ head \in Nat
  BY StateNumbers DEF TypeInv
<1>2. /\ u = used + 1 /\ head' = u /\ mainAt' = mainAt
      /\ next' = [next EXCEPT ![u] = head]
      /\ prev' = [e \in Entry |-> IF e = u THEN NULL ELSE IF e = head THEN u ELSE prev[e]]
  BY DEF CacheAnswer
<1>3. mainAt = "join"
  BY DEF TypeInv, LockHeld, CacheAnswer
<1>4. /\ Following(head) = Chain(next, head) /\ Following(head)' = Chain(next', head')
  BY DEF Following, Chain, Closed
<1>5. /\ Descending(next) /\ head <= used
      /\ \A e \in Entry : e > used => next[e] = NULL
      /\ \A e \in Entry : prev[e] <= used
      /\ \A e \in Entry : prev[e] = NULL \/ prev[e] = next[e] \/ next[prev[e]] \in {e, NULL}
      /\ \A e \in Chain(next, head) : prev[e] = NULL => e = head
  BY <1>3, <1>4 DEF AnswerInv, PointersRight
<1>6. u \in Entry /\ u \in Nat /\ head < u /\ used < u /\ head # u
  BY <1>1, <1>2, <1>5
<1> HIDE DEF u
<1>7. next' \in Pointers /\ \A e \in Entry : next'[e] = IF e = u THEN head ELSE next[e]
  BY <1>1, <1>2, <1>6 DEF Pointers
<1>8. \A e \in Entry : e <= head => e # u /\ next'[e] = next[e]
  BY <1>1, <1>6, <1>7
<1>9. Descending(next')
  BY <1>5, <1>6, <1>7 DEF Descending
<1>10. Chain(next, head) \subseteq Chain(next', head)
  BY <1>1, <1>5, <1>7, <1>8, ChainBelow
<1>11. Chain(next', head) \subseteq Chain(next, head)
  BY <1>1, <1>7, <1>8, <1>9, ChainBelow
<1>12. u \in Chain(next', u)
  BY <1>6, ChainStart
<1>13. ASSUME NEW e \in Chain(next, head) PROVE e \in Chain(next', u) /\ e # u
  <2>1. next'[u] = head /\ e \in Chain(next', head)
    BY <1>6, <1>7, <1>10
  <2>2. e \in Chain(next', u)
    BY <1>6, <2>1, ChainBack
  <2>3. e <= head /\ e \in Nat
    BY <1>1, <1>5, ChainDescends, EntriesAreNat DEF Chain
  <2> QED BY <1>1, <1>6, <2>2, <2>3
<1>14. ASSUME NEW e \in Entry, prev'[e] # NULL
       PROVE  prev'[e] = next'[e] \/ next'[prev'[e]] \in {e, NULL}
  <2>1. e # u
    BY <1>2, <1>14
  <2>2. CASE e = head
    BY <1>2, <1>6, <1>7, <2>1, <2>2
  <2>3. CASE e # head
    <3>1. prev'[e] = prev[e] /\ prev[e] \in Entry /\ prev[e] # u
      <4>1. prev'[e] = prev[e]
        BY <1>2, <2>1, <2>3
      <4>2. prev[e] \in Entry /\ prev[e] \in Nat /\ prev[e] <= used
        BY <1>1, <1>5, <1>14, <4>1 DEF Pointers
      <4>3. prev[e] # u
        BY <1>1, <1>6, <4>2
      <4> QED BY <4>1, <4>2, <4>3
    <3>2. next'[e] = next[e] /\ next'[prev[e]] = next[prev[e]]
      BY <1>7, <2>1, <3>1
    <3> QED BY <1>5, <1>14, <3>1, <3>2
  <2> QED BY <2>2, <2>3
<1>15. ASSUME NEW e \in Chain(next', u), prev'[e] = NULL PROVE e = u
  <2>1. SUFFICES ASSUME e # u PROVE FALSE
    OBVIOUS
  <2>2. e \in Chain(next', next'[u])
    BY <1>6, <2>1, ChainNext
  <2>3. e \in Chain(next, head)
    BY <1>6, <1>7, <1>11, <2>2
  <2>4. e \in Entry /\ (prev'[e] = IF e = head THEN u ELSE prev[e])
    BY <1>2, <2>1, <2>3 DEF Chain
  <2> QED BY <1>5, <1>6, <1>15, <2>3, <2>4, EntriesAreNat
<1>16. \A e \in Entry : prev'[e] <= u
  <2> SUFFICES ASSUME NEW e \in Entry PROVE prev'[e] <= u
    OBVIOUS
  <2>1. prev'[e] \in {NULL, u, prev[e]}
    BY <1>2
  <2>2. prev[e] \in Nat /\ prev[e] <= used
    BY <1>1, <1>5
  <2> QED BY <1>1, <1>6, <2>1, <2>2, EntriesAreNat
<1>17. \A e \in Entry : e > u => next'[e] = NULL
  BY <1>1, <1>5, <1>6, <1>7, EntriesAreNat
<1>18. PointersRight'
  <2>1. head' <= used' /\ \A e \in Entry : e > used' => next'[e] = NULL
    BY <1>2, <1>6, <1>17 DEF u
  <2>2. \A e \in Entry :
          /\ prev'[e] <= used'
          /\ prev'[e] = NULL \/ prev'[e] = next'[e] \/ next'[prev'[e]] \in {e, NULL}
    BY <1>14, <1>16 DEF u
  <2>3. \A e \in Following(head)' : prev'[e] = NULL => e = head'
    BY <1>2, <1>4, <1>15
  <2> QED BY <1>9, <2>1, <2>2, <2>3 DEF PointersRight
<1> QED BY <1>2, <1>3, <1>4, <1>12, <1>13, <1>18 DEF u

LEMMA ThreadStepAnswers ==
  ASSUME TypeInv, TypeInv', AnswerInv, NEW t \in Thread, ThreadStep(t)
  PROVE  AnswerInv'
<1> USE DEF listVars, mainVars
<1>1. /\ TypeOK /\ LockHeld /\ TypeOK' /\ LockHeld'
      /\ \A u \in Thread : timestamp[u] \in Nat /\ timestamp[u] <= now
      /\ now \in Nat /\ 0 <= now
  BY StateNumbers DEF TypeInv, AnswerInv, SearchesRight
<1>2. ASSUME NEW h \in Host, Resolve(t, h) PROVE AnswerInv'
  <2>1. /\ UNCHANGED <<listVars, mainVars, now>> /\ pc'[t] = "lock" /\ timestamp'[t] = now
        /\ \A u \in Thread \ {t} :
             /\ pc'[u] = pc[u] /\ cursor'[u] = cursor[u]
             /\ hostname'[u] = hostname[u] /\ timestamp'[u] = timestamp[u]
    BY <1>1, <1>2 DEF Resolve, Goto, TypeOK
  <2> QED BY <1>1, <2>1, QuietThreadStep
<1>3. CASE Lock(t)
  <2>1. /\ UNCHANGED <<listVars, mainVars, now>> /\ pc'[t] = "search" /\ cursor'[t] = head
        /\ timestamp'[t] = timestamp[t] /\ mainAt = "join"
        /\ \A u \in Thread \ {t} :
             /\ pc'[u] = pc[u] /\ cursor'[u] = cursor[u]
             /\ hostname'[u] = hostname[u] /\ timestamp'[u] = timestamp[u]
    BY <1>1, <1>3 DEF Lock, Goto, TypeOK, LockHeld
  <2>2. head = NULL \/ head \in Following(head)
    BY <1>1, ChainStart, FollowingIsChain DEF TypeOK
  <2>3. \A e \in Entry : Fresh(e) => e \in Following(head)
    BY <2>1 DEF AnswerInv, NoFreshAnswerLost
  <2> QED BY <1>1, <2>1, <2>2, <2>3, QuietThreadStep
<1>4. CASE DropExpired(t)
  <2> DEFINE c == cursor[t]
  <2>1. /\ c \in Entry /\ pc[t] = "search" /\ mainAt = "join" /\ RemoveEntry(c)
        /\ UNCHANGED <<now, table, used, pc, hostname, timestamp, mainAt, doomed, freed>>
        /\ cursor'[t] = next'[c]
        /\ \A u \in Thread \ {t} : cursor'[u] = cursor[u] /\ pc[u] \notin {"search", "query"}
    BY <1>1, <1>4 DEF DropExpired, TypeOK, LockHeld
  <2>2. c \in Following(head)
    BY <2>1, EntriesAreNat DEF AnswerInv, SearchesRight
  <2>3. /\ PointersRight'
        /\ \A e \in Following(head) : e = c \/ e \in Following(head)'
        /\ next'[c] = NULL \/ next'[c] \in Following(head)'
        /\ \A e \in Following(c) : e = c \/ e \in Chain(next', next'[c])
    BY <2>1, <2>2, RemovalStep DEF AnswerInv
  <2>4. ~Fresh(c) /\ \A e \in Entry : Fresh(e)' <=> Fresh(e)
    <3>1. ~Fresh(c)
      BY <1>1, <1>4, <2>1, ExpiredIsNotFresh DEF DropExpired
    <3> QED BY <2>1, <3>1 DEF Fresh, Expired
  <2>5. NoFreshAnswerLost' /\ OneFreshAnswer'
    BY <2>1, <2>3, <2>4 DEF AnswerInv, NoFreshAnswerLost, OneFreshAnswer
  <2>6. CleanupRight'
    BY <2>1 DEF AnswerInv, CleanupRight
  <2>7. \A e \in Entry : Fresh(e)' /\ table'[e].name = hostname'[t] => e \in Following(cursor[t])'
    <3>1. Following(cursor[t])' = Chain(next', next'[c])
      BY <2>1 DEF Following, Chain, Closed
    <3> QED BY <2>1, <2>3, <2>4, <3>1 DEF AnswerInv, SearchesRight
  <2>8. SearchesRight'
    <3>1. \A u \in Thread : timestamp'[u] <= now'
      BY <1>1, <2>1
    <3>2. \A u \in Thread : pc'[u] \in {"search", "query"} => u = t
      BY <2>1
    <3>3. cursor'[t] = NULL \/ cursor'[t] \in Following(head)'
      BY <2>1, <2>3
    <3> QED BY <2>1, <2>7, <3>1, <3>2, <3>3 DEF SearchesRight
  <2> QED BY <2>3, <2>5, <2>6, <2>8 DEF AnswerInv
<1>5. CASE PassEntry(t)
  <2> DEFINE c == cursor[t]
  <2>1. /\ UNCHANGED <<listVars, mainVars, now, pc, hostname, timestamp>>
        /\ pc[t] = "search" /\ c \in Entry /\ cursor'[t] = next[c] /\ table[c].name # hostname[t]
        /\ \A u \in Thread \ {t} : cursor'[u] = cursor[u]
    BY <1>1, <1>5 DEF PassEntry, TypeOK
  <2>2. /\ c \in Chain(next, head)
        /\ \A e \in Entry : Fresh(e) /\ table[e].name = hostname[t] => e \in Chain(next, c)
    BY <2>1, EntriesAreNat, FollowingIsChain DEF AnswerInv, SearchesRight
  <2>3. next[c] = NULL \/ next[c] \in Following(head)
    <3>1. next[c] \in Entry \cup {NULL}
      BY <1>1, <2>1 DEF TypeOK
    <3> QED BY <2>2, <3>1, ChainGoesOn, FollowingIsChain
  <2>4. \A e \in Entry : Fresh(e) /\ table[e].name = hostname[t] => e \in Following(next[c])
    BY <2>1, <2>2, ChainNext, FollowingIsChain
  <2> QED BY <1>1, <2>1, <2>3, <2>4, QuietThreadStep
<1>6. CASE AnswerFromCache(t) \/ QueryFails(t) \/ ReadAnswer(t)
  <2>1. /\ UNCHANGED <<listVars, mainVars, now>> /\ pc'[t] = "idle" /\ timestamp'[t] = 0
        /\ \A u \in Thread \ {t} :
             /\ pc'[u] = pc[u] /\ cursor'[u] = cursor[u]
             /\ hostname'[u] = hostname[u] /\ timestamp'[u] = timestamp[u]
    BY <1>1, <1>6 DEF AnswerFromCache, QueryFails, ReadAnswer, Unlock, Return, Goto, TypeOK
  <2> QED BY <1>1, <2>1, QuietThreadStep
<1>7. CASE SendQuery(t)
  <2>1. /\ UNCHANGED <<listVars, mainVars, now, cursor, hostname, timestamp>>
        /\ pc[t] = "search" /\ pc'[t] = "query" /\ cursor[t] = NULL
        /\ \A u \in Thread \ {t} : pc'[u] = pc[u]
    BY <1>1, <1>7 DEF SendQuery, Goto, TypeOK
  <2>2. \A e \in Entry : Fresh(e) => table[e].name # hostname[t]
    <3>1. Following(NULL) = {}
      BY ChainEmpty, FollowingIsChain
    <3> QED BY <2>1, <3>1 DEF AnswerInv, SearchesRight
  <2> QED BY <1>1, <2>1, <2>2, QuietThreadStep
<1>8. ASSUME NEW ttl \in TTLs, CacheAnswer(t, ttl) PROVE AnswerInv'
  <2>1. /\ used' = used + 1 /\ pc[t] = "query" /\ pc'[t] = "return"
        /\ UNCHANGED <<now, hostname, timestamp, mainAt, doomed, freed>>
        /\ \A u \in Thread \ {t} : pc'[u] = pc[u] /\ pc[u] \notin {"search", "query"}
        /\ table' = [table EXCEPT ![used'] =
                       [name |-> hostname[t], ttl |-> ttl, timestamp |-> timestamp[t]]]
    BY <1>1, <1>8 DEF CacheAnswer, Goto, TypeOK, LockHeld
  <2>2. used' \in Entry
    <3>1. used' \in Nat /\ used' <= MaxCalls /\ used' >= 1
      BY <1>1, <2>1, BoundsAreNat DEF TypeOK
    <3> QED BY <3>1 DEF Entry
  <2>3. /\ PointersRight' /\ mainAt = "join"
        /\ used' \in Following(head)'
        /\ \A e \in Following(head) : e \in Following(head)' /\ e # used'
    BY <1>8, <2>2, InsertionStep
  <2>4. \A e \in Entry : e # used' => (Fresh(e)' => Fresh(e)) /\ table'[e] = table[e]
    <3> SUFFICES ASSUME NEW e \in Entry, e # used'
                 PROVE  (Fresh(e)' => Fresh(e)) /\ table'[e] = table[e]
      OBVIOUS
    <3>1. table'[e] = table[e]
      BY <1>1, <2>1, <2>2 DEF TypeOK
    <3>2. e <= used' => e <= used
      BY <1>1, <2>1, EntriesAreNat, StateNumbers
    <3> QED BY <2>1, <3>1, <3>2 DEF Fresh, Expired
  <2>5. table'[used'].name = hostname[t]
    BY <1>1, <2>1, <2>2 DEF TypeOK
  <2>6. NoFreshAnswerLost'
    BY <2>3, <2>4 DEF AnswerInv, NoFreshAnswerLost
  <2>7. \A e \in Entry : Fresh(e) => table[e].name # hostname[t]
    BY <2>1 DEF AnswerInv, SearchesRight
  <2>8. OneFreshAnswer'
    <3> SUFFICES ASSUME NEW e \in Entry, NEW f \in Entry,
                        Fresh(e)', Fresh(f)', table'[e].name = table'[f].name
                 PROVE  e = f
      BY DEF OneFreshAnswer
    <3>1. CASE e # used' /\ f # used'
      BY <2>4, <3>1 DEF AnswerInv, OneFreshAnswer
    <3>2. CASE e = used' \/ f = used'
      BY <2>4, <2>5, <2>7, <3>2
    <3> QED BY <3>1, <3>2
  <2>9. CleanupRight'
    BY <2>1, <2>3 DEF AnswerInv, CleanupRight
  <2>10. SearchesRight'
    <3>1. \A u \in Thread : timestamp'[u] <= now'
      BY <1>1, <2>1
    <3>2. \A u \in Thread : pc'[u] \notin {"search", "query"}
      BY <2>1
    <3> QED BY <3>1, <3>2 DEF SearchesRight
  <2> QED BY <2>3, <2>6, <2>8, <2>9, <2>10 DEF AnswerInv
<1>9. CASE Exit(t)
  <2>1. /\ UNCHANGED <<listVars, mainVars, now, cursor, hostname, timestamp>> /\ pc'[t] = "done"
        /\ \A u \in Thread \ {t} : pc'[u] = pc[u]
    BY <1>1, <1>9 DEF Exit, Goto, TypeOK
  <2> QED BY <1>1, <2>1, QuietThreadStep
<1> QED BY <1>2, <1>3, <1>4, <1>5, <1>6, <1>7, <1>8, <1>9 DEF ThreadStep

LEMMA OtherStepAnswers ==
  ASSUME TypeInv, AnswerInv, MainStep \/ Tick
  PROVE  AnswerInv'
<1> USE DEF listVars, mainVars
<1>1. /\ TypeOK /\ LockHeld
      /\ next \in Pointers /\ doomed \in Entry \cup {NULL} /\ doomed \in Nat
      /\ head \in Nat /\ freed \subseteq Entry
      /\ Descending(next) /\ head <= used
      /\ \A e \in Entry : e > used => next[e] = NULL
  BY StateNumbers DEF TypeInv, AnswerInv, PointersRight
<1>2. CASE BeginCleanup
  <2>1. /\ UNCHANGED <<now, head, next, prev, table, used, pc, hostname, timestamp, cursor, freed>>
        /\ mainAt = "join" /\ mainAt' = "cleanup" /\ doomed' = head
        /\ \A t \in Thread : pc[t] = "done"
    BY <1>2 DEF BeginCleanup
  <2>2. \A e \in Entry : Fresh(e)' <=> Fresh(e)
    BY <2>1 DEF Fresh, Expired
  <2>3. Following(doomed)' = Following(head)
    BY <2>1 DEF Following
  <2>4. CleanupRight'
    BY <2>1, <2>2, <2>3 DEF AnswerInv, CleanupRight, NoFreshAnswerLost
  <2>5. PointersRight' /\ NoFreshAnswerLost'
    BY <1>1, <2>1 DEF PointersRight, Descending, NoFreshAnswerLost
  <2>6. SearchesRight' /\ OneFreshAnswer'
    BY <2>1, <2>2 DEF AnswerInv, SearchesRight, OneFreshAnswer
  <2> QED BY <2>4, <2>5, <2>6 DEF AnswerInv
<1>3. CASE FreeEntry
  <2> DEFINE d == doomed
             n == next[d]
  <2>1. /\ UNCHANGED <<now, head, table, used, pc, hostname, timestamp, cursor, mainAt>>
        /\ mainAt = "cleanup" /\ d # NULL /\ d \in Entry /\ doomed' = n
        /\ next' = [next EXCEPT ![d] = NULL] /\ freed' = freed \cup {d}
        /\ \A t \in Thread : pc[t] = "done"
    BY <1>1, <1>3 DEF FreeEntry, LockHeld
  <2>2. /\ n \in Entry \cup {NULL} /\ n < d /\ n \in Nat
        /\ next' \in Pointers /\ \A e \in Entry : next'[e] = IF e = d THEN NULL ELSE next[e]
    BY <1>1, <2>1, EntriesAreNat DEF Pointers, Descending
  <2>3. Descending(next')
    BY <1>1, <2>1, <2>2, EntriesAreNat DEF Descending
  <2>4. \A e \in Entry : Fresh(e)' <=> Fresh(e)
    BY <2>1 DEF Fresh, Expired
  <2>5. Chain(next, n) \subseteq Chain(next', n)
    <3>1. \A x \in Entry : x <= n => next'[x] = next[x]
      BY <1>1, <2>2, EntriesAreNat
    <3> QED BY <1>1, <2>2, <3>1, ChainBelow
  <2>6. ASSUME NEW e \in Entry, Fresh(e)
        PROVE  e \in freed' \/ e \in Following(doomed)'
    <3>1. e \in freed \/ e \in Chain(next, d)
      BY <2>1, <2>6, FollowingIsChain DEF AnswerInv, CleanupRight
    <3>2. CASE e \in freed \/ e = d
      BY <2>1, <3>2
    <3>3. CASE e \in Chain(next, d) /\ e # d
      <4>1. e \in Chain(next', n)
        BY <2>1, <2>5, <3>3, ChainNext
      <4>2. Following(doomed)' = Chain(next', n)
        BY <2>1 DEF Following, Chain, Closed
      <4> QED BY <4>1, <4>2
    <3> QED BY <3>1, <3>2, <3>3
  <2>7. \A e \in freed' : e > doomed'
    <3>1. ASSUME NEW e \in freed PROVE e > n
      <4>1. e > d /\ e \in Nat
        BY <1>1, <3>1, EntriesAreNat DEF AnswerInv, CleanupRight
      <4> QED BY <1>1, <2>2, <4>1
    <3> QED BY <1>1, <2>1, <2>2, <3>1
  <2>8. CleanupRight'
    BY <2>1, <2>4, <2>6, <2>7 DEF CleanupRight
  <2>9. PointersRight'
    <3>1. \A e \in Entry : e > used => next'[e] = NULL
      BY <1>1, <2>2
    <3> QED BY <1>1, <2>1, <2>3, <3>1 DEF PointersRight
  <2>10. SearchesRight' /\ OneFreshAnswer' /\ NoFreshAnswerLost'
    BY <2>1, <2>4 DEF AnswerInv, SearchesRight, OneFreshAnswer, NoFreshAnswerLost
  <2> QED BY <2>8, <2>9, <2>10 DEF AnswerInv
<1>4. CASE EndCleanup
  <2>1. /\ UNCHANGED <<now, head, next, prev, table, used, pc, hostname, timestamp, cursor,
                       doomed, freed>>
        /\ mainAt = "cleanup" /\ mainAt' = "end" /\ doomed = NULL
        /\ \A t \in Thread : pc[t] = "done"
    BY <1>1, <1>4 DEF EndCleanup, LockHeld
  <2>2. /\ \A e \in Entry : Fresh(e)' <=> Fresh(e)
        /\ Following(doomed)' = Following(doomed)
    BY <2>1 DEF Fresh, Expired, Following
  <2>3. CleanupRight'
    BY <2>1, <2>2 DEF AnswerInv, CleanupRight
  <2>4. PointersRight' /\ NoFreshAnswerLost'
    BY <1>1, <2>1 DEF PointersRight, Descending, NoFreshAnswerLost
  <2>5. SearchesRight' /\ OneFreshAnswer'
    BY <2>1, <2>2 DEF AnswerInv, SearchesRight, OneFreshAnswer
  <2> QED BY <2>3, <2>4, <2>5 DEF AnswerInv
<1>5. CASE Tick
  <2>1. /\ UNCHANGED <<listVars, mainVars>> /\ UNCHANGED <<pc, hostname, timestamp, cursor>>
        /\ now' = now + 1 /\ now \in Nat
    BY <1>1, <1>5, StateNumbers DEF Tick
  <2>2. /\ PointersRight' /\ CleanupRight' /\ NoFreshAnswerLost' /\ OneFreshAnswer'
        /\ \A e \in Entry : Fresh(e)' => Fresh(e)
        /\ \A x : Following(x)' = Following(x)
    BY <2>1, QuietStep
  <2>3. \A t \in Thread : timestamp'[t] <= now'
    BY <2>1, StateNumbers DEF TypeInv, AnswerInv, SearchesRight
  <2>4. SearchesRight'
    <3>1. UNCHANGED <<head, table, pc, hostname, cursor>>
      BY <2>1
    <3>2. /\ Following(head)' = Following(head)
          /\ \A t \in Thread : Following(cursor[t])' = Following(cursor[t])
      BY <2>1 DEF Following
    <3> QED BY <2>2, <2>3, <3>1, <3>2 DEF AnswerInv, SearchesRight
  <2> QED BY <2>2, <2>4 DEF AnswerInv
<1> QED BY <1>2, <1>3, <1>4, <1>5 DEF MainStep

LEMMA Answers == Spec => [](TypeInv /\ AnswerInv)
<1>1. Init => AnswerInv
  <2> SUFFICES ASSUME Init PROVE AnswerInv
    OBVIOUS
  <2>1. Following(head) = {}
    BY ChainEmpty, FollowingIsChain DEF Init
  <2>2. \A e \in Entry : ~Fresh(e)
    BY EntriesAreNat DEF Init, Fresh
  <2>3. PointersRight
    <3>1. Descending(next)
      BY EntriesAreNat DEF Init, Descending
    <3> QED BY <2>1, <3>1, EntriesAreNat DEF Init, PointersRight
  <2> QED BY <2>2, <2>3
          DEF Init, AnswerInv, SearchesRight, CleanupRight, NoFreshAnswerLost, OneFreshAnswer
<1>2. ASSUME TypeInv, TypeInv', AnswerInv, [Next]_vars PROVE AnswerInv'
  <2>1. CASE UNCHANGED vars
    <3>1. /\ PointersRight' /\ CleanupRight' /\ NoFreshAnswerLost' /\ OneFreshAnswer'
          /\ \A e \in Entry : Fresh(e)' => Fresh(e)
      BY <1>2, <2>1, QuietStep DEF vars
    <3>2. SearchesRight'
      BY <1>2, <2>1
         DEF vars, listVars, AnswerInv, SearchesRight, Fresh, Expired, Following
    <3> QED BY <3>1, <3>2 DEF AnswerInv
  <2> QED BY <1>2, <2>1, ThreadStepAnswers, OtherStepAnswers DEF Next
<1> QED BY <1>1, <1>2, Typed, PTL DEF Spec

(* Though the removals leave wrong prev pointers behind, and later removals  *)
(* follow them, no answer that is still good drops out of the list.          *)
THEOREM GoodAnswersStay == Spec => []NoFreshAnswerLost
<1>1. AnswerInv => NoFreshAnswerLost
  BY DEF AnswerInv
<1> QED BY <1>1, Answers, PTL

(* The threads that want one host while nobody has its answer ask once,      *)
(* however old their readings of the clock are when they get the lock.       *)
THEOREM AskedOnce == Spec => []OneFreshAnswer
<1>1. AnswerInv => OneFreshAnswer
  BY DEF AnswerInv
<1> QED BY <1>1, Answers, PTL

(* Nobody follows a pointer to an entry that dns_cleanup has freed.          *)
THEOREM FreedIsGone == Spec => []NothingFreedIsUsed
<1>1. TypeInv /\ AnswerInv => NothingFreedIsUsed
  <2> SUFFICES ASSUME TypeInv, AnswerInv PROVE NothingFreedIsUsed
    OBVIOUS
  <2>1. freed \subseteq Entry /\ doomed \in Nat
    BY StateNumbers DEF TypeInv
  <2>2. ASSUME NEW t \in Thread PROVE cursor[t] \notin freed
    <3>1. CASE mainAt = "join"
      BY <3>1 DEF AnswerInv, CleanupRight
    <3>2. CASE mainAt # "join"
      <4>1. cursor[t] = NULL
        BY <3>2 DEF TypeInv, LockHeld
      <4> QED BY <2>1, <4>1, EntriesAreNat
    <3> QED BY <3>1, <3>2
  <2>3. doomed \notin freed
    BY <2>1 DEF AnswerInv, CleanupRight
  <2> QED BY <2>2, <2>3 DEF NothingFreedIsUsed
<1> QED BY <1>1, Answers, PTL

(* In the end every entry has been given back but the expired ones that      *)
(* searches have dropped.                                                    *)
THEOREM GoodEntriesGivenBack == Spec => []EntriesGivenBack
<1>1. TypeInv /\ AnswerInv => EntriesGivenBack
  <2> SUFFICES ASSUME TypeInv, AnswerInv, mainAt = "end", NEW e \in 1..used
               PROVE  e \in freed \/ Expired(e, now)
    BY DEF EntriesGivenBack
  <2>1. e \in Entry /\ e <= used
    BY StateNumbers, EntriesAreNat DEF TypeInv, Entry
  <2>2. Following(doomed) = {}
    BY ChainEmpty, FollowingIsChain DEF AnswerInv, CleanupRight
  <2>3. Fresh(e) => e \in freed
    BY <2>1, <2>2 DEF AnswerInv, CleanupRight
  <2> QED BY <2>1, <2>3 DEF Fresh
<1> QED BY <1>1, Answers, PTL
-----------------------------------------------------------------------------
(* What TrialEnds rests on and needs no fairness for: the two loops go down  *)
(* the list, and while the trial is not over somebody has a step to take.    *)

(* A turn of a search leads to an older entry, also when it removes one, and *)
(* so does a turn of dns_cleanup.                                            *)
LoopsDescend ==
  [][/\ \A t \in Thread :
          pc[t] = "search" /\ cursor'[t] # cursor[t] => cursor'[t] < cursor[t]
     /\ mainAt = "cleanup" /\ doomed' # doomed => doomed' < doomed]_vars

(* A thread outside the wait for the lock, one that waits for a lock nobody  *)
(* holds, or run_trial after its joins.                                     *)
SomebodyCanMove ==
  \/ \E t \in Thread : \/ pc[t] \in {"idle", "search", "query", "return"}
                       \/ pc[t] = "lock" /\ rwlock = Nobody
  \/ mainAt = "join" /\ rwlock = Nobody /\ \A t \in Thread : pc[t] = "done"
  \/ mainAt = "cleanup"

LEMMA LoopStep ==
  ASSUME TypeInv, AnswerInv, AnswerInv', [Next]_vars
  PROVE  /\ \A t \in Thread :
              pc[t] = "search" /\ cursor'[t] # cursor[t] => cursor'[t] < cursor[t]
         /\ mainAt = "cleanup" /\ doomed' # doomed => doomed' < doomed
<1> USE DEF listVars, mainVars
<1>1. /\ TypeOK /\ next \in Pointers /\ Descending(next) /\ Descending(next')
      /\ doomed \in Entry \cup {NULL} /\ cursor \in [Thread -> Entry \cup {NULL}]
  BY StateNumbers DEF TypeInv, TypeOK, AnswerInv, PointersRight
<1>2. ASSUME NEW t \in Thread, pc[t] = "search", cursor'[t] # cursor[t]
      PROVE  cursor'[t] < cursor[t]
  <2>1. ASSUME NEW u \in Thread, ThreadStep(u), u # t PROVE FALSE
    <3>1. \/ cursor' = cursor
          \/ \E c : cursor' = [cursor EXCEPT ![u] = c]
      BY <2>1 DEF ThreadStep, Resolve, Lock, Exit, DropExpired, PassEntry, AnswerFromCache,
         SendQuery, QueryFails, CacheAnswer, ReadAnswer, Unlock, Return
    <3>2. cursor'[t] = cursor[t]
      BY <1>1, <2>1, <3>1
    <3> QED BY <1>2, <3>2
  <2>2. CASE DropExpired(t) \/ PassEntry(t)
    <3> DEFINE c == cursor[t]
    <3>1. c \in Entry /\ c \in Nat
      BY <1>1, <2>2, EntriesAreNat DEF DropExpired, PassEntry
    <3>2. CASE PassEntry(t)
      <4>1. cursor'[t] = next[c]
        BY <1>1, <3>2 DEF PassEntry
      <4> QED BY <1>1, <3>1, <4>1 DEF Descending
    <3>3. CASE DropExpired(t)
      <4>1. cursor'[t] = next'[c]
        BY <1>1, <3>3 DEF DropExpired
      <4> QED BY <1>1, <3>1, <4>1 DEF Descending
    <3> QED BY <2>2, <3>2, <3>3
  <2>3. CASE AnswerFromCache(t)
    <3>1. cursor'[t] = NULL /\ cursor[t] \in Entry
      BY <1>1, <2>3 DEF AnswerFromCache, Unlock, Return
    <3> QED BY <3>1, EntriesAreNat
  <2>4. CASE SendQuery(t) \/ Tick \/ MainStep \/ UNCHANGED vars
    BY <1>2, <2>4 DEF SendQuery, Tick, MainStep, BeginCleanup, FreeEntry, EndCleanup, vars
  <2>5. CASE ThreadStep(t)
    BY <1>2, <2>2, <2>3, <2>4, <2>5 DEF ThreadStep, Resolve, Lock, Exit, QueryFails,
       CacheAnswer, ReadAnswer
  <2> QED BY <2>1, <2>4, <2>5 DEF Next
<1>3. ASSUME mainAt = "cleanup", doomed' # doomed
      PROVE  doomed' < doomed
  <2>1. FreeEntry
    BY <1>3 DEF Next, MainStep, BeginCleanup, EndCleanup, Tick, vars, ThreadStep, Resolve, Lock,
       Exit, DropExpired, PassEntry, AnswerFromCache, SendQuery, QueryFails, CacheAnswer,
       ReadAnswer
  <2> QED BY <1>1, <2>1 DEF FreeEntry, Descending
<1> QED BY <1>2, <1>3

(* Every turn of the search (dnsutils.c:291) and of the clean-up (:260)      *)
(* follows a pointer to an older entry, whatever pointers removals have left *)
(* behind: neither loop can go round.                                       *)
THEOREM NoLoopGoesRound == Spec => LoopsDescend
<1>1. TypeInv /\ AnswerInv /\ (TypeInv /\ AnswerInv)' /\ [Next]_vars =>
        [/\ \A t \in Thread :
              pc[t] = "search" /\ cursor'[t] # cursor[t] => cursor'[t] < cursor[t]
         /\ mainAt = "cleanup" /\ doomed' # doomed => doomed' < doomed]_vars
  BY LoopStep
<1> QED BY <1>1, Answers, PTL DEF Spec, LoopsDescend

(* Every way out of resolve gives the lock back (dnsutils.c:306 and on): as  *)
(* long as the trial is not over, not everybody waits for it.                *)
THEOREM NobodyKeepsTheLock == Spec => [](mainAt = "end" \/ SomebodyCanMove)
<1>1. TypeInv => mainAt = "end" \/ SomebodyCanMove
  <2> SUFFICES ASSUME TypeInv, mainAt # "end", mainAt # "cleanup",
                      \A t \in Thread : pc[t] \in {"lock", "done"}
               PROVE  SomebodyCanMove
    BY DEF TypeInv, TypeOK, SomebodyCanMove
  <2>1. mainAt = "join" /\ rwlock # Main
    BY DEF TypeInv, TypeOK, LockHeld
  <2>2. \A t \in Thread : rwlock # t
    BY DEF TypeInv, LockHeld
  <2>3. rwlock = Nobody
    BY <2>1, <2>2 DEF TypeInv, TypeOK
  <2> QED BY <2>1, <2>3 DEF SomebodyCanMove
<1> QED BY <1>1, Typed, PTL
=============================================================================
