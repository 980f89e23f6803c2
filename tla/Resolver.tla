------------------------------ MODULE Resolver ------------------------------
(***************************************************************************)
(* The caching resolver of the test clients (client/dnsutils.c): threads    *)
(* that share a DNS_RESOLVER call resolve, which searches a list of cached  *)
(* answers under a lock, drops the expired ones it passes, and asks the DNS *)
(* server, with the lock still held, when it finds no answer.  The thread   *)
(* that made them (run_trial of client/trial1.c) waits for their end and    *)
(* frees the resolver (dns_cleanup).                                        *)
(***************************************************************************)
EXTENDS Naturals, FiniteSets

CONSTANTS
  Thread,        \* clients that share the resolver
  Host,          \* host names
  TTLs,          \* the times to live the server answers with
  MaxCalls,      \* the attempts the threads make together
  MaxTime        \* bound on the clock

ASSUME ThreadIsFinite == IsFiniteSet(Thread) /\ {"nobody", "main"} \cap Thread = {}
ASSUME TTLsAreNat == TTLs \subseteq Nat
ASSUME BoundsAreNat == MaxCalls \in Nat /\ MaxTime \in Nat

VARIABLES
  now,
  calls,              \* calls of resolve so far
  head, next, prev,   \* the list of DNS_TABLE_ENTRYs
  table,              \* table[e]: the name, ttl and timestamp of entry e
  used,               \* entries allocated so far
  rwlock,             \* who holds the lock
  pc,                 \* where each thread is
  hostname,           \* hostname[t]: what t resolves
  timestamp,          \* timestamp[t]: t's reading of the clock
  cursor,             \* cursor[t]: the loop's i, then the entry resolve returns
  mainAt,             \* where run_trial is: "join", "cleanup" or "end"
  doomed,             \* dns_cleanup's head
  freed               \* entries given back

listVars == <<head, next, prev, table, used>>
mainVars == <<mainAt, doomed, freed>>
vars == <<now, calls, listVars, rwlock, pc, hostname, timestamp, cursor, mainVars>>
-----------------------------------------------------------------------------
NULL == 0
Entry == 1..MaxCalls
Nobody == "nobody"
Main == "main"
NoHost == "none"
NoEntry == [name |-> NoHost, ttl |-> 0, timestamp |-> 0]

Goto(t, where) == pc' = [pc EXCEPT ![t] = where]

Expired(e, time) == time > table[e].timestamp + table[e].ttl
-----------------------------------------------------------------------------
(* resolve reads the clock before it waits for the lock                      *)
Resolve(t, h) ==
  /\ pc[t] = "idle"
  /\ calls < MaxCalls
  /\ calls' = calls + 1
  /\ hostname' = [hostname EXCEPT ![t] = h]
  /\ timestamp' = [timestamp EXCEPT ![t] = now]
  /\ Goto(t, "lock")
  /\ UNCHANGED <<now, listVars, rwlock, cursor, mainVars>>

Lock(t) ==
  /\ pc[t] = "lock"
  /\ rwlock = Nobody
  /\ rwlock' = t
  /\ cursor' = [cursor EXCEPT ![t] = head]
  /\ Goto(t, "search")
  /\ UNCHANGED <<now, calls, listVars, hostname, timestamp, mainVars>>

(* pthread_mutex_unlock and return: the locals are gone                      *)
Return(t) ==
  /\ hostname' = [hostname EXCEPT ![t] = NoHost]
  /\ timestamp' = [timestamp EXCEPT ![t] = 0]
  /\ cursor' = [cursor EXCEPT ![t] = NULL]
  /\ Goto(t, "idle")

Unlock(t) == rwlock' = Nobody /\ Return(t)

(* spawn_client returns: the attempts are made                               *)
Exit(t) ==
  /\ pc[t] = "idle"
  /\ calls = MaxCalls
  /\ Goto(t, "done")
  /\ UNCHANGED <<now, calls, listVars, rwlock, hostname, timestamp, cursor, mainVars>>

(* remove_table_entry.  An entry with both neighbours only gets its prev     *)
(* changed; nobody's prev is changed when the head goes.                    *)
RemoveEntryAndRest(e) ==
  LET n == next[e]
      p == prev[e]
  IN  /\ prev' = IF n # NULL /\ p # NULL THEN [prev EXCEPT ![e] = n] ELSE prev
      /\ next' = IF n = NULL /\ p # NULL THEN [next EXCEPT ![p] = NULL] ELSE next
      /\ head' = IF p = NULL THEN NULL ELSE head
RemoveEntry(e) ==
  LET n == next[e]
      p == prev[e]
  IN  /\ prev' = IF n # NULL /\ p # NULL THEN [prev EXCEPT ![e] = n] ELSE prev
      /\ next' = IF n = NULL /\ p # NULL THEN [next EXCEPT ![p] = NULL] ELSE next
      /\ head' = IF p = NULL THEN n ELSE head

(* One turn of the loop on an expired entry                                  *)
DropExpired(t) ==
  /\ pc[t] = "search"
  /\ cursor[t] # NULL
  /\ Expired(cursor[t], timestamp[t])
  /\ RemoveEntry(cursor[t])
  /\ cursor' = [cursor EXCEPT ![t] = next'[cursor[t]]]
  /\ UNCHANGED <<now, calls, table, used, rwlock, pc, hostname, timestamp, mainVars>>

(* One turn on another host's entry                                          *)
PassEntry(t) ==
  /\ pc[t] = "search"
  /\ cursor[t] # NULL
  /\ ~Expired(cursor[t], timestamp[t])
  /\ table[cursor[t]].name # hostname[t]
  /\ cursor' = [cursor EXCEPT ![t] = next[cursor[t]]]
  /\ UNCHANGED <<now, calls, listVars, rwlock, pc, hostname, timestamp, mainVars>>

(* The cached answer                                                         *)
AnswerFromCache(t) ==
  /\ pc[t] = "search"
  /\ cursor[t] # NULL
  /\ ~Expired(cursor[t], timestamp[t])
  /\ table[cursor[t]].name = hostname[t]
  /\ Unlock(t)
  /\ UNCHANGED <<now, calls, listVars, mainVars>>

(* query_dns is sent; the thread keeps the lock while it waits               *)
SendQueryUnlocked(t) ==
  /\ pc[t] = "search"
  /\ cursor[t] = NULL
  /\ Goto(t, "query")
  /\ rwlock' = Nobody
  /\ UNCHANGED <<now, calls, listVars, hostname, timestamp, cursor, mainVars>>
SendQuery(t) ==
  /\ pc[t] = "search"
  /\ cursor[t] = NULL
  /\ Goto(t, "query")
  /\ UNCHANGED <<now, calls, listVars, rwlock, hostname, timestamp, cursor, mainVars>>

(* query_dns fails: a send or receive timeout, or an empty answer            *)
QueryFailsLocked(t) ==
  /\ pc[t] = "query"
  /\ Return(t)
  /\ UNCHANGED <<now, calls, listVars, rwlock, mainVars>>
QueryFails(t) ==
  /\ pc[t] = "query"
  /\ Unlock(t)
  /\ UNCHANGED <<now, calls, listVars, mainVars>>

(* The answer becomes the new head, stamped with the reading of the clock    *)
(* from before the query.  The address is read from it after the lock has    *)
(* been given back.                                                         *)
CacheAnswer(t, ttl) ==
  /\ pc[t] = "query"
  /\ used' = used + 1
  /\ table' = [table EXCEPT ![used'] =
                 [name |-> hostname[t], ttl |-> ttl, timestamp |-> timestamp[t]]]
  /\ prev' = [e \in Entry |-> IF e = used' THEN NULL
                              ELSE IF e = head THEN used' ELSE prev[e]]
  /\ next' = [next EXCEPT ![used'] = head]
  /\ head' = used'
  /\ rwlock' = Nobody
  /\ cursor' = [cursor EXCEPT ![t] = used']
  /\ Goto(t, "return")
  /\ UNCHANGED <<now, calls, hostname, timestamp, mainVars>>

ReadAnswer(t) ==
  /\ pc[t] = "return"
  /\ Return(t)
  /\ UNCHANGED <<now, calls, listVars, rwlock, mainVars>>
-----------------------------------------------------------------------------
(* run_trial joins the threads, one after another, and calls dns_cleanup,    *)
(* which takes the lock for good.                                           *)
BeginCleanupUnjoined ==
  /\ mainAt = "join"
  /\ rwlock = Nobody
  /\ rwlock' = Main
  /\ mainAt' = "cleanup"
  /\ doomed' = head
  /\ UNCHANGED <<now, calls, listVars, pc, hostname, timestamp, cursor, freed>>
BeginCleanup ==
  /\ mainAt = "join"
  /\ \A t \in Thread : pc[t] = "done"
  /\ rwlock = Nobody
  /\ rwlock' = Main
  /\ mainAt' = "cleanup"
  /\ doomed' = head
  /\ UNCHANGED <<now, calls, listVars, pc, hostname, timestamp, cursor, freed>>

(* One turn of the loop of dns_cleanup                                       *)
FreeEntryClearedFirst ==
  /\ mainAt = "cleanup"
  /\ doomed # NULL
  /\ next' = [next EXCEPT ![doomed] = NULL]
  /\ prev' = [prev EXCEPT ![doomed] = NULL]
  /\ freed' = freed \cup {doomed}
  /\ doomed' = next'[doomed]
  /\ UNCHANGED <<now, calls, head, table, used, rwlock, pc, hostname, timestamp,
                 cursor, mainAt>>
FreeEntry ==
  /\ mainAt = "cleanup"
  /\ doomed # NULL
  /\ next' = [next EXCEPT ![doomed] = NULL]
  /\ prev' = [prev EXCEPT ![doomed] = NULL]
  /\ freed' = freed \cup {doomed}
  /\ doomed' = next[doomed]
  /\ UNCHANGED <<now, calls, head, table, used, rwlock, pc, hostname, timestamp,
                 cursor, mainAt>>

EndCleanup ==
  /\ mainAt = "cleanup"
  /\ doomed = NULL
  /\ mainAt' = "end"
  /\ UNCHANGED <<now, calls, listVars, rwlock, pc, hostname, timestamp, cursor,
                 doomed, freed>>

Tick ==
  /\ now < MaxTime
  /\ now' = now + 1
  /\ UNCHANGED <<calls, listVars, rwlock, pc, hostname, timestamp, cursor, mainVars>>
-----------------------------------------------------------------------------
(* dns_init, and run_trial up to the first join                              *)
Init ==
  /\ now = 0
  /\ calls = 0
  /\ head = NULL
  /\ next = [e \in Entry |-> NULL]
  /\ prev = [e \in Entry |-> NULL]
  /\ table = [e \in Entry |-> NoEntry]
  /\ used = 0
  /\ rwlock = Nobody
  /\ pc = [t \in Thread |-> "idle"]
  /\ hostname = [t \in Thread |-> NoHost]
  /\ timestamp = [t \in Thread |-> 0]
  /\ cursor = [t \in Thread |-> NULL]
  /\ mainAt = "join"
  /\ doomed = NULL
  /\ freed = {}

ThreadStep(t) ==
  \/ \E h \in Host : Resolve(t, h)
  \/ Lock(t)
  \/ DropExpired(t)
  \/ PassEntry(t)
  \/ AnswerFromCache(t)
  \/ SendQuery(t)
  \/ QueryFails(t)
  \/ \E ttl \in TTLs : CacheAnswer(t, ttl)
  \/ ReadAnswer(t)
  \/ Exit(t)

MainStep == BeginCleanup \/ FreeEntry \/ EndCleanup

Next == Tick \/ MainStep \/ \E t \in Thread : ThreadStep(t)

Spec == Init /\ [][Next]_vars

(* The threads run.  The query one waits for is given up after two seconds   *)
(* (SO_RCVTIMEO), the lock is waited for as long as the others have attempts *)
(* left.                                                                    *)
FairSpec == /\ Spec
            /\ \A t \in Thread : WF_vars(ThreadStep(t))
            /\ WF_vars(MainStep)
-----------------------------------------------------------------------------
TypeOK ==
  /\ now \in 0..MaxTime
  /\ calls \in 0..MaxCalls
  /\ head \in Entry \cup {NULL}
  /\ next \in [Entry -> Entry \cup {NULL}]
  /\ prev \in [Entry -> Entry \cup {NULL}]
  /\ table \in [Entry -> [name: Host \cup {NoHost}, ttl: TTLs \cup {0},
                          timestamp: 0..MaxTime]]
  /\ used \in 0..MaxCalls
  /\ rwlock \in Thread \cup {Nobody, Main}
  /\ pc \in [Thread -> {"idle", "lock", "search", "query", "return", "done"}]
  /\ hostname \in [Thread -> Host \cup {NoHost}]
  /\ timestamp \in [Thread -> 0..MaxTime]
  /\ cursor \in [Thread -> Entry \cup {NULL}]
  /\ mainAt \in {"join", "cleanup", "end"}
  /\ doomed \in Entry \cup {NULL}
  /\ freed \subseteq Entry

(* The entries that following next from an entry comes to.                   *)
Following(first) ==
  {e \in Entry : \A S \in SUBSET (Entry \cup {NULL}) :
     first \in S /\ (\A x \in S \ {NULL} : next[x] \in S) => e \in S}

Fresh(e) == e <= used /\ ~Expired(e, now)

(* Though the removal of an entry leaves wrong prev pointers behind, and     *)
(* later removals follow them, no answer that is still good drops out of the *)
(* list.                                                                    *)
NoFreshAnswerLost == mainAt = "join" => \A e \in Entry : Fresh(e) => e \in Following(head)

(* The threads that want one host while nobody has its answer ask once: the  *)
(* others wait for the lock and find the answer of the first, however old    *)
(* their reading of the clock is.                                           *)
OneFreshAnswer ==
  \A e, f \in Entry :
    Fresh(e) /\ Fresh(f) /\ table[e].name = table[f].name => e = f

(* Nobody follows a pointer to an entry that dns_cleanup has freed, not the  *)
(* thread that reads its answer after giving the lock back, and not          *)
(* dns_cleanup itself, in whatever state the removals have left the list.   *)
NothingFreedIsUsed ==
  /\ \A t \in Thread : cursor[t] \notin freed
  /\ doomed \notin freed

(* In the end every entry has been given back but the expired ones that      *)
(* searches have dropped.                                                   *)
EntriesGivenBack ==
  mainAt = "end" => \A e \in 1..used : e \in freed \/ Expired(e, now)

(* The trial ends: every search comes to the end of the list, also of one    *)
(* that removals have left their pointers in, and every way out of resolve   *)
(* gives the lock back.                                                     *)
TrialEnds == <>(mainAt = "end")
=============================================================================
