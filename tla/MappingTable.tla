---------------------------- MODULE MappingTable ----------------------------
(***************************************************************************)
(* The core of the NAT (NATServer.c): client threads that answer            *)
(*                                                                          *)
(*     ADD;<ip>   with   ACK;<public ip>;<seconds to live>                  *)
(*                                                                          *)
(* by finding or making a mapping from the /26 prefix of <ip> to a public   *)
(* address, and the cleaner thread that takes a mapping back when its       *)
(* lifetime and a grace period are over.  The mapping list is guarded by a  *)
(* lock, held for one search or one insertion at a time; the clock, the     *)
(* pointer a search returned and the iptables calls are used outside it.    *)
(* Every access to the list is one step here, as if both sides took the     *)
(* same lock.                                                               *)
(***************************************************************************)
EXTENDS ExpiringList, FiniteSets

CONSTANTS
  Client,            \* the threads running handleClientConnections
  Hosts,             \* last octets of the addresses clients ask for
  PUBLICIPRANGESTART, PUBLICIPRANGEEND,
  MaxRequests,       \* bound on the requests received
  MaxRestarts        \* bound on the times the process ends and is started again

ASSUME ClientIsFinite == IsFiniteSet(Client)
ASSUME CleanerIsNotClient == Cleaner \notin Client
ASSUME HostsAreOctets == Hosts \subseteq 0..255
ASSUME RangeIsOctets == /\ PUBLICIPRANGESTART \in Nat
                        /\ PUBLICIPRANGEEND \in Nat
                        /\ PUBLICIPRANGESTART <= PUBLICIPRANGEEND
ASSUME BoundsAreNat == MaxRequests \in Nat /\ MaxRestarts \in Nat

VARIABLES
  pc,          \* where each client thread is in handling its request
  received,    \* requests received so far
  restarts,    \* how often the process was started again
  map,         \* map[t]: the mapping t is making; its prefix is known first
  since,       \* since[t]: searchMap->time, the oldest creation time t accepts
  match,       \* match[t]: the element findElement returned to t
  timeNow,     \* timeNow[t]: the reading of the clock t's age test used
  answer,      \* answer[t]: t's last answer, with the clock it was computed from
  contested,   \* history: pairs owned more than once since they were last free
  orphans      \* history: the rules an earlier process left in the kernel

threadVars == <<pc, map, since, match, timeNow, answer>>
historyVars == <<contested, orphans>>
vars == <<now, list, victim, rules, at, applying, received, restarts,
          threadVars, historyVars>>
-----------------------------------------------------------------------------
NULL == -1

Thread == Client \cup {Cleaner}

(* %d.%d.%d.%d/26 with cp4 & 192: the prefix of the 64 addresses around h    *)
IspPrefix(h) == h - (h % 64)
Prefixes == {IspPrefix(h) : h \in Hosts}

PublicIPs == PUBLICIPRANGESTART .. PUBLICIPRANGEEND

(* A Mapping; id 0 is the NULL pointer.                                      *)
Mapping == [id: Nat, prefix: Prefixes \cup {NULL},
            ip: PublicIPs \cup {NULL}, time: Nat]
NoMapping == [id |-> 0, prefix |-> NULL, ip |-> NULL, time |-> 0]

(* ttl 0: nothing answered yet, or nothing that can be relied on             *)
Answer == [prefix: Prefixes \cup {NULL}, ip: PublicIPs \cup {NULL},
           at: Nat, ttl: 0..EXPIRATION]
NoAnswer == [prefix |-> NULL, ip |-> NULL, at |-> 0, ttl |-> 0]

WithAddress(m, ip) ==
  [id |-> m.id, prefix |-> m.prefix, ip |-> ip, time |-> m.time]
CreatedAt(m, s) ==
  [id |-> m.id, prefix |-> m.prefix, ip |-> m.ip, time |-> s]

Pair(m) == <<m.prefix, m.ip>>

Rule == [chain: {"PREROUTING", "POSTROUTING"}, established: BOOLEAN,
         pair: Prefixes \X PublicIPs]
Dnat(p) == [chain |-> "PREROUTING", established |-> FALSE, pair |-> p]
Snat(p) == [chain |-> "POSTROUTING", established |-> FALSE, pair |-> p]
Established(r) == [chain |-> r.chain, established |-> TRUE, pair |-> r.pair]
PlainRules == {r \in Rule : ~r.established}

(* The iptables calls of manipulateMapping and those of handleExpiredMap.    *)
AddScriptNoSnat(m) == <<AddRule(Dnat(Pair(m)))>>
AddScript(m) == <<AddRule(Dnat(Pair(m))), AddRule(Snat(Pair(m)))>>

RemovalScriptDeleteFirst(m) ==
  <<DeleteRule(Dnat(Pair(m))), DeleteRule(Snat(Pair(m))),
    AddRule(Established(Dnat(Pair(m)))), AddRule(Established(Snat(Pair(m))))>>
RemovalScriptKeepSnat(m) ==
  <<AddRule(Established(Dnat(Pair(m)))), AddRule(Established(Snat(Pair(m)))),
    DeleteRule(Dnat(Pair(m)))>>
RemovalScript(m) ==
  <<AddRule(Established(Dnat(Pair(m)))), AddRule(Established(Snat(Pair(m)))),
    DeleteRule(Dnat(Pair(m))), DeleteRule(Snat(Pair(m)))>>

(* cmpMaps: a search matches on the fields it gives, and on elements at      *)
(* least as young as its time.                                              *)
MatchesNewer(search, m) ==
  /\ search.prefix = NULL \/ m.prefix = search.prefix
  /\ search.ip = NULL \/ m.ip = search.ip
  /\ m.time > search.time + EXPIRATION
Matches(search, m) ==
  /\ search.prefix = NULL \/ m.prefix = search.prefix
  /\ search.ip = NULL \/ m.ip = search.ip
  /\ m.time >= search.time

(* The element behind a pointer is alive while it is listed or being removed *)
Listed(m) == \E i \in 1..Len(list) : list[i] = m
Freed(m) == ~Listed(m) /\ victim # m

InProgress(t) == pc[t] \in {"rules", "stamped"}

(* Whether somebody holds the pair: a listed mapping, the one being removed, *)
(* or a thread about to list one.                                           *)
Owned(p) ==
  \/ \E i \in 1..Len(list) : Pair(list[i]) = p
  \/ Busy /\ Pair(victim) = p
  \/ \E t \in Client : InProgress(t) /\ Pair(map[t]) = p
-----------------------------------------------------------------------------
(* handleClientConnections, handleRequest and manipulateMapping, up to the   *)
(* first reading of the clock.                                              *)
ReceiveAdd(t, h) ==
  /\ pc[t] = "idle"
  /\ received < MaxRequests
  /\ received' = received + 1
  /\ pc' = [pc EXCEPT ![t] = "find"]
  /\ map' = [map EXCEPT ![t] = [id |-> received + 1, prefix |-> IspPrefix(h),
                                ip |-> NULL, time |-> 0]]
  /\ since' = [since EXCEPT ![t] = now - EXPIRATION]
  /\ answer' = [answer EXCEPT ![t] = NoAnswer]
  /\ UNCHANGED <<listVars, ruleVars, restarts, match, timeNow, historyVars>>

PrefixSearch(t) == [prefix |-> map[t].prefix, ip |-> NULL, time |-> since[t]]

(* findElement by prefix, under the lock: the first element that matches     *)
FindByPrefix(t) ==
  /\ pc[t] = "find"
  /\ \/ \E i \in 1..Len(list) :
          /\ Matches(PrefixSearch(t), list[i])
          /\ \A j \in 1..(i-1) : ~Matches(PrefixSearch(t), list[j])
          /\ match' = [match EXCEPT ![t] = list[i]]
          /\ pc' = [pc EXCEPT ![t] = "match"]
     \/ /\ \A i \in 1..Len(list) : ~Matches(PrefixSearch(t), list[i])
        /\ pc' = [pc EXCEPT ![t] = "draw"]
        /\ UNCHANGED match
  /\ UNCHANGED <<listVars, ruleVars, received, restarts, map, since, timeNow,
                 answer, historyVars>>

(* The age test on the match, outside the lock.  If the cleaner has freed    *)
(* the element the test reads freed memory and may go either way.           *)
CheckMatch(t) ==
  /\ pc[t] = "match"
  /\ timeNow' = [timeNow EXCEPT ![t] = now]
  /\ \/ /\ Freed(match[t]) \/ now - match[t].time < EXPIRATION
        /\ pc' = [pc EXCEPT ![t] = "copy"]
     \/ /\ Freed(match[t]) \/ now - match[t].time >= EXPIRATION
        /\ pc' = [pc EXCEPT ![t] = "draw"]
  /\ UNCHANGED <<listVars, ruleVars, received, restarts, map, since, match,
                 answer, historyVars>>

(* mapTTL: what is left of the mapping's lifetime                            *)
SecondsLeftWithGrace(t) == EXPIRATION + GRACE - (timeNow[t] - match[t].time)
SecondsLeft(t) == EXPIRATION - (timeNow[t] - match[t].time)

(* The public address and the time are copied out of the match, outside the  *)
(* lock; from a freed element there is no telling what is copied.           *)
CopyMatch(t) ==
  /\ pc[t] = "copy"
  /\ \/ /\ ~Freed(match[t])
        /\ answer' = [answer EXCEPT ![t] =
             [prefix |-> match[t].prefix, ip |-> match[t].ip,
              at |-> timeNow[t], ttl |-> SecondsLeft(t)]]
     \/ /\ Freed(match[t])
        /\ UNCHANGED answer
  /\ pc' = [pc EXCEPT ![t] = "respond"]
  /\ UNCHANGED <<listVars, ruleVars, received, restarts, map, since, match,
                 timeNow, historyVars>>

AddressSearch(t, ip) == [prefix |-> NULL, ip |-> ip, time |-> since[t]]

(* rand() % (END - START + 1) + START                                        *)
DrawableExceptLast == PUBLICIPRANGESTART .. (PUBLICIPRANGEEND - 1)
Drawable == PUBLICIPRANGESTART .. PUBLICIPRANGEEND

(* The do-while that draws addresses until one is not found in the list; the *)
(* refused draws change nothing.                                            *)
Draw(t, ip) ==
  /\ pc[t] = "draw"
  /\ ip \in Drawable
  /\ \A i \in 1..Len(list) : ~Matches(AddressSearch(t, ip), list[i])
  /\ map' = [map EXCEPT ![t] = WithAddress(@, ip)]
  /\ contested' = IF Owned(<<map[t].prefix, ip>>)
                  THEN contested \cup {<<map[t].prefix, ip>>} ELSE contested
  /\ at' = [at EXCEPT ![t] = 1]
  /\ pc' = [pc EXCEPT ![t] = "rules"]
  /\ UNCHANGED <<listVars, rules, applying, received, restarts, since, match,
                 timeNow, answer, orphans>>

(* checkAddRule for the two rules of the new mapping                         *)
InstallRules(t) ==
  /\ pc[t] = "rules"
  /\ CheckRule(t, AddScript(map[t])) \/ ApplyRule(t, AddScript(map[t]))
  /\ UNCHANGED <<listVars, received, restarts, threadVars, historyVars>>

(* The mapping gets its creation time once its rules are there.              *)
StampMapping(t) ==
  /\ pc[t] = "rules"
  /\ ScriptDone(t, AddScript(map[t]))
  /\ map' = [map EXCEPT ![t] = CreatedAt(@, now)]
  /\ pc' = [pc EXCEPT ![t] = "stamped"]
  /\ UNCHANGED <<listVars, ruleVars, received, restarts, since, match, timeNow,
                 answer, historyVars>>

(* insertElement under the lock, and the answer for a new mapping            *)
InsertMapping(t) ==
  /\ pc[t] = "stamped"
  /\ list' = Append(list, map[t])
  /\ answer' = [answer EXCEPT ![t] =
       [prefix |-> map[t].prefix, ip |-> map[t].ip,
        at |-> map[t].time, ttl |-> EXPIRATION]]
  /\ pc' = [pc EXCEPT ![t] = "respond"]
  /\ UNCHANGED <<now, victim, ruleVars, received, restarts, map, since, match,
                 timeNow, historyVars>>

(* send_all, and back to reading the socket; the locals are gone             *)
Respond(t) ==
  /\ pc[t] = "respond"
  /\ pc' = [pc EXCEPT ![t] = "idle"]
  /\ map' = [map EXCEPT ![t] = NoMapping]
  /\ since' = [since EXCEPT ![t] = 0]
  /\ match' = [match EXCEPT ![t] = NoMapping]
  /\ timeNow' = [timeNow EXCEPT ![t] = 0]
  /\ UNCHANGED <<listVars, ruleVars, received, restarts, answer, historyVars>>
-----------------------------------------------------------------------------
(* The cleaner: handleExpiredMap on the element it popped                    *)
RemoveRules ==
  /\ Busy
  /\ \/ CheckRule(Cleaner, RemovalScript(victim))
     \/ ApplyRule(Cleaner, RemovalScript(victim))
  /\ UNCHANGED <<listVars, received, restarts, threadVars, historyVars>>

FreeMapping ==
  /\ Busy
  /\ ScriptDone(Cleaner, RemovalScript(victim))
  /\ victim' = NoMapping
  /\ UNCHANGED <<now, list, ruleVars, received, restarts, threadVars, orphans>>
  /\ contested' = {p \in contested : Owned(p)'}

Expire ==
  /\ PopExpired
  /\ UNCHANGED <<now, rules, applying, received, restarts, threadVars,
                 historyVars>>

ClockTick ==
  /\ Tick
  /\ UNCHANGED <<list, victim, ruleVars, received, restarts, threadVars,
                 historyVars>>

(* The process ends, by SIGINT or by the exit of send_all, and is started    *)
(* again: threads and list are gone, the kernel's rules stay.               *)
Restart ==
  /\ restarts < MaxRestarts
  /\ restarts' = restarts + 1
  /\ list' = << >>
  /\ victim' = NoMapping
  /\ at' = [t \in Thread |-> 1]
  /\ applying' = [t \in Thread |-> FALSE]
  /\ pc' = [t \in Client |-> "idle"]
  /\ map' = [t \in Client |-> NoMapping]
  /\ since' = [t \in Client |-> 0]
  /\ match' = [t \in Client |-> NoMapping]
  /\ timeNow' = [t \in Client |-> 0]
  /\ answer' = [t \in Client |-> NoAnswer]
  /\ contested' = {}
  /\ orphans' = rules
  /\ UNCHANGED <<now, rules, received>>
-----------------------------------------------------------------------------
Init ==
  /\ now = 0
  /\ list = << >>
  /\ victim = NoMapping
  /\ rules = [r \in Rule |-> 0]
  /\ at = [t \in Thread |-> 1]
  /\ applying = [t \in Thread |-> FALSE]
  /\ pc = [t \in Client |-> "idle"]
  /\ received = 0
  /\ restarts = 0
  /\ map = [t \in Client |-> NoMapping]
  /\ since = [t \in Client |-> 0]
  /\ match = [t \in Client |-> NoMapping]
  /\ timeNow = [t \in Client |-> 0]
  /\ answer = [t \in Client |-> NoAnswer]
  /\ contested = {}
  /\ orphans = [r \in Rule |-> 0]

ClientStep(t) ==
  \/ \E h \in Hosts : ReceiveAdd(t, h)
  \/ FindByPrefix(t)
  \/ CheckMatch(t)
  \/ CopyMatch(t)
  \/ \E ip \in PublicIPs : Draw(t, ip)
  \/ InstallRules(t)
  \/ StampMapping(t)
  \/ InsertMapping(t)
  \/ Respond(t)

CleanerStep == Expire \/ RemoveRules \/ FreeMapping

Next ==
  \/ \E t \in Client : ClientStep(t)
  \/ CleanerStep
  \/ ClockTick
  \/ Restart

Spec == Init /\ [][Next]_vars

(* A thread that can run runs: the threads block on nothing but the lock,    *)
(* and whoever holds it releases it in the same step.  Neither requests nor  *)
(* the clock are owed to anybody.                                           *)
Working(t) == pc[t] # "idle" /\ ClientStep(t)
FairSpec == /\ Spec
            /\ \A t \in Client : WF_vars(Working(t))
            /\ WF_vars(CleanerStep)
-----------------------------------------------------------------------------
TypeOK ==
  /\ now \in 0..MaxTime
  /\ list \in Seq(Mapping)
  /\ victim \in Mapping
  /\ rules \in [Rule -> Nat]
  /\ at \in [Thread -> Nat \ {0}]
  /\ applying \in [Thread -> BOOLEAN]
  /\ pc \in [Client -> {"idle", "find", "match", "copy", "draw", "rules",
                        "stamped", "respond"}]
  /\ received \in 0..MaxRequests
  /\ restarts \in 0..MaxRestarts
  /\ map \in [Client -> Mapping]
  /\ since \in [Client -> Int]
  /\ match \in [Client -> Mapping]
  /\ timeNow \in [Client -> Nat]
  /\ answer \in [Client -> Answer]
  /\ contested \subseteq Prefixes \X PublicIPs
  /\ orphans \in [Rule -> Nat]

(* With one thread adding mappings (the DNS filter holds one connection), a  *)
(* public address is listed for two prefixes only when the first one's       *)
(* lifetime was over before the second one's began: the draw refuses an      *)
(* address whose mapping was alive when the request came in.                *)
UniqueLease ==
  \A i, j \in 1..Len(list) :
    i < j /\ list[i].ip = list[j].ip
      => list[j].time > list[i].time + EXPIRATION

(* With several adding threads an address can be leased more than once at a  *)
(* time, as nothing holds it between its draw and its insertion; but to no   *)
(* more mappings than there are connections: those that share it were all    *)
(* drawn before the first of them was listed.                               *)
LiveWith(ip) == {i \in 1..Len(list) : list[i].ip = ip /\ now <= list[i].time + EXPIRATION}
SharedByFew == \A ip \in PublicIPs : Cardinality(LiveWith(ip)) <= Cardinality(Client)

(* The mappings of the prefix t asks for, the one it found among them, have  *)
(* lifetimes that follow one another.                                       *)
OneByOne(t) ==
  \A m, n \in {list[i] : i \in 1..Len(list)} \cup {match[t]} :
    m # n /\ m.prefix = map[t].prefix /\ n.prefix = map[t].prefix
      => m.time + EXPIRATION <= n.time \/ n.time + EXPIRATION <= m.time

(* A prefix gets a second mapping beside a live one only when the search met *)
(* one that came to its end while the request was handled; and with one      *)
(* adding thread, as long as the mappings of the prefix have followed one    *)
(* another, only when that one was exactly EXPIRATION old at the request:   *)
(* cmpMaps accepts that age, the age test does not, and the live mapping     *)
(* behind it, made in that very second, is not looked at.                   *)
SecondOnlyAtExpiry ==
  [][\A t \in Client : \A i \in 1..Len(list) :
       /\ pc[t] # "draw" /\ pc'[t] = "draw"
       /\ list[i].prefix = map[t].prefix
       /\ now - list[i].time < EXPIRATION
       => /\ match[t].time \in since[t]..(now - EXPIRATION)
          /\ OneByOne(t) => /\ match[t].time = since[t]
                            /\ list[i].time = since[t] + EXPIRATION]_vars

(* The address in an answer stays in the list until the seconds to live have *)
(* run out and the grace period after them, whichever way the answer was     *)
(* computed, however long it took to compute it and however the threads      *)
(* interleave: the receiver's copy cannot outlive the mapping as long as it  *)
(* arrives within GRACE seconds.                                            *)
AnswerBacked ==
  \A t \in Client :
    answer[t].ttl > 0 =>
      \/ now >= answer[t].at + answer[t].ttl + GRACE
      \/ \E i \in 1..Len(list) :
           /\ list[i].prefix = answer[t].prefix
           /\ list[i].ip = answer[t].ip
           /\ list[i].time + EXPIRATION = answer[t].at + answer[t].ttl

(* A pointer that findElement returned is followed after the lock was        *)
(* released; it only dangles when the thread stalled for the whole grace     *)
(* period after a reading of the clock: before its age test the one the      *)
(* search used, after it the one the test used as well.                     *)
GraceProtectsMatch ==
  \A t \in Client :
    pc[t] \in {"match", "copy"} /\ Freed(match[t]) =>
      \/ now >= since[t] + EXPIRATION + GRACE
      \/ pc[t] = "copy" /\ now > timeNow[t] + GRACE

(* A listed mapping translates: both its rules are in the kernel, unless its *)
(* pair was handed out again while somebody still held it.                  *)
RulesInstalled ==
  \A i \in 1..Len(list) :
    Pair(list[i]) \notin contested =>
      /\ rules[Dnat(Pair(list[i]))] > 0
      /\ rules[Snat(Pair(list[i]))] > 0

(* Who will still delete a copy of plain rule r: every listed mapping of its *)
(* pair, the cleaner while that deletion is ahead of it, and a client once   *)
(* its own call for r is over.                                              *)
WillDelete(r) ==
  Cardinality({i \in 1..Len(list) : Pair(list[i]) = r.pair})
  + (IF Busy /\ \E k \in at[Cleaner]..Len(RemovalScript(victim)) :
                   RemovalScript(victim)[k] = DeleteRule(r)
     THEN 1 ELSE 0)
  + Cardinality({t \in Client : /\ InProgress(t)
                                /\ \E k \in 1..(at[t]-1) :
                                     /\ k <= Len(AddScript(map[t]))
                                     /\ AddScript(map[t])[k].rule = r})

(* No translation rule outlives its mappings: for each copy in the kernel    *)
(* somebody will still run a deletion, but for the copies an earlier process *)
(* left behind.  And the rules for established connections exist once.      *)
RulesOwned ==
  /\ \A r \in PlainRules : rules[r] <= orphans[r] + WillDelete(r)
  /\ \A r \in Rule \ PlainRules : rules[r] <= 1

(* Connections survive the end of their mapping: the plain translation goes  *)
(* only when both rules for its established connections are there.          *)
EstablishedBeforeRemoval ==
  [][\A r \in PlainRules :
       rules'[r] < rules[r] =>
         /\ rules[Established(Dnat(r.pair))] > 0
         /\ rules[Established(Snat(r.pair))] > 0]_vars

ListedId(n) == \E i \in 1..Len(list) : list[i].id = n
DueId(n) == \E i \in 1..Len(list) :
              list[i].id = n /\ now >= list[i].time + EXPIRATION + GRACE

(* Once a mapping is due the cleaner removes it, rules and all, though it    *)
(* only ever looks at the head of the list.                                 *)
DueMappingExpires ==
  \A n \in 1..MaxRequests : DueId(n) ~> ~ListedId(n) /\ victim.id # n

(* The draw of thread t can only find refused addresses.                     *)
PoolExhausted(t) ==
  /\ pc[t] = "draw"
  /\ \A ip \in PublicIPs :
       \E i \in 1..Len(list) : list[i].ip = ip /\ list[i].time >= since[t]

(* Every request is answered, but for one that meets a full pool.            *)
AddAnswered ==
  \A t \in Client : pc[t] # "idle" ~> pc[t] = "idle" \/ PoolExhausted(t)

(* The leases behind the listed mappings; with one adding thread the table   *)
(* is a LeaseService.                                                       *)
LeaseOf(m) == [prefix |-> m.prefix, ip |-> m.ip, start |-> m.time]
Leases == {LeaseOf(list[i]) : i \in 1..Len(list)}

Lease == INSTANCE LeaseService WITH leases <- Leases, told <- answer

(* Every step of the threads, whatever their interleaving, is a step of the  *)
(* lease service: addresses are granted, repeated and retired as promised.   *)
ImplementsLeaseService == Lease!Spec
-----------------------------------------------------------------------------
(* What the comments of the code say and the code does not do.               *)

(* "Add mappings to IPTables" (NATServer.c:575): a listed mapping that is    *)
(* alive has its rules.                                                     *)
LiveMappingTranslates ==
  \A i \in 1..Len(list) :
    now < list[i].time + EXPIRATION =>
      rules[Dnat(Pair(list[i]))] > 0 /\ rules[Snat(Pair(list[i]))] > 0
=============================================================================
