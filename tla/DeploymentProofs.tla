--------------------------- MODULE DeploymentProofs ---------------------------
(***************************************************************************)
(* Proofs about Deployment, for every number of clients, ISPs and           *)
(* addresses, every lifetime and grace period: that a thread connects to an *)
(* address leased to its ISP, and that two ISPs' caches keep apart; and, in *)
(* the end, what the lease service promises by itself.                      *)
(***************************************************************************)
EXTENDS Deployment, TLAPS

(* The head and the tail of a queue, element by element.                     *)
LEMMA HeadAndTail ==
  ASSUME NEW S, NEW s \in Seq(S), s # << >>
  PROVE  /\ Len(s) \in Nat \ {0}
         /\ Head(s) = s[1] /\ s[1] \in S
         /\ Tail(s) \in Seq(S) /\ Len(Tail(s)) = Len(s) - 1
         /\ \A i \in 1..Len(Tail(s)) : Tail(s)[i] = s[i+1]
OBVIOUS

(* What is in a queue after an arrival at its end.                           *)
LEMMA AppendOne ==
  ASSUME NEW S, NEW s \in Seq(S), NEW e \in S
  PROVE  /\ Append(s, e) \in Seq(S)
         /\ \A i \in 1..Len(Append(s, e)) :
              \/ i \in 1..Len(s) /\ Append(s, e)[i] = s[i]
              \/ Append(s, e)[i] = e
OBVIOUS
-----------------------------------------------------------------------------
(* A call in progress has a number, and no packet has one that was not given *)
(* yet: what tells the packets of a thread's call from those of its others.  *)
CallsNumbered ==
  /\ \A t \in Thread : pc[t] # "idle" => call[t] \in 1..calls
  /\ \A i \in 1..Len(queue) : queue[i].call <= calls

FilterHolds ==
  /\ filterAt # "idle" => handled \in Packet /\ handled.call <= calls
  /\ filterAt = "told" => told[Connection] \in Answer
                          /\ told[Connection].prefix = AskedPrefix

TypeInv == TypeOK /\ CallsNumbered /\ FilterHolds

(* The NAT's variables, when only it or the clocks step.                     *)
LEMMA NATTypes ==
  ASSUME TypeInv,
         UNCHANGED <<cacheVars, threadVars, reply, queue, handled, askedAt>>,
         now' \in 0..MaxTime, now <= now', clock' \in 0..now', leases' \subseteq Lease,
         told' \in [{Connection} -> Answer \cup {NoAnswer}],
         \/ filterAt' = filterAt /\ told' = told
         \/ /\ filterAt = "asking" /\ filterAt' = "told"
            /\ told'[Connection] \in Answer /\ told'[Connection].prefix = AskedPrefix
  PROVE  TypeInv'
<1>1. TypeOK'
  BY DEF TypeInv, TypeOK, cacheVars, threadVars
<1>2. CallsNumbered'
  BY DEF TypeInv, CallsNumbered, cacheVars, threadVars
<1>3. FilterHolds'
  BY DEF TypeInv, FilterHolds, AskedPrefix, Connection, cacheVars, threadVars
<1> QED BY <1>1, <1>2, <1>3 DEF TypeInv

(* What the NAT answers is an answer to what it was asked.                   *)
LEMMA AnswerTypes ==
  ASSUME TypeInv, NATAnswers
  PROVE  /\ leases' \subseteq Lease
         /\ told' \in [{Connection} -> Answer \cup {NoAnswer}]
         /\ told'[Connection] \in Answer /\ told'[Connection].prefix = AskedPrefix
         /\ askedAt <= told'[Connection].at
<1> DEFINE P == /\ leases' \subseteq Lease
                /\ told' \in [{Connection} -> Answer \cup {NoAnswer}]
                /\ told'[Connection] \in Answer /\ told'[Connection].prefix = AskedPrefix
                /\ askedAt <= told'[Connection].at
<1>1. AskedPrefix \in Prefixes
  BY IspOfIsFunction DEF TypeInv, FilterHolds, NATAnswers, AskedPrefix, Packet
<1>2. /\ now \in 0..MaxTime /\ askedAt \in 0..now /\ leases \subseteq Lease
      /\ told \in [{Connection} -> Answer \cup {NoAnswer}]
      /\ MaxTime \in Nat /\ EXPIRATION \in Nat \ {0}
  BY BoundsAreNat, PeriodsAreNat DEF TypeInv, TypeOK
<1>3. ASSUME NEW a \in Answer, a.prefix = AskedPrefix, askedAt <= a.at,
             leases' \subseteq Lease, told' = [told EXCEPT ![Connection] = a]
      PROVE  P
  BY <1>2, <1>3
<1>4. ASSUME NEW ip \in PublicIPs, NEW start \in askedAt..now,
             NAT!Grant(Connection, AskedPrefix, ip, start)
      PROVE  P
  <2> DEFINE a == [prefix |-> AskedPrefix, ip |-> ip, at |-> start, ttl |-> EXPIRATION]
  <2>1. start \in 0..MaxTime /\ EXPIRATION \in 1..EXPIRATION /\ askedAt <= start
    BY <1>2
  <2>2. a \in Answer /\ a.prefix = AskedPrefix /\ a.at = start
    BY <1>1, <2>1 DEF Answer
  <2>3. leases' \subseteq Lease /\ told' = [told EXCEPT ![Connection] = a]
    BY <1>1, <1>2, <1>4, <2>1 DEF NAT!Grant, Lease
  <2> QED BY <1>3, <2>1, <2>2, <2>3
<1>5. ASSUME NEW l, l.ip \in PublicIPs, l.start \in Nat, l.prefix = AskedPrefix,
             NEW at \in askedAt..now, NAT!Repeat(Connection, l, at)
      PROVE  P
  <2> DEFINE a == [prefix |-> l.prefix, ip |-> l.ip, at |-> at, ttl |-> NAT!End(l) - at]
  <2>1. at \in l.start..now /\ at < NAT!End(l) /\ leases' = leases
    BY <1>5 DEF NAT!Repeat
  <2>2. told' = [told EXCEPT ![Connection] = a]
    BY <1>5 DEF NAT!Repeat
  <2>3. NAT!End(l) - at \in 1..EXPIRATION
    BY <1>2, <1>5, <2>1 DEF NAT!End
  <2>4. at \in 0..MaxTime
    BY <1>2
  <2>5. a \in Answer
    BY <1>1, <1>5, <2>3, <2>4 DEF Answer
  <2>6. a.prefix = AskedPrefix /\ askedAt <= a.at
    BY <1>2, <1>5
  <2>7. leases' \subseteq Lease
    BY <1>2, <2>1
  <2> QED BY <1>3, <2>2, <2>5, <2>6, <2>7
<1>6. ASSUME NEW l \in leases, NEW at \in askedAt..now, l.prefix = AskedPrefix,
             NAT!Repeat(Connection, l, at)
      PROVE  P
  <2>1. l.ip \in PublicIPs /\ l.start \in Nat
    BY <1>2 DEF Lease
  <2> QED BY <1>5, <1>6, <2>1
<1>7. ASSUME NEW ip \in PublicIPs, NEW start \in 0..now, NEW at \in askedAt..now,
             NAT!RepeatLate(Connection, AskedPrefix, ip, start, at)
      PROVE  P
  <2> DEFINE l == [prefix |-> AskedPrefix, ip |-> ip, start |-> start]
  <2>1. l.ip \in PublicIPs /\ l.start \in Nat /\ l.prefix = AskedPrefix
    BY <1>2
  <2>2. NAT!Repeat(Connection, l, at)
    BY <1>7 DEF NAT!RepeatLate
  <2> HIDE DEF l
  <2> QED BY <1>5, <2>1, <2>2
<1> QED BY <1>4, <1>6, <1>7 DEF NATAnswers

LEMMA InitTypes == Init => TypeInv
<1> SUFFICES ASSUME Init PROVE TypeInv
  OBVIOUS
<1>1. TypeOK
  BY BoundsAreNat DEF Init, NAT!Init, TypeOK, NoReply, NoPacket, NoEntry, NoAddress, Nobody
<1>2. CallsNumbered /\ FilterHolds
  BY DEF Init, CallsNumbered, FilterHolds
<1> QED BY <1>1, <1>2 DEF TypeInv

(* A client's step keeps the types.                                          *)
LEMMA ThreadStepTypes ==
  ASSUME TypeInv, NEW t \in Thread, ThreadStep(t)
  PROVE  TypeInv'
<1>1. /\ clock \in 0..MaxTime /\ IspOf[t] \in Prefixes
      /\ calls \in Nat /\ calls <= MaxCalls /\ MaxCalls \in Nat
  BY IspOfIsFunction, BoundsAreNat DEF TypeInv, TypeOK
<1>2. CASE Resolve(t)
  <2>1. TypeOK'
    BY <1>1, <1>2 DEF TypeInv, TypeOK, Resolve, Goto, natVars, cacheVars, filterVars
  <2>2. CallsNumbered'
    <3>1. calls' = calls + 1 /\ queue' = queue
      BY <1>2 DEF Resolve, filterVars
    <3>2. ASSUME NEW u \in Thread, pc'[u] # "idle" PROVE call'[u] \in 1..calls'
      <4>1. CASE u = t
        BY <1>1, <1>2, <4>1 DEF Resolve, TypeInv, TypeOK
      <4>2. CASE u # t
        <5>1. pc'[u] = pc[u] /\ call'[u] = call[u]
          BY <1>2, <4>2 DEF Resolve, Goto, TypeInv, TypeOK
        <5>2. call[u] \in 1..calls
          BY <3>2, <5>1 DEF TypeInv, CallsNumbered
        <5> QED BY <1>1, <3>1, <5>1, <5>2
      <4> QED BY <4>1, <4>2
    <3>3. ASSUME NEW i \in 1..Len(queue) PROVE queue[i].call <= calls + 1
      <4>1. queue[i] \in Packet
        BY DEF TypeInv, TypeOK
      <4> QED BY <1>1, <4>1 DEF TypeInv, CallsNumbered, Packet
    <3> QED BY <3>1, <3>2, <3>3 DEF CallsNumbered
  <2>3. FilterHolds'
    <3>1. /\ UNCHANGED <<filterAt, handled, told>> /\ calls' = calls + 1
      BY <1>2 DEF Resolve, natVars, filterVars
    <3>2. filterAt # "idle" => handled.call <= calls + 1
      BY <1>1 DEF TypeInv, FilterHolds, Packet
    <3> QED BY <3>1, <3>2 DEF TypeInv, FilterHolds, AskedPrefix, Connection
  <2> QED BY <2>1, <2>2, <2>3 DEF TypeInv
<1>3. CASE FindCached(t)
  <2>1. cache[IspOf[t]] \in CacheEntry
    BY <1>1, <1>3 DEF FindCached, Cached, TypeInv, TypeOK
  <2>2. cache[IspOf[t]].ip \in PublicIPs
    BY <2>1 DEF CacheEntry
  <2>3. TypeOK'
    BY <1>3, <2>2 DEF FindCached, Goto, TypeInv, TypeOK, natVars, cacheVars, filterVars
  <2>4. CallsNumbered'
    BY <1>3 DEF FindCached, Goto, TypeInv, TypeOK, CallsNumbered, filterVars
  <2>5. FilterHolds'
    BY <1>3 DEF FindCached, TypeInv, FilterHolds, AskedPrefix, Connection, natVars, filterVars
  <2> QED BY <2>3, <2>4, <2>5 DEF TypeInv
<1>4. CASE SendQuery(t)
  <2> DEFINE q == [dst |-> t, call |-> call[t]]
  <2>1. call[t] \in 1..calls
    BY <1>4 DEF SendQuery, TypeInv, CallsNumbered
  <2>2. q \in Packet /\ q.call <= calls
    BY <1>1, <2>1 DEF Packet
  <2>3. queue \in Seq(Packet) /\ queue' \in {queue, Append(queue, q)}
    BY <1>4 DEF SendQuery, TypeInv, TypeOK
  <2>4. queue' \in Seq(Packet) /\ \A i \in 1..Len(queue') : queue'[i].call <= calls
    BY <2>2, <2>3, AppendOne DEF TypeInv, CallsNumbered
  <2>5. TypeOK'
    BY <1>4, <2>4 DEF SendQuery, Goto, TypeInv, TypeOK, natVars
  <2>6. CallsNumbered'
    BY <1>4, <2>4 DEF SendQuery, Goto, TypeInv, TypeOK, CallsNumbered
  <2>7. FilterHolds'
    BY <1>4 DEF SendQuery, TypeInv, FilterHolds, AskedPrefix, Connection, natVars
  <2> QED BY <2>5, <2>6, <2>7 DEF TypeInv
<1>5. CASE CacheAnswer(t)
  <2> DEFINE e == [ip |-> reply[t].ip, ttl |-> reply[t].ttl, timestamp |-> timestamp[t]]
  <2>1. call[t] \in 1..calls
    BY <1>5 DEF CacheAnswer, TypeInv, CallsNumbered
  <2>2. reply[t] \in Reply
    BY <1>1, <1>5, <2>1 DEF CacheAnswer, TypeInv, TypeOK, NoReply
  <2>3. e \in CacheEntry /\ reply[t].ip \in PublicIPs
    BY <2>2 DEF CacheEntry, Reply, TypeInv, TypeOK
  <2>4. TypeOK'
    BY <1>1, <1>5, <2>3 DEF CacheAnswer, Goto, TypeInv, TypeOK, natVars, filterVars
  <2>5. CallsNumbered'
    BY <1>5 DEF CacheAnswer, Goto, TypeInv, TypeOK, CallsNumbered, filterVars
  <2>6. FilterHolds'
    BY <1>5 DEF CacheAnswer, TypeInv, FilterHolds, AskedPrefix, Connection, natVars, filterVars
  <2> QED BY <2>4, <2>5, <2>6 DEF TypeInv
<1>6. CASE QueryTimesOut(t) \/ Connect(t)
  <2>1. TypeOK'
    <3>1. /\ pc' \in [Thread -> {"idle", "lock", "query", "connect"}]
          /\ addr' \in [Thread -> PublicIPs \cup {NoAddress}]
          /\ reply' \in [Thread -> Reply \cup {NoReply}]
      BY <1>6 DEF QueryTimesOut, Connect, EndCall, Goto, TypeInv, TypeOK
    <3>2. timestamp' \in [Thread -> 0..MaxTime]
      <4>1. timestamp' = [timestamp EXCEPT ![t] = 0]
        BY <1>6 DEF QueryTimesOut, Connect, EndCall
      <4>2. 0 \in 0..MaxTime
        BY BoundsAreNat
      <4> QED BY <4>1, <4>2 DEF TypeInv, TypeOK
    <3>3. rwlock' \in [Prefixes -> Thread \cup {Nobody}]
      BY <1>6 DEF QueryTimesOut, Connect, TypeInv, TypeOK, cacheVars
    <3> QED
      BY <1>6, <3>1, <3>2, <3>3
      DEF QueryTimesOut, Connect, TypeInv, TypeOK, natVars, cacheVars, filterVars
  <2>2. CallsNumbered'
    BY <1>6 DEF QueryTimesOut, Connect, EndCall, Goto, TypeInv, TypeOK, CallsNumbered, filterVars
  <2>3. FilterHolds'
    BY <1>6 DEF QueryTimesOut, Connect, TypeInv, FilterHolds, AskedPrefix, Connection,
                natVars, filterVars
  <2> QED BY <2>1, <2>2, <2>3 DEF TypeInv
<1> QED BY <1>2, <1>3, <1>4, <1>5, <1>6 DEF ThreadStep

(* A step of the filter, of the NAT or of a clock keeps the types.           *)
LEMMA OtherStepTypes ==
  ASSUME TypeInv, FilterStep \/ NATStep \/ TickNAT \/ TickClients
  PROVE  TypeInv'
<1>1. CASE HandlePacket
  <2>1. queue \in Seq(Packet) /\ queue # << >>
    BY <1>1 DEF HandlePacket, TypeInv, TypeOK
  <2>2. /\ handled' \in Packet /\ handled'.call <= calls /\ queue' \in Seq(Packet)
        /\ \A i \in 1..Len(queue') : queue'[i].call <= calls
    <3>1. 1 \in 1..Len(queue) /\ Len(queue') = Len(queue) - 1 /\ Len(queue) \in Nat
      BY <1>1, <2>1, HeadAndTail DEF HandlePacket
    <3>2. \A i \in 1..Len(queue') : i + 1 \in 1..Len(queue)
      BY <3>1
    <3> QED BY <1>1, <2>1, <3>1, <3>2, HeadAndTail DEF HandlePacket, TypeInv, CallsNumbered
  <2>3. TypeOK'
    BY <1>1, <2>2 DEF HandlePacket, TypeInv, TypeOK, natVars, cacheVars, threadVars
  <2>4. CallsNumbered' /\ FilterHolds'
    BY <1>1, <2>2 DEF HandlePacket, TypeInv, CallsNumbered, FilterHolds, threadVars
  <2> QED BY <2>3, <2>4 DEF TypeInv
<1>2. CASE SendReply
  <2> DEFINE a == told[Connection]
             r == [call |-> handled.call, ip |-> a.ip, ttl |-> a.ttl]
             u == handled.dst
  <2>1. a \in Answer /\ handled \in Packet
    BY <1>2 DEF SendReply, TypeInv, FilterHolds
  <2>2. r \in Reply
    BY <2>1 DEF Answer, Packet, Reply
  <2>3. reply' \in {reply, [reply EXCEPT ![u] = r]}
    BY <1>2 DEF SendReply
  <2>4. reply' \in [Thread -> Reply \cup {NoReply}]
    BY <2>2, <2>3 DEF TypeInv, TypeOK
  <2>5. TypeOK'
    BY <1>2, <2>4 DEF SendReply, TypeInv, TypeOK, natVars, cacheVars, threadVars
  <2>6. CallsNumbered' /\ FilterHolds'
    BY <1>2 DEF SendReply, TypeInv, CallsNumbered, FilterHolds, threadVars
  <2> QED BY <2>5, <2>6 DEF TypeInv
<1>3. CASE NATAnswers
  <2>1. now' = now
    BY <1>3 DEF NATAnswers, NAT!Grant, NAT!RepeatLate, NAT!Repeat
  <2>2. now \in 0..MaxTime /\ clock \in 0..now /\ now <= now
    BY DEF TypeInv, TypeOK
  <2>3. /\ UNCHANGED <<clock, cacheVars, threadVars, reply, queue, handled, askedAt>>
        /\ filterAt = "asking" /\ filterAt' = "told"
    BY <1>3 DEF NATAnswers
  <2> QED BY <1>3, <2>1, <2>2, <2>3, AnswerTypes, NATTypes
<1>4. CASE RetireLease
  <2>1. leases' \subseteq leases /\ UNCHANGED <<now, told>>
    BY <1>4 DEF RetireLease, NAT!Retire
  <2> QED BY <1>4, <2>1, NATTypes DEF RetireLease, TypeInv, TypeOK, filterVars
<1>5. CASE TickNAT
  BY <1>5, NATTypes, BoundsAreNat DEF TickNAT, NAT!TimePasses, TypeInv, TypeOK, filterVars
<1>6. CASE TickClients
  BY <1>6, NATTypes DEF TickClients, TypeInv, TypeOK, filterVars, natVars
<1> QED BY <1>1, <1>2, <1>3, <1>4, <1>5, <1>6 DEF FilterStep, NATStep

LEMMA Typed == Spec => []TypeInv
<1>1. ASSUME TypeInv, [Next]_vars PROVE TypeInv'
  <2>1. CASE UNCHANGED vars
    BY <1>1, <2>1 DEF vars, natVars, cacheVars, threadVars, filterVars, TypeInv, TypeOK,
                      CallsNumbered, FilterHolds, AskedPrefix, Connection
  <2> QED BY <1>1, <2>1, ThreadStepTypes, OtherStepTypes DEF Next
<1> QED BY <1>1, InitTypes, PTL DEF Spec

(* Every variable keeps its type: the seconds the clients are told, and the  *)
(* seconds their caches keep, are those of a lease that has some left.       *)
THEOREM TypeCorrect == Spec => []TypeOK
<1>1. TypeInv => TypeOK
  BY DEF TypeInv
<1> QED BY <1>1, Typed, PTL
-----------------------------------------------------------------------------
(* What backs an answer with ip for p that is good until a time: a lease     *)
(* kept at least so long, unless a grace period has gone by since.           *)
Backed(p, ip, until, kept, time) ==
  \/ time >= until + GRACE
  \/ \E l \in kept : l.prefix = p /\ l.ip = ip /\ NAT!End(l) >= until

Clocks ==
  /\ clock \in {now - 1, now}
  /\ \A t \in Thread : timestamp[t] <= clock
  /\ \A l \in leases : l.start <= now

(* The filter asks after the thread it will answer has read the clock.       *)
AskedLater ==
  filterAt # "idle" /\ handled.call = call[handled.dst]
    => timestamp[handled.dst] <= askedAt

ToldBacked ==
  filterAt = "told" =>
    /\ askedAt <= told[Connection].at
    /\ Backed(told[Connection].prefix, told[Connection].ip,
              told[Connection].at + told[Connection].ttl, leases, now)

RepliesBacked ==
  \A t \in Thread :
    reply[t] # NoReply =>
      /\ pc[t] = "query"
      /\ Backed(IspOf[t], reply[t].ip, timestamp[t] + reply[t].ttl, leases, now)

CachesBacked ==
  \A p \in Prefixes :
    cache[p] # NoEntry =>
      Backed(p, cache[p].ip, cache[p].timestamp + cache[p].ttl, leases, now)

AddressesBacked ==
  \A t \in Thread :
    pc[t] = "connect" => Backed(IspOf[t], addr[t], timestamp[t], leases, now)

BackInv ==
  /\ Clocks
  /\ AskedLater
  /\ ToldBacked
  /\ RepliesBacked
  /\ CachesBacked
  /\ AddressesBacked
  /\ NAT!LeasesDisjoint

(* The numbers and the fields of what is backed.                             *)
LEMMA Numbers ==
  ASSUME TypeInv
  PROVE  /\ now \in Nat /\ clock \in Nat /\ EXPIRATION \in Nat \ {0} /\ GRACE \in Nat \ {0}
         /\ \A l \in leases : l.start \in Nat /\ NAT!End(l) \in Nat
         /\ \A t \in Thread : timestamp[t] \in Nat /\ IspOf[t] \in Prefixes
         /\ \A t \in Thread : reply[t] # NoReply => reply[t].ttl \in Nat
         /\ \A p \in Prefixes :
              cache[p] # NoEntry => cache[p].timestamp \in Nat /\ cache[p].ttl \in Nat
         /\ filterAt = "told" => told[Connection].at \in Nat /\ told[Connection].ttl \in Nat
<1>1. now \in Nat /\ clock \in Nat /\ EXPIRATION \in Nat \ {0} /\ GRACE \in Nat \ {0}
  BY PeriodsAreNat, BoundsAreNat DEF TypeInv, TypeOK
<1>2. \A l \in leases : l.start \in Nat /\ NAT!End(l) \in Nat
  BY <1>1, BoundsAreNat DEF TypeInv, TypeOK, Lease, NAT!End
<1>3. \A t \in Thread : timestamp[t] \in Nat /\ IspOf[t] \in Prefixes
  BY IspOfIsFunction, BoundsAreNat DEF TypeInv, TypeOK
<1>4. \A t \in Thread : reply[t] # NoReply => reply[t].ttl \in Nat
  BY <1>1 DEF TypeInv, TypeOK, Reply
<1>5. \A p \in Prefixes :
        cache[p] # NoEntry => cache[p].timestamp \in Nat /\ cache[p].ttl \in Nat
  BY <1>1, BoundsAreNat DEF TypeInv, TypeOK, CacheEntry
<1>6. filterAt = "told" => told[Connection].at \in Nat /\ told[Connection].ttl \in Nat
  BY <1>1, BoundsAreNat DEF TypeInv, FilterHolds, Answer
<1> QED BY <1>1, <1>2, <1>3, <1>4, <1>5, <1>6

(* Time and new leases take no backing away; a retirement takes only one     *)
(* whose grace period is over.                                               *)
LEMMA BackingLasts ==
  ASSUME TypeInv, now' \in {now, now + 1},
         \A l \in leases \ leases' : now' >= NAT!End(l) + GRACE,
         NEW p, NEW ip, NEW until \in Int, Backed(p, ip, until, leases, now)
  PROVE  Backed(p, ip, until, leases', now')
<1>1. /\ now \in Nat /\ GRACE \in Nat
      /\ \A l \in leases : NAT!End(l) \in Nat
  BY Numbers
<1>2. CASE now >= until + GRACE
  BY <1>1, <1>2 DEF Backed
<1>3. ASSUME NEW l \in leases, l.prefix = p, l.ip = ip, NAT!End(l) >= until
      PROVE  Backed(p, ip, until, leases', now')
  <2>1. CASE l \in leases'
    BY <1>3, <2>1 DEF Backed
  <2>2. CASE l \notin leases'
    BY <1>1, <1>3, <2>2 DEF Backed
  <2> QED BY <2>1, <2>2
<1> QED BY <1>2, <1>3 DEF Backed

(* What is backed until a time is backed until any earlier one.              *)
LEMMA BackedEarlier ==
  ASSUME TypeInv, NEW p, NEW ip, NEW until \in Int, NEW earlier \in Int, earlier <= until,
         Backed(p, ip, until, leases, now)
  PROVE  Backed(p, ip, earlier, leases, now)
BY Numbers DEF Backed

(* A step of one thread, with what it has to show for that thread alone.     *)
LEMMA OneThread ==
  ASSUME TypeInv, BackInv, NEW t \in Thread,
         UNCHANGED <<now, leases, told, clock, handled, filterAt, askedAt>>,
         \A u \in Thread \ {t} : /\ pc'[u] = pc[u] /\ timestamp'[u] = timestamp[u]
                                 /\ addr'[u] = addr[u] /\ reply'[u] = reply[u]
                                 /\ call'[u] = call[u],
         timestamp'[t] <= clock,
         \/ call'[t] = call[t] /\ timestamp'[t] \in {timestamp[t], 0}
         \/ call'[t] = calls + 1,
         reply'[t] # NoReply =>
           pc'[t] = "query" /\ reply'[t] = reply[t] /\ timestamp'[t] = timestamp[t],
         pc'[t] = "connect" => Backed(IspOf[t], addr'[t], timestamp'[t], leases, now),
         \A p \in Prefixes :
           \/ cache'[p] = cache[p]
           \/ Backed(p, cache'[p].ip, cache'[p].timestamp + cache'[p].ttl, leases, now)
  PROVE  BackInv'
<1>1. Clocks'
  BY DEF BackInv, Clocks
<1>2. AskedLater'
  <2>1. CASE filterAt = "idle"
    BY <2>1 DEF AskedLater
  <2>2. CASE filterAt # "idle"
    <3>1. handled.dst \in Thread /\ handled.call \in Nat /\ handled.call <= calls
      BY <2>2 DEF TypeInv, FilterHolds, Packet
    <3>2. calls \in Nat /\ askedAt \in Nat
      BY BoundsAreNat, Numbers DEF TypeInv, TypeOK
    <3>3. CASE handled.dst = t
      BY <2>2, <3>1, <3>2, <3>3 DEF BackInv, AskedLater
    <3>4. CASE handled.dst # t
      BY <2>2, <3>1, <3>4 DEF BackInv, AskedLater
    <3> QED BY <3>3, <3>4
  <2> QED BY <2>1, <2>2
<1>3. ToldBacked'
  BY DEF BackInv, ToldBacked, Connection
<1>4. RepliesBacked'
  BY DEF BackInv, RepliesBacked
<1>5. CachesBacked'
  BY DEF BackInv, CachesBacked
<1>6. AddressesBacked'
  BY DEF BackInv, AddressesBacked
<1>7. NAT!LeasesDisjoint'
  BY DEF BackInv, NAT!LeasesDisjoint
<1> QED BY <1>1, <1>2, <1>3, <1>4, <1>5, <1>6, <1>7 DEF BackInv

LEMMA ThreadStepBacks ==
  ASSUME TypeInv, BackInv, NEW t \in Thread, ThreadStep(t)
  PROVE  BackInv'
<1>1. /\ clock \in Nat /\ IspOf[t] \in Prefixes /\ timestamp[t] \in Nat
      /\ timestamp[t] <= clock
  BY Numbers DEF BackInv, Clocks
<1>2. CASE Resolve(t)
  <2>1. reply[t] = NoReply
    BY <1>2 DEF Resolve, BackInv, RepliesBacked
  <2>2. /\ timestamp'[t] = clock /\ call'[t] = calls + 1 /\ pc'[t] = "lock"
        /\ reply' = reply /\ cache' = cache
    BY <1>2 DEF Resolve, Goto, TypeInv, TypeOK, cacheVars
  <2>3. UNCHANGED <<now, leases, told, clock, handled, filterAt, askedAt>>
    BY <1>2 DEF Resolve, natVars, filterVars
  <2>4. \A u \in Thread \ {t} : /\ pc'[u] = pc[u] /\ timestamp'[u] = timestamp[u]
                                /\ addr'[u] = addr[u] /\ reply'[u] = reply[u]
                                /\ call'[u] = call[u]
    BY <1>2 DEF Resolve, Goto, TypeInv, TypeOK
  <2> QED BY <1>1, <2>1, <2>2, <2>3, <2>4, OneThread
<1>3. CASE FindCached(t)
  <2> DEFINE e == cache[IspOf[t]]
  <2>1. /\ e # NoEntry /\ timestamp[t] <= e.timestamp + e.ttl
        /\ addr'[t] = e.ip /\ pc'[t] = "connect" /\ pc[t] = "lock"
    BY <1>3 DEF FindCached, Cached, Goto, TypeInv, TypeOK
  <2>2. Backed(IspOf[t], e.ip, timestamp[t], leases, now)
    <3>1. Backed(IspOf[t], e.ip, e.timestamp + e.ttl, leases, now)
      BY <1>1, <2>1 DEF BackInv, CachesBacked
    <3>2. e.timestamp + e.ttl \in Int
      BY <1>1, <2>1, Numbers
    <3> QED BY <1>1, <2>1, <3>1, <3>2, BackedEarlier
  <2>3. reply[t] = NoReply /\ UNCHANGED <<reply, cache, timestamp, call>>
    BY <1>3, <2>1 DEF FindCached, BackInv, RepliesBacked, cacheVars
  <2>4. UNCHANGED <<now, leases, told, clock, handled, filterAt, askedAt>>
    BY <1>3 DEF FindCached, natVars, filterVars
  <2>5. \A u \in Thread \ {t} : /\ pc'[u] = pc[u] /\ timestamp'[u] = timestamp[u]
                                /\ addr'[u] = addr[u] /\ reply'[u] = reply[u]
                                /\ call'[u] = call[u]
    BY <1>3 DEF FindCached, Goto, TypeInv, TypeOK
  <2> QED BY <1>1, <2>1, <2>2, <2>3, <2>4, <2>5, OneThread
<1>4. CASE SendQuery(t)
  <2>1. pc[t] = "lock" /\ pc'[t] = "query"
    BY <1>4 DEF SendQuery, Goto, TypeInv, TypeOK
  <2>2. reply[t] = NoReply /\ UNCHANGED <<reply, cache, timestamp, call>>
    BY <1>4, <2>1 DEF SendQuery, BackInv, RepliesBacked
  <2>3. UNCHANGED <<now, leases, told, clock, handled, filterAt, askedAt>>
    BY <1>4 DEF SendQuery, natVars
  <2>4. \A u \in Thread \ {t} : /\ pc'[u] = pc[u] /\ timestamp'[u] = timestamp[u]
                                /\ addr'[u] = addr[u] /\ reply'[u] = reply[u]
                                /\ call'[u] = call[u]
    BY <1>4 DEF SendQuery, Goto, TypeInv, TypeOK
  <2> QED BY <1>1, <2>1, <2>2, <2>3, <2>4, OneThread
<1>5. CASE CacheAnswer(t)
  <2> DEFINE r == reply[t]
             e == [ip |-> r.ip, ttl |-> r.ttl, timestamp |-> timestamp[t]]
  <2>1. r # NoReply
    BY <1>5 DEF CacheAnswer, TypeInv, CallsNumbered, NoReply
  <2>2. Backed(IspOf[t], r.ip, timestamp[t] + r.ttl, leases, now)
    BY <2>1 DEF BackInv, RepliesBacked
  <2>3. Backed(IspOf[t], r.ip, timestamp[t], leases, now)
    BY <1>1, <2>1, <2>2, Numbers, BackedEarlier
  <2>4. /\ addr'[t] = r.ip /\ pc'[t] = "connect" /\ reply'[t] = NoReply
        /\ UNCHANGED <<timestamp, call>>
    BY <1>5 DEF CacheAnswer, Goto, TypeInv, TypeOK
  <2>5. /\ cache'[IspOf[t]] = e /\ e.ip = r.ip /\ e.timestamp + e.ttl = timestamp[t] + r.ttl
        /\ \A p \in Prefixes \ {IspOf[t]} : cache'[p] = cache[p]
    BY <1>1, <1>5 DEF CacheAnswer, TypeInv, TypeOK
  <2>6. \A p \in Prefixes :
          \/ cache'[p] = cache[p]
          \/ Backed(p, cache'[p].ip, cache'[p].timestamp + cache'[p].ttl, leases, now)
    BY <2>2, <2>5
  <2>7. UNCHANGED <<now, leases, told, clock, handled, filterAt, askedAt>>
    BY <1>5 DEF CacheAnswer, natVars, filterVars
  <2>8. \A u \in Thread \ {t} : /\ pc'[u] = pc[u] /\ timestamp'[u] = timestamp[u]
                                /\ addr'[u] = addr[u] /\ reply'[u] = reply[u]
                                /\ call'[u] = call[u]
    BY <1>5 DEF CacheAnswer, Goto, TypeInv, TypeOK
  <2> QED BY <1>1, <2>3, <2>4, <2>6, <2>7, <2>8, OneThread
<1>6. CASE QueryTimesOut(t) \/ Connect(t)
  <2>1. /\ pc'[t] = "idle" /\ timestamp'[t] = 0 /\ reply'[t] = NoReply
        /\ UNCHANGED <<cache, call>>
    BY <1>6 DEF QueryTimesOut, Connect, EndCall, Goto, TypeInv, TypeOK, cacheVars
  <2>2. UNCHANGED <<now, leases, told, clock, handled, filterAt, askedAt>>
    BY <1>6 DEF QueryTimesOut, Connect, natVars, filterVars
  <2>3. \A u \in Thread \ {t} : /\ pc'[u] = pc[u] /\ timestamp'[u] = timestamp[u]
                                /\ addr'[u] = addr[u] /\ reply'[u] = reply[u]
                                /\ call'[u] = call[u]
    BY <1>6 DEF QueryTimesOut, Connect, EndCall, Goto, TypeInv, TypeOK
  <2> QED BY <1>1, <2>1, <2>2, <2>3, OneThread
<1> QED BY <1>2, <1>3, <1>4, <1>5, <1>6 DEF ThreadStep

(* A step that changes neither the clients nor the filter's question.        *)
LEMMA ClientsStayBacked ==
  ASSUME TypeInv, BackInv, now' \in {now, now + 1}, clock' \in {now' - 1, now'}, clock <= clock',
         \A l \in leases \ leases' : now' >= NAT!End(l) + GRACE,
         \A l \in leases' : l.start <= now',
         UNCHANGED <<cacheVars, threadVars, reply>>
  PROVE  Clocks' /\ RepliesBacked' /\ CachesBacked' /\ AddressesBacked'
<1>1. Clocks'
  BY Numbers DEF BackInv, Clocks, threadVars
<1>2. RepliesBacked'
  <2>1. ASSUME NEW t \in Thread, reply[t] # NoReply
        PROVE  /\ pc[t] = "query"
               /\ Backed(IspOf[t], reply[t].ip, timestamp[t] + reply[t].ttl, leases', now')
    BY <2>1, Numbers, BackingLasts DEF BackInv, RepliesBacked
  <2> QED BY <2>1 DEF RepliesBacked, threadVars
<1>3. CachesBacked'
  <2>1. ASSUME NEW p \in Prefixes, cache[p] # NoEntry
        PROVE  Backed(p, cache[p].ip, cache[p].timestamp + cache[p].ttl, leases', now')
    BY <2>1, Numbers, BackingLasts DEF BackInv, CachesBacked
  <2> QED BY <2>1 DEF CachesBacked, cacheVars
<1>4. AddressesBacked'
  <2>1. ASSUME NEW t \in Thread, pc[t] = "connect"
        PROVE  Backed(IspOf[t], addr[t], timestamp[t], leases', now')
    BY <2>1, Numbers, BackingLasts DEF BackInv, AddressesBacked
  <2> QED BY <2>1 DEF AddressesBacked, threadVars
<1> QED BY <1>1, <1>2, <1>3, <1>4

(* The NAT's answer is backed by the lease it names, and its leases of an    *)
(* address do not overlap.                                                  *)
LEMMA AnswerBacks ==
  ASSUME TypeInv, BackInv, NATAnswers
  PROVE  /\ ToldBacked' /\ NAT!LeasesDisjoint'
         /\ now' = now /\ leases \subseteq leases' /\ \A l \in leases' : l.start <= now
<1> DEFINE a == told'[Connection]
           P == /\ Backed(a.prefix, a.ip, a.at + a.ttl, leases', now')
                /\ NAT!LeasesDisjoint'
                /\ now' = now /\ leases \subseteq leases' /\ \A l \in leases' : l.start <= now
<1>1. /\ told \in [{Connection} -> Answer \cup {NoAnswer}] /\ askedAt \in 0..now
      /\ \A l \in leases : l.start <= now
  BY DEF TypeInv, TypeOK, BackInv, Clocks
<1>2. ASSUME NEW ip \in PublicIPs, NEW start \in askedAt..now,
             NAT!Grant(Connection, AskedPrefix, ip, start)
      PROVE  P
  <2> DEFINE g == [prefix |-> AskedPrefix, ip |-> ip, start |-> start]
             b == [prefix |-> AskedPrefix, ip |-> ip, at |-> start, ttl |-> EXPIRATION]
  <2>1. /\ leases' = leases \cup {g} /\ now' = now /\ start \in Nat /\ start <= now
        /\ \A l \in leases : l.ip = ip => NAT!End(l) < start
    BY <1>1, <1>2, Numbers DEF NAT!Grant
  <2>2. a = b
    BY <1>1, <1>2 DEF NAT!Grant
  <2>3. g.prefix = a.prefix /\ g.ip = a.ip /\ NAT!End(g) = a.at + a.ttl
    BY <2>2 DEF NAT!End
  <2>4. NAT!End(g) \in Nat
    BY <2>1, Numbers DEF NAT!End
  <2>5. Backed(a.prefix, a.ip, a.at + a.ttl, leases', now')
    BY <2>1, <2>3, <2>4 DEF Backed
  <2>6. NAT!LeasesDisjoint'
    BY <2>1, Numbers DEF BackInv, NAT!LeasesDisjoint, NAT!End
  <2>7. \A l \in leases' : l.start <= now
    BY <1>1, <2>1
  <2> QED BY <2>1, <2>5, <2>6, <2>7
<1>3. ASSUME NEW l, NEW at \in askedAt..now, NAT!Repeat(Connection, l, at), l.start \in Nat,
             now >= NAT!End(l) + GRACE \/ l \in leases
      PROVE  P
  <2> DEFINE b == [prefix |-> l.prefix, ip |-> l.ip, at |-> at, ttl |-> NAT!End(l) - at]
  <2>1. now' = now /\ leases' = leases
    BY <1>3 DEF NAT!Repeat
  <2>2. told' = [told EXCEPT ![Connection] = b]
    BY <1>3 DEF NAT!Repeat
  <2>3. a = b
    BY <1>1, <2>2
  <2>4. NAT!End(l) \in Nat /\ at \in Int
    BY <1>1, <1>3, Numbers DEF NAT!End
  <2>5. a.prefix = l.prefix /\ a.ip = l.ip /\ a.at + a.ttl = NAT!End(l)
    BY <2>3, <2>4
  <2>6. Backed(a.prefix, a.ip, NAT!End(l), leases', now')
    BY <1>3, <2>1, <2>4, <2>5 DEF Backed
  <2>7. NAT!LeasesDisjoint'
    BY <2>1 DEF BackInv, NAT!LeasesDisjoint
  <2> QED BY <1>1, <2>1, <2>5, <2>6, <2>7
<1>4. ASSUME NEW ip \in PublicIPs, NEW start \in 0..now, NEW at \in askedAt..now,
             NAT!RepeatLate(Connection, AskedPrefix, ip, start, at)
      PROVE  P
  <2> DEFINE l == [prefix |-> AskedPrefix, ip |-> ip, start |-> start]
  <2>1. l.start \in Nat /\ now >= NAT!End(l) + GRACE
    BY <1>4 DEF NAT!RepeatLate, NAT!End
  <2>2. NAT!Repeat(Connection, l, at)
    BY <1>4 DEF NAT!RepeatLate
  <2> HIDE DEF l
  <2> QED BY <1>3, <2>1, <2>2
<1>5. P
  BY <1>2, <1>3, <1>4, Numbers DEF NATAnswers
<1>6. askedAt' = askedAt /\ askedAt <= a.at
  BY AnswerTypes DEF NATAnswers
<1> QED BY <1>5, <1>6 DEF ToldBacked

LEMMA OtherStepBacks ==
  ASSUME TypeInv, BackInv, FilterStep \/ NATStep \/ TickNAT \/ TickClients
  PROVE  BackInv'
<1>1. /\ now \in Nat /\ clock \in {now - 1, now} /\ clock \in Nat
      /\ \A l \in leases : l.start <= now
  BY Numbers DEF BackInv, Clocks
<1>2. CASE HandlePacket
  <2>1. /\ UNCHANGED <<now, leases, clock, cacheVars, threadVars, reply>>
        /\ askedAt' = now /\ filterAt' = "asking"
    BY <1>2 DEF HandlePacket, natVars
  <2>2. AskedLater'
    <3>1. handled'.dst \in Thread
      <4>1. handled' \in Packet
        BY <1>2, HeadAndTail DEF HandlePacket, TypeInv, TypeOK
      <4> QED BY <4>1 DEF Packet
    <3>2. timestamp[handled'.dst] <= now
      BY <1>1, <3>1, Numbers DEF BackInv, Clocks
    <3> QED BY <2>1, <3>2 DEF AskedLater, threadVars
  <2>3. ToldBacked' /\ NAT!LeasesDisjoint'
    BY <2>1 DEF ToldBacked, BackInv, NAT!LeasesDisjoint
  <2> QED BY <1>1, <2>1, <2>2, <2>3, ClientsStayBacked DEF BackInv
<1>3. CASE SendReply
  <2> DEFINE u == handled.dst
             a == told[Connection]
             r == [call |-> handled.call, ip |-> a.ip, ttl |-> a.ttl]
  <2>1. /\ UNCHANGED <<now, leases, clock, cacheVars, threadVars>>
        /\ filterAt = "told" /\ filterAt' = "idle"
        /\ reply' \in {reply, [reply EXCEPT ![u] = r]}
        /\ reply' # reply => pc[u] = "query" /\ call[u] = handled.call
    BY <1>3 DEF SendReply, natVars
  <2>2. u \in Thread /\ a.prefix = IspOf[u]
    BY <2>1 DEF TypeInv, FilterHolds, Packet, AskedPrefix
  <2>3. ASSUME reply' # reply
        PROVE  Backed(IspOf[u], a.ip, timestamp[u] + a.ttl, leases, now)
    <3>1. timestamp[u] <= askedAt /\ askedAt <= a.at
      BY <2>1, <2>3 DEF BackInv, AskedLater, ToldBacked
    <3>2. askedAt \in Nat /\ timestamp[u] \in Nat /\ a.at \in Nat /\ a.ttl \in Nat
      BY <2>1, <2>2, Numbers DEF TypeInv, TypeOK
    <3>3. Backed(IspOf[u], a.ip, a.at + a.ttl, leases, now)
      BY <2>1, <2>2 DEF BackInv, ToldBacked
    <3>4. /\ a.at + a.ttl \in Int /\ timestamp[u] + a.ttl \in Int
          /\ timestamp[u] + a.ttl <= a.at + a.ttl
      BY <3>1, <3>2
    <3> QED BY <3>3, <3>4, BackedEarlier
  <2>4. RepliesBacked'
    <3>1. ASSUME NEW t \in Thread, reply'[t] # NoReply
          PROVE  /\ pc[t] = "query"
                 /\ Backed(IspOf[t], reply'[t].ip, timestamp[t] + reply'[t].ttl, leases, now)
      <4>1. CASE reply'[t] = reply[t]
        BY <3>1, <4>1 DEF BackInv, RepliesBacked
      <4>2. CASE reply'[t] # reply[t]
        <5>1. t = u /\ reply'[t] = r
          BY <2>1, <2>2, <4>2 DEF TypeInv, TypeOK
        <5> QED BY <2>1, <2>3, <4>2, <5>1
      <4> QED BY <4>1, <4>2
    <3> QED BY <2>1, <3>1 DEF RepliesBacked, threadVars
  <2>5. Clocks' /\ CachesBacked' /\ AddressesBacked'
    BY <2>1 DEF BackInv, Clocks, CachesBacked, AddressesBacked, cacheVars, threadVars
  <2>6. AskedLater' /\ ToldBacked' /\ NAT!LeasesDisjoint'
    BY <2>1 DEF AskedLater, ToldBacked, BackInv, NAT!LeasesDisjoint
  <2> QED BY <2>4, <2>5, <2>6 DEF BackInv
<1>4. CASE NATAnswers
  <2>1. UNCHANGED <<clock, cacheVars, threadVars, reply, handled, askedAt>> /\ filterAt = "asking"
    BY <1>4 DEF NATAnswers
  <2>2. AskedLater'
    BY <2>1 DEF BackInv, AskedLater, threadVars
  <2> QED BY <1>1, <1>4, <2>1, <2>2, AnswerBacks, ClientsStayBacked DEF BackInv
<1>5. CASE RetireLease
  <2>1. /\ UNCHANGED <<now, told, clock, cacheVars, threadVars, reply, handled, filterAt, askedAt>>
        /\ leases' \subseteq leases
        /\ \A l \in leases \ leases' : now >= NAT!End(l) + GRACE
    BY <1>5 DEF RetireLease, NAT!Retire, filterVars
  <2>2. AskedLater'
    BY <2>1 DEF BackInv, AskedLater, threadVars
  <2>3. ToldBacked'
    BY <2>1, Numbers, BackingLasts DEF BackInv, ToldBacked
  <2>4. NAT!LeasesDisjoint'
    BY <2>1 DEF BackInv, NAT!LeasesDisjoint
  <2> QED BY <1>1, <2>1, <2>2, <2>3, <2>4, ClientsStayBacked DEF BackInv
<1>6. CASE TickNAT \/ TickClients
  <2>1. /\ UNCHANGED <<leases, told, cacheVars, threadVars, reply, handled, filterAt, askedAt>>
        /\ now' \in {now, now + 1} /\ clock' \in {now' - 1, now'} /\ clock <= clock'
    BY <1>1, <1>6 DEF TickNAT, TickClients, NAT!TimePasses, filterVars, natVars
  <2>2. AskedLater'
    BY <2>1 DEF BackInv, AskedLater, threadVars
  <2>3. ToldBacked'
    BY <2>1, Numbers, BackingLasts DEF BackInv, ToldBacked
  <2>4. NAT!LeasesDisjoint'
    BY <2>1 DEF BackInv, NAT!LeasesDisjoint
  <2>5. \A l \in leases' : l.start <= now'
    BY <1>1, <2>1, Numbers
  <2> QED BY <2>1, <2>2, <2>3, <2>4, <2>5, ClientsStayBacked DEF BackInv
<1> QED BY <1>2, <1>3, <1>4, <1>5, <1>6 DEF FilterStep, NATStep

LEMMA AllBacked == Spec => []BackInv
<1>1. Init => BackInv
  <2> SUFFICES ASSUME Init PROVE BackInv
    OBVIOUS
  <2>1. Clocks
    BY DEF Init, NAT!Init, Clocks
  <2>2. AskedLater /\ ToldBacked /\ RepliesBacked /\ CachesBacked /\ AddressesBacked
    BY DEF Init, AskedLater, ToldBacked, RepliesBacked, CachesBacked, AddressesBacked
  <2>3. NAT!LeasesDisjoint
    BY DEF Init, NAT!Init, NAT!LeasesDisjoint
  <2> QED BY <2>1, <2>2, <2>3 DEF BackInv
<1>2. ASSUME TypeInv, BackInv, [Next]_vars PROVE BackInv'
  <2>1. CASE UNCHANGED vars
    BY <1>2, <2>1
    DEF vars, natVars, cacheVars, threadVars, filterVars, BackInv, Clocks, AskedLater,
        ToldBacked, RepliesBacked, CachesBacked, AddressesBacked, NAT!LeasesDisjoint, Connection
  <2> QED BY <1>2, <2>1, ThreadStepBacks, OtherStepBacks DEF Next
<1> QED BY <1>1, <1>2, Typed, PTL DEF Spec

(* A thread that connects does so to an address leased to its ISP, unless it *)
(* was held up for the grace period since resolve read the clock: whatever   *)
(* the threads, the filter and the NAT do meanwhile, and however many there  *)
(* are.                                                                     *)
THEOREM ConnectionsReachLeases == Spec => ConnectsToLease
<1>1. ASSUME TypeInv, BackInv, NEW t \in Thread, Connect(t)
      PROVE  clock >= timestamp[t] + GRACE - 1 \/ Leased(IspOf[t], addr[t])
  <2>1. Backed(IspOf[t], addr[t], timestamp[t], leases, now)
    BY <1>1 DEF Connect, BackInv, AddressesBacked
  <2>2. CASE now >= timestamp[t] + GRACE
    BY <1>1, <2>2, Numbers DEF BackInv, Clocks
  <2> QED BY <2>1, <2>2 DEF Backed, Leased
<1>2. TypeInv /\ BackInv /\ [Next]_vars =>
        [\A t \in Thread :
           Connect(t) =>
             \/ clock >= timestamp[t] + GRACE - 1
             \/ Leased(IspOf[t], addr[t])]_vars
  BY <1>1
<1> QED BY <1>2, Typed, AllBacked, PTL DEF Spec, ConnectsToLease

(* When an address moves from one ISP to another, the first one's caches     *)
(* have it for the last second of its lease at the most.                    *)
THEOREM CachesKeepApart == Spec => []AddressesApart
<1>1. ASSUME TypeInv, BackInv PROVE AddressesApart
  <2> SUFFICES ASSUME NEW p \in Prefixes, NEW q \in Prefixes, p # q,
                      cache[p].ip = cache[q].ip, cache[p] # NoEntry
               PROVE  \/ clock >= cache[p].timestamp + cache[p].ttl
                      \/ clock >= cache[q].timestamp + cache[q].ttl
    BY DEF AddressesApart
  <2> DEFINE until(x) == cache[x].timestamp + cache[x].ttl
  <2>1. /\ now \in Nat /\ clock \in Nat /\ clock >= now - 1 /\ GRACE \in Nat \ {0}
        /\ \A l \in leases : /\ l.start \in Nat /\ l.start <= now
                            /\ NAT!End(l) \in Nat
    BY <1>1, Numbers DEF BackInv, Clocks
  <2>2. CASE cache[q] = NoEntry
    BY <2>1, <2>2 DEF NoEntry
  <2>3. CASE cache[q] # NoEntry
    <3>1. until(p) \in Nat /\ until(q) \in Nat
      BY <1>1, <2>3, Numbers
    <3>2. /\ Backed(p, cache[p].ip, until(p), leases, now)
          /\ Backed(q, cache[p].ip, until(q), leases, now)
      BY <1>1, <2>3 DEF BackInv, CachesBacked
    <3>3. CASE now >= until(p) + GRACE \/ now >= until(q) + GRACE
      BY <2>1, <3>1, <3>3
    <3>4. ASSUME NEW l \in leases, NEW m \in leases, l.prefix = p, m.prefix = q,
                 l.ip = m.ip, NAT!End(l) >= until(p), NAT!End(m) >= until(q)
          PROVE  clock >= until(p) \/ clock >= until(q)
      <4>1. NAT!End(l) < m.start \/ NAT!End(m) < l.start
        BY <1>1, <3>4 DEF BackInv, NAT!LeasesDisjoint
      <4> QED BY <2>1, <3>1, <3>4, <4>1
    <3> QED BY <3>2, <3>3, <3>4 DEF Backed
  <2> QED BY <2>2, <2>3
<1> QED BY <1>1, Typed, AllBacked, PTL
-----------------------------------------------------------------------------
(* The filter uses the NAT as the lease service it is: whatever the rest of  *)
(* the deployment does, the NAT's variables go through a behaviour of a      *)
(* LeaseService with the filter's connection as its one client.  What holds  *)
(* of every LeaseService holds of the one in the deployment.                 *)
THEOREM DeploymentUsesLeaseService == Spec => NAT!Spec
<1> USE DEF natVars, cacheVars, threadVars, filterVars
<1>1. Init => NAT!Init
  BY DEF Init
<1>2. ASSUME TypeInv, [Next]_vars PROVE [NAT!Next]_(NAT!vars)
  <2>1. CASE UNCHANGED natVars
    BY <2>1 DEF NAT!vars
  <2>2. ASSUME NEW t \in Thread, ThreadStep(t) PROVE UNCHANGED natVars
    BY <2>2 DEF ThreadStep, Resolve, FindCached, SendQuery, CacheAnswer, QueryTimesOut, Connect
  <2>3. CASE FilterStep
    BY <2>1, <2>3 DEF FilterStep, HandlePacket, SendReply
  <2>4. CASE NATAnswers
    <3>1. AskedPrefix \in Prefixes
      BY <1>2, <2>4, IspOfIsFunction DEF TypeInv, FilterHolds, NATAnswers, AskedPrefix, Packet
    <3>2. now \in Nat /\ askedAt \in Nat /\ askedAt <= now /\ leases \subseteq Lease
      BY <1>2 DEF TypeInv, TypeOK
    <3>3. ASSUME NEW ip \in PublicIPs, NEW start \in askedAt..now,
                 NAT!Grant(Connection, AskedPrefix, ip, start)
          PROVE  NAT!Next
      <4>1. start \in 0..now
        BY <3>2
      <4> QED BY <3>1, <3>3, <4>1 DEF NAT!Next
    <3>4. ASSUME NEW l \in leases, NEW at \in askedAt..now, NAT!Repeat(Connection, l, at)
          PROVE  NAT!Next
      <4>1. at \in l.start..now
        BY <3>4 DEF NAT!Repeat
      <4> QED BY <3>4, <4>1 DEF NAT!Next
    <3>5. ASSUME NEW ip \in PublicIPs, NEW start \in 0..now, NEW at \in askedAt..now,
                 NAT!RepeatLate(Connection, AskedPrefix, ip, start, at)
          PROVE  NAT!Next
      <4>1. at \in start..now
        BY <3>5 DEF NAT!RepeatLate, NAT!Repeat
      <4> QED BY <3>1, <3>5, <4>1 DEF NAT!Next
    <3> QED BY <2>4, <3>3, <3>4, <3>5 DEF NATAnswers
  <2>5. CASE RetireLease
    BY <2>5 DEF RetireLease, NAT!Next
  <2>6. CASE TickNAT
    BY <2>6 DEF TickNAT, NAT!Next
  <2>7. CASE TickClients
    BY <2>1, <2>7 DEF TickClients
  <2>8. CASE UNCHANGED vars
    BY <2>1, <2>8 DEF vars
  <2> QED BY <1>2, <2>1, <2>2, <2>3, <2>4, <2>5, <2>6, <2>7, <2>8 DEF Next, NATStep
<1> QED BY <1>1, <1>2, Typed, PTL DEF Spec, NAT!Spec
-----------------------------------------------------------------------------
(***************************************************************************)
(* What follows from the lease service alone, for every number of clients   *)
(* of it, and so for every table that implements it.                        *)
(***************************************************************************)
CONSTANT Clients

Service == INSTANCE LeaseService WITH Client <- Clients

LeaseTimes == now \in Nat /\ \A l \in leases : l.start \in Nat

(* A grant begins after every kept lease of its address, so the leases of an *)
(* address never overlap, though ended ones are kept for a while.            *)
THEOREM LeasesAreDisjoint == Service!Spec => []Service!LeasesDisjoint
<1>1. Service!Init => LeaseTimes /\ Service!LeasesDisjoint
  BY DEF Service!Init, LeaseTimes, Service!LeasesDisjoint
<1>2. ASSUME LeaseTimes, Service!LeasesDisjoint, [Service!Next]_(Service!vars)
      PROVE  LeaseTimes' /\ Service!LeasesDisjoint'
  <2>1. CASE now' \in {now, now + 1} /\ leases' \subseteq leases
    BY <1>2, <2>1 DEF LeaseTimes, Service!LeasesDisjoint, Service!End
  <2>2. ASSUME NEW t, NEW p, NEW ip, NEW start \in 0..now, Service!Grant(t, p, ip, start)
        PROVE  LeaseTimes' /\ Service!LeasesDisjoint'
    <3> DEFINE g == [prefix |-> p, ip |-> ip, start |-> start]
    <3>1. /\ leases' = leases \cup {g} /\ now' = now /\ start \in Nat
          /\ \A l \in leases : l.ip = ip => Service!End(l) < start
      BY <1>2, <2>2 DEF Service!Grant, LeaseTimes
    <3> QED BY <1>2, <3>1 DEF LeaseTimes, Service!LeasesDisjoint, Service!End
  <2>3. CASE UNCHANGED Service!vars
    BY <2>1, <2>3 DEF Service!vars
  <2>4. CASE Service!TimePasses
    BY <2>1, <2>4 DEF Service!TimePasses
  <2>5. ASSUME NEW t, Service!Forget(t) PROVE LeaseTimes' /\ Service!LeasesDisjoint'
    BY <2>1, <2>5 DEF Service!Forget
  <2>6. ASSUME NEW t, NEW l, NEW at, Service!Repeat(t, l, at)
        PROVE  LeaseTimes' /\ Service!LeasesDisjoint'
    BY <2>1, <2>6 DEF Service!Repeat
  <2>7. ASSUME NEW t, NEW p, NEW ip, NEW start, NEW at, Service!RepeatLate(t, p, ip, start, at)
        PROVE  LeaseTimes' /\ Service!LeasesDisjoint'
    BY <2>1, <2>7 DEF Service!RepeatLate, Service!Repeat
  <2>8. ASSUME NEW l, Service!Retire(l) PROVE LeaseTimes' /\ Service!LeasesDisjoint'
    BY <2>1, <2>8 DEF Service!Retire
  <2>9. CASE Service!StartOver
    BY <2>1, <2>9 DEF Service!StartOver
  <2> QED BY <1>2, <2>2, <2>3, <2>4, <2>5, <2>6, <2>7, <2>8, <2>9 DEF Service!Next
<1> QED BY <1>1, <1>2, PTL DEF Service!Spec
-----------------------------------------------------------------------------
(* What backs an answer a when the clock shows time and the leases are kept. *)
StillBacked(a, kept, time) ==
  \/ time >= a.at + a.ttl + GRACE
  \/ \E l \in kept : /\ l.prefix = a.prefix /\ l.ip = a.ip
                     /\ Service!End(l) = a.at + a.ttl

Tellable(a, kept, time) ==
  a # NoAnswer => a.at \in Int /\ a.ttl \in Int /\ StillBacked(a, kept, time)

ToldType == told = [t \in Clients |-> told[t]]
AnswersBacked == \A t \in Clients : Tellable(told[t], leases, now)

(* Time and new leases take no backing away; a retirement takes only one     *)
(* whose grace period is over.                                               *)
LEMMA AnswerLasts ==
  ASSUME LeaseTimes, now' \in {now, now + 1},
         \A l \in leases \ leases' : now' >= Service!End(l) + GRACE,
         NEW a, Tellable(a, leases, now)
  PROVE  Tellable(a, leases', now')
BY PeriodsAreNat DEF Tellable, StillBacked, LeaseTimes, Service!End

(* A step tells at most one client something new, and it has to be backed.   *)
LEMMA TellOne ==
  ASSUME LeaseTimes, ToldType, AnswersBacked, now' \in {now, now + 1},
         \A l \in leases \ leases' : now' >= Service!End(l) + GRACE,
         NEW t \in Clients, NEW a, Tellable(a, leases', now'),
         told' = [told EXCEPT ![t] = a] \/ told' = told
  PROVE  (ToldType /\ AnswersBacked)'
<1>1. ToldType'
  BY DEF ToldType
<1>2. ASSUME NEW u \in Clients PROVE Tellable(told'[u], leases', now')
  <2>1. told'[u] = told[u] \/ told'[u] = a
    BY DEF ToldType
  <2> QED BY <2>1, AnswerLasts DEF AnswersBacked
<1> QED BY <1>1, <1>2 DEF AnswersBacked

(* What a client was told is kept until a grace period after it ran out:     *)
(* the promise on which the DNS filter's answers rest.                       *)
THEOREM ToldStaysKept == Service!Spec => []Service!ToldIsKept
<1> DEFINE Inv == LeaseTimes /\ ToldType /\ AnswersBacked
<1>1. Service!Init => Inv
  BY DEF Service!Init, LeaseTimes, ToldType, AnswersBacked, Tellable
<1>2. ASSUME Inv, [Service!Next]_(Service!vars) PROVE Inv'
  <2>1. CASE /\ now' \in {now, now + 1} /\ told' = told
             /\ leases' \subseteq leases
             /\ \A l \in leases \ leases' : now' >= Service!End(l) + GRACE
    <3>1. LeaseTimes'
      BY <1>2, <2>1 DEF LeaseTimes
    <3>2. ToldType' /\ AnswersBacked'
      BY <1>2, <2>1, AnswerLasts DEF ToldType, AnswersBacked
    <3> QED BY <3>1, <3>2
  <2>2. CASE UNCHANGED Service!vars
    BY <2>1, <2>2 DEF Service!vars
  <2>3. CASE Service!TimePasses
    BY <2>1, <2>3 DEF Service!TimePasses
  <2>4. ASSUME NEW t \in Clients, Service!Forget(t) PROVE Inv'
    <3>1. Tellable(NoAnswer, leases', now')
      BY DEF Tellable
    <3> QED BY <1>2, <2>4, <3>1, TellOne DEF Service!Forget, LeaseTimes
  <2>5. ASSUME NEW t \in Clients, NEW l \in leases, NEW at \in l.start..now, Service!Repeat(t, l, at)
        PROVE  Inv'
    <3> DEFINE a == [prefix |-> l.prefix, ip |-> l.ip, at |-> at, ttl |-> Service!End(l) - at]
    <3>1. Tellable(a, leases', now')
      BY <1>2, <2>5, PeriodsAreNat DEF Service!Repeat, Tellable, StillBacked, LeaseTimes, Service!End
    <3> QED BY <1>2, <2>5, <3>1, TellOne DEF Service!Repeat, LeaseTimes
  <2>6. ASSUME NEW t \in Clients, NEW p, NEW ip, NEW start \in 0..now, Service!Grant(t, p, ip, start)
        PROVE  Inv'
    <3> DEFINE g == [prefix |-> p, ip |-> ip, start |-> start]
               a == [prefix |-> p, ip |-> ip, at |-> start, ttl |-> EXPIRATION]
    <3>1. leases' = leases \cup {g} /\ now' = now /\ told' = [told EXCEPT ![t] = a]
      BY <2>6 DEF Service!Grant
    <3>2. Tellable(a, leases', now')
      <4>1. g \in leases' /\ g.prefix = p /\ g.ip = ip /\ Service!End(g) = a.at + a.ttl
        BY <3>1 DEF Service!End
      <4>2. a.at \in Int /\ a.ttl \in Int
        BY PeriodsAreNat
      <4> QED BY <4>1, <4>2 DEF Tellable, StillBacked
    <3>3. LeaseTimes'
      BY <1>2, <3>1 DEF LeaseTimes
    <3> QED BY <1>2, <3>1, <3>2, <3>3, TellOne
  <2>7. ASSUME NEW t \in Clients, NEW p, NEW ip, NEW start \in 0..now,
               NEW at \in start..now, Service!RepeatLate(t, p, ip, start, at)
        PROVE  Inv'
    <3> DEFINE l == [prefix |-> p, ip |-> ip, start |-> start]
               a == [prefix |-> l.prefix, ip |-> l.ip, at |-> at, ttl |-> Service!End(l) - at]
    <3>1. /\ now' = now /\ leases' = leases /\ told' = [told EXCEPT ![t] = a]
          /\ now >= start + EXPIRATION + GRACE
      BY <2>7 DEF Service!RepeatLate, Service!Repeat
    <3>2. Tellable(a, leases', now')
      <4>1. a.at = at /\ a.ttl = Service!End(l) - at /\ Service!End(l) = start + EXPIRATION
        BY DEF Service!End
      <4>2. now \in Nat
        BY <1>2 DEF LeaseTimes
      <4>3. at \in Int /\ start \in Int
        BY <4>2
      <4>4. a.at \in Int /\ a.ttl \in Int /\ a.at + a.ttl = start + EXPIRATION
        BY <4>1, <4>3, PeriodsAreNat
      <4> QED BY <3>1, <4>4 DEF Tellable, StillBacked
    <3> QED BY <1>2, <3>1, <3>2, TellOne DEF LeaseTimes
  <2>8. ASSUME NEW l \in leases, Service!Retire(l) PROVE Inv'
    BY <1>2, <2>1, <2>8 DEF Service!Retire
  <2>9. CASE Service!StartOver
    BY <1>2, <2>9 DEF Service!StartOver, LeaseTimes, ToldType, AnswersBacked, Tellable
  <2> QED BY <1>2, <2>2, <2>3, <2>4, <2>5, <2>6, <2>7, <2>8, <2>9 DEF Service!Next
<1>3. Inv => Service!ToldIsKept
  BY DEF AnswersBacked, Tellable, StillBacked, Service!ToldIsKept
<1> QED BY <1>1, <1>2, <1>3, PTL DEF Service!Spec
=============================================================================
