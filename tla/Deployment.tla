----------------------------- MODULE Deployment -----------------------------
(***************************************************************************)
(* The parts together, from the name to the connection: threads of the test *)
(* clients (client/nice_client.c) resolve the server's name through the     *)
(* cache their ISP's clients share (client/dnsutils.c); the answer of the   *)
(* DNS server is caught by the filter (DNS/DNSFilter.py), which throws it   *)
(* away, has the NAT lease an address to the prefix of the receiver, and    *)
(* sends an answer of its own with that address; the thread then connects   *)
(* to the address.                                                          *)
(*                                                                          *)
(* The NAT is what its table implements, a LeaseService with one client,    *)
(* the filter's connection.  It is taken to answer within the 40 seconds    *)
(* the filter waits (RequestChannel has the waits given up).  The cache is  *)
(* the newest answer of each resolver: Resolver shows that there is never   *)
(* another good one.                                                        *)
(*                                                                          *)
(* The hosts' clocks tick at one rate, but not at the same moments.         *)
(***************************************************************************)
EXTENDS Integers, Sequences

CONSTANTS
  Thread,        \* threads of the test clients
  Prefixes,      \* the ISPs' prefixes; each has its resolver
  IspOf,         \* IspOf[t]: the prefix of t's ISP
  PublicIPs,
  EXPIRATION, GRACE,
  MaxCalls,      \* bound on the calls of resolve
  MaxTime        \* bound on the clocks

ASSUME IspOfIsFunction == IspOf \in [Thread -> Prefixes]
ASSUME PeriodsAreNat == EXPIRATION \in Nat \ {0} /\ GRACE \in Nat \ {0}
ASSUME BoundsAreNat == MaxCalls \in Nat /\ MaxTime \in Nat

VARIABLES
  now,        \* the NAT's clock
  leases,     \* the NAT's leases
  told,       \* the NAT's last answer to the filter
  clock,      \* the clients' clock
  calls,      \* calls of resolve so far
  cache,      \* cache[p]: the newest answer in the resolver of p
  rwlock,     \* rwlock[p]: who holds the lock of that resolver
  pc,         \* where each thread is
  call,       \* call[t]: the number of t's call, and of the socket it opens
  timestamp,  \* timestamp[t]: t's reading of the clock in resolve
  addr,       \* addr[t]: the address resolve returned
  reply,      \* reply[t]: the DNS answer on the socket t reads
  queue,      \* the DNS server's packets in the filter's netfilter queue
  handled,    \* the packet whose callback runs
  filterAt,   \* where the filter is: "idle", "asking" or "told"
  askedAt     \* when it sent ADD, by the NAT's clock

natVars == <<now, leases, told>>
cacheVars == <<cache, rwlock>>
threadVars == <<calls, pc, call, timestamp, addr>>
filterVars == <<queue, handled, filterAt, askedAt>>
vars == <<natVars, clock, cacheVars, threadVars, reply, filterVars>>
-----------------------------------------------------------------------------
Connection == "filter"
Nobody == "nobody"
NoAddress == "none"
NoAnswer == [prefix |-> NoAddress, ip |-> NoAddress, at |-> 0, ttl |-> 0]
NoEntry == [ip |-> NoAddress, ttl |-> 0, timestamp |-> 0]
NoReply == [call |-> 0, ip |-> NoAddress, ttl |-> 0]
NoPacket == [dst |-> Nobody, call |-> 0]

Lease == [prefix: Prefixes, ip: PublicIPs, start: 0..MaxTime]
Answer == [prefix: Prefixes, ip: PublicIPs, at: 0..MaxTime, ttl: 1..EXPIRATION]
CacheEntry == [ip: PublicIPs, ttl: 1..EXPIRATION, timestamp: 0..MaxTime]
Reply == [call: 1..MaxCalls, ip: PublicIPs, ttl: 1..EXPIRATION]
Packet == [dst: Thread, call: 1..MaxCalls]

NAT == INSTANCE LeaseService WITH Client <- {Connection}

Goto(t, where) == pc' = [pc EXCEPT ![t] = where]
-----------------------------------------------------------------------------
(* get_rtt calls resolve, which reads the clock before it waits for the lock *)
Resolve(t) ==
  /\ pc[t] = "idle"
  /\ calls < MaxCalls
  /\ calls' = calls + 1
  /\ call' = [call EXCEPT ![t] = calls + 1]
  /\ timestamp' = [timestamp EXCEPT ![t] = clock]
  /\ Goto(t, "lock")
  /\ UNCHANGED <<natVars, clock, cacheVars, addr, reply, filterVars>>

Cached(t) ==
  /\ cache[IspOf[t]] # NoEntry
  /\ timestamp[t] <= cache[IspOf[t]].timestamp + cache[IspOf[t]].ttl

(* An answer that is good at the reading of the clock is returned.           *)
FindCached(t) ==
  /\ pc[t] = "lock"
  /\ rwlock[IspOf[t]] = Nobody
  /\ Cached(t)
  /\ addr' = [addr EXCEPT ![t] = cache[IspOf[t]].ip]
  /\ Goto(t, "connect")
  /\ UNCHANGED <<natVars, clock, cacheVars, calls, call, timestamp, reply, filterVars>>

(* query_dns.  The DNS server's answer, unless it is lost, reaches the       *)
(* filter's queue.                                                          *)
SendQuery(t) ==
  /\ pc[t] = "lock"
  /\ rwlock[IspOf[t]] = Nobody
  /\ ~Cached(t)
  /\ rwlock' = [rwlock EXCEPT ![IspOf[t]] = t]
  /\ queue' \in {queue, Append(queue, [dst |-> t, call |-> call[t]])}
  /\ Goto(t, "query")
  /\ UNCHANGED <<natVars, clock, cache, calls, call, timestamp, addr, reply,
                 handled, filterAt, askedAt>>

(* The answer becomes the newest of the cache, good from the first reading   *)
(* of the clock.                                                            *)
CacheAnswerStampedLate(t) ==
  /\ pc[t] = "query"
  /\ reply[t].call = call[t]
  /\ cache' = [cache EXCEPT ![IspOf[t]] = [ip |-> reply[t].ip, ttl |-> reply[t].ttl,
                                           timestamp |-> clock]]
  /\ rwlock' = [rwlock EXCEPT ![IspOf[t]] = Nobody]
  /\ addr' = [addr EXCEPT ![t] = reply[t].ip]
  /\ reply' = [reply EXCEPT ![t] = NoReply]
  /\ Goto(t, "connect")
  /\ UNCHANGED <<natVars, clock, calls, call, timestamp, filterVars>>
CacheAnswer(t) ==
  /\ pc[t] = "query"
  /\ reply[t].call = call[t]
  /\ cache' = [cache EXCEPT ![IspOf[t]] = [ip |-> reply[t].ip, ttl |-> reply[t].ttl,
                                           timestamp |-> timestamp[t]]]
  /\ rwlock' = [rwlock EXCEPT ![IspOf[t]] = Nobody]
  /\ addr' = [addr EXCEPT ![t] = reply[t].ip]
  /\ reply' = [reply EXCEPT ![t] = NoReply]
  /\ Goto(t, "connect")
  /\ UNCHANGED <<natVars, clock, calls, call, timestamp, filterVars>>

EndCall(t) ==
  /\ Goto(t, "idle")
  /\ timestamp' = [timestamp EXCEPT ![t] = 0]
  /\ addr' = [addr EXCEPT ![t] = NoAddress]
  /\ reply' = [reply EXCEPT ![t] = NoReply]

(* Two seconds without an answer (SO_RCVTIMEO): resolve fails, and with it   *)
(* this attempt.  The socket is not read any more.                          *)
QueryTimesOut(t) ==
  /\ pc[t] = "query"
  /\ rwlock' = [rwlock EXCEPT ![IspOf[t]] = Nobody]
  /\ EndCall(t)
  /\ UNCHANGED <<natVars, clock, cache, calls, call, filterVars>>

(* curl_easy_perform on the address, and the attempt is over.                *)
Connect(t) ==
  /\ pc[t] = "connect"
  /\ EndCall(t)
  /\ UNCHANGED <<natVars, clock, cacheVars, calls, call, filterVars>>
-----------------------------------------------------------------------------
(* handle_packet: the packet is dropped before anything else; handle_dns has *)
(* NAT_update ask for the address the packet was going to.                  *)
HandlePacket ==
  /\ filterAt = "idle"
  /\ queue # << >>
  /\ handled' = Head(queue)
  /\ queue' = Tail(queue)
  /\ filterAt' = "asking"
  /\ askedAt' = now
  /\ UNCHANGED <<natVars, clock, cacheVars, threadVars, reply>>

AskedPrefixOfSender == CHOOSE p \in Prefixes : TRUE
AskedPrefix == IspOf[handled.dst]

(* The NAT answers the request with a new lease, a lease it keeps, or, if it *)
(* stalls for the grace period, one it kept when the request came.  It reads *)
(* its clock after the request.                                             *)
NATAnswers ==
  /\ filterAt = "asking"
  /\ \/ \E ip \in PublicIPs, start \in askedAt..now :
          NAT!Grant(Connection, AskedPrefix, ip, start)
     \/ \E l \in leases : \E at \in askedAt..now :
          l.prefix = AskedPrefix /\ NAT!Repeat(Connection, l, at)
     \/ \E ip \in PublicIPs, start \in 0..now : \E at \in askedAt..now :
          NAT!RepeatLate(Connection, AskedPrefix, ip, start, at)
  /\ filterAt' = "told"
  /\ UNCHANGED <<clock, cacheVars, threadVars, reply, queue, handled, askedAt>>

(* The filter's own DNS answer, to the socket the packet was going to; it is *)
(* lost on the way or when that socket is not read any more.                *)
SendReply ==
  /\ filterAt = "told"
  /\ reply' \in {reply, [reply EXCEPT ![handled.dst] =
                           [call |-> handled.call, ip |-> told[Connection].ip,
                            ttl |-> told[Connection].ttl]]}
  /\ reply' # reply => pc[handled.dst] = "query" /\ call[handled.dst] = handled.call
  /\ handled' = NoPacket
  /\ filterAt' = "idle"
  /\ askedAt' = 0
  /\ UNCHANGED <<natVars, clock, cacheVars, threadVars, queue>>

RetireLease ==
  /\ \E l \in leases : NAT!Retire(l)
  /\ UNCHANGED <<clock, cacheVars, threadVars, reply, filterVars>>

(* The clocks tick in turn: each does so at its own moment of the second.    *)
TickNAT ==
  /\ now < MaxTime
  /\ now = clock
  /\ NAT!TimePasses
  /\ UNCHANGED <<clock, cacheVars, threadVars, reply, filterVars>>

TickClients ==
  /\ clock < now
  /\ clock' = clock + 1
  /\ UNCHANGED <<natVars, cacheVars, threadVars, reply, filterVars>>
-----------------------------------------------------------------------------
Init ==
  /\ NAT!Init
  /\ clock = 0
  /\ calls = 0
  /\ cache = [p \in Prefixes |-> NoEntry]
  /\ rwlock = [p \in Prefixes |-> Nobody]
  /\ pc = [t \in Thread |-> "idle"]
  /\ call = [t \in Thread |-> 0]
  /\ timestamp = [t \in Thread |-> 0]
  /\ addr = [t \in Thread |-> NoAddress]
  /\ reply = [t \in Thread |-> NoReply]
  /\ queue = << >>
  /\ handled = NoPacket
  /\ filterAt = "idle"
  /\ askedAt = 0

ThreadStep(t) ==
  \/ Resolve(t)
  \/ FindCached(t)
  \/ SendQuery(t)
  \/ CacheAnswer(t)
  \/ QueryTimesOut(t)
  \/ Connect(t)

FilterStep == HandlePacket \/ SendReply

NATStep == NATAnswers \/ RetireLease

Next ==
  \/ \E t \in Thread : ThreadStep(t)
  \/ FilterStep
  \/ NATStep
  \/ TickNAT
  \/ TickClients

Spec == Init /\ [][Next]_vars
-----------------------------------------------------------------------------
(* In particular no answer is good for longer than a lease, or for no time.  *)
TypeOK ==
  /\ now \in 0..MaxTime
  /\ leases \subseteq Lease
  /\ told \in [{Connection} -> Answer \cup {NoAnswer}]
  /\ clock \in 0..now
  /\ calls \in 0..MaxCalls
  /\ cache \in [Prefixes -> CacheEntry \cup {NoEntry}]
  /\ rwlock \in [Prefixes -> Thread \cup {Nobody}]
  /\ pc \in [Thread -> {"idle", "lock", "query", "connect"}]
  /\ call \in [Thread -> 0..MaxCalls]
  /\ timestamp \in [Thread -> 0..MaxTime]
  /\ addr \in [Thread -> PublicIPs \cup {NoAddress}]
  /\ reply \in [Thread -> Reply \cup {NoReply}]
  /\ queue \in Seq(Packet)
  /\ handled \in Packet \cup {NoPacket}
  /\ filterAt \in {"idle", "asking", "told"}
  /\ askedAt \in 0..now

Leased(p, ip) == \E l \in leases : l.prefix = p /\ l.ip = ip

(* When a thread connects, the address it was given is leased to its ISP,    *)
(* however the threads, the filter and the NAT interleave and whoever's      *)
(* query filled the cache, unless the thread was held up since it read the   *)
(* clock: for all but one second of the grace period (the clocks' seconds    *)
(* do not begin together), most likely at the lock, behind a query.         *)
ConnectsToLease ==
  [][\A t \in Thread :
       Connect(t) =>
         \/ clock >= timestamp[t] + GRACE - 1
         \/ Leased(IspOf[t], addr[t])]_vars

(* Two ISPs' clients do not hold one address at a time: when the second one  *)
(* gets it, the first one's copy is in its last second at the most.         *)
AddressesApart ==
  \A p, q \in Prefixes :
    p # q /\ cache[p].ip = cache[q].ip /\ cache[p] # NoEntry =>
      \/ clock >= cache[p].timestamp + cache[p].ttl
      \/ clock >= cache[q].timestamp + cache[q].ttl
=============================================================================
