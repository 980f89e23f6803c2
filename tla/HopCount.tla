------------------------------ MODULE HopCount ------------------------------
(***************************************************************************)
(* The two programs that watch how far packets travel, and the bans they    *)
(* ask the NAT for.                                                         *)
(*                                                                          *)
(* The listener (FinalProjectServerListener.c) sees what reaches the        *)
(* protected server.  It keeps the first time to live it saw of each source *)
(* in a file, which it starts afresh when it is HOPLIFETIME seconds old,    *)
(* and sends BAN;<ip> when a later packet differs too much.  The filter     *)
(* (DNS/DNSHopCount.py) sees what reaches the DNS server.  It keeps its     *)
(* record in memory for good, sends one BAN per source and waits for the    *)
(* answer; packets that it neither accepts nor drops stay in the kernel's   *)
(* queue.                                                                   *)
(*                                                                          *)
(* The NAT's side is BanTable in one step per request and per expiration: a *)
(* BAN puts up the rule unless it is there and lists the ban, its end takes *)
(* the rule down.  A dropped source does not reach the server; the DNS      *)
(* server is not behind the NAT.                                            *)
(***************************************************************************)
EXTENDS Naturals, Sequences

CONSTANTS
  Source,        \* addresses packets come from
  Contains,      \* Contains[s]: the sources whose dotted address s is a part of
  TTLs,          \* the times to live of the packets
  HOPLIFETIME,   \* seconds the file is kept
  PERIOD,        \* seconds a ban lasts: EXPIRATIONTIMESECONDS + GRACEPERIODSECONDS
  QueueSize,     \* packets the kernel keeps for the filter
  MaxPackets,    \* bound on the packets sent
  MaxRestarts,   \* bound on the times the listener is started again
  MaxTime        \* bound on the clock

ASSUME EveryAddressContainsItself ==
  Contains \in [Source -> SUBSET Source] /\ \A s \in Source : s \in Contains[s]
ASSUME TTLsAreOctets == TTLs \subseteq 1..255
ASSUME BoundsAreNat == {QueueSize, MaxPackets, MaxRestarts, MaxTime} \subseteq Nat

(* A ban outlives the records that were there before it: 7 seconds against 5 *)
(* (NATServer.c:478, FinalProjectServerListener.c:10).                       *)
ASSUME BansOutlastRecords ==
  HOPLIFETIME \in Nat \ {0} /\ PERIOD \in Nat /\ PERIOD >= HOPLIFETIME

VARIABLES
  now,
  packets,     \* packets seen so far, by both programs
  \* the listener
  initial,     \* when the file was started
  file,        \* the records in hopsByIP.txt, first one first
  \* the filter
  hops,        \* hops[s]: the time to live first seen, 0 for none
  banned,      \* the sources whose BAN was answered
  waiting,     \* the source whose answer the filter waits for, or NoSource
  held,        \* packets without a verdict
  acks,        \* answers under way to the filter
  \* the NAT
  asked,       \* asked[p]: the BANs of program p that the NAT has not handled
  rule,        \* the sources that are dropped
  bans,        \* the list of bans, oldest first
  \* history
  seen,        \* seen[p][s]: the times to live program p has seen of s
  restarts,    \* restarts of the listener so far
  restartedAt, \* when the last one was
  liftedAt,    \* liftedAt[s]: when the last ban of s ended, if it was the only one
  renewed      \* sources banned again before their ban had ended

listenerVars == <<initial, file>>
filterVars == <<hops, banned, waiting, held>>
natVars == <<rule, bans>>
historyVars == <<restarts, restartedAt, liftedAt, renewed>>
vars == <<now, packets, listenerVars, filterVars, acks, asked, natVars, seen, historyVars>>
-----------------------------------------------------------------------------
Program == {"listener", "filter"}
NoSource == "none"

Record == [src: Source, hops: TTLs, at: 0..MaxTime]
Ban == [src: Source, time: 0..MaxTime]

(* ceil(h * .05) for whole h                                                 *)
Twentieth(h) == (h * 5 + 99) \div 100

(* The listener: within hopEQ of the record.                                 *)
NearRecord(h, ttl) ==
  LET hopEQ == Twentieth(h) + 1 IN ttl <= h + hopEQ /\ ttl + hopEQ >= h

(* The filter: less than a twentieth of the packet's own time to live off.   *)
NearFirst(h, ttl) ==
  LET delta == Twentieth(ttl) IN h + delta > ttl /\ ttl + delta > h

(* strstr: the first line with an address that s is a part of                *)
FoundReversed(s) == {i \in 1..Len(file) : s \in Contains[file[i].src]}
Found(s) == {i \in 1..Len(file) : file[i].src \in Contains[s]}
RecordOf(s) == file[CHOOSE i \in Found(s) : \A j \in Found(s) : i <= j]

Entry(s, ttl) == [src |-> s, hops |-> ttl, at |-> now]
Saw(p, s, ttl) == seen' = [seen EXCEPT ![p] = [@ EXCEPT ![s] = seen[p][s] \cup {ttl}]]
Ask(p, s) == asked' = [asked EXCEPT ![p] = Append(@, s)]

Packet == packets < MaxPackets /\ packets' = packets + 1

FileIsOldAfterBans == now - initial > PERIOD
FileIsOld == now - initial >= HOPLIFETIME
-----------------------------------------------------------------------------
(* got_packet with a file that is too old: it is opened for writing, which   *)
(* empties it and finds nothing in it.                                      *)
StartFile(s, ttl) ==
  /\ Packet
  /\ s \notin rule
  /\ FileIsOld
  /\ initial' = now
  /\ file' = <<Entry(s, ttl)>>
  /\ Saw("listener", s, ttl)
  /\ UNCHANGED <<now, filterVars, acks, asked, natVars, historyVars>>

(* got_packet from a source it has no record of                              *)
RecordHops(s, ttl) ==
  /\ Packet
  /\ s \notin rule
  /\ ~FileIsOld
  /\ Found(s) = {}
  /\ file' = Append(file, Entry(s, ttl))
  /\ Saw("listener", s, ttl)
  /\ UNCHANGED <<now, initial, filterVars, acks, asked, natVars, historyVars>>

(* got_packet from a source on record: a BAN when it comes from elsewhere    *)
CheckHops(s, ttl) ==
  /\ Packet
  /\ s \notin rule
  /\ ~FileIsOld
  /\ Found(s) # {}
  /\ IF NearRecord(RecordOf(s).hops, ttl) THEN UNCHANGED asked ELSE Ask("listener", s)
  /\ Saw("listener", s, ttl)
  /\ UNCHANGED <<now, listenerVars, filterVars, acks, natVars, historyVars>>

(* The listener ends and is started again: the time is new, the file is not. *)
RestartListener ==
  /\ restarts < MaxRestarts
  /\ restarts' = restarts + 1
  /\ restartedAt' = now
  /\ initial' = now
  /\ UNCHANGED <<now, packets, file, filterVars, acks, asked, natVars, seen, liftedAt, renewed>>
-----------------------------------------------------------------------------
(* The filter is not inside recv, and the kernel has room for the packet.    *)
QueuedUnbounded == waiting = NoSource
Queued == waiting = NoSource /\ held < QueueSize

(* handle_packet and handle_dns: the first packet of a source has no verdict *)
LearnHops(s, ttl) ==
  /\ Packet
  /\ Queued
  /\ hops[s] = 0
  /\ hops' = [hops EXCEPT ![s] = ttl]
  /\ held' = held + 1
  /\ Saw("filter", s, ttl)
  /\ UNCHANGED <<now, listenerVars, banned, waiting, acks, asked, natVars, historyVars>>

(* packet.accept()                                                           *)
AcceptPacket(s, ttl) ==
  /\ Packet
  /\ Queued
  /\ hops[s] # 0
  /\ NearFirst(hops[s], ttl)
  /\ Saw("filter", s, ttl)
  /\ UNCHANGED <<now, listenerVars, filterVars, acks, asked, natVars, historyVars>>

(* return False: neither accept nor drop, and one BAN per source             *)
SuspectPacket(s, ttl) ==
  /\ Packet
  /\ Queued
  /\ hops[s] # 0
  /\ ~NearFirst(hops[s], ttl)
  /\ held' = held + 1
  /\ IF s \in banned THEN UNCHANGED <<waiting, asked>>
     ELSE Ask("filter", s) /\ waiting' = s
  /\ Saw("filter", s, ttl)
  /\ UNCHANGED <<now, listenerVars, hops, banned, acks, natVars, historyVars>>

(* NAT_update returns, whichever BAN the answer is for.                      *)
TakeAnswer ==
  /\ waiting # NoSource
  /\ acks > 0
  /\ acks' = acks - 1
  /\ banned' = banned \cup {waiting}
  /\ waiting' = NoSource
  /\ UNCHANGED <<now, packets, listenerVars, hops, held, asked, natVars, seen, historyVars>>

(* recv raises after 40 seconds: the source is not noted as banned.          *)
GiveUp ==
  /\ waiting # NoSource
  /\ acks = 0
  /\ waiting' = NoSource
  /\ UNCHANGED <<now, packets, listenerVars, hops, banned, held, acks, asked, natVars,
                 seen, historyVars>>
-----------------------------------------------------------------------------
Listed(s) == \E i \in 1..Len(bans) : bans[i].src = s

(* The NAT handles a BAN and answers it; the listener never reads answers.   *)
HandleBan(p) ==
  /\ asked[p] # << >>
  /\ LET s == Head(asked[p]) IN
       /\ rule' = rule \cup {s}
       /\ bans' = Append(bans, [src |-> s, time |-> now])
       /\ renewed' = IF Listed(s) THEN renewed \cup {s} ELSE renewed
  /\ asked' = [asked EXCEPT ![p] = Tail(@)]
  /\ acks' = IF p = "filter" THEN acks + 1 ELSE acks
  /\ UNCHANGED <<now, packets, listenerVars, filterVars, seen, restarts, restartedAt,
                 liftedAt>>

(* The ban remover takes a due ban off the head and its rule down.           *)
LiftBan ==
  /\ bans # << >>
  /\ now >= Head(bans).time + PERIOD
  /\ bans' = Tail(bans)
  /\ rule' = rule \ {Head(bans).src}
  /\ LET s == Head(bans).src IN
       liftedAt' = [liftedAt EXCEPT ![s] = IF s \in renewed THEN 0 ELSE now]
  /\ renewed' = {s \in renewed : Listed(s)'}
  /\ UNCHANGED <<now, packets, listenerVars, filterVars, acks, asked, seen, restarts,
                 restartedAt>>

Tick ==
  /\ now < MaxTime
  /\ now' = now + 1
  /\ UNCHANGED <<packets, listenerVars, filterVars, acks, asked, natVars, seen, historyVars>>
-----------------------------------------------------------------------------
(* main of both programs up to their loops, and no file yet                  *)
Init ==
  /\ now = 0
  /\ packets = 0
  /\ initial = 0
  /\ file = << >>
  /\ hops = [s \in Source |-> 0]
  /\ banned = {}
  /\ waiting = NoSource
  /\ held = 0
  /\ acks = 0
  /\ asked = [p \in Program |-> << >>]
  /\ rule = {}
  /\ bans = << >>
  /\ seen = [p \in Program |-> [s \in Source |-> {}]]
  /\ restarts = 0
  /\ restartedAt = 0
  /\ liftedAt = [s \in Source |-> 0]
  /\ renewed = {}

ListenerStep(s, ttl) == StartFile(s, ttl) \/ RecordHops(s, ttl) \/ CheckHops(s, ttl)
FilterStep(s, ttl) == LearnHops(s, ttl) \/ AcceptPacket(s, ttl) \/ SuspectPacket(s, ttl)

Next ==
  \/ \E s \in Source, ttl \in TTLs : ListenerStep(s, ttl) \/ FilterStep(s, ttl)
  \/ RestartListener
  \/ TakeAnswer
  \/ GiveUp
  \/ \E p \in Program : HandleBan(p)
  \/ LiftBan
  \/ Tick

Spec == Init /\ [][Next]_vars
-----------------------------------------------------------------------------
TypeOK ==
  /\ now \in 0..MaxTime
  /\ packets \in 0..MaxPackets
  /\ initial \in 0..MaxTime
  /\ file \in Seq(Record)
  /\ hops \in [Source -> TTLs \cup {0}]
  /\ banned \subseteq Source
  /\ waiting \in Source \cup {NoSource}
  /\ held \in 0..QueueSize
  /\ acks \in Nat
  /\ asked \in [Program -> Seq(Source)]
  /\ rule \subseteq Source
  /\ bans \in Seq(Ban)
  /\ seen \in [Program -> [Source -> SUBSET TTLs]]
  /\ restarts \in 0..MaxRestarts
  /\ restartedAt \in 0..MaxTime
  /\ liftedAt \in [Source -> 0..MaxTime]
  /\ renewed \subseteq Source

(* Nobody is dropped without a cause: a source the NAT drops has itself sent *)
(* packets that are too far apart for the filter, or has sent one that is    *)
(* too far for the listener from what it or a source whose address contains  *)
(* its address sent.  In particular a host that keeps its distance and whose *)
(* address is part of no other is never banned.                             *)
DroppedForACause ==
  \A s \in rule :
    \/ \E h, ttl \in seen["filter"][s] : ~NearFirst(h, ttl)
    \/ \E u \in Contains[s] : \E h \in seen["listener"][u], ttl \in seen["listener"][s] :
         ~NearRecord(h, ttl)

(* A host whose ban has ended starts afresh: what it sent before its ban is  *)
(* not held against it again, as every ban outlasts the file it rests on,    *)
(* unless a renewed ban was cut short or the listener was started again and  *)
(* took the old file for a new one.                                         *)
ForgivenAfterBan ==
  [][\A s \in Source :
       asked'["listener"] = Append(asked["listener"], s) /\ RecordOf(s).src = s =>
         \/ RecordOf(s).at >= liftedAt[s]
         \/ restarts > 0 /\ restartedAt >= RecordOf(s).at]_vars
=============================================================================
