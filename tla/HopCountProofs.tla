---------------------------- MODULE HopCountProofs ----------------------------
(***************************************************************************)
(* Proofs about HopCount, for every set of sources, every overlap of their  *)
(* addresses, every time to live and every period: nobody is dropped        *)
(* without a cause, and nobody is banned again for what lies before his     *)
(* ban.                                                                     *)
(***************************************************************************)
EXTENDS HopCount, WellFoundedInduction, TLAPS

(* A non-empty set of numbers has a smallest.                                *)
LEMMA Smallest ==
  ASSUME NEW S, S \subseteq Nat, S # {}
  PROVE  \E i \in S : \A j \in S : i <= j
<1>1. \E i \in S : \A j \in S : <<j, i>> \notin OpToRel(<, Nat)
  BY NatLessThanWellFounded, WFMin
<1>2. ASSUME NEW i \in Nat, NEW j \in Nat, <<j, i>> \notin OpToRel(<, Nat) PROVE i <= j
  <2>1. <<j, i>> \in Nat \X Nat /\ <<j, i>>[1] = j /\ <<j, i>>[2] = i
    OBVIOUS
  <2>2. ~(j < i)
    BY <1>2, <2>1 DEF OpToRel
  <2> QED BY <2>2
<1> QED BY <1>1, <1>2

(* The record a search finds is on file, for an address s is a part of.      *)
LEMMA RecordFound ==
  ASSUME NEW s, Len(file) \in Nat, Found(s) # {}
  PROVE  \E i \in 1..Len(file) : RecordOf(s) = file[i] /\ file[i].src \in Contains[s]
<1>1. Found(s) \subseteq Nat /\ Found(s) \subseteq 1..Len(file)
  BY DEF Found
<1>2. \E i \in Found(s) : \A j \in Found(s) : i <= j
  BY <1>1, Smallest
<1> DEFINE m == CHOOSE i \in Found(s) : \A j \in Found(s) : i <= j
<1>3. m \in Found(s)
  BY <1>2
<1>4. RecordOf(s) = file[m]
  BY DEF RecordOf
<1> HIDE DEF m
<1> QED BY <1>1, <1>3, <1>4 DEF Found

LEMMA HeadAndTail ==
  ASSUME NEW S, NEW q \in Seq(S), q # << >>
  PROVE  /\ Len(q) \in Nat \ {0}
         /\ Head(q) = q[1] /\ q[1] \in S
         /\ Tail(q) \in Seq(S) /\ Len(Tail(q)) = Len(q) - 1
         /\ \A i \in 1..Len(Tail(q)) : Tail(q)[i] = q[i+1] /\ i + 1 \in 1..Len(q)
OBVIOUS

LEMMA AppendOne ==
  ASSUME NEW S, NEW q \in Seq(S), NEW e \in S
  PROVE  /\ Append(q, e) \in Seq(S) /\ Len(q) \in Nat
         /\ \A i \in 1..Len(Append(q, e)) :
              \/ i \in 1..Len(q) /\ Append(q, e)[i] = q[i]
              \/ i = Len(q) + 1 /\ Append(q, e)[i] = e
OBVIOUS

LEMMA AskAppends ==
  ASSUME TypeOK, NEW p \in Program, NEW s \in Source, Ask(p, s)
  PROVE  /\ asked' \in [Program -> Seq(Source)]
         /\ asked'[p] = Append(asked[p], s) /\ asked[p] \in Seq(Source)
         /\ \A q \in Program \ {p} : asked'[q] = asked[q]
<1>1. asked \in [Program -> Seq(Source)] /\ asked[p] \in Seq(Source)
  BY DEF TypeOK
<1>2. asked' = [asked EXCEPT ![p] = Append(asked[p], s)] /\ Append(asked[p], s) \in Seq(Source)
  BY <1>1, AppendOne DEF Ask
<1> QED BY <1>1, <1>2

LEMMA SawGrows ==
  ASSUME TypeOK, NEW p \in Program, NEW s \in Source, NEW ttl \in TTLs, Saw(p, s, ttl)
  PROVE  /\ seen' \in [Program -> [Source -> SUBSET TTLs]]
         /\ ttl \in seen'[p][s]
         /\ \A q \in Program, u \in Source : seen[q][u] \subseteq seen'[q][u]
<1> DEFINE mine == [seen[p] EXCEPT ![s] = seen[p][s] \cup {ttl}]
<1>1. seen \in [Program -> [Source -> SUBSET TTLs]] /\ seen[p] \in [Source -> SUBSET TTLs]
  BY DEF TypeOK
<1>2. mine \in [Source -> SUBSET TTLs]
  BY <1>1
<1>3. ttl \in mine[s] /\ \A u \in Source : seen[p][u] \subseteq mine[u]
  BY <1>1
<1>4. seen' = [seen EXCEPT ![p] = mine]
  BY DEF Saw
<1> HIDE DEF mine
<1> QED BY <1>1, <1>2, <1>3, <1>4

LEMMA EntryTypes ==
  ASSUME TypeOK, NEW s \in Source, NEW ttl \in TTLs
  PROVE  /\ Entry(s, ttl) \in Record
         /\ Entry(s, ttl).src = s /\ Entry(s, ttl).hops = ttl /\ Entry(s, ttl).at = now
BY DEF Entry, Record, TypeOK

LEMMA StepTypes ==
  ASSUME TypeOK, [Next]_vars
  PROVE  TypeOK'
<1> USE DEF listenerVars, filterVars, natVars, historyVars
<1>1. /\ now \in 0..MaxTime /\ packets \in 0..MaxPackets /\ held \in 0..QueueSize
      /\ MaxTime \in Nat /\ MaxPackets \in Nat /\ QueueSize \in Nat /\ MaxRestarts \in Nat
      /\ "listener" \in Program /\ "filter" \in Program
  BY BoundsAreNat DEF TypeOK, Program
<1>2. Packet => packets' \in 0..MaxPackets
  BY <1>1 DEF Packet
<1>3. ASSUME NEW s \in Source, NEW ttl \in TTLs, StartFile(s, ttl) PROVE TypeOK'
  <2>1. file' \in Seq(Record)
    BY <1>3, EntryTypes DEF StartFile
  <2>2. seen' \in [Program -> [Source -> SUBSET TTLs]]
    BY <1>1, <1>3, SawGrows DEF StartFile
  <2> QED BY <1>1, <1>2, <1>3, <2>1, <2>2 DEF StartFile, TypeOK
<1>4. ASSUME NEW s \in Source, NEW ttl \in TTLs, RecordHops(s, ttl) PROVE TypeOK'
  <2>1. file' \in Seq(Record)
    BY <1>4, EntryTypes, AppendOne DEF RecordHops, TypeOK
  <2>2. seen' \in [Program -> [Source -> SUBSET TTLs]]
    BY <1>1, <1>4, SawGrows DEF RecordHops
  <2> QED BY <1>1, <1>2, <1>4, <2>1, <2>2 DEF RecordHops, TypeOK
<1>5. ASSUME NEW s \in Source, NEW ttl \in TTLs, CheckHops(s, ttl) PROVE TypeOK'
  <2>1. asked' \in [Program -> Seq(Source)]
    BY <1>1, <1>5, AskAppends DEF CheckHops, TypeOK
  <2>2. seen' \in [Program -> [Source -> SUBSET TTLs]]
    BY <1>1, <1>5, SawGrows DEF CheckHops
  <2> QED BY <1>1, <1>2, <1>5, <2>1, <2>2 DEF CheckHops, TypeOK
<1>6. CASE RestartListener
  BY <1>1, <1>6 DEF RestartListener, TypeOK
<1>7. ASSUME NEW s \in Source, NEW ttl \in TTLs, LearnHops(s, ttl) PROVE TypeOK'
  <2>1. held' \in 0..QueueSize /\ hops' \in [Source -> TTLs \cup {0}]
    BY <1>1, <1>7 DEF LearnHops, Queued, TypeOK
  <2>2. seen' \in [Program -> [Source -> SUBSET TTLs]]
    BY <1>1, <1>7, SawGrows DEF LearnHops
  <2> QED BY <1>1, <1>2, <1>7, <2>1, <2>2 DEF LearnHops, TypeOK
<1>8. ASSUME NEW s \in Source, NEW ttl \in TTLs, AcceptPacket(s, ttl) PROVE TypeOK'
  <2>1. seen' \in [Program -> [Source -> SUBSET TTLs]]
    BY <1>1, <1>8, SawGrows DEF AcceptPacket
  <2> QED BY <1>1, <1>2, <1>8, <2>1 DEF AcceptPacket, TypeOK
<1>9. ASSUME NEW s \in Source, NEW ttl \in TTLs, SuspectPacket(s, ttl) PROVE TypeOK'
  <2>1. held' \in 0..QueueSize
    BY <1>1, <1>9 DEF SuspectPacket, Queued
  <2>2. asked' \in [Program -> Seq(Source)] /\ waiting' \in Source \cup {NoSource}
    BY <1>1, <1>9, AskAppends DEF SuspectPacket, TypeOK
  <2>3. seen' \in [Program -> [Source -> SUBSET TTLs]]
    BY <1>1, <1>9, SawGrows DEF SuspectPacket
  <2> QED BY <1>1, <1>2, <1>9, <2>1, <2>2, <2>3 DEF SuspectPacket, TypeOK
<1>10. CASE TakeAnswer
  BY <1>1, <1>10 DEF TakeAnswer, TypeOK
<1>11. CASE GiveUp
  BY <1>1, <1>11 DEF GiveUp, TypeOK
<1>12. ASSUME NEW p \in Program, HandleBan(p) PROVE TypeOK'
  <2> DEFINE s == Head(asked[p])
             b == [src |-> s, time |-> now]
  <2>1. asked[p] \in Seq(Source) /\ asked[p] # << >>
    BY <1>12 DEF HandleBan, TypeOK
  <2>2. s \in Source /\ Tail(asked[p]) \in Seq(Source)
    BY <2>1, HeadAndTail
  <2>3. asked' = [asked EXCEPT ![p] = Tail(asked[p])] /\ bans' = Append(bans, b)
    BY <1>12 DEF HandleBan
  <2>4. asked' \in [Program -> Seq(Source)]
    BY <2>2, <2>3 DEF TypeOK
  <2>5. bans' \in Seq(Ban)
    <3>1. b \in Ban
      BY <1>1, <2>2 DEF Ban
    <3> HIDE DEF b
    <3> QED BY <2>3, <3>1, AppendOne DEF TypeOK
  <2>6. rule' \subseteq Source /\ renewed' \subseteq Source /\ acks' \in Nat
    BY <1>12, <2>2 DEF HandleBan, TypeOK
  <2> QED BY <1>1, <1>12, <2>4, <2>5, <2>6 DEF HandleBan, TypeOK
<1>13. CASE LiftBan
  <2>1. bans \in Seq(Ban) /\ bans # << >> /\ bans' = Tail(bans)
    BY <1>13 DEF LiftBan, TypeOK
  <2>2. bans' \in Seq(Ban) /\ Head(bans) \in Ban
    BY <2>1, HeadAndTail
  <2>3. Head(bans).src \in Source
    BY <2>2 DEF Ban
  <2>4. liftedAt' \in [Source -> 0..MaxTime]
    BY <1>1, <1>13, <2>3 DEF LiftBan, TypeOK
  <2>5. rule' \subseteq Source /\ renewed' \subseteq Source
    BY <1>13 DEF LiftBan, TypeOK
  <2> QED BY <1>1, <1>13, <2>2, <2>4, <2>5 DEF LiftBan, TypeOK
<1>14. CASE Tick
  BY <1>1, <1>14 DEF Tick, TypeOK
<1>15. CASE UNCHANGED vars
  BY <1>15 DEF vars, TypeOK
<1> QED BY <1>3, <1>4, <1>5, <1>6, <1>7, <1>8, <1>9, <1>10, <1>11, <1>12, <1>13, <1>14, <1>15
        DEF Next, ListenerStep, FilterStep

(* Every variable keeps its type: the filter never holds more packets than   *)
(* the kernel has room for.                                                  *)
THEOREM TypeCorrect == Spec => []TypeOK
<1>1. Init => TypeOK
  BY BoundsAreNat DEF Init, TypeOK
<1> QED BY <1>1, StepTypes, PTL DEF Spec
-----------------------------------------------------------------------------
(* What s, or a source whose address contains its address, has done, as the  *)
(* history w tells.                                                          *)
Cause(w, s) ==
  \/ \E h, ttl \in w["filter"][s] : ~NearFirst(h, ttl)
  \/ \E u \in Contains[s] : \E h \in w["listener"][u], ttl \in w["listener"][s] :
       ~NearRecord(h, ttl)

(* What both programs remember they have seen, and every BAN has a cause.    *)
CauseInv ==
  /\ \A i \in 1..Len(file) : file[i].hops \in seen["listener"][file[i].src]
  /\ \A s \in Source : hops[s] # 0 => hops[s] \in seen["filter"][s]
  /\ \A p \in Program : \A i \in 1..Len(asked[p]) : Cause(seen, asked[p][i])
  /\ \A s \in rule : Cause(seen, s)

(* Causes do not go away.                                                    *)
LEMMA CausesStay ==
  ASSUME \A p \in Program, s \in Source : seen[p][s] \subseteq seen'[p][s], NEW s \in Source, Cause(seen, s)
  PROVE  Cause(seen', s)
<1>1. Contains[s] \subseteq Source /\ "filter" \in Program /\ "listener" \in Program
  BY EveryAddressContainsItself DEF Program
<1> QED BY <1>1 DEF Cause, NearFirst, NearRecord, Twentieth

LEMMA Elements ==
  ASSUME TypeOK
  PROVE  /\ file \in Seq(Record) /\ Len(file) \in Nat
         /\ \A i \in 1..Len(file) : file[i].src \in Source /\ file[i].at \in 0..MaxTime
         /\ bans \in Seq(Ban) /\ Len(bans) \in Nat
         /\ \A i \in 1..Len(bans) : bans[i].src \in Source /\ bans[i].time \in 0..MaxTime
         /\ \A p \in Program : /\ asked[p] \in Seq(Source) /\ Len(asked[p]) \in Nat
                               /\ \A i \in 1..Len(asked[p]) : asked[p][i] \in Source
<1>1. file \in Seq(Record) /\ bans \in Seq(Ban) /\ \A p \in Program : asked[p] \in Seq(Source)
  BY DEF TypeOK
<1>2. \A r \in Record : r.src \in Source /\ r.at \in 0..MaxTime
  BY DEF Record
<1>3. \A b \in Ban : b.src \in Source /\ b.time \in 0..MaxTime
  BY DEF Ban
<1> QED BY <1>1, <1>2, <1>3

LEMMA StepCauses ==
  ASSUME TypeOK, CauseInv, [Next]_vars
  PROVE  CauseInv'
<1> USE DEF listenerVars, filterVars, natVars, historyVars
<1>1. /\ "listener" \in Program /\ "filter" \in Program
      /\ \A s \in Source : Contains[s] \subseteq Source
      /\ rule \subseteq Source
  BY EveryAddressContainsItself DEF Program, TypeOK
<1>2. ASSUME \A p \in Program, s \in Source : seen[p][s] \subseteq seen'[p][s]
      PROVE  /\ \A p \in Program : \A i \in 1..Len(asked[p]) : Cause(seen', asked[p][i])
             /\ \A s \in rule : Cause(seen', s)
             /\ \A i \in 1..Len(file) : file[i].hops \in seen'["listener"][file[i].src]
             /\ \A s \in Source : hops[s] # 0 => hops[s] \in seen'["filter"][s]
  <2>1. \A s \in Source : Cause(seen, s) => Cause(seen', s)
    BY <1>2, CausesStay
  <2>2. \A p \in Program : \A i \in 1..Len(asked[p]) : asked[p][i] \in Source
    BY Elements
  <2>3. \A i \in 1..Len(file) : file[i].src \in Source
    BY Elements
  <2> QED BY <1>1, <1>2, <2>1, <2>2, <2>3 DEF CauseInv
<1>3. ASSUME NEW s \in Source, NEW ttl \in TTLs, StartFile(s, ttl) \/ RecordHops(s, ttl)
      PROVE  CauseInv'
  <2>1. /\ ttl \in seen'["listener"][s] /\ UNCHANGED <<hops, asked, rule>>
        /\ \A q \in Program, u \in Source : seen[q][u] \subseteq seen'[q][u]
    BY <1>1, <1>3, SawGrows DEF StartFile, RecordHops
  <2>2. \A i \in 1..Len(file') : \/ i \in 1..Len(file) /\ file'[i] = file[i]
                                 \/ file'[i] = Entry(s, ttl)
    <3>1. CASE file' = <<Entry(s, ttl)>>
      BY <3>1
    <3>2. CASE file' = Append(file, Entry(s, ttl))
      <4>1. file \in Seq(Record) /\ Entry(s, ttl) \in Record
        BY Elements, EntryTypes
      <4> QED BY <3>2, <4>1, AppendOne
    <3> QED BY <1>3, <3>1, <3>2 DEF StartFile, RecordHops
  <2>3. \A i \in 1..Len(file') : file'[i].hops \in seen'["listener"][file'[i].src]
    BY <1>2, <2>1, <2>2, EntryTypes
  <2> QED BY <1>2, <2>1, <2>3 DEF CauseInv
<1>4. ASSUME NEW s \in Source, NEW ttl \in TTLs, CheckHops(s, ttl) PROVE CauseInv'
  <2>1. /\ ttl \in seen'["listener"][s] /\ UNCHANGED <<hops, file, rule>>
        /\ \A q \in Program, u \in Source : seen[q][u] \subseteq seen'[q][u]
    BY <1>1, <1>4, SawGrows DEF CheckHops
  <2>2. CASE asked' = asked
    BY <1>2, <2>1, <2>2 DEF CauseInv
  <2>3. CASE Ask("listener", s) /\ ~NearRecord(RecordOf(s).hops, ttl)
    <3>1. PICK i \in 1..Len(file) : RecordOf(s) = file[i] /\ file[i].src \in Contains[s]
      BY <1>4, Elements, RecordFound DEF CheckHops
    <3>2. file[i].hops \in seen'["listener"][file[i].src]
      BY <1>2, <2>1, <3>1
    <3>3. Cause(seen', s)
      BY <2>1, <2>3, <3>1, <3>2 DEF Cause, NearRecord, Twentieth
    <3>4. \A p \in Program : \A k \in 1..Len(asked'[p]) :
            asked'[p][k] = s \/ (k \in 1..Len(asked[p]) /\ asked'[p][k] = asked[p][k])
      <4> SUFFICES ASSUME NEW p \in Program, NEW k \in 1..Len(asked'[p])
                   PROVE  asked'[p][k] = s \/ (k \in 1..Len(asked[p]) /\ asked'[p][k] = asked[p][k])
        OBVIOUS
      <4>1. CASE p = "listener"
        <5>1. asked'[p] = Append(asked[p], s) /\ asked[p] \in Seq(Source)
          BY <1>1, <2>3, <4>1, AskAppends
        <5> QED BY <5>1, AppendOne
      <4>2. CASE p # "listener"
        <5>1. asked'[p] = asked[p]
          BY <1>1, <2>3, <4>2, AskAppends
        <5> QED BY <5>1
      <4> QED BY <4>1, <4>2
    <3>5. \A p \in Program : \A k \in 1..Len(asked'[p]) : Cause(seen', asked'[p][k])
      BY <1>2, <2>1, <3>3, <3>4
    <3> QED BY <1>2, <2>1, <3>5 DEF CauseInv
  <2> QED BY <1>4, <2>2, <2>3 DEF CheckHops
<1>5. ASSUME NEW s \in Source, NEW ttl \in TTLs, LearnHops(s, ttl) \/ AcceptPacket(s, ttl)
      PROVE  CauseInv'
  <2>1. /\ ttl \in seen'["filter"][s] /\ UNCHANGED <<file, asked, rule>>
        /\ \A q \in Program, u \in Source : seen[q][u] \subseteq seen'[q][u]
    BY <1>1, <1>5, SawGrows DEF LearnHops, AcceptPacket
  <2>2. \A u \in Source : hops'[u] = hops[u] \/ (u = s /\ hops'[u] = ttl)
    BY <1>5 DEF LearnHops, AcceptPacket, TypeOK
  <2> QED BY <1>2, <2>1, <2>2 DEF CauseInv
<1>6. ASSUME NEW s \in Source, NEW ttl \in TTLs, SuspectPacket(s, ttl) PROVE CauseInv'
  <2>1. /\ ttl \in seen'["filter"][s] /\ UNCHANGED <<file, hops, rule>>
        /\ hops[s] # 0 /\ ~NearFirst(hops[s], ttl)
        /\ \A q \in Program, u \in Source : seen[q][u] \subseteq seen'[q][u]
    BY <1>1, <1>6, SawGrows DEF SuspectPacket
  <2>2. CASE asked' = asked
    BY <1>2, <2>1, <2>2 DEF CauseInv
  <2>3. CASE Ask("filter", s)
    <3>1. hops[s] \in seen'["filter"][s]
      BY <1>2, <2>1
    <3>2. Cause(seen', s)
      BY <2>1, <3>1 DEF Cause, NearFirst, Twentieth
    <3>3. \A p \in Program : \A k \in 1..Len(asked'[p]) :
            asked'[p][k] = s \/ (k \in 1..Len(asked[p]) /\ asked'[p][k] = asked[p][k])
      <4> SUFFICES ASSUME NEW p \in Program, NEW k \in 1..Len(asked'[p])
                   PROVE  asked'[p][k] = s \/ (k \in 1..Len(asked[p]) /\ asked'[p][k] = asked[p][k])
        OBVIOUS
      <4>1. CASE p = "filter"
        <5>1. asked'[p] = Append(asked[p], s) /\ asked[p] \in Seq(Source)
          BY <1>1, <2>3, <4>1, AskAppends
        <5> QED BY <5>1, AppendOne
      <4>2. CASE p # "filter"
        <5>1. asked'[p] = asked[p]
          BY <1>1, <2>3, <4>2, AskAppends
        <5> QED BY <5>1
      <4> QED BY <4>1, <4>2
    <3>4. \A p \in Program : \A k \in 1..Len(asked'[p]) : Cause(seen', asked'[p][k])
      BY <1>2, <2>1, <3>2, <3>3
    <3> QED BY <1>2, <2>1, <3>4 DEF CauseInv
  <2> QED BY <1>6, <2>2, <2>3 DEF SuspectPacket
<1>7. ASSUME UNCHANGED <<file, hops, asked, seen>>, rule' \subseteq rule PROVE CauseInv'
  BY <1>2, <1>7 DEF CauseInv, Cause, NearFirst, NearRecord, Twentieth
<1>8. ASSUME NEW p \in Program, HandleBan(p) PROVE CauseInv'
  <2>1. /\ UNCHANGED <<file, hops, seen>> /\ asked[p] # << >>
        /\ rule' = rule \cup {Head(asked[p])}
        /\ asked' = [asked EXCEPT ![p] = Tail(asked[p])]
    BY <1>8 DEF HandleBan
  <2>2. Head(asked[p]) = asked[p][1] /\ 1 \in 1..Len(asked[p])
    BY <2>1, HeadAndTail, Elements
  <2>3. \A q \in Program : \A k \in 1..Len(asked'[q]) :
          \E i \in 1..Len(asked[q]) : asked'[q][k] = asked[q][i]
    <3> SUFFICES ASSUME NEW q \in Program, NEW k \in 1..Len(asked'[q])
                 PROVE  \E i \in 1..Len(asked[q]) : asked'[q][k] = asked[q][i]
      OBVIOUS
    <3>1. CASE q = p
      <4>1. asked'[q] = Tail(asked[p])
        BY <2>1, <3>1 DEF TypeOK
      <4>2. asked'[q][k] = asked[p][k+1] /\ k + 1 \in 1..Len(asked[p])
        <5>1. asked[p] \in Seq(Source) /\ asked[p] # << >>
          BY <2>1, Elements
        <5>2. /\ Len(Tail(asked[p])) = Len(asked[p]) - 1 /\ Len(asked[p]) \in Nat
              /\ \A i \in 1..Len(Tail(asked[p])) : Tail(asked[p])[i] = asked[p][i+1]
          BY <5>1, HeadAndTail
        <5> QED BY <4>1, <5>2
      <4> QED BY <3>1, <4>2
    <3>2. CASE q # p
      <4>1. asked'[q] = asked[q]
        BY <2>1, <3>2 DEF TypeOK
      <4> QED BY <4>1
    <3> QED BY <3>1, <3>2
  <2>4. \A q \in Program : \A k \in 1..Len(asked'[q]) : Cause(seen', asked'[q][k])
    BY <1>2, <2>1, <2>3
  <2>5. \A s \in rule' : Cause(seen', s)
    BY <1>2, <2>1, <2>2
  <2> QED BY <1>2, <2>1, <2>4, <2>5 DEF CauseInv
<1>9. CASE RestartListener \/ TakeAnswer \/ GiveUp \/ LiftBan \/ Tick \/ UNCHANGED vars
  <2>1. UNCHANGED <<file, hops, asked, seen>> /\ rule' \subseteq rule
    BY <1>9 DEF RestartListener, TakeAnswer, GiveUp, LiftBan, Tick, vars
  <2> QED BY <1>7, <2>1
<1> QED BY <1>3, <1>4, <1>5, <1>6, <1>8, <1>9 DEF Next, ListenerStep, FilterStep

(* Nobody is dropped without a cause: a source the NAT drops has itself sent *)
(* packets that are too far apart for the filter, or one that is too far for *)
(* the listener from what it or a source whose address contains its address  *)
(* sent.                                                                     *)
THEOREM NobodyDroppedIdly == Spec => []DroppedForACause
<1>1. Init => CauseInv
  BY DEF Init, CauseInv, Program
<1>2. CauseInv => DroppedForACause
  BY DEF CauseInv, DroppedForACause, Cause
<1> QED BY <1>1, <1>2, StepCauses, TypeCorrect, PTL DEF Spec
-----------------------------------------------------------------------------
(* Nothing is noted with a time that is to come.                             *)
TimesPast ==
  /\ initial <= now /\ restartedAt <= now
  /\ \A i \in 1..Len(file) : file[i].at <= now
  /\ \A s \in Source : liftedAt[s] <= now

(* A record is no older than its file, unless the listener was started again *)
(* and took the old file for a new one.                                      *)
FileDated ==
  \A i \in 1..Len(file) :
    initial <= file[i].at \/ (restarts > 0 /\ restartedAt >= file[i].at)

(* A ban that was not renewed is the only one of its source, keeps it away   *)
(* from the listener, and came after every record of it.                     *)
BansApart ==
  /\ \A i, j \in 1..Len(bans) :
       bans[i].src = bans[j].src /\ bans[i].src \notin renewed => i = j
  /\ \A j \in 1..Len(bans) : bans[j].src \notin renewed =>
       /\ bans[j].src \in rule
       /\ \A i \in 1..Len(file) : file[i].src = bans[j].src => file[i].at <= bans[j].time

(* A record of a source was made after its last ban, or a period before the  *)
(* end of it.                                                                *)
RecordsApart ==
  \A i \in 1..Len(file) : LET lifted == liftedAt[file[i].src]
                          IN  file[i].at >= lifted \/ file[i].at + PERIOD <= lifted

ForgiveInv == TimesPast /\ FileDated /\ BansApart /\ RecordsApart

(* What the invariant says depends on these variables only.                  *)
LEMMA QuietStep ==
  ASSUME TypeOK, ForgiveInv, now' = now \/ now' = now + 1,
         UNCHANGED <<initial, file, bans, rule, restarts, restartedAt, liftedAt, renewed>>
  PROVE  ForgiveInv'
<1>1. now \in Nat /\ now' \in Nat /\ now' >= now
  BY DEF TypeOK
<1>2. TimesPast'
  BY <1>1, Elements DEF TypeOK, ForgiveInv, TimesPast
<1> QED BY <1>2 DEF ForgiveInv, FileDated, BansApart, RecordsApart

LEMMA RecordStep ==
  ASSUME TypeOK, ForgiveInv, NEW s \in Source, NEW ttl \in TTLs,
         StartFile(s, ttl) \/ RecordHops(s, ttl)
  PROVE  ForgiveInv'
<1> USE DEF listenerVars, filterVars, natVars, historyVars
<1>1. /\ UNCHANGED <<now, bans, rule, restarts, restartedAt, liftedAt, renewed>> /\ s \notin rule
      /\ now \in Nat /\ initial \in Nat /\ initial <= now /\ liftedAt[s] <= now
      /\ initial' \in {initial, now}
      /\ PERIOD \in Nat
  BY BansOutlastRecords DEF StartFile, RecordHops, TypeOK, ForgiveInv, TimesPast
<1>2. \A i \in 1..Len(file') :
        \/ i \in 1..Len(file) /\ file'[i] = file[i] /\ initial' = initial
        \/ file'[i].src = s /\ file'[i].at = now
  <2>1. CASE StartFile(s, ttl)
    <3>1. file' = <<Entry(s, ttl)>>
      BY <2>1 DEF StartFile
    <3> QED BY <3>1, EntryTypes
  <2>2. CASE RecordHops(s, ttl)
    <3>1. file' = Append(file, Entry(s, ttl)) /\ initial' = initial
      BY <2>2 DEF RecordHops
    <3> QED BY <3>1, EntryTypes, Elements, AppendOne
  <2> QED BY <2>1, <2>2
<1>3. TimesPast'
  BY <1>1, <1>2 DEF ForgiveInv, TimesPast
<1>4. FileDated'
  BY <1>1, <1>2 DEF ForgiveInv, FileDated
<1>5. BansApart'
  BY <1>1, <1>2 DEF ForgiveInv, BansApart
<1>6. RecordsApart'
  BY <1>1, <1>2 DEF ForgiveInv, RecordsApart
<1> QED BY <1>3, <1>4, <1>5, <1>6 DEF ForgiveInv

LEMMA BanStep ==
  ASSUME TypeOK, ForgiveInv, NEW p \in Program, HandleBan(p)
  PROVE  ForgiveInv'
<1> USE DEF listenerVars, filterVars, natVars, historyVars
<1> DEFINE s == Head(asked[p])
           b == [src |-> s, time |-> now]
<1>1. /\ UNCHANGED <<now, initial, file, restarts, restartedAt, liftedAt>>
      /\ rule' = rule \cup {s} /\ bans' = Append(bans, b)
      /\ renewed' = IF Listed(s) THEN renewed \cup {s} ELSE renewed
      /\ asked[p] # << >>
  BY DEF HandleBan
<1>2. b \in Ban /\ b.src = s /\ b.time = now
  <2>1. s \in Source
    BY <1>1, Elements, HeadAndTail
  <2> QED BY <2>1 DEF Ban, TypeOK
<1> HIDE DEF b
<1>3. Len(bans) \in Nat /\ \A i \in 1..Len(bans') :
        \/ i \in 1..Len(bans) /\ bans'[i] = bans[i]
        \/ i = Len(bans) + 1 /\ bans'[i] = b
  BY <1>1, <1>2, Elements, AppendOne
<1> HIDE DEF s
<1>4. \A i \in 1..Len(bans) : bans[i].src \notin renewed' => bans[i].src # s
  BY <1>1 DEF Listed
<1>5. BansApart'
  <2>1. ASSUME NEW i \in 1..Len(bans'), NEW j \in 1..Len(bans'),
               bans'[i].src = bans'[j].src, bans'[i].src \notin renewed'
        PROVE  i = j
    BY <1>1, <1>2, <1>3, <1>4, <2>1 DEF ForgiveInv, BansApart
  <2>2. ASSUME NEW j \in 1..Len(bans'), bans'[j].src \notin renewed'
        PROVE  /\ bans'[j].src \in rule'
               /\ \A i \in 1..Len(file') : file'[i].src = bans'[j].src => file'[i].at <= bans'[j].time
    BY <1>1, <1>2, <1>3, <2>2 DEF ForgiveInv, BansApart, TimesPast
  <2> QED BY <2>1, <2>2 DEF BansApart
<1>6. TimesPast' /\ FileDated' /\ RecordsApart'
  BY <1>1 DEF ForgiveInv, TimesPast, FileDated, RecordsApart
<1> QED BY <1>5, <1>6 DEF ForgiveInv

LEMMA LiftStep ==
  ASSUME TypeOK, ForgiveInv, LiftBan
  PROVE  ForgiveInv'
<1> USE DEF listenerVars, filterVars, natVars, historyVars
<1> DEFINE b == bans[1]
<1>1. /\ bans # << >> /\ Head(bans) = b /\ 1 \in 1..Len(bans) /\ Len(bans) \in Nat
      /\ Len(Tail(bans)) = Len(bans) - 1
      /\ \A i \in 1..Len(Tail(bans)) : Tail(bans)[i] = bans[i+1] /\ i + 1 \in 1..Len(bans)
  <2>1. bans # << >> /\ bans \in Seq(Ban)
    BY DEF LiftBan, TypeOK
  <2> QED BY <2>1, HeadAndTail
<1>2. /\ UNCHANGED <<now, initial, file, restarts, restartedAt>>
      /\ bans' = Tail(bans) /\ now >= b.time + PERIOD /\ rule' = rule \ {b.src}
      /\ liftedAt' = [liftedAt EXCEPT ![b.src] = IF b.src \in renewed THEN 0 ELSE now]
      /\ renewed' = {u \in renewed : Listed(u)'}
  BY <1>1 DEF LiftBan
<1>3. /\ now \in Nat /\ PERIOD \in Nat /\ b.src \in Source /\ b.time \in Nat
      /\ \A i \in 1..Len(file) : file[i].at \in Nat /\ file[i].src \in Source
      /\ \A u \in Source : liftedAt[u] \in Nat
      /\ \A u \in Source : liftedAt'[u] =
           IF u = b.src THEN (IF b.src \in renewed THEN 0 ELSE now) ELSE liftedAt[u]
  <2>1. b.src \in Source /\ b.time \in 0..MaxTime
    BY <1>1, Elements
  <2>2. \A i \in 1..Len(file) : file[i].at \in 0..MaxTime /\ file[i].src \in Source
    BY Elements
  <2>3. now \in 0..MaxTime /\ liftedAt \in [Source -> 0..MaxTime] /\ PERIOD \in Nat
    BY BansOutlastRecords DEF TypeOK
  <2> HIDE DEF b
  <2> QED BY <1>2, <2>1, <2>2, <2>3
<1>4. \A i \in 1..Len(bans') :
        /\ bans'[i] = bans[i+1] /\ i + 1 \in 1..Len(bans)
        /\ bans'[i].src \in renewed => bans'[i].src \in renewed'
  <2>1. \A i \in 1..Len(bans') : bans'[i] = bans[i+1] /\ i + 1 \in 1..Len(bans)
    BY <1>1, <1>2
  <2>2. ASSUME NEW i \in 1..Len(bans'), bans'[i].src \in renewed
        PROVE  bans'[i].src \in renewed'
    <3>1. PICK u : u = bans'[i].src
      OBVIOUS
    <3>2. Listed(u)'
      BY <3>1 DEF Listed
    <3> QED BY <1>2, <2>2, <3>1, <3>2
  <2> QED BY <2>1, <2>2
<1>5. BansApart'
  <2>1. ASSUME NEW i \in 1..Len(bans'), NEW j \in 1..Len(bans'),
               bans'[i].src = bans'[j].src, bans'[i].src \notin renewed'
        PROVE  i = j
    <3>1. i + 1 = j + 1
      BY <1>4, <2>1 DEF ForgiveInv, BansApart
    <3> QED BY <3>1
  <2>2. ASSUME NEW j \in 1..Len(bans'), bans'[j].src \notin renewed'
        PROVE  /\ bans'[j].src \in rule'
               /\ \A i \in 1..Len(file') : file'[i].src = bans'[j].src => file'[i].at <= bans'[j].time
    <3>1. bans[j+1].src \notin renewed /\ j + 1 \in 1..Len(bans) /\ bans'[j] = bans[j+1]
      BY <1>4, <2>2
    <3>2. bans[j+1].src # b.src
      <4>1. j + 1 # 1
        OBVIOUS
      <4> QED BY <1>1, <3>1, <4>1 DEF ForgiveInv, BansApart
    <3> QED BY <1>2, <3>1, <3>2 DEF ForgiveInv, BansApart
  <2> QED BY <2>1, <2>2 DEF BansApart
<1>6. RecordsApart'
  <2> SUFFICES ASSUME NEW i \in 1..Len(file)
               PROVE  \/ file[i].at >= liftedAt'[file[i].src]
                      \/ file[i].at + PERIOD <= liftedAt'[file[i].src]
    BY <1>2 DEF RecordsApart
  <2>1. CASE file[i].src # b.src
    BY <1>3, <2>1 DEF ForgiveInv, RecordsApart
  <2>2. CASE file[i].src = b.src /\ b.src \in renewed
    BY <1>3, <2>2
  <2>3. CASE file[i].src = b.src /\ b.src \notin renewed
    <3>1. file[i].at <= b.time
      BY <1>1, <2>3 DEF ForgiveInv, BansApart
    <3> QED BY <1>2, <1>3, <2>3, <3>1
  <2> QED BY <2>1, <2>2, <2>3
<1>7. TimesPast' /\ FileDated'
  BY <1>2, <1>3 DEF ForgiveInv, TimesPast, FileDated
<1> QED BY <1>5, <1>6, <1>7 DEF ForgiveInv

LEMMA StepForgives ==
  ASSUME TypeOK, ForgiveInv, [Next]_vars
  PROVE  ForgiveInv'
<1> USE DEF listenerVars, filterVars, natVars, historyVars
<1>1. CASE \/ \E s \in Source, ttl \in TTLs : CheckHops(s, ttl) \/ FilterStep(s, ttl)
           \/ TakeAnswer \/ GiveUp \/ Tick \/ UNCHANGED vars
  <2>1. /\ now' = now \/ now' = now + 1
        /\ UNCHANGED <<initial, file, bans, rule, restarts, restartedAt, liftedAt, renewed>>
    BY <1>1 DEF CheckHops, FilterStep, LearnHops, AcceptPacket, SuspectPacket,
                TakeAnswer, GiveUp, Tick, vars
  <2> QED BY <2>1, QuietStep
<1>2. CASE RestartListener
  <2>1. /\ UNCHANGED <<now, file, bans, rule, liftedAt, renewed>>
        /\ initial' = now /\ restartedAt' = now /\ restarts' = restarts + 1 /\ restarts \in Nat
        /\ now \in Nat
    BY <1>2 DEF RestartListener, TypeOK
  <2>2. TimesPast' /\ FileDated'
    BY <2>1 DEF ForgiveInv, TimesPast, FileDated
  <2> QED BY <2>1, <2>2 DEF ForgiveInv, BansApart, RecordsApart
<1> QED BY <1>1, <1>2, RecordStep, BanStep, LiftStep DEF Next, ListenerStep

(* Only a packet that looks wrong makes the listener ask for a ban.          *)
LEMMA OnlyCheckAsks ==
  ASSUME TypeOK, Next, NEW s \in Source, asked'["listener"] = Append(asked["listener"], s)
  PROVE  \E ttl \in TTLs : CheckHops(s, ttl)
<1> USE DEF listenerVars, filterVars, natVars, historyVars
<1> DEFINE q == asked["listener"]
<1>1. q \in Seq(Source) /\ "listener" \in Program /\ "filter" \in Program
  BY DEF TypeOK, Program
<1>2. Len(Append(q, s)) = Len(q) + 1 /\ Len(q) \in Nat
  BY <1>1
<1>3. asked'["listener"] # q
  BY <1>2
<1>4. ASSUME NEW u \in Source, NEW ttl \in TTLs, CheckHops(u, ttl) PROVE CheckHops(s, ttl)
  <2>1. Ask("listener", u)
    BY <1>3, <1>4 DEF CheckHops
  <2>2. asked'["listener"] = Append(q, u)
    BY <1>1, <2>1, AskAppends
  <2>3. Append(q, u) = Append(q, s) => u = s
    BY <1>1
  <2> QED BY <1>4, <2>2, <2>3
<1>5. ASSUME NEW u \in Source, NEW ttl \in TTLs, SuspectPacket(u, ttl) PROVE FALSE
  <2>1. Ask("filter", u)
    BY <1>3, <1>5 DEF SuspectPacket
  <2> QED BY <1>1, <1>3, <2>1, AskAppends
<1>6. ASSUME NEW p \in Program, HandleBan(p) PROVE FALSE
  <2>1. asked[p] # << >> /\ asked' = [asked EXCEPT ![p] = Tail(asked[p])]
    BY <1>6 DEF HandleBan
  <2>2. p = "listener" /\ asked'["listener"] = Tail(q)
    BY <1>1, <1>3, <2>1 DEF TypeOK
  <2>3. Len(Tail(q)) = Len(q) - 1
    BY <1>1, <2>1, <2>2, HeadAndTail
  <2> QED BY <1>2, <2>2, <2>3
<1>7. CASE \/ \E u \in Source, ttl \in TTLs :
                \/ StartFile(u, ttl) \/ RecordHops(u, ttl)
                \/ LearnHops(u, ttl) \/ AcceptPacket(u, ttl)
           \/ RestartListener \/ TakeAnswer \/ GiveUp \/ LiftBan \/ Tick
  <2>1. asked' = asked
    BY <1>7 DEF StartFile, RecordHops, LearnHops, AcceptPacket, RestartListener, TakeAnswer,
                GiveUp, LiftBan, Tick
  <2> QED BY <1>3, <2>1
<1> QED BY <1>4, <1>5, <1>6, <1>7 DEF Next, ListenerStep, FilterStep

(* A host whose ban has ended starts afresh: what it sent before its ban is  *)
(* not held against it again, as every ban outlasts the file it rests on,    *)
(* unless a renewed ban was cut short or the listener was started again.     *)
THEOREM BanEndsTheMatter == Spec => ForgivenAfterBan
<1> DEFINE Forgiven ==
      \A s \in Source :
        asked'["listener"] = Append(asked["listener"], s) /\ RecordOf(s).src = s =>
          \/ RecordOf(s).at >= liftedAt[s]
          \/ restarts > 0 /\ restartedAt >= RecordOf(s).at
<1>1. Init => ForgiveInv
  BY DEF Init, ForgiveInv, TimesPast, FileDated, BansApart, RecordsApart
<1>2. ASSUME TypeOK, ForgiveInv, [Next]_vars PROVE [Forgiven]_vars
  <2> SUFFICES ASSUME Next, NEW s \in Source, asked'["listener"] = Append(asked["listener"], s),
                      RecordOf(s).src = s
               PROVE  \/ RecordOf(s).at >= liftedAt[s]
                      \/ restarts > 0 /\ restartedAt >= RecordOf(s).at
    BY <1>2
  <2>1. ~FileIsOld /\ Found(s) # {}
    BY <1>2, OnlyCheckAsks DEF CheckHops
  <2>2. PICK i \in 1..Len(file) : RecordOf(s) = file[i]
    BY <1>2, <2>1, Elements, RecordFound
  <2>3. /\ now \in Nat /\ initial \in Nat /\ file[i].at \in Nat /\ liftedAt[s] \in Nat
        /\ liftedAt[s] <= now /\ HOPLIFETIME <= PERIOD /\ HOPLIFETIME \in Nat /\ PERIOD \in Nat
        /\ now - initial < HOPLIFETIME
    <3>1. now \in Nat /\ initial \in Nat /\ liftedAt \in [Source -> Nat]
      BY <1>2, BansOutlastRecords DEF TypeOK
    <3>2. file[i].at \in Nat
      BY <1>2, Elements, BansOutlastRecords
    <3>3. liftedAt[s] <= now
      BY <1>2 DEF ForgiveInv, TimesPast
    <3>4. HOPLIFETIME <= PERIOD /\ HOPLIFETIME \in Nat /\ PERIOD \in Nat
      BY BansOutlastRecords
    <3>5. now - initial < HOPLIFETIME
      BY <2>1, <3>1, <3>4 DEF FileIsOld
    <3> QED BY <3>1, <3>2, <3>3, <3>4, <3>5
  <2>4. /\ initial <= file[i].at \/ (restarts > 0 /\ restartedAt >= file[i].at)
        /\ file[i].at >= liftedAt[s] \/ file[i].at + PERIOD <= liftedAt[s]
    <3>1. FileDated /\ RecordsApart /\ file[i].src = s
      BY <1>2, <2>2 DEF ForgiveInv
    <3> QED BY <3>1 DEF FileDated, RecordsApart
  <2> QED BY <2>2, <2>3, <2>4
<1>3. QED
  BY <1>1, <1>2, StepForgives, TypeCorrect, PTL DEF Spec, ForgivenAfterBan

-----------------------------------------------------------------------------
LEMMA TwentiethBounds ==
  ASSUME NEW h \in Nat
  PROVE  /\ Twentieth(h) \in Nat
         /\ 5 * h <= 100 * Twentieth(h) /\ 100 * Twentieth(h) < 5 * h + 100
<1> DEFINE n == h * 5 + 99
<1>1. n \in Nat
  OBVIOUS
<1> HIDE DEF n
<1>2. n \div 100 \in Nat /\ 100 * (n \div 100) <= n /\ n < 100 * (n \div 100) + 100
  BY <1>1
<1> QED
  BY <1>2 DEF Twentieth, n

(* What the filter takes for the usual distance is usual to the listener     *)
(* too, although one measures by the packet and the other by the record: for *)
(* times to live of one octet the two tolerances are never further apart     *)
(* than the hop the listener adds.                                          *)
LEMMA FilterIsStricter ==
  ASSUME NEW h \in 1..255, NEW ttl \in 1..255, NearFirst(h, ttl)
  PROVE  NearRecord(h, ttl)
<1> DEFINE a == Twentieth(h)  b == Twentieth(ttl)
<1>1. /\ a \in Nat /\ 5 * h <= 100 * a
      /\ b \in Nat /\ 100 * b < 5 * ttl + 100
  <2>1. h \in Nat /\ ttl \in Nat
    OBVIOUS
  <2>2. a \in Nat /\ 5 * h <= 100 * a
    BY <2>1, TwentiethBounds
  <2>3. b \in Nat /\ 100 * b < 5 * ttl + 100
    BY <2>1, TwentiethBounds
  <2> QED
    BY <2>2, <2>3
<1>2. h + b > ttl /\ ttl + b > h
  BY DEF NearFirst
<1> HIDE DEF a, b
<1>3. ttl <= h + (a + 1) /\ ttl + (a + 1) >= h
  BY <1>1, <1>2
<1> QED
  BY <1>3 DEF NearRecord, a, b

(* A host that keeps its distance is served: unless its address is part of   *)
(* another one, it is dropped only if two packets that one of the programs   *)
(* received from it are too far apart by the stricter of their two tests.    *)
THEOREM CalmHostsAreServed ==
  ASSUME NEW CONSTANT s \in Source, Contains[s] = {s}
  PROVE  Spec => [](s \in rule =>
                      \E p \in Program : \E h, ttl \in seen[p][s] : ~NearFirst(h, ttl))
<1>1. ASSUME TypeOK, DroppedForACause, s \in rule
      PROVE  \E p \in Program : \E h, ttl \in seen[p][s] : ~NearFirst(h, ttl)
  <2>1. \/ \E h, ttl \in seen["filter"][s] : ~NearFirst(h, ttl)
        \/ \E h, ttl \in seen["listener"][s] : ~NearRecord(h, ttl)
    <3>1. \/ \E h, ttl \in seen["filter"][s] : ~NearFirst(h, ttl)
          \/ \E u \in Contains[s] :
               \E h \in seen["listener"][u], ttl \in seen["listener"][s] : ~NearRecord(h, ttl)
      BY <1>1, Zenon DEF DroppedForACause
    <3>2. \A u \in Contains[s] : u = s
      OBVIOUS
    <3> QED
      BY <3>1, <3>2, Zenon
  <2>2. seen["listener"][s] \subseteq 1..255
    BY <1>1, TTLsAreOctets DEF TypeOK, Program
  <2>3. \/ \E h, ttl \in seen["filter"][s] : ~NearFirst(h, ttl)
        \/ \E h, ttl \in seen["listener"][s] : ~NearFirst(h, ttl)
    BY <2>1, <2>2, FilterIsStricter
  <2> QED
    BY <2>3 DEF Program
<1> QED
  BY <1>1, TypeCorrect, NobodyDroppedIdly, PTL
=============================================================================
