------------------------- MODULE MappingTableProofs -------------------------
(***************************************************************************)
(* Proofs about MappingTable, for every set of clients and hosts, every     *)
(* address range, every lifetime and grace period.                          *)
(***************************************************************************)
EXTENDS MappingTable, FiniteSetTheorems, TLAPS

(* The head and the tail of a list, element by element: what a pop leaves.  *)
LEMMA HeadAndTail ==
  ASSUME NEW S, NEW s \in Seq(S), s # << >>
  PROVE  /\ Len(s) \in Nat \ {0}
         /\ Head(s) = s[1] /\ s[1] \in S
         /\ Tail(s) \in Seq(S) /\ Len(Tail(s)) = Len(s) - 1
         /\ \A i \in 1..Len(Tail(s)) : Tail(s)[i] = s[i+1]
OBVIOUS

(* What is in a list after an insertion at its end.                         *)
LEMMA AppendOne ==
  ASSUME NEW S, NEW s \in Seq(S), NEW e \in S
  PROVE  /\ Append(s, e) \in Seq(S)
         /\ Len(Append(s, e)) = Len(s) + 1
         /\ Append(s, e)[Len(s) + 1] = e
         /\ \A i \in 1..Len(Append(s, e)) :
              \/ i \in 1..Len(s) /\ Append(s, e)[i] = s[i]
              \/ i = Len(s) + 1 /\ Append(s, e)[i] = e
OBVIOUS

(* The fields of a mapping by their types.                                  *)
LEMMA MappingFields ==
  ASSUME NEW m \in Mapping
  PROVE  /\ m.id \in Nat /\ m.time \in Nat
         /\ m = [id |-> m.id, prefix |-> m.prefix, ip |-> m.ip, time |-> m.time]
BY DEF Mapping

(* The fields of a listed mapping by their types.                           *)
LEMMA ListFields ==
  ASSUME list \in Seq(Mapping)
  PROVE  \A i \in 1..Len(list) :
           list[i] \in Mapping /\ list[i].id \in Nat /\ list[i].time \in Nat
<1>1. \A i \in 1..Len(list) : list[i] \in Mapping
  OBVIOUS
<1> QED BY <1>1, MappingFields

(* The NULL pointer is modelled by a mapping.                               *)
LEMMA NoMappingType == NoMapping \in Mapping
BY DEF NoMapping, Mapping, NULL

(* The empty answer has the type of an answer.                              *)
LEMMA NoAnswerType == NoAnswer \in Answer
BY PeriodsAreNat DEF NoAnswer, Answer, NULL

(* Prefixes and public addresses are numbers, so distinct from NULL.        *)
LEMMA PrefixesAreInt == Prefixes \subseteq Int /\ PublicIPs \subseteq Int
<1>1. ASSUME NEW h \in Hosts PROVE IspPrefix(h) \in Int
  BY HostsAreOctets DEF IspPrefix
<1> QED BY <1>1, RangeIsOctets DEF Prefixes, PublicIPs

(* A call of either script names a command and a rule of the table, as long  *)
(* as the mapping has both its prefix and its address.                      *)
Call == [command: {"-A", "-D"}, rule: Rule]

(* The four rules of a pair are rules, and distinct.                        *)
LEMMA RulesOfPair ==
  ASSUME NEW p \in Prefixes \X PublicIPs
  PROVE  /\ Dnat(p) \in PlainRules /\ Snat(p) \in PlainRules
         /\ Established(Dnat(p)) \in Rule \ PlainRules
         /\ Established(Snat(p)) \in Rule \ PlainRules
         /\ Dnat(p) # Snat(p)
BY DEF Dnat, Snat, Established, Rule, PlainRules

(* What a call of checkAddRule says it does.                                *)
LEMMA CallFields ==
  ASSUME NEW r
  PROVE  /\ AddRule(r).command = "-A" /\ AddRule(r).rule = r
         /\ DeleteRule(r).command = "-D" /\ DeleteRule(r).rule = r
BY DEF AddRule, DeleteRule

(* The calls of manipulateMapping, one by one.                              *)
LEMMA AddScriptCalls ==
  ASSUME NEW m
  PROVE  /\ Len(AddScript(m)) = 2
         /\ \A k \in 1..2 : AddScript(m)[k].command = "-A"
         /\ AddScript(m)[1].rule = Dnat(Pair(m))
         /\ AddScript(m)[2].rule = Snat(Pair(m))
<1>1. /\ Len(AddScript(m)) = 2
      /\ AddScript(m)[1] = AddRule(Dnat(Pair(m)))
      /\ AddScript(m)[2] = AddRule(Snat(Pair(m)))
  BY DEF AddScript
<1> QED BY <1>1, CallFields

(* The calls of handleExpiredMap, one by one.                               *)
LEMMA RemovalScriptCalls ==
  ASSUME NEW m
  PROVE  /\ Len(RemovalScript(m)) = 4
         /\ \A k \in 1..2 : RemovalScript(m)[k].command = "-A"
         /\ \A k \in 3..4 : RemovalScript(m)[k].command = "-D"
         /\ RemovalScript(m)[1].rule = Established(Dnat(Pair(m)))
         /\ RemovalScript(m)[2].rule = Established(Snat(Pair(m)))
         /\ RemovalScript(m)[3].rule = Dnat(Pair(m))
         /\ RemovalScript(m)[4].rule = Snat(Pair(m))
<1>1. /\ Len(RemovalScript(m)) = 4
      /\ RemovalScript(m)[1] = AddRule(Established(Dnat(Pair(m))))
      /\ RemovalScript(m)[2] = AddRule(Established(Snat(Pair(m))))
      /\ RemovalScript(m)[3] = DeleteRule(Dnat(Pair(m)))
      /\ RemovalScript(m)[4] = DeleteRule(Snat(Pair(m)))
  BY DEF RemovalScript
<1> QED BY <1>1, CallFields
-----------------------------------------------------------------------------
(* Pairs are complete wherever a script may be run: the mapping a client     *)
(* installs, every listed mapping and the victim have a prefix and an       *)
(* address.                                                                 *)
Complete(m) == m.prefix \in Prefixes /\ m.ip \in PublicIPs /\ m.id # 0

PairsComplete ==
  /\ \A i \in 1..Len(list) : Complete(list[i])
  /\ Busy => Complete(victim)
  /\ \A t \in Client : InProgress(t) => Complete(map[t])
  /\ \A t \in Client : pc[t] # "idle" => map[t].prefix \in Prefixes /\ map[t].id # 0
  /\ \A t \in Client : pc[t] \in {"match", "copy"} => Complete(match[t])

(* Nothing carries a time to come; a search accepts what was made at most    *)
(* EXPIRATION before the request; what is being removed is due.             *)
TimesPast ==
  /\ \A i \in 1..Len(list) : list[i].time <= now
  /\ Busy => Due(victim)
  /\ \A t \in Client :
       /\ pc[t] # "idle" => since[t] + EXPIRATION <= now
       /\ map[t].time <= now
       /\ pc[t] \in {"match", "copy"} => match[t].time <= now
       /\ timeNow[t] <= now

(* Every mapping is inserted once: what a thread is still making is nowhere  *)
(* else, so a freed element never comes back to life.                       *)
Making(t) == pc[t] \in {"find", "match", "copy", "draw", "rules", "stamped"}

UniqueIds ==
  /\ \A i \in 1..Len(list) : list[i].id <= received
  /\ victim.id <= received
  /\ \A t \in Client : map[t].id <= received /\ match[t].id <= received
  /\ \A t, u \in Client : Making(t) /\ Making(u) /\ t # u => map[t].id # map[u].id
  /\ \A t \in Client : Making(t) =>
       /\ \A i \in 1..Len(list) : list[i].id # map[t].id
       /\ victim.id # map[t].id
       /\ \A u \in Client : pc[u] \in {"match", "copy"} => match[u].id # map[t].id

(* What a thread knows of the element it found, and for how long.            *)
TooLate(t) == now >= since[t] + EXPIRATION + GRACE

MatchKnown(t) ==
  /\ pc[t] = "match" =>
       /\ match[t].time >= since[t]
       /\ Freed(match[t]) => TooLate(t)
  /\ pc[t] = "copy" =>
       \/ /\ match[t].time <= timeNow[t]
          /\ timeNow[t] < match[t].time + EXPIRATION
          /\ Freed(match[t]) => now > timeNow[t] + GRACE
       \/ Freed(match[t]) /\ TooLate(t)

MatchesKnown == \A t \in Client : MatchKnown(t)

(* Two owners of a pair make it contested.                                   *)
OwnersContested ==
  /\ \A i, j \in 1..Len(list) :
       i # j /\ Pair(list[i]) = Pair(list[j]) => Pair(list[i]) \in contested
  /\ \A i \in 1..Len(list) :
       Busy /\ Pair(list[i]) = Pair(victim) => Pair(victim) \in contested
  /\ \A t \in Client : InProgress(t) =>
       /\ Busy /\ Pair(map[t]) = Pair(victim) => Pair(map[t]) \in contested
       /\ \A i \in 1..Len(list) :
            Pair(map[t]) = Pair(list[i]) => Pair(map[t]) \in contested
       /\ \A u \in Client :
            t # u /\ InProgress(u) /\ Pair(map[t]) = Pair(map[u])
              => Pair(map[t]) \in contested

(* The rules a thread has been through are there, and are still there when   *)
(* the mapping is inserted.                                                 *)
RulesUnderway ==
  \A t \in Client :
    InProgress(t) /\ Pair(map[t]) \notin contested =>
      /\ pc[t] = "stamped" \/ at[t] > 1 => rules[Dnat(Pair(map[t]))] > 0
      /\ pc[t] = "stamped" \/ at[t] > 2 => rules[Snat(Pair(map[t]))] > 0

(* The cleaner's first two calls have left their rules.                      *)
EstablishedReady ==
  Busy => /\ at[Cleaner] > 1 => rules[Established(Dnat(Pair(victim)))] > 0
          /\ at[Cleaner] > 2 => rules[Established(Snat(Pair(victim)))] > 0

IInv == /\ TypeOK /\ PairsComplete /\ TimesPast /\ UniqueIds /\ MatchesKnown
        /\ AnswerBacked /\ OwnersContested /\ RulesUnderway /\ RulesInstalled
        /\ EstablishedReady

(* The initial state has its types.                                         *)
LEMMA InitType == Init => TypeOK /\ PairsComplete
<1> SUFFICES ASSUME Init PROVE TypeOK /\ PairsComplete
  OBVIOUS
<1>1. TypeOK
  BY MaxTimeIsNat, BoundsAreNat, NoMappingType, NoAnswerType DEF Init, TypeOK
<1>2. PairsComplete
  BY DEF Init, PairsComplete, Busy, InProgress, NoMapping
<1> QED BY <1>1, <1>2

(* Every call of the two scripts is a call on a rule.                       *)
LEMMA ScriptType ==
  ASSUME NEW m \in Mapping, Complete(m)
  PROVE  AddScript(m) \in Seq(Call) /\ RemovalScript(m) \in Seq(Call)
<1>1. Pair(m) \in Prefixes \X PublicIPs
  BY DEF Pair, Complete
<1> DEFINE p == Pair(m)
<1>2. /\ Dnat(p) \in Rule /\ Snat(p) \in Rule
      /\ Established(Dnat(p)) \in Rule /\ Established(Snat(p)) \in Rule
  BY <1>1, RulesOfPair DEF PlainRules
<1>3. /\ AddRule(Dnat(p)) \in Call /\ AddRule(Snat(p)) \in Call
      /\ AddRule(Established(Dnat(p))) \in Call
      /\ AddRule(Established(Snat(p))) \in Call
      /\ DeleteRule(Dnat(p)) \in Call /\ DeleteRule(Snat(p)) \in Call
  BY <1>2 DEF AddRule, DeleteRule, Call
<1> QED BY <1>3 DEF AddScript, RemovalScript

(* One iptables process of checkAddRule keeps the tables' types.             *)
LEMMA ScriptStepType ==
  ASSUME TypeOK, NEW t \in Thread, NEW script \in Seq(Call),
         CheckRule(t, script) \/ ApplyRule(t, script)
  PROVE  /\ rules' \in [Rule -> Nat]
         /\ at' \in [Thread -> Nat \ {0}]
         /\ applying' \in [Thread -> BOOLEAN]
<1>1. CASE CheckRule(t, script)
  <2>1. rules' \in [Rule -> Nat]
    BY <1>1 DEF TypeOK, CheckRule
  <2>2. at' \in [Thread -> Nat \ {0}]
    BY <1>1 DEF TypeOK, CheckRule, NextCall
  <2>3. applying' \in [Thread -> BOOLEAN]
    BY <1>1 DEF TypeOK, CheckRule
  <2> QED BY <2>1, <2>2, <2>3
<1>2. CASE ApplyRule(t, script)
  <2>1. script[at[t]] \in Call
    BY <1>2 DEF TypeOK, ApplyRule
  <2>2. \A n \in Nat : Applied(script[at[t]], n) \in Nat
    BY DEF Applied
  <2>3. rules' \in [Rule -> Nat]
    BY <1>2, <2>1, <2>2 DEF TypeOK, ApplyRule, Call
  <2>4. at' \in [Thread -> Nat \ {0}]
    BY <1>2 DEF TypeOK, ApplyRule, NextCall
  <2>5. applying' \in [Thread -> BOOLEAN]
    BY <1>2 DEF TypeOK, ApplyRule
  <2> QED BY <2>3, <2>4, <2>5
<1> QED BY <1>1, <1>2

(* Type correctness needs that scripts are only run for complete pairs, and  *)
(* that the seconds left of a match are positive.                           *)
LEMMA TypeStep ==
  ASSUME TypeOK, PairsComplete, MatchesKnown, [Next]_vars
  PROVE  TypeOK' /\ PairsComplete'
<1> USE DEF listVars, ruleVars, threadVars, historyVars
<1>1. CASE UNCHANGED vars
  BY <1>1 DEF vars, TypeOK, PairsComplete, InProgress, Busy
<1>2. ASSUME NEW t \in Client, NEW h \in Hosts, ReceiveAdd(t, h)
      PROVE  TypeOK' /\ PairsComplete'
  <2> DEFINE m == [id |-> received + 1, prefix |-> IspPrefix(h),
                   ip |-> NULL, time |-> 0]
  <2>1. m.prefix \in Prefixes /\ m.id # 0 /\ m \in Mapping
    BY BoundsAreNat DEF Prefixes, Mapping, TypeOK
  <2>2. map' = [map EXCEPT ![t] = m]
    BY <1>2 DEF ReceiveAdd
  <2> HIDE DEF m
  <2>3. TypeOK'
    BY <1>2, <2>1, <2>2, NoAnswerType, PeriodsAreNat, BoundsAreNat,
       MaxTimeIsNat DEF ReceiveAdd, TypeOK
  <2>4. PairsComplete'
    BY <1>2, <2>1, <2>2 DEF ReceiveAdd, TypeOK, PairsComplete, InProgress, Busy
  <2> QED BY <2>3, <2>4
<1>3. ASSUME NEW t \in Client, FindByPrefix(t)
      PROVE  TypeOK' /\ PairsComplete'
  <2>1. CASE UNCHANGED match /\ pc' = [pc EXCEPT ![t] = "draw"]
    <3>1. TypeOK'
      BY <1>3, <2>1 DEF FindByPrefix, TypeOK
    <3>2. PairsComplete'
      BY <1>3, <2>1 DEF FindByPrefix, TypeOK, PairsComplete, InProgress, Busy
    <3> QED BY <3>1, <3>2
  <2>2. ASSUME NEW i \in 1..Len(list),
               match' = [match EXCEPT ![t] = list[i]],
               pc' = [pc EXCEPT ![t] = "match"]
        PROVE  TypeOK' /\ PairsComplete'
    <3>1. list[i] \in Mapping /\ Complete(list[i])
      BY DEF TypeOK, PairsComplete
    <3>2. TypeOK'
      BY <1>3, <2>2, <3>1 DEF FindByPrefix, TypeOK
    <3>3. PairsComplete'
      BY <1>3, <2>2, <3>1 DEF FindByPrefix, TypeOK, PairsComplete, InProgress, Busy
    <3> QED BY <3>2, <3>3
  <2> QED BY <1>3, <2>1, <2>2 DEF FindByPrefix
<1>4. ASSUME NEW t \in Client, CheckMatch(t)
      PROVE  TypeOK' /\ PairsComplete'
  <2>1. now \in Nat
    BY MaxTimeIsNat DEF TypeOK
  <2>2. PICK next \in {"copy", "draw"} : pc' = [pc EXCEPT ![t] = next]
    BY <1>4 DEF CheckMatch
  <2>3. TypeOK'
    BY <1>4, <2>1, <2>2 DEF CheckMatch, TypeOK
  <2>4. PairsComplete'
    BY <1>4, <2>2 DEF CheckMatch, TypeOK, PairsComplete, InProgress, Busy
  <2> QED BY <2>3, <2>4
<1>5. ASSUME NEW t \in Client, CopyMatch(t)
      PROVE  TypeOK' /\ PairsComplete'
  <2>1. PICK a \in Answer : answer' \in {answer, [answer EXCEPT ![t] = a]}
    <3>1. CASE Freed(match[t])
      BY <1>5, <3>1, NoAnswerType DEF CopyMatch
    <3>2. CASE ~Freed(match[t])
      <4> DEFINE a == [prefix |-> match[t].prefix, ip |-> match[t].ip,
                       at |-> timeNow[t], ttl |-> SecondsLeft(t)]
      <4>1. match[t] \in Mapping /\ timeNow[t] \in Nat
        BY DEF TypeOK
      <4>2. SecondsLeft(t) \in 1..EXPIRATION
        BY <1>5, <3>2, <4>1, PeriodsAreNat
        DEF CopyMatch, MatchesKnown, MatchKnown, SecondsLeft, Mapping
      <4>3. a \in Answer
        BY <4>1, <4>2, PeriodsAreNat DEF Answer, Mapping
      <4>4. answer' = [answer EXCEPT ![t] = a]
        BY <1>5, <3>2 DEF CopyMatch
      <4> QED BY <4>3, <4>4
    <3> QED BY <3>1, <3>2
  <2>2. TypeOK'
    BY <1>5, <2>1 DEF CopyMatch, TypeOK
  <2>3. PairsComplete'
    BY <1>5 DEF CopyMatch, TypeOK, PairsComplete, InProgress, Busy
  <2> QED BY <2>2, <2>3
<1>6. ASSUME NEW t \in Client, NEW ip \in PublicIPs, Draw(t, ip)
      PROVE  TypeOK' /\ PairsComplete'
  <2> DEFINE m == WithAddress(map[t], ip)
  <2>1. Complete(m) /\ m \in Mapping
    BY <1>6 DEF Draw, WithAddress, TypeOK, Mapping, PairsComplete, Complete
  <2>2. map' = [map EXCEPT ![t] = m]
    BY <1>6 DEF Draw
  <2>3. <<map[t].prefix, ip>> \in Prefixes \X PublicIPs
    BY <1>6 DEF Draw, PairsComplete
  <2> HIDE DEF m
  <2>4. TypeOK'
    BY <1>6, <2>1, <2>2, <2>3 DEF Draw, TypeOK, Thread
  <2>5. PairsComplete'
    BY <1>6, <2>1, <2>2 DEF Draw, TypeOK, PairsComplete, InProgress, Busy, Complete
  <2> QED BY <2>4, <2>5
<1>7. ASSUME NEW t \in Client, InstallRules(t)
      PROVE  TypeOK' /\ PairsComplete'
  <2>1. AddScript(map[t]) \in Seq(Call)
    BY <1>7, ScriptType DEF InstallRules, TypeOK, PairsComplete, InProgress
  <2>2. t \in Thread
    BY DEF Thread
  <2>3. TypeOK'
    BY <1>7, <2>1, <2>2, ScriptStepType DEF InstallRules, TypeOK
  <2>4. PairsComplete'
    BY <1>7 DEF InstallRules, PairsComplete, InProgress, Busy
  <2> QED BY <2>3, <2>4
<1>8. ASSUME NEW t \in Client, StampMapping(t)
      PROVE  TypeOK' /\ PairsComplete'
  <2> DEFINE m == CreatedAt(map[t], now)
  <2>1. Complete(m) /\ m \in Mapping
    BY <1>8, MaxTimeIsNat DEF StampMapping, CreatedAt, TypeOK, Mapping,
       PairsComplete, Complete, InProgress
  <2>2. map' = [map EXCEPT ![t] = m]
    BY <1>8 DEF StampMapping
  <2> HIDE DEF m
  <2>3. TypeOK'
    BY <1>8, <2>1, <2>2 DEF StampMapping, TypeOK
  <2>4. PairsComplete'
    BY <1>8, <2>1, <2>2 DEF StampMapping, TypeOK, PairsComplete, InProgress,
       Busy, Complete
  <2> QED BY <2>3, <2>4
<1>9. ASSUME NEW t \in Client, InsertMapping(t)
      PROVE  TypeOK' /\ PairsComplete'
  <2>1. map[t] \in Mapping /\ Complete(map[t])
    BY <1>9 DEF InsertMapping, TypeOK, PairsComplete, InProgress
  <2>2. [prefix |-> map[t].prefix, ip |-> map[t].ip,
         at |-> map[t].time, ttl |-> EXPIRATION] \in Answer
    BY <2>1, PeriodsAreNat DEF Answer, Mapping
  <2>3. list' = Append(list, map[t])
    BY <1>9 DEF InsertMapping
  <2>4. TypeOK'
    BY <1>9, <2>1, <2>2, AppendOne DEF InsertMapping, TypeOK
  <2>5. \A i \in 1..Len(list') : Complete(list'[i])
    <3>1. \A i \in 1..Len(list') :
            (i \in 1..Len(list) /\ list'[i] = list[i]) \/ list'[i] = map[t]
      BY <2>1, <2>3, AppendOne DEF TypeOK
    <3> QED BY <2>1, <3>1 DEF PairsComplete
  <2>6. PairsComplete'
    BY <1>9, <2>5 DEF InsertMapping, TypeOK, PairsComplete, InProgress, Busy
  <2> QED BY <2>4, <2>6
<1>10. ASSUME NEW t \in Client, Respond(t)
      PROVE  TypeOK' /\ PairsComplete'
  <2>1. TypeOK'
    BY <1>10, NoMappingType DEF Respond, TypeOK
  <2>2. PairsComplete'
    BY <1>10 DEF Respond, TypeOK, PairsComplete, InProgress, Busy
  <2> QED BY <2>1, <2>2
<1>11. CASE Expire
  <2>1. list # << >> /\ victim' = Head(list) /\ list' = Tail(list)
    BY <1>11 DEF Expire, PopExpired
  <2>2. Head(list) \in Mapping /\ Complete(Head(list))
    BY <2>1, HeadAndTail DEF TypeOK, PairsComplete
  <2>3. TypeOK'
    BY <1>11, <2>1, <2>2, HeadAndTail DEF Expire, PopExpired, TypeOK, Thread
  <2>4. \A i \in 1..Len(list') : Complete(list'[i])
    BY <2>1, HeadAndTail DEF TypeOK, PairsComplete
  <2>5. PairsComplete'
    BY <1>11, <2>1, <2>2, <2>4 DEF Expire, PairsComplete, InProgress, Busy
  <2> QED BY <2>3, <2>5
<1>12. CASE RemoveRules
  <2>1. RemovalScript(victim) \in Seq(Call)
    BY <1>12, ScriptType DEF RemoveRules, TypeOK, PairsComplete
  <2>2. Cleaner \in Thread
    BY DEF Thread
  <2>3. TypeOK'
    BY <1>12, <2>1, <2>2, ScriptStepType DEF RemoveRules, TypeOK
  <2>4. PairsComplete'
    BY <1>12 DEF RemoveRules, PairsComplete, InProgress, Busy
  <2> QED BY <2>3, <2>4
<1>13. CASE FreeMapping
  <2>1. victim'.id = 0
    BY <1>13 DEF FreeMapping, NoMapping
  <2>2. TypeOK'
    BY <1>13, NoMappingType DEF FreeMapping, TypeOK
  <2>3. PairsComplete'
    BY <1>13, <2>1 DEF FreeMapping, PairsComplete, InProgress, Busy
  <2> QED BY <2>2, <2>3
<1>14. CASE ClockTick
  <2>1. TypeOK'
    BY <1>14, MaxTimeIsNat DEF ClockTick, Tick, TypeOK
  <2>2. PairsComplete'
    BY <1>14 DEF ClockTick, Tick, PairsComplete, InProgress, Busy
  <2> QED BY <2>1, <2>2
<1>15. CASE Restart
  <2>1. TypeOK'
    BY <1>15, NoMappingType, NoAnswerType, BoundsAreNat DEF Restart, TypeOK
  <2>2. PairsComplete'
    BY <1>15 DEF Restart, NoMapping, PairsComplete, InProgress, Busy
  <2> QED BY <2>1, <2>2
<1> QED BY <1>1, <1>2, <1>3, <1>4, <1>5, <1>6, <1>7, <1>8, <1>9, <1>10,
           <1>11, <1>12, <1>13, <1>14, <1>15 DEF Next, ClientStep, CleanerStep

(* No step puts a time into the future.                                     *)
LEMMA TimesPastStep ==
  ASSUME TypeOK, PairsComplete, TimesPast, [Next]_vars
  PROVE  TimesPast'
<1> USE DEF listVars, ruleVars, threadVars, historyVars
<1>1. CASE UNCHANGED vars
  BY <1>1 DEF vars, TypeOK, TimesPast, InProgress, Busy, Due, ExpirationTime
<1>2. ASSUME NEW t \in Client, NEW h \in Hosts, ReceiveAdd(t, h)
      PROVE  TimesPast'
  BY <1>2, PeriodsAreNat, MaxTimeIsNat DEF ReceiveAdd, TypeOK, TimesPast,
      InProgress, Busy, Due, ExpirationTime
<1>3. ASSUME NEW t \in Client, FindByPrefix(t)
      PROVE  TimesPast'
  BY <1>3 DEF FindByPrefix, TypeOK, TimesPast, InProgress, Busy, Due,
      ExpirationTime
<1>4. ASSUME NEW t \in Client, CheckMatch(t)
      PROVE  TimesPast'
  BY <1>4 DEF CheckMatch, TypeOK, TimesPast, InProgress, Busy, Due,
      ExpirationTime
<1>5. ASSUME NEW t \in Client, CopyMatch(t)
      PROVE  TimesPast'
  BY <1>5 DEF CopyMatch, TypeOK, TimesPast, InProgress, Busy, Due,
      ExpirationTime
<1>6. ASSUME NEW t \in Client, NEW ip \in PublicIPs, Draw(t, ip)
      PROVE  TimesPast'
  <2>1. map' = [map EXCEPT ![t] = WithAddress(map[t], ip)] /\ WithAddress(map[t], ip).time = map[t].time
    BY <1>6 DEF Draw, WithAddress
  <2> QED BY <1>6, <2>1 DEF Draw, TypeOK, TimesPast, InProgress, Busy, Due,
      ExpirationTime
<1>7. ASSUME NEW t \in Client, InstallRules(t)
      PROVE  TimesPast'
  BY <1>7 DEF InstallRules, TypeOK, TimesPast, InProgress, Busy, Due,
      ExpirationTime
<1>8. ASSUME NEW t \in Client, StampMapping(t)
      PROVE  TimesPast'
  <2>1. map' = [map EXCEPT ![t] = CreatedAt(map[t], now)] /\ CreatedAt(map[t], now).time = now
    BY <1>8 DEF StampMapping, CreatedAt
  <2> QED BY <1>8, <2>1, MaxTimeIsNat DEF StampMapping, TypeOK, TimesPast,
      InProgress, Busy, Due, ExpirationTime
<1>9. ASSUME NEW t \in Client, InsertMapping(t)
      PROVE  TimesPast'
  <2>1. list' = Append(list, map[t]) /\ map[t] \in Mapping /\ map[t].time <= now
    BY <1>9 DEF InsertMapping, TypeOK, TimesPast
  <2>2. \A i \in 1..Len(list') : list'[i].time <= now
    BY <2>1, AppendOne DEF TypeOK, TimesPast
  <2> QED BY <1>9, <2>2 DEF InsertMapping, TypeOK, TimesPast, InProgress, Busy,
      Due, ExpirationTime
<1>10. ASSUME NEW t \in Client, Respond(t)
      PROVE  TimesPast'
  <2>1. 0 <= now
    BY MaxTimeIsNat DEF TypeOK
  <2>2. /\ map' = [map EXCEPT ![t] = NoMapping] /\ NoMapping.time = 0
        /\ pc' = [pc EXCEPT ![t] = "idle"]
    BY <1>10 DEF Respond, NoMapping
  <2> QED BY <1>10, <2>1, <2>2 DEF Respond, TypeOK, TimesPast, InProgress,
      Busy, Due, ExpirationTime
<1>11. CASE Expire
  <2>1. list # << >> /\ Due(Head(list)) /\ victim' = Head(list) /\ list' = Tail(list)
    BY <1>11 DEF Expire, PopExpired
  <2>2. \A i \in 1..Len(list') : list'[i].time <= now
    BY <2>1, HeadAndTail DEF TypeOK, TimesPast
  <2>3. now' = now /\ Busy' => Due(victim)'
    BY <2>1 DEF Due, ExpirationTime
  <2> QED BY <1>11, <2>1, <2>2, <2>3 DEF Expire, TimesPast, InProgress
<1>12. CASE RemoveRules
  BY <1>12 DEF RemoveRules, TypeOK, TimesPast, InProgress, Busy, Due,
      ExpirationTime
<1>13. CASE FreeMapping
  BY <1>13 DEF FreeMapping, TypeOK, TimesPast, InProgress, Busy, Due,
      ExpirationTime, NoMapping
<1>14. CASE ClockTick
  <2>1. now \in Int /\ now' = now + 1
    BY <1>14, MaxTimeIsNat DEF ClockTick, Tick, TypeOK
  <2>2. \A x \in Int : x <= now => x <= now'
    BY <2>1
  <2>3. \A i \in 1..Len(list') : list'[i].time <= now'
    <3>1. \A i \in 1..Len(list) : list[i].time \in Int
      BY ListFields DEF TypeOK
    <3> QED BY <1>14, <2>2, <3>1 DEF ClockTick, TimesPast
  <2>4. Busy' => Due(victim)'
    BY <1>14, <2>2, PeriodsAreNat DEF ClockTick, TypeOK, Mapping, TimesPast,
        Busy, Due, ExpirationTime
  <2>5. \A u \in Client : /\ since[u] + EXPIRATION \in Int /\ timeNow[u] \in Int
                           /\ map[u].time \in Int /\ match[u].time \in Int
    BY PeriodsAreNat DEF TypeOK, Mapping
  <2> QED BY <1>14, <2>2, <2>3, <2>4, <2>5 DEF ClockTick, TimesPast, InProgress
<1>15. CASE Restart
  BY <1>15, MaxTimeIsNat DEF Restart, TypeOK, TimesPast, InProgress, Busy, Due,
      ExpirationTime, NoMapping
<1> QED BY <1>1, <1>2, <1>3, <1>4, <1>5, <1>6, <1>7, <1>8, <1>9, <1>10, <1>11,
    <1>12, <1>13, <1>14, <1>15
  DEF Next, ClientStep, CleanerStep


(* No step gives two live mappings the same identity.                       *)
LEMMA UniqueIdsStep ==
  ASSUME TypeOK, PairsComplete, UniqueIds, [Next]_vars
  PROVE  UniqueIds'
<1> USE DEF listVars, ruleVars, threadVars, historyVars
<1>1. CASE UNCHANGED vars
  BY <1>1 DEF vars, TypeOK, UniqueIds, Making
<1>2. ASSUME NEW t \in Client, NEW h \in Hosts, ReceiveAdd(t, h)
      PROVE  UniqueIds'
  <2> DEFINE m == [id |-> received + 1, prefix |-> IspPrefix(h),
                   ip |-> NULL, time |-> 0]
  <2>1. map' = [map EXCEPT ![t] = m] /\ m.id = received + 1
    BY <1>2 DEF ReceiveAdd
  <2> HIDE DEF m
  <2>2. received \in Nat /\ received' = received + 1
    BY <1>2, BoundsAreNat DEF ReceiveAdd, TypeOK
  <2>3. \A x \in Nat : x <= received => x <= received' /\ x # received + 1
    BY <2>2
  <2>4. \A i \in 1..Len(list) : list[i].id \in Nat
    BY ListFields DEF TypeOK
  <2>5. victim.id \in Nat /\ \A u \in Client : map[u].id \in Nat /\ match[u].id \in Nat
    BY DEF TypeOK, Mapping
  <2>6. /\ \A i \in 1..Len(list) : list[i].id <= received'
        /\ victim.id <= received'
        /\ \A u \in Client : map'[u].id <= received' /\ match[u].id <= received'
    BY <2>1, <2>2, <2>3, <2>4, <2>5 DEF TypeOK, UniqueIds
  <2>7. /\ \A i \in 1..Len(list) : list[i].id # m.id
        /\ victim.id # m.id
        /\ \A u \in Client : map[u].id # m.id /\ match[u].id # m.id
    BY <2>1, <2>2, <2>3, <2>4, <2>5 DEF UniqueIds
  <2> QED BY <1>2, <2>1, <2>6, <2>7 DEF ReceiveAdd, TypeOK, UniqueIds, Making
<1>3. ASSUME NEW t \in Client, FindByPrefix(t)
      PROVE  UniqueIds'
  <2>1. CASE UNCHANGED match /\ pc' = [pc EXCEPT ![t] = "draw"]
    BY <1>3, <2>1 DEF FindByPrefix, TypeOK, UniqueIds, Making
  <2>2. ASSUME NEW i \in 1..Len(list),
               match' = [match EXCEPT ![t] = list[i]],
               pc' = [pc EXCEPT ![t] = "match"]
        PROVE  UniqueIds'
    <3>1. list[i].id <= received /\ \A u \in Client : Making(u) => list[i].id # map[u].id
      BY DEF UniqueIds
    <3> QED BY <1>3, <2>2, <3>1 DEF FindByPrefix, TypeOK, UniqueIds, Making
  <2> QED BY <1>3, <2>1, <2>2 DEF FindByPrefix
<1>4. ASSUME NEW t \in Client, CheckMatch(t)
      PROVE  UniqueIds'
  <2>1. PICK next \in {"copy", "draw"} : pc' = [pc EXCEPT ![t] = next]
    BY <1>4 DEF CheckMatch
  <2> QED BY <1>4, <2>1 DEF CheckMatch, TypeOK, UniqueIds, Making
<1>5. ASSUME NEW t \in Client, CopyMatch(t)
      PROVE  UniqueIds'
  BY <1>5 DEF CopyMatch, TypeOK, UniqueIds, Making
<1>6. ASSUME NEW t \in Client, NEW ip \in PublicIPs, Draw(t, ip)
      PROVE  UniqueIds'
  <2>1. /\ map' = [map EXCEPT ![t] = WithAddress(map[t], ip)]
        /\ WithAddress(map[t], ip).id = map[t].id
    BY <1>6 DEF Draw, WithAddress
  <2> QED BY <1>6, <2>1 DEF Draw, TypeOK, UniqueIds, Making
<1>7. ASSUME NEW t \in Client, InstallRules(t)
      PROVE  UniqueIds'
  BY <1>7 DEF InstallRules, TypeOK, UniqueIds, Making
<1>8. ASSUME NEW t \in Client, StampMapping(t)
      PROVE  UniqueIds'
  <2>1. /\ map' = [map EXCEPT ![t] = CreatedAt(map[t], now)]
        /\ CreatedAt(map[t], now).id = map[t].id
    BY <1>8 DEF StampMapping, CreatedAt
  <2> QED BY <1>8, <2>1 DEF StampMapping, TypeOK, UniqueIds, Making
<1>9. ASSUME NEW t \in Client, InsertMapping(t)
      PROVE  UniqueIds'
  <2>1. /\ list' = Append(list, map[t])
        /\ map[t] \in Mapping /\ map[t].id <= received
    BY <1>9 DEF InsertMapping, TypeOK, UniqueIds
  <2>2. \A i \in 1..Len(list') :
          (i \in 1..Len(list) /\ list'[i] = list[i]) \/ list'[i] = map[t]
    BY <2>1, AppendOne DEF TypeOK
  <2> QED BY <1>9, <2>1, <2>2 DEF InsertMapping, TypeOK, UniqueIds, Making
<1>10. ASSUME NEW t \in Client, Respond(t)
      PROVE  UniqueIds'
  <2>1. /\ map' = [map EXCEPT ![t] = NoMapping] /\ NoMapping.id = 0
        /\ match' = [match EXCEPT ![t] = NoMapping]
        /\ pc' = [pc EXCEPT ![t] = "idle"] /\ 0 <= received
    BY <1>10, BoundsAreNat DEF Respond, NoMapping, TypeOK
  <2> QED BY <1>10, <2>1 DEF Respond, TypeOK, UniqueIds, Making
<1>11. CASE Expire
  <2>1. list # << >> /\ victim' = Head(list) /\ list' = Tail(list)
    BY <1>11 DEF Expire, PopExpired
  <2>2. /\ 1 \in 1..Len(list) /\ victim' = list[1]
        /\ \A i \in 1..Len(list') : i+1 \in 1..Len(list) /\ list'[i] = list[i+1]
    BY <2>1, HeadAndTail DEF TypeOK
  <2> QED BY <1>11, <2>2 DEF Expire, UniqueIds, Making
<1>12. CASE RemoveRules
  BY <1>12 DEF RemoveRules, TypeOK, UniqueIds, Making
<1>13. CASE FreeMapping
  <2>1. victim'.id = 0 /\ 0 <= received
    BY <1>13, BoundsAreNat DEF FreeMapping, NoMapping, TypeOK
  <2>2. \A u \in Client : Making(u) => map[u].id # 0
    BY DEF PairsComplete, Making
  <2> QED BY <1>13, <2>1, <2>2 DEF FreeMapping, UniqueIds, Making
<1>14. CASE ClockTick
  BY <1>14 DEF ClockTick, TypeOK, UniqueIds, Making
<1>15. CASE Restart
  <2>1. 0 <= received
    BY BoundsAreNat DEF TypeOK
  <2> QED BY <1>15, <2>1 DEF Restart, NoMapping, UniqueIds, Making
<1> QED BY <1>1, <1>2, <1>3, <1>4, <1>5, <1>6, <1>7, <1>8, <1>9, <1>10, <1>11,
    <1>12, <1>13, <1>14, <1>15
  DEF Next, ClientStep, CleanerStep


(* A thread looks at a match it had, or has just found it, or has just       *)
(* tested its age.                                                          *)
LEMMA MatchLocals ==
  ASSUME TypeOK, [Next]_vars, NEW t \in Client
  PROVE  /\ pc'[t] = "match" =>
              \/ FindByPrefix(t)
              \/ /\ pc[t] = "match" /\ since'[t] = since[t]
                 /\ match'[t] = match[t]
         /\ pc'[t] = "copy" =>
              \/ CheckMatch(t)
              \/ /\ pc[t] = "copy" /\ since'[t] = since[t]
                 /\ match'[t] = match[t] /\ timeNow'[t] = timeNow[t]
         /\ now' >= now
<1> USE DEF listVars, ruleVars, threadVars, historyVars, TypeOK
<1>1. now \in Int
  BY MaxTimeIsNat
<1>2. CASE UNCHANGED vars
  BY <1>1, <1>2 DEF vars
<1> DEFINE Fine(u) ==
      /\ now' = now
      /\ u # t => /\ pc'[t] = pc[t] /\ since'[t] = since[t]
                  /\ match'[t] = match[t] /\ timeNow'[t] = timeNow[t]
      /\ u = t => /\ pc'[t] = "match" => FindByPrefix(t)
                  /\ pc'[t] = "copy" => CheckMatch(t)
<1>3. ASSUME NEW u \in Client, ClientStep(u) PROVE Fine(u)
  <2>1. ASSUME NEW h \in Hosts, ReceiveAdd(u, h) PROVE Fine(u)
    BY <1>3, <2>1 DEF ReceiveAdd
  <2>2. CASE FindByPrefix(u)
    BY <1>3, <2>2 DEF FindByPrefix
  <2>3. CASE CheckMatch(u)
    BY <1>3, <2>3 DEF CheckMatch
  <2>4. CASE CopyMatch(u)
    BY <1>3, <2>4 DEF CopyMatch
  <2>5. ASSUME NEW ip \in PublicIPs, Draw(u, ip) PROVE Fine(u)
    BY <1>3, <2>5 DEF Draw
  <2>6. CASE InstallRules(u) \/ StampMapping(u) \/ InsertMapping(u) \/ Respond(u)
    BY <1>3, <2>6 DEF InstallRules, StampMapping, InsertMapping, Respond
  <2> HIDE DEF Fine
  <2> QED BY <1>3, <2>1, <2>2, <2>3, <2>4, <2>5, <2>6 DEF ClientStep
<1>4. CASE CleanerStep
  BY <1>1, <1>4 DEF CleanerStep, Expire, RemoveRules, FreeMapping
<1>5. CASE ClockTick
  BY <1>1, <1>5 DEF ClockTick, Tick
<1>6. CASE Restart
  BY <1>1, <1>6 DEF Restart
<1> QED BY <1>1, <1>2, <1>3, <1>4, <1>5, <1>6 DEF Next

(* An element a thread points at is freed by the cleaner and by nobody else, *)
(* when it is due, and for good.                                            *)
LEMMA FreedStep ==
  ASSUME TypeOK, TimesPast, [Next]_vars, ~Restart,
         NEW m \in Mapping, m.id # 0,
         \A u \in Client : pc[u] = "stamped" => map[u].id # m.id
  PROVE  /\ Freed(m) => Freed(m)'
         /\ ~Freed(m) /\ Freed(m)' => now >= ExpirationTime(m)
<1> USE DEF listVars, ruleVars, threadVars, historyVars
<1>1. CASE UNCHANGED <<list, victim>>
  BY <1>1 DEF Freed, Listed
<1>2. ASSUME NEW u \in Client, InsertMapping(u)
      PROVE  Freed(m)' <=> Freed(m)
  <2>1. victim' = victim /\ list' = Append(list, map[u]) /\ map[u] \in Mapping
    BY <1>2 DEF InsertMapping, TypeOK
  <2>2. map[u] # m
    BY <1>2 DEF InsertMapping
  <2>3. /\ \A i \in 1..Len(list') : list'[i] = map[u] \/ \E j \in 1..Len(list) : list[j] = list'[i]
        /\ \A j \in 1..Len(list) : j \in 1..Len(list') /\ list'[j] = list[j]
    BY <2>1, AppendOne DEF TypeOK
  <2> QED BY <2>1, <2>2, <2>3 DEF Freed, Listed
<1>3. CASE Expire
  <2>1. list # << >> /\ victim' = Head(list) /\ list' = Tail(list) /\ victim.id = 0
    BY <1>3 DEF Expire, PopExpired, Busy
  <2>2. /\ victim' = list[1] /\ Len(list) \in Nat \ {0} /\ Len(list') = Len(list) - 1
        /\ \A i \in 1..Len(list') : list'[i] = list[i+1]
    BY <2>1, HeadAndTail DEF TypeOK
  <2>3. \A i \in 1..Len(list) : i = 1 \/ (i-1 \in 1..Len(list') /\ list'[i-1] = list[i])
    BY <2>2
  <2>4. \A i \in 1..Len(list') : i+1 \in 1..Len(list)
    BY <2>2
  <2>5. 1 \in 1..Len(list)
    BY <2>2
  <2>6. Listed(m) <=> list[1] = m \/ Listed(m)'
    BY <2>2, <2>3, <2>4, <2>5 DEF Listed
  <2> QED BY <2>1, <2>2, <2>6 DEF Freed
<1>4. CASE FreeMapping
  <2>1. list' = list /\ victim' = NoMapping /\ NoMapping.id = 0 /\ Due(victim)
    BY <1>4 DEF FreeMapping, NoMapping, TimesPast
  <2> QED BY <2>1 DEF Freed, Listed, Due
<1>5. \/ UNCHANGED <<list, victim>> \/ Expire \/ FreeMapping
      \/ \E u \in Client : InsertMapping(u)
  BY DEF Next, vars, ClientStep, CleanerStep, ReceiveAdd, FindByPrefix,
         CheckMatch, CopyMatch, Draw, InstallRules, StampMapping, Respond,
         RemoveRules, ClockTick, Tick
<1> QED BY <1>1, <1>2, <1>3, <1>4, <1>5

(* A pointer a search returned stays one to a live mapping while the grace  *)
(* period lasts, whatever step is taken.                                    *)
LEMMA MatchesKnownStep ==
  ASSUME TypeOK, PairsComplete, TimesPast, UniqueIds, MatchesKnown, [Next]_vars
  PROVE  MatchesKnown'
<1> SUFFICES ASSUME NEW t \in Client PROVE MatchKnown(t)'
  BY DEF MatchesKnown
<1>1. CASE pc'[t] \notin {"match", "copy"}
  BY <1>1 DEF MatchKnown
<1> SUFFICES ASSUME pc'[t] \in {"match", "copy"} PROVE MatchKnown(t)'
  BY <1>1
<1>2. ~Restart
  BY DEF Restart
<1>3. /\ now \in Nat /\ since[t] \in Int /\ timeNow[t] \in Nat /\ match[t] \in Mapping
      /\ match[t].time \in Nat
  BY MaxTimeIsNat, MappingFields DEF TypeOK
<1>4. now' >= now /\ now' \in Nat
  <2>1. TypeOK'
    BY TypeStep
  <2>2. now' \in Nat
    BY <2>1, MaxTimeIsNat DEF TypeOK
  <2> QED BY <2>2, MatchLocals
<1>5. CASE FindByPrefix(t) /\ pc'[t] = "match"
  <2>1. PICK i \in 1..Len(list) : Matches(PrefixSearch(t), list[i]) /\ match'[t] = list[i]
    BY <1>5 DEF FindByPrefix, TypeOK
  <2>2. list[i].time >= since[t] /\ since'[t] = since[t] /\ list' = list
    BY <1>5, <2>1 DEF FindByPrefix, Matches, PrefixSearch, listVars
  <2> QED BY <1>5, <2>1, <2>2 DEF MatchKnown, Freed, Listed
<1>6. CASE CheckMatch(t) /\ pc'[t] = "copy"
  <2>1. /\ pc[t] = "match" /\ timeNow'[t] = now /\ now' = now
        /\ match'[t] = match[t] /\ since'[t] = since[t]
        /\ list' = list /\ victim' = victim
        /\ Freed(match[t]) \/ now - match[t].time < EXPIRATION
    BY <1>6 DEF CheckMatch, listVars, TypeOK
  <2>2. Freed(match[t])' <=> Freed(match[t])
    BY <2>1 DEF Freed, Listed
  <2>3. match[t].time <= now
    BY <2>1 DEF TimesPast
  <2> QED BY <1>3, <1>6, <2>1, <2>2, <2>3, PeriodsAreNat DEF MatchesKnown, MatchKnown, TooLate
<1>7. CASE /\ pc[t] = pc'[t] /\ since'[t] = since[t] /\ match'[t] = match[t]
           /\ pc[t] = "copy" => timeNow'[t] = timeNow[t]
  <2>1. PICK m \in Mapping : m = match[t]
    BY <1>3
  <2>2. m.id # 0
    BY <1>7, <2>1 DEF PairsComplete, Complete
  <2>3. \A u \in Client : pc[u] = "stamped" => map[u].id # m.id
    BY <1>7, <2>1 DEF UniqueIds, Making
  <2>4. /\ Freed(m) => Freed(m)'
        /\ ~Freed(m) /\ Freed(m)' => now >= m.time + EXPIRATION + GRACE
    BY <1>2, <2>2, <2>3, FreedStep DEF ExpirationTime
  <2>5. /\ Freed(match[t])' <=> Freed(m)'
        /\ Freed(match[t]) <=> Freed(m)
    BY <1>7, <2>1 DEF Freed, Listed
  <2>6. MatchKnown(t)
    BY DEF MatchesKnown
  <2> HIDE DEF Freed
  <2>7. CASE pc[t] = "match"
    BY <1>3, <1>4, <1>7, <2>1, <2>4, <2>5, <2>6, <2>7, PeriodsAreNat DEF MatchKnown, TooLate
  <2>8. CASE pc[t] = "copy"
    BY <1>3, <1>4, <1>7, <2>1, <2>4, <2>5, <2>6, <2>8, PeriodsAreNat DEF MatchKnown, TooLate
  <2> QED BY <1>7, <2>7, <2>8
<1> QED BY <1>5, <1>6, <1>7, MatchLocals

(* GraceProtectsMatch is what is known of a freed match.                     *)
LEMMA MatchesKnownImplies == MatchesKnown => GraceProtectsMatch
BY DEF MatchesKnown, MatchKnown, GraceProtectsMatch, TooLate


(* What a step may do to the clock, the list and the answers.                *)
LEMMA NowStep ==
  ASSUME TypeOK, [Next]_vars
  PROVE  now \in Nat /\ now' \in Nat /\ now' >= now
<1>1. now \in Nat
  BY MaxTimeIsNat DEF TypeOK
<1>2. now' = now \/ now' = now + 1
  BY DEF Next, vars, listVars, ClientStep, CleanerStep, ReceiveAdd, FindByPrefix,
     CheckMatch, CopyMatch, Draw, InstallRules, StampMapping, InsertMapping,
     Respond, Expire, RemoveRules, FreeMapping, ClockTick, Tick, Restart
<1> QED BY <1>1, <1>2

(* The list changes by an insertion, a pop or a restart, and by nothing else. *)
LEMMA ListStep ==
  ASSUME [Next]_vars
  PROVE  \/ list' = list \/ Expire \/ Restart
         \/ \E u \in Client : InsertMapping(u)
BY DEF Next, vars, listVars, ClientStep, CleanerStep, ReceiveAdd, FindByPrefix,
   CheckMatch, CopyMatch, Draw, InstallRules, StampMapping, Respond,
   RemoveRules, FreeMapping, ClockTick

(* An answer changes when its thread copies, inserts or starts over.        *)
LEMMA AnswerStep ==
  ASSUME TypeOK, [Next]_vars, NEW t \in Client
  PROVE  \/ answer'[t] = answer[t] \/ answer'[t] = NoAnswer
         \/ InsertMapping(t)
         \/ CopyMatch(t) /\ ~Freed(match[t])
<1> USE DEF listVars, ruleVars, threadVars, historyVars, TypeOK
<1>1. ASSUME NEW u \in Client, ClientStep(u)
      PROVE  \/ answer'[t] = answer[t] \/ answer'[t] = NoAnswer
             \/ InsertMapping(t)
             \/ CopyMatch(t) /\ ~Freed(match[t])
  <2>1. CASE \E h \in Hosts : ReceiveAdd(u, h)
    BY <2>1 DEF ReceiveAdd
  <2>2. CASE InsertMapping(u)
    BY <2>2 DEF InsertMapping
  <2>3. CASE CopyMatch(u)
    BY <2>3 DEF CopyMatch
  <2>4. CASE \/ FindByPrefix(u) \/ CheckMatch(u) \/ InstallRules(u)
             \/ StampMapping(u) \/ Respond(u) \/ \E ip \in PublicIPs : Draw(u, ip)
    BY <2>4 DEF FindByPrefix, CheckMatch, InstallRules, StampMapping, Respond, Draw
  <2> QED BY <1>1, <2>1, <2>2, <2>3, <2>4 DEF ClientStep
<1>2. CASE CleanerStep \/ ClockTick \/ UNCHANGED vars
  BY <1>2 DEF CleanerStep, Expire, RemoveRules, FreeMapping, ClockTick, vars
<1>3. CASE Restart
  BY <1>3 DEF Restart
<1>4. \/ \E u \in Client : ClientStep(u)
      \/ CleanerStep \/ ClockTick \/ UNCHANGED vars \/ Restart
  BY DEF Next
<1> QED BY <1>1, <1>2, <1>3, <1>4

Backed(a) ==
  \/ now >= a.at + a.ttl + GRACE
  \/ \E i \in 1..Len(list) : /\ list[i].prefix = a.prefix /\ list[i].ip = a.ip
                             /\ list[i].time + EXPIRATION = a.at + a.ttl

(* A backed answer stays backed: only a due mapping leaves the list.         *)
LEMMA BackedStep ==
  ASSUME TypeOK, [Next]_vars, ~Restart, NEW a \in Answer, Backed(a)
  PROVE  Backed(a)'
<1> USE DEF listVars, ruleVars, threadVars, historyVars
<1>1. /\ now \in Nat /\ a.at \in Nat /\ a.ttl \in Nat
      /\ \A i \in 1..Len(list) : list[i].time \in Nat
  BY MaxTimeIsNat, PeriodsAreNat, ListFields DEF TypeOK, Answer
<1>2. CASE list' = list
  BY <1>1, <1>2, NowStep, PeriodsAreNat DEF Backed
<1>3. ASSUME NEW u \in Client, InsertMapping(u) PROVE Backed(a)'
  <2>1. now' = now /\ list' = Append(list, map[u]) /\ map[u] \in Mapping
    BY <1>3 DEF InsertMapping, TypeOK
  <2>2. \A i \in 1..Len(list) : i \in 1..Len(list') /\ list'[i] = list[i]
    BY <2>1, AppendOne DEF TypeOK
  <2> QED BY <2>1, <2>2 DEF Backed
<1>4. CASE Expire
  <2>1. /\ list # << >> /\ list' = Tail(list) /\ now' = now
        /\ now >= Head(list).time + EXPIRATION + GRACE
    BY <1>4 DEF Expire, PopExpired, Due, ExpirationTime
  <2>2. /\ Head(list) = list[1] /\ Len(list) \in Nat \ {0}
        /\ Len(list') = Len(list) - 1
        /\ \A i \in 1..Len(list') : list'[i] = list[i+1]
    BY <2>1, HeadAndTail DEF TypeOK
  <2>3. \A i \in 1..Len(list) : i = 1 \/ (i-1 \in 1..Len(list') /\ list'[i-1] = list[i])
    BY <2>2
  <2>4. CASE now >= a.at + a.ttl + GRACE
    BY <2>1, <2>4 DEF Backed
  <2>5. ASSUME NEW i \in 1..Len(list), list[i].prefix = a.prefix, list[i].ip = a.ip,
               list[i].time + EXPIRATION = a.at + a.ttl
        PROVE  Backed(a)'
    <3>1. CASE i = 1
      BY <2>1, <2>2, <2>5, <3>1 DEF Backed
    <3>2. CASE i - 1 \in 1..Len(list') /\ list'[i-1] = list[i]
      BY <2>5, <3>2 DEF Backed
    <3> QED BY <2>3, <3>1, <3>2
  <2> QED BY <2>4, <2>5 DEF Backed
<1> QED BY <1>2, <1>3, <1>4, ListStep

(* Every step keeps the answers backed.                                     *)
LEMMA AnswerBackedStep ==
  ASSUME TypeOK, PairsComplete, TimesPast, MatchesKnown, AnswerBacked, [Next]_vars
  PROVE  AnswerBacked'
<1> USE DEF listVars, ruleVars, threadVars, historyVars
<1> SUFFICES ASSUME NEW t \in Client, answer'[t].ttl > 0 PROVE Backed(answer[t])'
  BY DEF AnswerBacked, Backed
<1>1. ~Restart
  BY DEF Restart, NoAnswer
<1>2. CASE answer'[t] = answer[t]
  <2>1. PICK a \in Answer : a = answer[t]
    BY DEF TypeOK
  <2>2. Backed(a)
    BY <1>2, <2>1 DEF AnswerBacked, Backed
  <2>3. Backed(a)'
    BY <1>1, <2>2, BackedStep
  <2> QED BY <1>2, <2>1, <2>3 DEF Backed
<1>3. CASE InsertMapping(t)
  <2>1. /\ list' = Append(list, map[t]) /\ map[t] \in Mapping
        /\ answer'[t] = [prefix |-> map[t].prefix, ip |-> map[t].ip,
                         at |-> map[t].time, ttl |-> EXPIRATION]
    BY <1>3 DEF InsertMapping, TypeOK
  <2>2. Len(list) + 1 \in 1..Len(list') /\ list'[Len(list) + 1] = map[t]
    BY <2>1, AppendOne DEF TypeOK
  <2> QED BY <2>1, <2>2 DEF Backed
<1>4. CASE CopyMatch(t) /\ ~Freed(match[t])
  <2>1. /\ answer'[t] = [prefix |-> match[t].prefix, ip |-> match[t].ip,
                         at |-> timeNow[t], ttl |-> SecondsLeft(t)]
        /\ list' = list /\ now' = now
    BY <1>4 DEF CopyMatch, TypeOK
  <2>2. /\ match[t].time \in Nat /\ timeNow[t] \in Nat /\ match[t] \in Mapping
    BY MappingFields DEF TypeOK
  <2>3. timeNow[t] + SecondsLeft(t) = match[t].time + EXPIRATION
    BY <2>2, PeriodsAreNat DEF SecondsLeft
  <2>4. CASE Listed(match[t])
    BY <2>1, <2>3, <2>4 DEF Listed, Backed
  <2>5. CASE victim = match[t]
    <3>1. Busy
      BY <1>4, <2>5 DEF CopyMatch, PairsComplete, Complete, Busy
    <3>2. now >= match[t].time + EXPIRATION + GRACE
      BY <2>5, <3>1 DEF TimesPast, Due, ExpirationTime
    <3> QED BY <2>1, <2>3, <3>2 DEF Backed
  <2> QED BY <1>4, <2>4, <2>5 DEF Freed
<1>5. NoAnswer.ttl = 0
  BY DEF NoAnswer
<1> QED BY <1>2, <1>3, <1>4, <1>5, AnswerStep

-----------------------------------------------------------------------------
(* The pair of a mapping with an address is a pair.                         *)
LEMMA PairFacts ==
  ASSUME NEW m, NEW x
  PROVE  /\ Pair(WithAddress(m, x)) = <<m.prefix, x>>
         /\ Pair(CreatedAt(m, x)) = Pair(m)
BY DEF Pair, WithAddress, CreatedAt

(* The only rules that ever lose a copy are those of the victim, in its      *)
(* third and fourth call.                                                   *)
LEMMA RulesStep ==
  ASSUME TypeOK, PairsComplete, [Next]_vars, NEW r \in Rule
  PROVE  /\ rules[r] \in Nat /\ rules'[r] \in Nat
         /\ rules'[r] < rules[r] =>
              /\ Busy
              /\ \/ at[Cleaner] = 3 /\ r = Dnat(Pair(victim))
                 \/ at[Cleaner] = 4 /\ r = Snat(Pair(victim))
<1>1. rules[r] \in Nat
  BY DEF TypeOK
<1>2. CASE rules' = rules
  BY <1>1, <1>2
<1>3. ASSUME NEW t \in Client, InstallRules(t), ApplyRule(t, AddScript(map[t]))
      PROVE  rules'[r] \in Nat /\ rules'[r] >= rules[r]
  <2>1. at[t] \in 1..2 /\ AddScript(map[t])[at[t]].command = "-A"
    <3>1. at[t] \in Nat \ {0}
      BY DEF TypeOK, Thread
    <3>2. at[t] <= 2
      BY <1>3, AddScriptCalls DEF ApplyRule
    <3>3. at[t] \in 1..2
      BY <3>1, <3>2
    <3> QED BY <3>3, AddScriptCalls
  <2>2. PICK q : rules' = [rules EXCEPT ![q] = rules[q] + 1]
    BY <1>3, <2>1 DEF ApplyRule, Applied
  <2> QED BY <1>1, <2>2 DEF TypeOK
<1>4. CASE RemoveRules /\ ApplyRule(Cleaner, RemovalScript(victim))
  <2>1. at[Cleaner] \in 1..4 /\ Busy
    BY <1>4, RemovalScriptCalls DEF ApplyRule, RemoveRules, TypeOK, Thread
  <2>2. CASE at[Cleaner] \in 1..2
    <3>1. RemovalScript(victim)[at[Cleaner]].command = "-A"
      BY <2>2, RemovalScriptCalls
    <3>2. PICK q : rules' = [rules EXCEPT ![q] = rules[q] + 1]
      BY <1>4, <3>1 DEF ApplyRule, Applied
    <3> QED BY <1>1, <3>2 DEF TypeOK
  <2>3. ASSUME NEW q, RemovalScript(victim)[at[Cleaner]].rule = q,
               RemovalScript(victim)[at[Cleaner]].command = "-D"
        PROVE  rules'[r] \in Nat /\ (rules'[r] < rules[r] => r = q)
    <3>1. rules' = [rules EXCEPT ![q] = IF rules[q] > 0 THEN rules[q] - 1 ELSE 0]
      BY <1>4, <2>3 DEF ApplyRule, Applied
    <3> QED BY <1>1, <3>1 DEF TypeOK
  <2>4. CASE at[Cleaner] = 3
    BY <1>1, <2>1, <2>3, <2>4, RemovalScriptCalls
  <2>5. CASE at[Cleaner] = 4
    BY <1>1, <2>1, <2>3, <2>5, RemovalScriptCalls
  <2> QED BY <2>1, <2>2, <2>4, <2>5
<1>5. \/ rules' = rules
      \/ \E t \in Client : InstallRules(t) /\ ApplyRule(t, AddScript(map[t]))
      \/ RemoveRules /\ ApplyRule(Cleaner, RemovalScript(victim))
  BY DEF Next, vars, ruleVars, ClientStep, CleanerStep, ReceiveAdd,
      FindByPrefix,
     CheckMatch, CopyMatch, Draw, InstallRules, StampMapping, InsertMapping,
     Respond, Expire, RemoveRules, FreeMapping, ClockTick, CheckRule, Restart
<1> QED BY <1>1, <1>2, <1>3, <1>4, <1>5

(* The pair of a listed mapping, or of one in progress, leaves the contested *)
(* pairs only with the process.                                             *)
LEMMA ContestedStep ==
  ASSUME [Next]_vars, ~Restart,
         NEW p, p \in contested,
         \/ \E i \in 1..Len(list) : Pair(list[i]) = p
         \/ \E t \in Client : InProgress(t) /\ Pair(map[t]) = p
  PROVE  p \in contested'
<1> USE DEF listVars, ruleVars, threadVars, historyVars
<1>1. CASE FreeMapping
  BY <1>1 DEF FreeMapping, Owned, InProgress
<1>2. CASE contested \subseteq contested'
  BY <1>2
<1>3. contested \subseteq contested' \/ FreeMapping
  BY DEF Next, vars, ClientStep, CleanerStep, ReceiveAdd, FindByPrefix,
     CheckMatch, CopyMatch, Draw, InstallRules, StampMapping, InsertMapping,
     Respond, Expire, RemoveRules, ClockTick
<1> QED BY <1>1, <1>2, <1>3

(* A pair gets a second owner only by a draw, and the draw marks it.         *)
LEMMA OwnersContestedStep ==
  ASSUME TypeOK, PairsComplete, OwnersContested, [Next]_vars
  PROVE  OwnersContested'
<1> USE DEF listVars, ruleVars, threadVars, historyVars
<1>1. CASE UNCHANGED vars
  BY <1>1 DEF vars, TypeOK, OwnersContested, InProgress, Busy
<1>2. ASSUME NEW t \in Client, NEW h \in Hosts, ReceiveAdd(t, h)
      PROVE  OwnersContested'
  BY <1>2 DEF ReceiveAdd, TypeOK, OwnersContested, InProgress, Busy
<1>3. ASSUME NEW t \in Client, FindByPrefix(t)
      PROVE  OwnersContested'
  <2>1. PICK next \in {"match", "draw"} : pc' = [pc EXCEPT ![t] = next]
    BY <1>3 DEF FindByPrefix
  <2> QED BY <1>3, <2>1 DEF FindByPrefix, TypeOK, OwnersContested, InProgress,
      Busy
<1>4. ASSUME NEW t \in Client, CheckMatch(t)
      PROVE  OwnersContested'
  <2>1. PICK next \in {"copy", "draw"} : pc' = [pc EXCEPT ![t] = next]
    BY <1>4 DEF CheckMatch
  <2> QED BY <1>4, <2>1 DEF CheckMatch, TypeOK, OwnersContested, InProgress,
      Busy
<1>5. ASSUME NEW t \in Client, CopyMatch(t)
      PROVE  OwnersContested'
  BY <1>5 DEF CopyMatch, TypeOK, OwnersContested, InProgress, Busy
<1>6. ASSUME NEW t \in Client, NEW ip \in PublicIPs, Draw(t, ip)
      PROVE  OwnersContested'
  <2> DEFINE p == <<map[t].prefix, ip>>
  <2>1. /\ map' = [map EXCEPT ![t] = WithAddress(map[t], ip)]
        /\ pc' = [pc EXCEPT ![t] = "rules"] /\ pc[t] = "draw"
        /\ list' = list /\ victim' = victim
    BY <1>6 DEF Draw
  <2>2. Pair(map'[t]) = p
    BY <2>1, PairFacts DEF TypeOK
  <2>3. contested \subseteq contested' /\ (Owned(p) => p \in contested')
    BY <1>6 DEF Draw
  <2>4. \A u \in Client : u # t => map'[u] = map[u] /\ pc'[u] = pc[u]
    BY <2>1 DEF TypeOK
  <2> HIDE DEF p
  <2>5. /\ Busy /\ Pair(victim) = p => p \in contested'
        /\ \A i \in 1..Len(list) : Pair(list[i]) = p => p \in contested'
        /\ \A u \in Client : InProgress(u) /\ Pair(map[u]) = p => p \in contested'
    BY <2>3 DEF Owned
  <2> QED BY <2>1, <2>2, <2>3, <2>4, <2>5 DEF OwnersContested, InProgress, Busy
<1>7. ASSUME NEW t \in Client, InstallRules(t)
      PROVE  OwnersContested'
  BY <1>7 DEF InstallRules, TypeOK, OwnersContested, InProgress, Busy
<1>8. ASSUME NEW t \in Client, StampMapping(t)
      PROVE  OwnersContested'
  <2>1. /\ map' = [map EXCEPT ![t] = CreatedAt(map[t], now)]
        /\ Pair(CreatedAt(map[t], now)) = Pair(map[t])
    BY <1>8, PairFacts DEF StampMapping
  <2>2. \A u \in Client : Pair(map'[u]) = Pair(map[u]) /\ (InProgress(u)' <=> InProgress(u))
    BY <1>8, <2>1 DEF StampMapping, TypeOK, InProgress
  <2> QED BY <1>8, <2>2 DEF StampMapping, OwnersContested, Busy
<1>9. ASSUME NEW t \in Client, InsertMapping(t)
      PROVE  OwnersContested'
  <2>1. /\ list' = Append(list, map[t]) /\ map[t] \in Mapping /\ InProgress(t)
        /\ ~InProgress(t)' /\ map' = map /\ victim' = victim /\ contested' = contested
        /\ \A u \in Client : u # t => (InProgress(u)' <=> InProgress(u))
    BY <1>9 DEF InsertMapping, TypeOK, InProgress
  <2>2. \A i \in 1..Len(list') :
          \/ i \in 1..Len(list) /\ list'[i] = list[i]
          \/ i = Len(list) + 1 /\ list'[i] = map[t]
    BY <2>1, AppendOne DEF TypeOK
  <2>3. \A i, j \in 1..Len(list') :
          i # j /\ Pair(list'[i]) = Pair(list'[j]) => Pair(list'[i]) \in contested
    BY <2>1, <2>2 DEF OwnersContested
  <2>4. \A i \in 1..Len(list') :
          Busy /\ Pair(list'[i]) = Pair(victim) => Pair(victim) \in contested
    BY <2>1, <2>2 DEF OwnersContested
  <2>5. \A u \in Client : InProgress(u)' =>
          /\ Busy /\ Pair(map[u]) = Pair(victim) => Pair(map[u]) \in contested
          /\ \A i \in 1..Len(list') :
               Pair(map[u]) = Pair(list'[i]) => Pair(map[u]) \in contested
          /\ \A v \in Client : u # v /\ InProgress(v)' /\ Pair(map[u]) = Pair(map[v])
               => Pair(map[u]) \in contested
    BY <2>1, <2>2 DEF OwnersContested
  <2> QED BY <2>1, <2>3, <2>4, <2>5 DEF OwnersContested, Busy
<1>10. ASSUME NEW t \in Client, Respond(t)
      PROVE  OwnersContested'
  <2>1. /\ \A u \in Client : InProgress(u)' => InProgress(u) /\ map'[u] = map[u]
        /\ list' = list /\ victim' = victim /\ contested' = contested
    BY <1>10 DEF Respond, TypeOK, InProgress
  <2> QED BY <2>1 DEF OwnersContested, Busy
<1>11. CASE Expire
  <2>1. /\ list # << >> /\ victim' = Head(list) /\ list' = Tail(list)
        /\ contested' = contested /\ map' = map /\ pc' = pc
    BY <1>11 DEF Expire, PopExpired
  <2>2. /\ 1 \in 1..Len(list) /\ victim' = list[1]
        /\ \A i \in 1..Len(list') : /\ i+1 \in 1..Len(list) /\ i+1 # 1
                                    /\ list'[i] = list[i+1]
        /\ \A i, j \in 1..Len(list') : i # j => i+1 # j+1
    BY <2>1, HeadAndTail DEF TypeOK
  <2> QED BY <2>1, <2>2 DEF OwnersContested, InProgress
<1>12. CASE RemoveRules
  BY <1>12 DEF RemoveRules, TypeOK, OwnersContested, InProgress, Busy
<1>13. CASE FreeMapping
  <2>1. /\ list' = list /\ map' = map /\ pc' = pc
        /\ ~Busy' /\ ~Restart
    BY <1>13, BoundsAreNat DEF FreeMapping, NoMapping, Busy, Restart, TypeOK
  <2>2. /\ \A i \in 1..Len(list) :
             Pair(list[i]) \in contested => Pair(list[i]) \in contested'
        /\ \A u \in Client : InProgress(u) /\ Pair(map[u]) \in contested =>
             Pair(map[u]) \in contested'
    BY <2>1, ContestedStep
  <2> QED BY <2>1, <2>2 DEF OwnersContested, InProgress
<1>14. CASE ClockTick
  BY <1>14 DEF ClockTick, TypeOK, OwnersContested, InProgress, Busy
<1>15. CASE Restart
  BY <1>15 DEF Restart, TypeOK, OwnersContested, InProgress, Busy, NoMapping
<1> QED BY <1>1, <1>2, <1>3, <1>4, <1>5, <1>6, <1>7, <1>8, <1>9, <1>10, <1>11,
    <1>12, <1>13, <1>14, <1>15
  DEF Next, ClientStep, CleanerStep

(* The cleaner moves past a call for an established rule only with the rule *)
(* in the kernel.                                                           *)
LEMMA EstablishedReadyStep ==
  ASSUME TypeOK, PairsComplete, EstablishedReady, [Next]_vars
  PROVE  EstablishedReady'
<1> USE DEF listVars, ruleVars, threadVars, historyVars
<1> DEFINE p == Pair(victim)
<1>1. CASE RemoveRules
  <2>1. /\ Busy /\ victim' = victim /\ victim \in Mapping
        /\ at[Cleaner] \in Nat \ {0}
    BY <1>1 DEF RemoveRules, TypeOK, Thread
  <2>2. /\ Established(Dnat(p)) \in Rule /\ Established(Snat(p)) \in Rule
        /\ Established(Dnat(p)) # Dnat(p) /\ Established(Dnat(p)) # Snat(p)
        /\ Established(Snat(p)) # Dnat(p) /\ Established(Snat(p)) # Snat(p)
    BY <2>1, RulesOfPair DEF PairsComplete, Complete, Pair, PlainRules
  <2>3. /\ rules'[Established(Dnat(p))] >= rules[Established(Dnat(p))]
        /\ rules'[Established(Snat(p))] >= rules[Established(Snat(p))]
        /\ rules[Established(Dnat(p))] \in Nat /\ rules[Established(Snat(p))] \in Nat
        /\ rules'[Established(Dnat(p))] \in Nat /\ rules'[Established(Snat(p))] \in Nat
    BY <2>2, RulesStep
  <2>4. CASE CheckRule(Cleaner, RemovalScript(victim))
    <3>1. /\ at'[Cleaner] = at[Cleaner] \/ at'[Cleaner] = at[Cleaner] + 1
          /\ rules' = rules
          /\ at'[Cleaner] # at[Cleaner] => ~Wanted(RemovalScript(victim)[at[Cleaner]])
      BY <2>4 DEF CheckRule, NextCall, TypeOK, Thread
    <3>2. CASE at'[Cleaner] = at[Cleaner]
      BY <2>1, <3>1, <3>2 DEF EstablishedReady, Busy
    <3>3. CASE at[Cleaner] = 1 /\ at'[Cleaner] = 2
      <4>1. rules[Established(Dnat(p))] > 0
        BY <2>3, <3>1, <3>3, RemovalScriptCalls DEF Wanted
      <4> QED BY <2>1, <3>1, <3>3, <4>1 DEF EstablishedReady
    <3>4. CASE at[Cleaner] = 2 /\ at'[Cleaner] = 3
      <4>1. rules[Established(Snat(p))] > 0
        BY <2>3, <3>1, <3>4, RemovalScriptCalls DEF Wanted
      <4> QED BY <2>1, <3>1, <3>4, <4>1 DEF EstablishedReady
    <3>5. CASE at[Cleaner] > 2
      BY <2>1, <3>1, <3>5 DEF EstablishedReady
    <3> QED BY <2>1, <3>1, <3>2, <3>3, <3>4, <3>5
  <2>5. CASE ApplyRule(Cleaner, RemovalScript(victim))
    <3>1. /\ at'[Cleaner] = at[Cleaner] + 1
          /\ rules' = [rules EXCEPT ![RemovalScript(victim)[at[Cleaner]].rule] =
                Applied(RemovalScript(victim)[at[Cleaner]], @)]
      BY <2>5 DEF ApplyRule, NextCall, TypeOK, Thread
    <3>2. CASE at[Cleaner] = 1
      <4>1. rules'[Established(Dnat(p))] > 0
        BY <2>2, <2>3, <3>1, <3>2, RemovalScriptCalls DEF Applied, TypeOK
      <4> QED BY <2>1, <3>1, <3>2, <4>1 DEF EstablishedReady
    <3>3. CASE at[Cleaner] = 2
      <4>1. rules'[Established(Snat(p))] > 0
        BY <2>2, <2>3, <3>1, <3>3, RemovalScriptCalls DEF Applied, TypeOK
      <4> QED BY <2>1, <2>3, <3>1, <3>3, <4>1 DEF EstablishedReady
    <3>4. CASE at[Cleaner] > 2
      BY <2>1, <2>3, <3>1, <3>4 DEF EstablishedReady
    <3> QED BY <2>1, <3>2, <3>3, <3>4
  <2> QED BY <1>1, <2>4, <2>5 DEF RemoveRules
<1>2. CASE Expire
  BY <1>2 DEF Expire, PopExpired, EstablishedReady, TypeOK, Thread
<1>3. ASSUME Busy' => Busy /\ victim' = victim /\ at'[Cleaner] = at[Cleaner]
      PROVE  EstablishedReady'
  <2>1. SUFFICES ASSUME Busy' PROVE EstablishedReady'
    BY DEF EstablishedReady
  <2>2. p \in Prefixes \X PublicIPs
    BY <1>3, <2>1 DEF PairsComplete, Complete, Pair
  <2>3. \A r \in {Established(Dnat(p)), Established(Snat(p))} :
          r \in Rule /\ r # Dnat(p) /\ r # Snat(p)
    BY <2>2, RulesOfPair DEF PlainRules
  <2>4. \A r \in {Established(Dnat(p)), Established(Snat(p))} :
          rules[r] \in Nat /\ rules'[r] \in Nat /\ ~(rules'[r] < rules[r])
    BY <2>3, RulesStep
  <2>5. EstablishedReady
    OBVIOUS
  <2> HIDE DEF p
  <2>6. \A r \in {Established(Dnat(p)), Established(Snat(p))} :
          rules[r] > 0 => rules'[r] > 0
    BY <2>4
  <2> QED BY <1>3, <2>1, <2>5, <2>6 DEF EstablishedReady, p
<1>4. ASSUME NEW t \in Client, ClientStep(t)
      PROVE  victim' = victim /\ at'[Cleaner] = at[Cleaner]
  <2>1. CASE \E ip \in PublicIPs : Draw(t, ip)
    BY <2>1, CleanerIsNotClient DEF Draw, TypeOK, Thread
  <2>2. CASE InstallRules(t)
    BY <2>2, CleanerIsNotClient DEF InstallRules, CheckRule, ApplyRule,
        NextCall,
       TypeOK, Thread
  <2>3. CASE \/ \E h \in Hosts : ReceiveAdd(t, h)
             \/ FindByPrefix(t) \/ CheckMatch(t) \/ CopyMatch(t)
             \/ StampMapping(t) \/ InsertMapping(t) \/ Respond(t)
    BY <2>3 DEF ReceiveAdd, FindByPrefix, CheckMatch, CopyMatch, StampMapping,
       InsertMapping, Respond
  <2> QED BY <1>4, <2>1, <2>2, <2>3 DEF ClientStep
<1>5. CASE \E t \in Client : ClientStep(t)
  BY <1>3, <1>4, <1>5 DEF Busy
<1>6. CASE UNCHANGED vars \/ ClockTick
  BY <1>3, <1>6 DEF vars, ClockTick, Busy
<1>7. CASE FreeMapping \/ Restart
  BY <1>3, <1>7 DEF FreeMapping, Restart, Busy, NoMapping
<1> QED BY <1>1, <1>2, <1>5, <1>6, <1>7 DEF Next, CleanerStep


(* The pair of a plain rule.                                                *)
LEMMA RulePair == ASSUME NEW p PROVE Dnat(p).pair = p /\ Snat(p).pair = p
BY DEF Dnat, Snat

(* Nobody else's deletion touches the rules of an uncontested owner.         *)
LEMMA UncontestedRulesStay ==
  ASSUME TypeOK, PairsComplete, OwnersContested, [Next]_vars,
         NEW p \in Prefixes \X PublicIPs, p \notin contested,
         \/ \E i \in 1..Len(list) : Pair(list[i]) = p
         \/ \E t \in Client : InProgress(t) /\ Pair(map[t]) = p
  PROVE  /\ rules[Dnat(p)] > 0 => rules'[Dnat(p)] > 0
         /\ rules[Snat(p)] > 0 => rules'[Snat(p)] > 0
<1>1. ~(Busy /\ Pair(victim) = p)
  BY DEF OwnersContested
<1>2. ASSUME NEW r \in {Dnat(p), Snat(p)}
      PROVE  r \in Rule /\ (Busy => r # Dnat(Pair(victim)) /\ r # Snat(Pair(victim)))
  <2>1. /\ r \in Rule
        /\ r.pair = p
    BY RulesOfPair, RulePair DEF PlainRules
  <2>2. Dnat(Pair(victim)).pair = Pair(victim) /\ Snat(Pair(victim)).pair = Pair(victim)
    BY RulePair
  <2> QED BY <1>1, <2>1, <2>2
<1>3. ASSUME NEW r \in {Dnat(p), Snat(p)}
      PROVE  rules[r] \in Nat /\ rules'[r] \in Nat /\ ~(rules'[r] < rules[r])
  BY <1>2, RulesStep
<1> QED BY <1>3

(* A thread keeps the rules it has already asked for, if nobody else holds  *)
(* its pair.                                                                *)
LEMMA RulesUnderwayStep ==
  ASSUME TypeOK, PairsComplete, OwnersContested, RulesUnderway, [Next]_vars
  PROVE  RulesUnderway'
<1> USE DEF listVars, ruleVars, threadVars, historyVars
<1> SUFFICES ASSUME NEW t \in Client, InProgress(t)', Pair(map[t])' \notin contested'
             PROVE  /\ pc'[t] = "stamped" \/ at'[t] > 1 => rules'[Dnat(Pair(map[t]))'] > 0
                    /\ pc'[t] = "stamped" \/ at'[t] > 2 => rules'[Snat(Pair(map[t]))'] > 0
  BY DEF RulesUnderway
<1>1. ~Restart
  BY DEF Restart, InProgress
<1>2. CASE \E ip \in PublicIPs : Draw(t, ip)
  BY <1>2 DEF Draw, TypeOK, Thread
<1> DEFINE p == Pair(map[t])
<1>3. ASSUME InProgress(t), Pair(map'[t]) = p
      PROVE  /\ p \in Prefixes \X PublicIPs /\ p \notin contested
             /\ Dnat(p) \in Rule /\ Snat(p) \in Rule
             /\ rules[Dnat(p)] \in Nat /\ rules[Snat(p)] \in Nat
             /\ rules[Dnat(p)] > 0 => rules'[Dnat(p)] > 0
             /\ rules[Snat(p)] > 0 => rules'[Snat(p)] > 0
             /\ pc[t] = "stamped" \/ at[t] > 1 => rules[Dnat(p)] > 0
             /\ pc[t] = "stamped" \/ at[t] > 2 => rules[Snat(p)] > 0
  <2>1. p \in Prefixes \X PublicIPs
    BY <1>3 DEF PairsComplete, Complete, Pair
  <2>2. p \notin contested
    <3>1. p \in contested => p \in contested'
      BY <1>1, <1>3, ContestedStep
    <3> QED BY <1>3, <3>1
  <2>3. Dnat(p) \in Rule /\ Snat(p) \in Rule
    BY <2>1, RulesOfPair DEF PlainRules
  <2>4. /\ rules[Dnat(p)] > 0 => rules'[Dnat(p)] > 0
        /\ rules[Snat(p)] > 0 => rules'[Snat(p)] > 0
    BY <1>3, <2>1, <2>2, UncontestedRulesStay
  <2>5. rules[Dnat(p)] \in Nat /\ rules[Snat(p)] \in Nat
    BY <2>3 DEF TypeOK
  <2> QED BY <1>3, <2>1, <2>2, <2>3, <2>4, <2>5 DEF RulesUnderway
<1> HIDE DEF p
<1>4. CASE StampMapping(t)
  <2>1. InProgress(t) /\ Pair(map'[t]) = p /\ at[t] > 2 /\ rules' = rules
    BY <1>4, PairFacts, AddScriptCalls DEF StampMapping, ScriptDone,
        InProgress, TypeOK, p
  <2>2. at[t] > 1
    BY <2>1 DEF TypeOK, Thread
  <2> QED BY <1>3, <2>1, <2>2
<1>5. CASE InstallRules(t)
  <2>1. /\ InProgress(t) /\ map'[t] = map[t] /\ Pair(map'[t]) = p /\ pc'[t] = "rules"
        /\ at[t] \in Nat \ {0}
    BY <1>5 DEF InstallRules, InProgress, TypeOK, Thread, p
  <2>2. CASE at'[t] = at[t]
    BY <1>3, <2>1, <2>2
  <2>3. CASE CheckRule(t, AddScript(map[t])) /\ at'[t] # at[t]
    <3>0. at[t] \in 1..2 /\ AddScript(map[t])[at[t]].command = "-A"
      BY <2>1, <2>3, AddScriptCalls DEF CheckRule
    <3>1. /\ at'[t] = at[t] + 1 /\ at[t] <= 2 /\ rules' = rules
          /\ rules[AddScript(map[t])[at[t]].rule] # 0
      BY <2>1, <2>3, <3>0 DEF CheckRule, NextCall, Wanted, TypeOK, Thread
    <3>2. CASE at[t] = 1
      BY <1>3, <2>1, <3>1, <3>2, AddScriptCalls DEF p
    <3>3. CASE at[t] = 2
      BY <1>3, <2>1, <3>1, <3>3, AddScriptCalls DEF p
    <3> QED BY <2>1, <3>1, <3>2, <3>3
  <2>4. CASE ApplyRule(t, AddScript(map[t]))
    <3>1. /\ at'[t] = at[t] + 1 /\ at[t] \in 1..2
          /\ rules' = [rules EXCEPT ![AddScript(map[t])[at[t]].rule] = @ + 1]
      <4>1. at[t] \in 1..2 /\ AddScript(map[t])[at[t]].command = "-A"
        BY <2>1, <2>4, AddScriptCalls DEF ApplyRule
      <4>2. at'[t] = at[t] + 1
        BY <2>4 DEF ApplyRule, NextCall, TypeOK, Thread
      <4> QED BY <2>4, <4>1, <4>2 DEF ApplyRule, Applied
    <3>2. CASE at[t] = 1
      <4>1. rules'[Dnat(p)] > 0
        BY <1>3, <2>1, <3>1, <3>2, AddScriptCalls DEF p, TypeOK
      <4> QED BY <1>3, <2>1, <3>1, <3>2, <4>1
    <3>3. CASE at[t] = 2
      <4>1. rules'[Snat(p)] > 0
        BY <1>3, <2>1, <3>1, <3>3, AddScriptCalls DEF p, TypeOK
      <4> QED BY <1>3, <2>1, <3>1, <3>3, <4>1
    <3> QED BY <3>1, <3>2, <3>3
  <2> QED BY <1>5, <2>2, <2>3, <2>4 DEF InstallRules
<1>6. CASE pc'[t] = pc[t] /\ map'[t] = map[t] /\ at'[t] = at[t]
  BY <1>3, <1>6 DEF InProgress, p
<1>7. ASSUME NEW u \in Client, ClientStep(u)
      PROVE  \/ pc'[t] = pc[t] /\ map'[t] = map[t] /\ at'[t] = at[t]
             \/ \E ip \in PublicIPs : Draw(t, ip)
             \/ StampMapping(t)
             \/ InstallRules(t)
  <2>1. CASE \E ip \in PublicIPs : Draw(u, ip)
    <3>1. CASE u = t
      BY <2>1, <3>1
    <3>2. CASE u # t
      BY <2>1, <3>2 DEF Draw, TypeOK, Thread
    <3> QED BY <3>1, <3>2
  <2>2. CASE InstallRules(u)
    <3>1. at' = at \/ at' = [at EXCEPT ![u] = at[u] + 1]
      BY <2>2 DEF InstallRules, CheckRule, ApplyRule, NextCall
    <3>2. pc' = pc /\ map' = map
      BY <2>2 DEF InstallRules
    <3>3. at \in [Thread -> Nat \ {0}] /\ t \in Thread
      BY DEF TypeOK, Thread
    <3> QED BY <2>2, <3>1, <3>2, <3>3
  <2>3. CASE StampMapping(u)
    BY <2>3 DEF StampMapping, TypeOK
  <2>4. CASE \/ \E h \in Hosts : ReceiveAdd(u, h)
             \/ FindByPrefix(u)
             \/ CheckMatch(u)
             \/ CopyMatch(u)
    BY <2>4 DEF ReceiveAdd, FindByPrefix, CheckMatch, CopyMatch, InProgress,
        TypeOK
  <2>5. CASE InsertMapping(u) \/ Respond(u)
    BY <2>5 DEF InsertMapping, Respond, InProgress, TypeOK
  <2> QED BY <1>7, <2>1, <2>2, <2>3, <2>4, <2>5 DEF ClientStep
<1>8. CASE CleanerStep \/ ClockTick \/ UNCHANGED vars
  <2>1. pc'[t] = pc[t] /\ map'[t] = map[t] /\ at'[t] = at[t]
    BY <1>8, CleanerIsNotClient DEF CleanerStep, Expire, PopExpired,
        RemoveRules,
       CheckRule, ApplyRule, NextCall, FreeMapping, ClockTick, vars, TypeOK, Thread
  <2> QED BY <1>6, <2>1
<1> QED BY <1>1, <1>2, <1>4, <1>5, <1>6, <1>7, <1>8 DEF Next

(* Every step keeps the rules of the listed, uncontested mappings.          *)
LEMMA RulesInstalledStep ==
  ASSUME TypeOK, PairsComplete, OwnersContested, RulesUnderway, RulesInstalled,
         [Next]_vars
  PROVE  RulesInstalled'
<1> USE DEF listVars, ruleVars, threadVars, historyVars
<1> SUFFICES ASSUME NEW i \in 1..Len(list'), Pair(list'[i]) \notin contested'
             PROVE  /\ rules'[Dnat(Pair(list'[i]))] > 0
                    /\ rules'[Snat(Pair(list'[i]))] > 0
  BY DEF RulesInstalled
<1>1. ~Restart
  BY DEF Restart
<1>2. ASSUME NEW j \in 1..Len(list), list[j] = list'[i]
      PROVE  /\ rules'[Dnat(Pair(list'[i]))] > 0
             /\ rules'[Snat(Pair(list'[i]))] > 0
  <2>1. PICK p : p = Pair(list[j])
    OBVIOUS
  <2>2. p \in Prefixes \X PublicIPs
    BY <2>1 DEF PairsComplete, Complete, Pair
  <2>3. p \notin contested
    <3>1. p \in contested => p \in contested'
      BY <1>1, <2>1, ContestedStep
    <3> QED BY <1>2, <2>1, <3>1
  <2>4. rules[Dnat(p)] > 0 /\ rules[Snat(p)] > 0
    BY <2>1, <2>3 DEF RulesInstalled
  <2> QED BY <1>2, <2>1, <2>2, <2>3, <2>4, UncontestedRulesStay
<1>3. ASSUME NEW t \in Client, InsertMapping(t), list'[i] = map[t]
      PROVE  /\ rules'[Dnat(Pair(list'[i]))] > 0
             /\ rules'[Snat(Pair(list'[i]))] > 0
  BY <1>3 DEF InsertMapping, RulesUnderway, InProgress
<1>4. CASE list' = list
  BY <1>2, <1>4
<1>5. CASE Expire
  <2>1. list # << >> /\ list' = Tail(list)
    BY <1>5 DEF Expire, PopExpired
  <2>2. i + 1 \in 1..Len(list) /\ list'[i] = list[i+1]
    BY <2>1, HeadAndTail DEF TypeOK
  <2> QED BY <1>2, <2>2
<1>6. ASSUME NEW t \in Client, InsertMapping(t)
      PROVE  /\ rules'[Dnat(Pair(list'[i]))] > 0
             /\ rules'[Snat(Pair(list'[i]))] > 0
  <2>1. list' = Append(list, map[t]) /\ map[t] \in Mapping
    BY <1>6 DEF InsertMapping, TypeOK
  <2>2. \/ i \in 1..Len(list) /\ list'[i] = list[i]
        \/ list'[i] = map[t]
    BY <2>1, AppendOne DEF TypeOK
  <2> QED BY <1>2, <1>3, <1>6, <2>2
<1> QED BY <1>1, <1>4, <1>5, <1>6, ListStep
-----------------------------------------------------------------------------
(* The inductive invariant holds initially.                                 *)
THEOREM InitIInv == Init => IInv
<1> SUFFICES ASSUME Init PROVE IInv
  OBVIOUS
<1>1. TypeOK
  BY MaxTimeIsNat, BoundsAreNat, NoMappingType, NoAnswerType DEF Init, TypeOK
<1>2. list = << >> /\ Len(list) = 0 /\ ~Busy /\ \A t \in Client : ~InProgress(t) /\ pc[t] = "idle"
  BY DEF Init, Busy, NoMapping, InProgress
<1>3. PairsComplete /\ OwnersContested /\ RulesUnderway /\ RulesInstalled
      /\ EstablishedReady
  BY <1>2 DEF PairsComplete, OwnersContested, RulesUnderway, RulesInstalled,
     EstablishedReady
<1>4. TimesPast /\ UniqueIds
  BY <1>2 DEF Init, NoMapping, TimesPast, UniqueIds, Making
<1>5. MatchesKnown /\ AnswerBacked
  BY <1>2 DEF Init, MatchesKnown, MatchKnown, AnswerBacked, NoAnswer
<1> QED BY <1>1, <1>3, <1>4, <1>5 DEF IInv

(* Every step keeps the inductive invariant.                                *)
THEOREM StepIInv == IInv /\ [Next]_vars => IInv'
<1> SUFFICES ASSUME IInv, [Next]_vars PROVE IInv'
  OBVIOUS
<1> USE DEF IInv
<1>1. TypeOK' /\ PairsComplete'
  BY TypeStep
<1>2. TimesPast'
  BY TimesPastStep
<1>3. UniqueIds'
  BY UniqueIdsStep
<1>4. MatchesKnown'
  BY MatchesKnownStep
<1>5. AnswerBacked'
  BY AnswerBackedStep
<1>6. OwnersContested' /\ RulesUnderway' /\ RulesInstalled'
  BY OwnersContestedStep, RulesUnderwayStep, RulesInstalledStep
<1>7. EstablishedReady'
  BY EstablishedReadyStep
<1> QED BY <1>1, <1>2, <1>3, <1>4, <1>5, <1>6, <1>7

(* The inductive invariant holds always.                                    *)
THEOREM Invariance == Spec => []IInv
BY InitIInv, StepIInv, PTL DEF Spec

(* Every variable keeps its type; that the seconds left of an answer are     *)
(* within 0..EXPIRATION is the part with content, it rests on the age test   *)
(* and on the pointer being alive when the address is copied.                *)
THEOREM TypeCorrect == Spec => []TypeOK
<1>1. IInv => TypeOK
  BY DEF IInv
<1> QED BY <1>1, Invariance, PTL

(* The cleaner never takes an address back before the answers that named it  *)
(* have run out, whatever the number of threads adding.                     *)
THEOREM AnswersAreBacked == Spec => []AnswerBacked
<1>1. IInv => AnswerBacked
  BY DEF IInv
<1> QED BY <1>1, Invariance, PTL

(* The grace period is what keeps the pointer returned by findElement alive. *)
THEOREM GraceIsEnough == Spec => []GraceProtectsMatch
<1>1. IInv => GraceProtectsMatch
  BY MatchesKnownImplies DEF IInv
<1> QED BY <1>1, Invariance, PTL

(* A mapping whose pair was not handed out twice keeps both its rules as     *)
(* long as it is listed, whatever the number of threads adding.             *)
THEOREM MappingsTranslate == Spec => []RulesInstalled
<1>1. IInv => RulesInstalled
  BY DEF IInv
<1> QED BY <1>1, Invariance, PTL

(* No step takes a plain rule away before both rules for the established     *)
(* connections of its pair are there.                                       *)
THEOREM ConnectionsSurvive == Spec => EstablishedBeforeRemoval
<1>1. ASSUME IInv, [Next]_vars, NEW r \in PlainRules, rules'[r] < rules[r]
      PROVE  /\ rules[Established(Dnat(r.pair))] > 0
             /\ rules[Established(Snat(r.pair))] > 0
  <2>1. r \in Rule
    BY DEF PlainRules
  <2>2. /\ Busy /\ at[Cleaner] \in {3, 4}
        /\ \/ r = Dnat(Pair(victim))
           \/ r = Snat(Pair(victim))
    BY <1>1, <2>1, RulesStep DEF IInv
  <2>3. r.pair = Pair(victim)
    BY <2>2, RulePair
  <2>4. /\ rules[Established(Dnat(Pair(victim)))] > 0
        /\ rules[Established(Snat(Pair(victim)))] > 0
    <3>1. EstablishedReady
      BY <1>1 DEF IInv
    <3>2. at[Cleaner] > 1 /\ at[Cleaner] > 2
      BY <2>2
    <3> QED BY <3>1, <3>2, <2>2 DEF EstablishedReady
  <2> QED BY <2>3, <2>4
<1>2. IInv /\ [Next]_vars =>
        [\A r \in PlainRules : rules'[r] < rules[r] =>
           /\ rules[Established(Dnat(r.pair))] > 0
           /\ rules[Established(Snat(r.pair))] > 0]_vars
  BY <1>1
<1> QED BY <1>2, Invariance, PTL DEF Spec, EstablishedBeforeRemoval
-----------------------------------------------------------------------------
(* The three summands of WillDelete: the listed mappings of the pair, the    *)
(* cleaner with the deletion ahead of it, the clients past their own call.  *)
ListedAs(p) == {i \in 1..Len(list) : Pair(list[i]) = p}

Removing(r) ==
  Busy /\ \/ at[Cleaner] <= 3 /\ r = Dnat(Pair(victim))
          \/ at[Cleaner] <= 4 /\ r = Snat(Pair(victim))
RemoveCount(r) == IF Removing(r) THEN 1 ELSE 0

HasAdded(t, r) ==
  InProgress(t) /\ \/ at[t] > 1 /\ r = Dnat(Pair(map[t]))
                   \/ at[t] > 2 /\ r = Snat(Pair(map[t]))
Added(r) == {t \in Client : HasAdded(t, r)}

Count(r) == Cardinality(ListedAs(r.pair)) + RemoveCount(r) + Cardinality(Added(r))

(* A mapping is stamped after both calls, and the cleaner only adds a rule   *)
(* for established connections that it has seen missing: nobody else adds it. *)
CallsOver == \A t \in Client : pc[t] = "stamped" => at[t] > 2
MissingSeen ==
  applying[Cleaner] =>
    /\ Busy
    /\ at[Cleaner] = 1 => rules[Established(Dnat(Pair(victim)))] = 0
    /\ at[Cleaner] = 2 => rules[Established(Snat(Pair(victim)))] = 0

CountsRight ==
  /\ \A r \in PlainRules : rules[r] <= orphans[r] + Count(r)
  /\ \A r \in Rule \ PlainRules : rules[r] <= 1

OwnedInv == CallsOver /\ MissingSeen /\ CountsRight

(* What IInv says that the counting needs.                                   *)
LEMMA TableTypes ==
  ASSUME IInv
  PROVE  /\ list \in Seq(Mapping) /\ Len(list) \in Nat
         /\ rules \in [Rule -> Nat] /\ orphans \in [Rule -> Nat]
         /\ at \in [Thread -> Nat \ {0}] /\ applying \in [Thread -> BOOLEAN]
         /\ map \in [Client -> Mapping] /\ DOMAIN pc = Client
         /\ Client \subseteq Thread /\ Cleaner \in Thread /\ Cleaner \notin Client
         /\ \A t \in Client : InProgress(t) => Pair(map[t]) \in Prefixes \X PublicIPs
         /\ \A i \in 1..Len(list) :
              list[i].id # 0 /\ Pair(list[i]) \in Prefixes \X PublicIPs
         /\ Busy => Pair(victim) \in Prefixes \X PublicIPs
<1>1. TypeOK /\ PairsComplete
  BY DEF IInv
<1>2. /\ \A t \in Client : InProgress(t) => Pair(map[t]) \in Prefixes \X PublicIPs
      /\ \A i \in 1..Len(list) : Complete(list[i])
      /\ \A i \in 1..Len(list) : Pair(list[i]) \in Prefixes \X PublicIPs
      /\ Busy => Pair(victim) \in Prefixes \X PublicIPs
  BY <1>1 DEF PairsComplete, Complete, Pair
<1>3. \A i \in 1..Len(list) : list[i].id # 0
  BY <1>2 DEF Complete
<1>4. list \in Seq(Mapping) /\ Len(list) \in Nat
  BY <1>1 DEF TypeOK
<1> QED BY <1>1, <1>2, <1>3, <1>4, CleanerIsNotClient DEF TypeOK, Thread

(* The plain rules of a pair are its two.                                    *)
LEMMA PlainOfPair ==
  ASSUME NEW r \in PlainRules
  PROVE  /\ r \in Rule /\ r.pair \in Prefixes \X PublicIPs
         /\ r = Dnat(r.pair) \/ r = Snat(r.pair)
BY DEF PlainRules, Rule, Dnat, Snat

LEMMA Counted ==
  ASSUME IInv, NEW r
  PROVE  WillDelete(r) = Count(r)
<1>1. \A t \in Client :
        (\E k \in 1..(at[t]-1) : k <= Len(AddScript(map[t])) /\ AddScript(map[t])[k].rule = r)
          <=> \/ at[t] > 1 /\ r = Dnat(Pair(map[t]))
              \/ at[t] > 2 /\ r = Snat(Pair(map[t]))
  <2> SUFFICES ASSUME NEW t \in Client
               PROVE  (\E k \in 1..(at[t]-1) : k <= Len(AddScript(map[t])) /\ AddScript(map[t])[k].rule = r)
                        <=> \/ at[t] > 1 /\ r = Dnat(Pair(map[t]))
                            \/ at[t] > 2 /\ r = Snat(Pair(map[t]))
    OBVIOUS
  <2>1. at[t] \in Nat \ {0}
    BY TableTypes
  <2>2. /\ Len(AddScript(map[t])) = 2
        /\ AddScript(map[t])[1].rule = Dnat(Pair(map[t]))
        /\ AddScript(map[t])[2].rule = Snat(Pair(map[t]))
    BY AddScriptCalls
  <2>3. \A k \in 1..(at[t]-1) : k <= 2 => k = 1 \/ k = 2
    BY <2>1
  <2>4. /\ 1 \in 1..(at[t]-1) <=> at[t] > 1
        /\ 2 \in 1..(at[t]-1) <=> at[t] > 2
    BY <2>1
  <2> QED BY <2>2, <2>3, <2>4
<1>2. Busy => ((\E k \in at[Cleaner]..Len(RemovalScript(victim)) : RemovalScript(victim)[k] = DeleteRule(r))
                 <=> \/ at[Cleaner] <= 3 /\ r = Dnat(Pair(victim))
                     \/ at[Cleaner] <= 4 /\ r = Snat(Pair(victim)))
  <2>1. at[Cleaner] \in Nat \ {0}
    BY TableTypes
  <2>2. /\ Len(RemovalScript(victim)) = 4
        /\ \A k \in 1..2 : RemovalScript(victim)[k] # DeleteRule(r)
        /\ RemovalScript(victim)[3] = DeleteRule(r) <=> r = Dnat(Pair(victim))
        /\ RemovalScript(victim)[4] = DeleteRule(r) <=> r = Snat(Pair(victim))
    <3>1. /\ Len(RemovalScript(victim)) = 4
          /\ \A k \in 1..2 : RemovalScript(victim)[k].command = "-A"
          /\ DeleteRule(r).command = "-D" /\ DeleteRule(r).rule = r
      BY RemovalScriptCalls, CallFields
    <3>2. /\ RemovalScript(victim)[3] = DeleteRule(Dnat(Pair(victim)))
          /\ RemovalScript(victim)[4] = DeleteRule(Snat(Pair(victim)))
      BY DEF RemovalScript
    <3>3. \A q : DeleteRule(q) = DeleteRule(r) <=> q = r
      BY DEF DeleteRule
    <3> QED BY <3>1, <3>2, <3>3
  <2>3. /\ \A k \in at[Cleaner]..4 : k \in 1..2 \/ k = 3 \/ k = 4
        /\ 3 \in at[Cleaner]..4 <=> at[Cleaner] <= 3
        /\ 4 \in at[Cleaner]..4 <=> at[Cleaner] <= 4
    BY <2>1
  <2> QED BY <2>2, <2>3
<1>3. Cardinality({t \in Client :
                     /\ InProgress(t)
                     /\ \E k \in 1..(at[t]-1) :
                          k <= Len(AddScript(map[t])) /\ AddScript(map[t])[k].rule = r})
        = Cardinality(Added(r))
  <2>1. {t \in Client :
           /\ InProgress(t)
           /\ \E k \in 1..(at[t]-1) :
                k <= Len(AddScript(map[t])) /\ AddScript(map[t])[k].rule = r} = Added(r)
    BY <1>1 DEF Added, HasAdded
  <2> QED BY <2>1
<1> QED BY <1>2, <1>3 DEF WillDelete, Count, ListedAs, RemoveCount, Removing

LEMMA CountTypes ==
  ASSUME IInv, NEW r
  PROVE  /\ IsFiniteSet(ListedAs(r.pair)) /\ Cardinality(ListedAs(r.pair)) \in Nat
         /\ RemoveCount(r) \in 0..1
         /\ IsFiniteSet(Added(r)) /\ Cardinality(Added(r)) \in Nat
         /\ Count(r) \in Nat
<1>1. IsFiniteSet(1..Len(list))
  <2>1. Len(list) \in Nat
    BY TableTypes
  <2> QED BY <2>1, FS_Interval
<1>2. ListedAs(r.pair) \subseteq 1..Len(list) /\ Added(r) \subseteq Client
  BY DEF ListedAs, Added
<1>3. IsFiniteSet(ListedAs(r.pair)) /\ IsFiniteSet(Added(r))
  BY <1>1, <1>2, FS_Subset, ClientIsFinite
<1>4. Cardinality(ListedAs(r.pair)) \in Nat /\ Cardinality(Added(r)) \in Nat
  BY <1>3, FS_CardinalityType
<1>5. RemoveCount(r) \in 0..1
  BY DEF RemoveCount
<1> QED BY <1>3, <1>4, <1>5 DEF Count

(* Moving every place of a list up by one loses no place.                    *)
LEMMA Shifted ==
  ASSUME NEW S, IsFiniteSet(S), S \subseteq Nat
  PROVE  LET T == {i + 1 : i \in S}
         IN  IsFiniteSet(T) /\ Cardinality(T) = Cardinality(S)
<1> DEFINE T == {i + 1 : i \in S}
           f == [i \in S |-> i + 1]
<1>1. f \in [S -> T] /\ \A i, j \in S : f[i] = f[j] => i = j
  OBVIOUS
<1>2. \A k \in T : \E i \in S : f[i] = k
  OBVIOUS
<1>3. f \in Bijection(S, T)
  BY <1>1, <1>2 DEF Bijection, Injection, Surjection, IsInjective
<1>4. ExistsBijection(S, T)
  BY <1>3 DEF ExistsBijection
<1> QED BY <1>4, FS_Bijection

(* A popped mapping leaves one place less, at the head.                      *)
LEMMA ListedPopped ==
  ASSUME IInv, Expire, NEW p
  PROVE  /\ Cardinality(ListedAs(p)') \in Nat
         /\ Cardinality(ListedAs(p)) =
              Cardinality(ListedAs(p)') + (IF Pair(list[1]) = p THEN 1 ELSE 0)
<1> DEFINE T == {i + 1 : i \in ListedAs(p)'}
<1>1. /\ Len(list) \in Nat /\ Len(list) > 0 /\ Len(list') = Len(list) - 1
      /\ Len(list') \in Nat /\ \A i \in 1..Len(list') : list'[i] = list[i+1]
  <2>1. list \in Seq(Mapping) /\ list # << >> /\ list' = Tail(list)
    BY TableTypes DEF Expire, PopExpired
  <2> QED BY <2>1, HeadAndTail
<1>2. ListedAs(p)' \subseteq Nat /\ ListedAs(p)' \subseteq 1..Len(list')
  BY <1>1 DEF ListedAs
<1>3. IsFiniteSet(ListedAs(p)')
  <2>1. IsFiniteSet(1..Len(list'))
    BY <1>1, FS_Interval
  <2> QED BY <1>2, <2>1, FS_Subset
<1>4. IsFiniteSet(T) /\ Cardinality(T) = Cardinality(ListedAs(p)')
  BY <1>2, <1>3, Shifted
<1>5. 1 \notin T
  BY <1>1 DEF ListedAs
<1>6. ListedAs(p) = IF Pair(list[1]) = p THEN T \cup {1} ELSE T
  <2>1. ASSUME NEW i \in T PROVE i \in ListedAs(p)
    BY <1>1, <2>1 DEF ListedAs
  <2>2. ASSUME NEW i \in ListedAs(p), i # 1 PROVE i \in T
    <3>1. i - 1 \in 1..Len(list') /\ list'[i - 1] = list[(i - 1) + 1] /\ (i - 1) + 1 = i
      BY <1>1, <2>2 DEF ListedAs
    <3>2. i - 1 \in ListedAs(p)'
      BY <2>2, <3>1 DEF ListedAs
    <3> QED BY <3>1, <3>2
  <2>3. 1 \in ListedAs(p) <=> Pair(list[1]) = p
    BY <1>1 DEF ListedAs
  <2> QED BY <2>1, <2>2, <2>3
<1>7. Cardinality(ListedAs(p)') \in Nat
  BY <1>3, FS_CardinalityType
<1> HIDE DEF T
<1>8. Cardinality(T \cup {1}) = Cardinality(T) + 1
  BY <1>4, <1>5, FS_AddElement
<1> QED BY <1>4, <1>6, <1>7, <1>8

(* An insertion adds one place, for the pair inserted.                       *)
LEMMA ListedInserted ==
  ASSUME IInv, NEW t \in Client, InsertMapping(t), NEW p
  PROVE  Cardinality(ListedAs(p)') =
           Cardinality(ListedAs(p)) + (IF Pair(map[t]) = p THEN 1 ELSE 0)
<1>1. /\ Len(list) \in Nat /\ Len(list') = Len(list) + 1
      /\ list'[Len(list) + 1] = map[t]
      /\ \A i \in 1..Len(list) : list'[i] = list[i]
      /\ 1..Len(list') = (1..Len(list)) \cup {Len(list) + 1}
      /\ Len(list) + 1 \notin 1..Len(list)
  <2>1. list \in Seq(Mapping) /\ map[t] \in Mapping /\ list' = Append(list, map[t])
    BY TableTypes DEF InsertMapping
  <2> QED BY <2>1
<1>2. IsFiniteSet(ListedAs(p)) /\ Cardinality(ListedAs(p)) \in Nat
  <2>1. IsFiniteSet(1..Len(list))
    BY <1>1, FS_Interval
  <2>2. ListedAs(p) \subseteq 1..Len(list)
    BY DEF ListedAs
  <2> QED BY <2>1, <2>2, FS_Subset, FS_CardinalityType
<1>3. ListedAs(p)' = IF Pair(map[t]) = p THEN ListedAs(p) \cup {Len(list) + 1} ELSE ListedAs(p)
  BY <1>1 DEF ListedAs
<1>4. Len(list) + 1 \notin ListedAs(p)
  BY <1>1 DEF ListedAs
<1>5. Cardinality(ListedAs(p) \cup {Len(list) + 1}) = Cardinality(ListedAs(p)) + 1
  BY <1>2, <1>4, FS_AddElement
<1>6. CASE Pair(map[t]) = p
  BY <1>3, <1>5, <1>6
<1>7. CASE Pair(map[t]) # p
  <2>1. ListedAs(p)' = ListedAs(p)
    BY <1>3, <1>7
  <2> QED BY <1>2, <1>7, <2>1
<1> QED BY <1>6, <1>7

(* A step that moves no mapping, no victim and no call counts the same.      *)
LEMMA NothingMoved ==
  ASSUME IInv, OwnedInv,
         UNCHANGED <<list, victim, rules, applying, orphans>>,
         at'[Cleaner] = at[Cleaner],
         \A u \in Client : pc'[u] = "stamped" => at'[u] > 2,
         \A u \in Client : \A r : HasAdded(u, r)' <=> HasAdded(u, r)
  PROVE  OwnedInv'
<1>1. \A r : ListedAs(r.pair)' = ListedAs(r.pair) /\ RemoveCount(r)' = RemoveCount(r)
             /\ Added(r)' = Added(r)
  BY DEF ListedAs, RemoveCount, Removing, Busy, Added
<1>2. \A r : Count(r)' = Count(r)
  BY <1>1 DEF Count
<1>3. CallsOver' /\ MissingSeen'
  BY DEF OwnedInv, CallsOver, MissingSeen, Busy
<1>4. CountsRight'
  BY <1>2 DEF OwnedInv, CountsRight
<1> QED BY <1>3, <1>4 DEF OwnedInv

(* A client's call adds a copy or finds one, and is then over.               *)
LEMMA InstallStep ==
  ASSUME IInv, NEW t \in Client, InstallRules(t)
  PROVE  /\ InProgress(t) /\ pc[t] = "rules" /\ at[t] \in 1..2
         /\ applying'[Cleaner] = applying[Cleaner]
         /\ \E q : /\ q = IF at[t] = 1 THEN Dnat(Pair(map[t])) ELSE Snat(Pair(map[t]))
                  /\ \/ rules' = rules /\ at' = at
                     \/ rules' = rules /\ at' = [at EXCEPT ![t] = at[t] + 1]
                     \/ /\ rules' = [rules EXCEPT ![q] = rules[q] + 1]
                        /\ at' = [at EXCEPT ![t] = at[t] + 1]
<1> DEFINE c == AddScript(map[t])[at[t]]
<1>1. InProgress(t) /\ pc[t] = "rules"
  BY DEF InstallRules, InProgress
<1>2. /\ t \in Thread /\ t # Cleaner /\ Cleaner \in Thread
      /\ at[t] \in Nat \ {0} /\ applying \in [Thread -> BOOLEAN]
  BY TableTypes
<1>3. at[t] \in 1..2
  <2>1. at[t] <= Len(AddScript(map[t]))
    BY DEF InstallRules, CheckRule, ApplyRule
  <2>2. Len(AddScript(map[t])) = 2
    BY AddScriptCalls
  <2> QED BY <1>2, <2>1, <2>2
<1>4. /\ c.command = "-A"
      /\ c.rule = IF at[t] = 1 THEN Dnat(Pair(map[t])) ELSE Snat(Pair(map[t]))
  <2>1. at[t] = 1 \/ at[t] = 2
    BY <1>3
  <2> QED BY <2>1, AddScriptCalls
<1>5. applying'[Cleaner] = applying[Cleaner]
  <2>1. \/ applying' = applying
        \/ applying' = [applying EXCEPT ![t] = TRUE]
        \/ applying' = [applying EXCEPT ![t] = FALSE]
    BY DEF InstallRules, CheckRule, ApplyRule
  <2> QED BY <1>2, <2>1
<1>6. CASE CheckRule(t, AddScript(map[t]))
  <2>1. rules' = rules /\ (at' = at \/ at' = [at EXCEPT ![t] = at[t] + 1])
    BY <1>6 DEF CheckRule, NextCall
  <2> QED BY <1>1, <1>3, <1>5, <2>1
<1>7. CASE ApplyRule(t, AddScript(map[t]))
  <2>1. at' = [at EXCEPT ![t] = at[t] + 1]
    BY <1>7 DEF ApplyRule, NextCall
  <2>2. rules' = [rules EXCEPT ![c.rule] = Applied(c, rules[c.rule])]
    BY <1>7 DEF ApplyRule
  <2>3. Applied(c, rules[c.rule]) = rules[c.rule] + 1
    BY <1>4 DEF Applied
  <2> QED BY <1>1, <1>3, <1>4, <1>5, <2>1, <2>2, <2>3
<1> QED BY <1>6, <1>7 DEF InstallRules

LEMMA InstallCounts ==
  ASSUME IInv, OwnedInv, NEW t \in Client, InstallRules(t)
  PROVE  OwnedInv'
<1> DEFINE p == Pair(map[t])
<1>1. PICK q : /\ q = IF at[t] = 1 THEN Dnat(p) ELSE Snat(p)
               /\ \/ rules' = rules /\ at' = at
                  \/ rules' = rules /\ at' = [at EXCEPT ![t] = at[t] + 1]
                  \/ /\ rules' = [rules EXCEPT ![q] = rules[q] + 1]
                     /\ at' = [at EXCEPT ![t] = at[t] + 1]
  BY InstallStep
<1>2. /\ UNCHANGED <<list, victim, pc, map, orphans>> /\ InProgress(t)
      /\ pc[t] = "rules" /\ at[t] \in 1..2 /\ applying'[Cleaner] = applying[Cleaner]
  BY InstallStep DEF InstallRules, listVars, threadVars, historyVars
<1>3. /\ p \in Prefixes \X PublicIPs /\ rules \in [Rule -> Nat] /\ orphans \in [Rule -> Nat]
      /\ at \in [Thread -> Nat \ {0}] /\ t \in Thread /\ Cleaner # t /\ Cleaner \in Thread
      /\ Client \subseteq Thread
  BY <1>2, TableTypes
<1>4. /\ Dnat(p) # Snat(p) /\ q \in PlainRules /\ q \in Rule
      /\ \A r \in Rule \ PlainRules : r # q
  <2>1. Dnat(p) # Snat(p) /\ Dnat(p) \in PlainRules /\ Snat(p) \in PlainRules
    BY <1>3, RulesOfPair
  <2>2. q \in PlainRules
    BY <1>1, <2>1
  <2> QED BY <2>1, <2>2 DEF PlainRules
<1> HIDE DEF p
<1>5. at'[Cleaner] = at[Cleaner] /\ \A u \in Client \ {t} : at'[u] = at[u]
  BY <1>1, <1>3
<1>6. CallsOver'
  BY <1>2, <1>5 DEF OwnedInv, CallsOver
<1>7. MissingSeen'
  <2>1. SUFFICES ASSUME applying[Cleaner], Busy
        PROVE  /\ at[Cleaner] = 1 => rules'[Established(Dnat(Pair(victim)))] = 0
               /\ at[Cleaner] = 2 => rules'[Established(Snat(Pair(victim)))] = 0
    BY <1>2, <1>5 DEF OwnedInv, MissingSeen, Busy
  <2>2. /\ Established(Dnat(Pair(victim))) \in Rule \ PlainRules
        /\ Established(Snat(Pair(victim))) \in Rule \ PlainRules
    BY <2>1, TableTypes, RulesOfPair
  <2>3. \A r \in Rule \ PlainRules : rules'[r] = rules[r]
    BY <1>1, <1>3, <1>4
  <2> QED BY <2>1, <2>2, <2>3 DEF OwnedInv, MissingSeen
<1>8. \A r \in Rule \ PlainRules : rules'[r] <= 1
  BY <1>1, <1>3, <1>4 DEF OwnedInv, CountsRight
<1>9. \A r : ListedAs(r.pair)' = ListedAs(r.pair) /\ RemoveCount(r)' = RemoveCount(r)
  BY <1>2, <1>5 DEF ListedAs, RemoveCount, Removing, Busy
<1>10. \A r : Added(r)' = IF at'[t] = at[t] + 1 /\ r = q THEN Added(r) \cup {t} ELSE Added(r)
  <2>1. \A u \in Client \ {t} : \A r : HasAdded(u, r)' <=> HasAdded(u, r)
    BY <1>2, <1>5 DEF HasAdded, InProgress
  <2>2. \A r : HasAdded(t, r)' <=> HasAdded(t, r) \/ (at'[t] = at[t] + 1 /\ r = q)
    <3>1. InProgress(t)' /\ map'[t] = map[t]
      BY <1>2 DEF InProgress
    <3>2. CASE at'[t] = at[t]
      BY <1>2, <3>1, <3>2 DEF HasAdded
    <3>3. CASE at'[t] = at[t] + 1 /\ at[t] = 1
      BY <1>1, <1>2, <3>1, <3>3 DEF HasAdded, p
    <3>4. CASE at'[t] = at[t] + 1 /\ at[t] = 2
      BY <1>1, <1>2, <3>1, <3>4 DEF HasAdded, p
    <3>5. at[t] = 1 \/ at[t] = 2
      BY <1>2
    <3>6. at'[t] = at[t] \/ at'[t] = at[t] + 1
      BY <1>1, <1>3
    <3> QED BY <3>2, <3>3, <3>4, <3>5, <3>6
  <2> QED BY <2>1, <2>2 DEF Added
<1>11. t \notin Added(q)
  <2>1. CASE at[t] = 1
    BY <2>1 DEF Added, HasAdded
  <2>2. CASE at[t] = 2
    BY <1>1, <1>4, <2>2 DEF Added, HasAdded, p
  <2> QED BY <1>2, <2>1, <2>2
<1>12. ASSUME NEW r \in PlainRules PROVE rules'[r] <= orphans'[r] + Count(r)'
  <2>1. /\ Cardinality(ListedAs(r.pair)) \in Nat /\ RemoveCount(r) \in Nat
        /\ IsFiniteSet(Added(r)) /\ Cardinality(Added(r)) \in Nat
    BY CountTypes
  <2>2. r \in Rule /\ rules[r] \in Nat /\ orphans'[r] = orphans[r] /\ orphans[r] \in Nat
    BY <1>2, <1>3 DEF PlainRules
  <2>3. rules[r] <= orphans[r] + Count(r)
    BY DEF OwnedInv, CountsRight
  <2>4. Count(r)' = Cardinality(ListedAs(r.pair)) + RemoveCount(r) + Cardinality(Added(r)')
    BY <1>9 DEF Count
  <2>5. CASE at'[t] = at[t] + 1 /\ r = q
    <3>1. Cardinality(Added(r)') = Cardinality(Added(r)) + 1
      <4>1. Added(r)' = Added(r) \cup {t}
        BY <1>10, <2>5
      <4>2. Cardinality(Added(r) \cup {t}) = Cardinality(Added(r)) + 1
        BY <1>11, <2>1, <2>5, FS_AddElement
      <4> QED BY <4>1, <4>2
    <3>2. rules'[r] = rules[r] \/ rules'[r] = rules[r] + 1
      BY <1>1, <1>3, <1>4, <2>5
    <3> QED BY <2>1, <2>2, <2>3, <2>4, <3>1, <3>2 DEF Count
  <2>6. CASE ~(at'[t] = at[t] + 1 /\ r = q)
    <3>1. Added(r)' = Added(r)
      BY <1>10, <2>6
    <3>2. rules'[r] = rules[r]
      BY <1>1, <1>3, <2>2, <2>6
    <3> QED BY <2>1, <2>2, <2>3, <2>4, <3>1, <3>2 DEF Count
  <2> QED BY <2>5, <2>6
<1> QED BY <1>6, <1>7, <1>8, <1>12 DEF OwnedInv, CountsRight

LEMMA InsertCounts ==
  ASSUME IInv, OwnedInv, NEW t \in Client, InsertMapping(t)
  PROVE  OwnedInv'
<1> DEFINE p == Pair(map[t])
<1>1. /\ UNCHANGED <<victim, rules, at, applying, map, orphans>>
      /\ pc[t] = "stamped" /\ pc' = [pc EXCEPT ![t] = "respond"]
  BY DEF InsertMapping, ruleVars, historyVars
<1>2. /\ DOMAIN pc = Client /\ rules \in [Rule -> Nat] /\ orphans \in [Rule -> Nat]
      /\ at[t] \in Nat
  BY TableTypes
<1>3. InProgress(t) /\ ~InProgress(t)' /\ at[t] > 2
  BY <1>1, <1>2 DEF InProgress, OwnedInv, CallsOver
<1>4. CallsOver' /\ MissingSeen'
  BY <1>1, <1>2 DEF OwnedInv, CallsOver, MissingSeen, Busy
<1>5. \A r : RemoveCount(r)' = RemoveCount(r)
  BY <1>1 DEF RemoveCount, Removing, Busy
<1>6. \A r : HasAdded(t, r) <=> r = Dnat(p) \/ r = Snat(p)
  BY <1>2, <1>3 DEF HasAdded
<1>7. \A r : Added(r)' = Added(r) \ {t}
  <2>1. \A u \in Client \ {t} : \A r : HasAdded(u, r)' <=> HasAdded(u, r)
    BY <1>1, <1>2 DEF HasAdded, InProgress
  <2>2. \A r : ~HasAdded(t, r)'
    BY <1>3 DEF HasAdded
  <2> QED BY <2>1, <2>2 DEF Added
<1>8. ASSUME NEW r \in PlainRules PROVE Count(r)' = Count(r)
  <2>1. /\ Cardinality(ListedAs(r.pair)) \in Nat /\ RemoveCount(r) \in Nat
        /\ IsFiniteSet(Added(r)) /\ Cardinality(Added(r)) \in Nat
    BY CountTypes
  <2>2. Cardinality(ListedAs(r.pair)') =
          Cardinality(ListedAs(r.pair)) + (IF p = r.pair THEN 1 ELSE 0)
    BY ListedInserted
  <2>3. t \in Added(r) <=> p = r.pair
    <3>1. r = Dnat(r.pair) \/ r = Snat(r.pair)
      BY PlainOfPair
    <3>2. Dnat(p).pair = p /\ Snat(p).pair = p
      BY RulePair
    <3> QED BY <1>6, <3>1, <3>2 DEF Added
  <2> HIDE DEF p
  <2>4. CASE p = r.pair
    <3>1. Cardinality(Added(r) \ {t}) = Cardinality(Added(r)) - 1
      BY <2>1, <2>3, <2>4, FS_RemoveElement
    <3>2. Cardinality(Added(r)') = Cardinality(Added(r)) - 1
      BY <1>7, <3>1
    <3>3. Cardinality(ListedAs(r.pair)') = Cardinality(ListedAs(r.pair)) + 1
      BY <2>2, <2>4
    <3>4. RemoveCount(r)' = RemoveCount(r)
      BY <1>5
    <3> QED BY <2>1, <3>2, <3>3, <3>4 DEF Count
  <2>5. CASE p # r.pair
    <3>1. Added(r)' = Added(r)
      BY <1>7, <2>3, <2>5
    <3> QED BY <1>5, <2>1, <2>2, <2>5, <3>1 DEF Count
  <2> QED BY <2>4, <2>5
<1>9. CountsRight'
  BY <1>1, <1>8 DEF OwnedInv, CountsRight
<1> QED BY <1>4, <1>9 DEF OwnedInv

LEMMA ClientStepCounts ==
  ASSUME IInv, OwnedInv, NEW t \in Client, ClientStep(t)
  PROVE  OwnedInv'
<1> USE DEF listVars, ruleVars, threadVars, historyVars
<1>1. /\ DOMAIN pc = Client /\ map \in [Client -> Mapping] /\ at \in [Thread -> Nat \ {0}]
      /\ Client \subseteq Thread /\ Cleaner \in Thread /\ Cleaner # t
  BY TableTypes
<1>2. CASE \/ \E h \in Hosts : ReceiveAdd(t, h)
           \/ FindByPrefix(t) \/ CheckMatch(t) \/ CopyMatch(t) \/ Respond(t)
  <2>1. /\ UNCHANGED <<list, victim, rules, at, applying, orphans>>
        /\ ~InProgress(t)
    BY <1>2 DEF ReceiveAdd, FindByPrefix, CheckMatch, CopyMatch, Respond, InProgress
  <2>2. /\ \A u \in Client \ {t} : pc'[u] = pc[u] /\ map'[u] = map[u]
        /\ pc'[t] \notin {"rules", "stamped"}
    <3>1. CASE \E h \in Hosts : ReceiveAdd(t, h)
      BY <1>1, <3>1 DEF ReceiveAdd
    <3>2. CASE FindByPrefix(t)
      BY <1>1, <3>2 DEF FindByPrefix
    <3>3. CASE CheckMatch(t)
      BY <1>1, <3>3 DEF CheckMatch
    <3>4. CASE CopyMatch(t) \/ Respond(t)
      BY <1>1, <3>4 DEF CopyMatch, Respond
    <3> QED BY <1>2, <3>1, <3>2, <3>3, <3>4
  <2>3. \A u \in Client : \A r : HasAdded(u, r)' <=> HasAdded(u, r)
    BY <2>1, <2>2 DEF HasAdded, InProgress
  <2>4. \A u \in Client : pc'[u] = "stamped" => at'[u] > 2
    BY <2>1, <2>2 DEF OwnedInv, CallsOver
  <2> QED BY <2>1, <2>3, <2>4, NothingMoved
<1>3. ASSUME NEW ip \in PublicIPs, Draw(t, ip) PROVE OwnedInv'
  <2>1. /\ UNCHANGED <<list, victim, rules, applying, orphans>>
        /\ ~InProgress(t) /\ pc'[t] = "rules" /\ at'[t] = 1
        /\ at'[Cleaner] = at[Cleaner]
        /\ \A u \in Client \ {t} : pc'[u] = pc[u] /\ map'[u] = map[u] /\ at'[u] = at[u]
    BY <1>1, <1>3 DEF Draw, InProgress
  <2>2. \A u \in Client : \A r : HasAdded(u, r)' <=> HasAdded(u, r)
    BY <2>1 DEF HasAdded, InProgress
  <2>3. \A u \in Client : pc'[u] = "stamped" => at'[u] > 2
    BY <2>1 DEF OwnedInv, CallsOver
  <2> QED BY <2>1, <2>2, <2>3, NothingMoved
<1>4. CASE InstallRules(t)
  BY <1>4, InstallCounts
<1>5. CASE StampMapping(t)
  <2>1. /\ UNCHANGED <<list, victim, rules, at, applying, orphans>>
        /\ pc[t] = "rules" /\ pc'[t] = "stamped" /\ at[t] > 2
        /\ Pair(map'[t]) = Pair(map[t])
        /\ \A u \in Client \ {t} : pc'[u] = pc[u] /\ map'[u] = map[u]
    BY <1>1, <1>5, AddScriptCalls, PairFacts DEF StampMapping, ScriptDone
  <2>2. \A u \in Client : \A r : HasAdded(u, r)' <=> HasAdded(u, r)
    BY <2>1 DEF HasAdded, InProgress
  <2>3. \A u \in Client : pc'[u] = "stamped" => at'[u] > 2
    BY <2>1 DEF OwnedInv, CallsOver
  <2> QED BY <2>1, <2>2, <2>3, NothingMoved
<1>6. CASE InsertMapping(t)
  BY <1>6, InsertCounts
<1> QED BY <1>2, <1>3, <1>4, <1>5, <1>6 DEF ClientStep

(* The rule of the cleaner's current call.                                   *)
Removed == RemovalScript(victim)[at[Cleaner]].rule

LEMMA RemovedRule ==
  ASSUME IInv, RemoveRules
  PROVE  /\ Busy /\ Pair(victim) \in Prefixes \X PublicIPs
         /\ \/ at[Cleaner] = 1 /\ Removed = Established(Dnat(Pair(victim)))
            \/ at[Cleaner] = 2 /\ Removed = Established(Snat(Pair(victim)))
            \/ at[Cleaner] = 3 /\ Removed = Dnat(Pair(victim))
            \/ at[Cleaner] = 4 /\ Removed = Snat(Pair(victim))
         /\ at[Cleaner] < 3 => Removed \in Rule \ PlainRules
         /\ at[Cleaner] > 2 => Removed \in PlainRules
         /\ Removed \in Rule /\ rules[Removed] \in Nat
<1>1. /\ Busy /\ at[Cleaner] \in Nat \ {0} /\ Pair(victim) \in Prefixes \X PublicIPs
      /\ rules \in [Rule -> Nat]
  BY TableTypes DEF RemoveRules
<1>2. at[Cleaner] = 1 \/ at[Cleaner] = 2 \/ at[Cleaner] = 3 \/ at[Cleaner] = 4
  <2>1. at[Cleaner] <= Len(RemovalScript(victim))
    BY DEF RemoveRules, CheckRule, ApplyRule
  <2>2. Len(RemovalScript(victim)) = 4
    BY RemovalScriptCalls
  <2> QED BY <1>1, <2>1, <2>2
<1>3. \/ at[Cleaner] = 1 /\ Removed = Established(Dnat(Pair(victim)))
      \/ at[Cleaner] = 2 /\ Removed = Established(Snat(Pair(victim)))
      \/ at[Cleaner] = 3 /\ Removed = Dnat(Pair(victim))
      \/ at[Cleaner] = 4 /\ Removed = Snat(Pair(victim))
  BY <1>2, RemovalScriptCalls DEF Removed
<1>4. /\ Dnat(Pair(victim)) \in PlainRules /\ Snat(Pair(victim)) \in PlainRules
      /\ Established(Dnat(Pair(victim))) \in Rule \ PlainRules
      /\ Established(Snat(Pair(victim))) \in Rule \ PlainRules
      /\ PlainRules \subseteq Rule
  BY <1>1, RulesOfPair DEF PlainRules
<1>5. /\ at[Cleaner] < 3 => Removed \in Rule \ PlainRules
      /\ at[Cleaner] > 2 => Removed \in PlainRules
  BY <1>3, <1>4
<1>6. Removed \in Rule
  BY <1>3, <1>4
<1> QED BY <1>1, <1>3, <1>5, <1>6

(* A call of the cleaner has seen its rule missing, or it is over: one that  *)
(* deletes has left a copy less, or none.                                   *)
LEMMA RemoveStep ==
  ASSUME IInv, RemoveRules
  PROVE  /\ \A r \in Rule \ {Removed} : rules'[r] = rules[r]
         /\ \/ /\ rules' = rules /\ at' = at
               /\ at[Cleaner] < 3 => rules[Removed] = 0
            \/ /\ at' = [at EXCEPT ![Cleaner] = at[Cleaner] + 1] /\ ~applying'[Cleaner]
               /\ at[Cleaner] > 2 =>
                    rules'[Removed] = IF rules[Removed] > 0 THEN rules[Removed] - 1 ELSE 0
               /\ at[Cleaner] < 3 =>
                    \/ rules'[Removed] = rules[Removed]
                    \/ applying[Cleaner] /\ rules'[Removed] = rules[Removed] + 1
<1> DEFINE c == RemovalScript(victim)[at[Cleaner]]
<1>1. /\ at[Cleaner] < 3 => c.command = "-A"
      /\ at[Cleaner] > 2 => c.command = "-D"
      /\ c.rule = Removed /\ Removed \in Rule /\ rules[Removed] \in Nat
  <2>1. \/ at[Cleaner] = 1 \/ at[Cleaner] = 2 \/ at[Cleaner] = 3 \/ at[Cleaner] = 4
    BY RemovedRule
  <2>2. /\ RemovalScript(victim)[1].command = "-A" /\ RemovalScript(victim)[2].command = "-A"
        /\ RemovalScript(victim)[3].command = "-D" /\ RemovalScript(victim)[4].command = "-D"
    BY RemovalScriptCalls
  <2>3. Removed \in Rule /\ rules[Removed] \in Nat
    BY RemovedRule
  <2> QED BY <2>1, <2>2, <2>3 DEF Removed
<1>2. applying \in [Thread -> BOOLEAN] /\ Cleaner \in Thread /\ rules \in [Rule -> Nat]
  BY TableTypes
<1> HIDE DEF c
<1>3. CASE CheckRule(Cleaner, RemovalScript(victim))
  <2>1. rules' = rules /\ ~applying[Cleaner]
    BY <1>3 DEF CheckRule
  <2>2. CASE Wanted(c) /\ at' = at
    <3>1. at[Cleaner] < 3 => rules[Removed] = 0
      BY <1>1, <2>2 DEF Wanted
    <3> QED BY <2>1, <2>2, <3>1
  <2>3. CASE ~Wanted(c) /\ at' = [at EXCEPT ![Cleaner] = at[Cleaner] + 1] /\ applying' = applying
    <3>1. at[Cleaner] > 2 => rules[Removed] = 0
      BY <1>1, <2>3 DEF Wanted
    <3> QED BY <1>1, <2>1, <2>3, <3>1
  <2> QED BY <1>3, <2>2, <2>3 DEF CheckRule, NextCall, c
<1>4. CASE ApplyRule(Cleaner, RemovalScript(victim))
  <2>1. /\ applying[Cleaner] /\ applying' = [applying EXCEPT ![Cleaner] = FALSE]
        /\ at' = [at EXCEPT ![Cleaner] = at[Cleaner] + 1]
        /\ rules' = [rules EXCEPT ![c.rule] = Applied(c, rules[c.rule])]
    BY <1>4 DEF ApplyRule, NextCall, c
  <2>2. ~applying'[Cleaner]
    BY <1>2, <2>1
  <2>3. /\ rules'[Removed] = Applied(c, rules[Removed])
        /\ \A r \in Rule \ {Removed} : rules'[r] = rules[r]
    BY <1>1, <1>2, <2>1
  <2>4. /\ at[Cleaner] < 3 => Applied(c, rules[Removed]) = rules[Removed] + 1
        /\ at[Cleaner] > 2 =>
             Applied(c, rules[Removed]) = IF rules[Removed] > 0 THEN rules[Removed] - 1 ELSE 0
    BY <1>1 DEF Applied
  <2> QED BY <2>1, <2>2, <2>3, <2>4
<1> QED BY <1>3, <1>4 DEF RemoveRules

(* What the cleaner still has to delete: the rule of its current call is the *)
(* only one that a call can take from it.                                   *)
LEMMA RemovingStep ==
  ASSUME IInv, RemoveRules, NEW r
  PROVE  /\ at' = at => RemoveCount(r)' = RemoveCount(r)
         /\ at'[Cleaner] = at[Cleaner] + 1 /\ ~(at[Cleaner] > 2 /\ r = Removed)
              => RemoveCount(r)' = RemoveCount(r)
         /\ at[Cleaner] > 2 /\ r = Removed => RemoveCount(r) = 1
<1> DEFINE p == Pair(victim)
<1>1. victim' = victim /\ Busy /\ Busy' /\ p \in Prefixes \X PublicIPs
  BY RemovedRule DEF RemoveRules, listVars, Busy
<1>2. Dnat(p) # Snat(p)
  BY <1>1, RulesOfPair
<1>3. /\ Removing(r) <=> \/ at[Cleaner] <= 3 /\ r = Dnat(p)
                         \/ at[Cleaner] <= 4 /\ r = Snat(p)
      /\ Removing(r)' <=> \/ at'[Cleaner] <= 3 /\ r = Dnat(p)
                          \/ at'[Cleaner] <= 4 /\ r = Snat(p)
  BY <1>1 DEF Removing
<1>4. /\ at' = at => (Removing(r)' <=> Removing(r))
      /\ at'[Cleaner] = at[Cleaner] + 1 /\ ~(at[Cleaner] > 2 /\ r = Removed)
           => (Removing(r)' <=> Removing(r))
      /\ at[Cleaner] > 2 /\ r = Removed => Removing(r)
  <2> HIDE DEF p
  <2>1. CASE at[Cleaner] = 1 \/ at[Cleaner] = 2
    BY <1>3, <2>1
  <2>2. CASE at[Cleaner] = 3 /\ Removed = Dnat(p)
    <3>1. at' = at => at'[Cleaner] = at[Cleaner]
      OBVIOUS
    <3> QED BY <1>2, <1>3, <2>2, <3>1
  <2>3. CASE at[Cleaner] = 4 /\ Removed = Snat(p)
    BY <1>2, <1>3, <2>3
  <2> QED BY <2>1, <2>2, <2>3, RemovedRule DEF p
<1> QED BY <1>4 DEF RemoveCount

LEMMA RemoveCounts ==
  ASSUME IInv, OwnedInv, RemoveRules
  PROVE  OwnedInv'
<1>1. /\ UNCHANGED <<list, victim, pc, map, orphans>> /\ Busy'
      /\ rules \in [Rule -> Nat] /\ orphans \in [Rule -> Nat]
      /\ at \in [Thread -> Nat \ {0}] /\ applying \in [Thread -> BOOLEAN]
      /\ Cleaner \in Thread /\ Cleaner \notin Client /\ Client \subseteq Thread
  BY TableTypes DEF RemoveRules, listVars, threadVars, historyVars, Busy
<1>2. \/ at' = at
      \/ at'[Cleaner] = at[Cleaner] + 1 /\ ~applying'[Cleaner]
  BY <1>1, RemoveStep
<1>3. \A u \in Client : at'[u] = at[u]
  BY <1>1, RemoveStep
<1>4. CallsOver'
  BY <1>1, <1>3 DEF OwnedInv, CallsOver
<1>5. MissingSeen'
  <2>1. SUFFICES ASSUME applying'[Cleaner]
        PROVE  /\ at'[Cleaner] = 1 => rules'[Established(Dnat(Pair(victim)))] = 0
               /\ at'[Cleaner] = 2 => rules'[Established(Snat(Pair(victim)))] = 0
    BY <1>1 DEF MissingSeen
  <2>2. rules' = rules /\ at' = at /\ (at[Cleaner] < 3 => rules[Removed] = 0)
    BY <2>1, RemoveStep
  <2> QED BY <2>2, RemovedRule
<1>6. ASSUME NEW r \in Rule \ PlainRules PROVE rules'[r] <= 1
  <2>1. rules[r] <= 1 /\ rules[r] \in Nat
    BY <1>1 DEF OwnedInv, CountsRight
  <2>2. CASE rules'[r] = rules[r]
    BY <2>1, <2>2
  <2>3. CASE at[Cleaner] < 3 /\ r = Removed /\ applying[Cleaner] /\ rules'[r] = rules[r] + 1
    <3>1. rules[Removed] = 0
      BY <2>3, RemovedRule DEF OwnedInv, MissingSeen
    <3> QED BY <2>3, <3>1
  <2>4. at[Cleaner] > 2 => r # Removed
    BY RemovedRule
  <2>5. at[Cleaner] < 3 \/ at[Cleaner] > 2
    BY RemovedRule
  <2> QED BY <2>2, <2>3, <2>4, <2>5, RemoveStep
<1>7. \A r : ListedAs(r.pair)' = ListedAs(r.pair) /\ Added(r)' = Added(r)
  BY <1>1, <1>3 DEF ListedAs, Added, HasAdded, InProgress
<1>8. ASSUME NEW r \in PlainRules PROVE rules'[r] <= orphans'[r] + Count(r)'
  <2>1. /\ Cardinality(ListedAs(r.pair)) \in Nat /\ RemoveCount(r) \in 0..1
        /\ Cardinality(Added(r)) \in Nat
    BY CountTypes
  <2>2. /\ r \in Rule /\ rules[r] \in Nat /\ orphans'[r] = orphans[r] /\ orphans[r] \in Nat
        /\ rules[r] <= orphans[r] + Count(r)
    BY <1>1 DEF OwnedInv, CountsRight, PlainRules
  <2>3. /\ Count(r)' = Cardinality(ListedAs(r.pair)) + RemoveCount(r)' + Cardinality(Added(r))
        /\ RemoveCount(r)' \in 0..1
    BY <1>7 DEF Count, RemoveCount
  <2>4. CASE RemoveCount(r)' = RemoveCount(r) /\ rules'[r] = rules[r]
    BY <2>2, <2>3, <2>4 DEF Count
  <2>5. CASE /\ RemoveCount(r) = 1
             /\ rules'[r] = IF rules[r] > 0 THEN rules[r] - 1 ELSE 0
    BY <2>1, <2>2, <2>3, <2>5 DEF Count
  <2>6. (at[Cleaner] < 3 => r # Removed) /\ (at[Cleaner] < 3 \/ at[Cleaner] > 2)
    BY RemovedRule
  <2>7. CASE at' = at /\ rules' = rules
    BY <2>4, <2>7, RemovingStep
  <2>8. CASE at'[Cleaner] = at[Cleaner] + 1 /\ r = Removed
    <3>1. at[Cleaner] > 2
      BY <2>6, <2>8
    <3>2. at' # at
      BY <1>1, <2>8
    <3>3. rules'[r] = IF rules[r] > 0 THEN rules[r] - 1 ELSE 0
      BY <2>8, <3>1, <3>2, RemoveStep
    <3>4. RemoveCount(r) = 1
      BY <2>8, <3>1, RemovingStep
    <3> QED BY <2>5, <3>3, <3>4
  <2>9. CASE at'[Cleaner] = at[Cleaner] + 1 /\ r # Removed
    <3>1. rules'[r] = rules[r]
      BY <2>2, <2>9, RemoveStep
    <3>2. RemoveCount(r)' = RemoveCount(r)
      BY <2>9, RemovingStep
    <3> QED BY <2>4, <3>1, <3>2
  <2>10. at' = at => rules' = rules
    <3>1. at' = [at EXCEPT ![Cleaner] = at[Cleaner] + 1] => at' # at
      BY <1>1
    <3> QED BY <3>1, RemoveStep
  <2> QED BY <1>2, <2>7, <2>8, <2>9, <2>10
<1> QED BY <1>4, <1>5, <1>6, <1>8 DEF OwnedInv, CountsRight

LEMMA ExpireCounts ==
  ASSUME IInv, OwnedInv, Expire
  PROVE  OwnedInv'
<1>1. /\ UNCHANGED <<rules, applying, pc, map, orphans>> /\ ~Busy /\ victim' = list[1]
      /\ at' = [at EXCEPT ![Cleaner] = 1]
  <2>1. list \in Seq(Mapping) /\ list # << >>
    BY TableTypes DEF Expire, PopExpired
  <2> QED BY <2>1, HeadAndTail DEF Expire, PopExpired, threadVars, historyVars
<1>2. /\ at \in [Thread -> Nat \ {0}] /\ Cleaner \in Thread /\ Cleaner \notin Client
      /\ Client \subseteq Thread
      /\ list[1].id # 0 /\ Pair(list[1]) \in Prefixes \X PublicIPs
  <2>1. list \in Seq(Mapping) /\ list # << >>
    BY TableTypes DEF Expire, PopExpired
  <2>2. 1 \in 1..Len(list)
    BY <2>1, HeadAndTail
  <2> QED BY <2>2, TableTypes
<1>3. ~applying[Cleaner] /\ at'[Cleaner] = 1 /\ \A u \in Client : at'[u] = at[u]
  BY <1>1, <1>2 DEF OwnedInv, MissingSeen
<1>4. CallsOver' /\ MissingSeen'
  BY <1>1, <1>3 DEF OwnedInv, CallsOver, MissingSeen
<1>5. \A r : Added(r)' = Added(r)
  BY <1>1, <1>3 DEF Added, HasAdded, InProgress
<1>6. ASSUME NEW r \in PlainRules PROVE Count(r)' = Count(r)
  <2>1. /\ Cardinality(ListedAs(r.pair)') \in Nat
        /\ Cardinality(ListedAs(r.pair)) =
             Cardinality(ListedAs(r.pair)') + (IF Pair(list[1]) = r.pair THEN 1 ELSE 0)
    BY ListedPopped
  <2>2. Cardinality(Added(r)) \in Nat
    BY CountTypes
  <2>3. RemoveCount(r) = 0
    BY <1>1 DEF RemoveCount, Removing
  <2>4. RemoveCount(r)' = IF Pair(list[1]) = r.pair THEN 1 ELSE 0
    <3>1. Busy'
      BY <1>1, <1>2 DEF Busy
    <3>2. Removing(r)' <=> r = Dnat(Pair(list[1])) \/ r = Snat(Pair(list[1]))
      BY <1>1, <1>3, <3>1 DEF Removing
    <3>3. r = Dnat(r.pair) \/ r = Snat(r.pair)
      BY PlainOfPair
    <3>4. Dnat(Pair(list[1])).pair = Pair(list[1]) /\ Snat(Pair(list[1])).pair = Pair(list[1])
      BY RulePair
    <3>5. Removing(r)' <=> Pair(list[1]) = r.pair
      BY <3>2, <3>3, <3>4
    <3> QED BY <3>5 DEF RemoveCount
  <2>5. CASE Pair(list[1]) = r.pair
    BY <1>5, <2>1, <2>2, <2>3, <2>4, <2>5 DEF Count
  <2>6. CASE Pair(list[1]) # r.pair
    BY <1>5, <2>1, <2>2, <2>3, <2>4, <2>6 DEF Count
  <2> QED BY <2>5, <2>6
<1>7. CountsRight'
  BY <1>1, <1>6 DEF OwnedInv, CountsRight
<1> QED BY <1>4, <1>7 DEF OwnedInv

LEMMA OtherStepCounts ==
  ASSUME IInv, OwnedInv, FreeMapping \/ ClockTick \/ Restart \/ UNCHANGED vars
  PROVE  OwnedInv'
<1> USE DEF listVars, ruleVars, threadVars, historyVars
<1>1. CASE FreeMapping
  <2>1. /\ UNCHANGED <<list, rules, at, applying, pc, map, orphans>>
        /\ victim' = NoMapping /\ at[Cleaner] > 4 /\ ~applying[Cleaner]
    BY <1>1, RemovalScriptCalls DEF FreeMapping, ScriptDone
  <2>2. at[Cleaner] \in Nat
    BY TableTypes
  <2>3. \A r : RemoveCount(r) = 0 /\ RemoveCount(r)' = 0
    BY <2>1, <2>2 DEF RemoveCount, Removing, Busy, NoMapping
  <2>4. \A r : ListedAs(r.pair)' = ListedAs(r.pair) /\ Added(r)' = Added(r)
    BY <2>1 DEF ListedAs, Added, HasAdded, InProgress
  <2>5. \A r : Count(r)' = Count(r)
    BY <2>3, <2>4 DEF Count
  <2>6. CountsRight'
    BY <2>1, <2>5 DEF OwnedInv, CountsRight
  <2> QED BY <2>1, <2>6 DEF OwnedInv, CallsOver, MissingSeen
<1>2. CASE ClockTick \/ UNCHANGED vars
  <2>1. UNCHANGED <<list, victim, rules, at, applying, pc, map, orphans>>
    BY <1>2 DEF ClockTick, vars
  <2>2. \A u \in Client : \A r : HasAdded(u, r)' <=> HasAdded(u, r)
    BY <2>1 DEF HasAdded, InProgress
  <2>3. \A u \in Client : pc'[u] = "stamped" => at'[u] > 2
    BY <2>1 DEF OwnedInv, CallsOver
  <2> QED BY <2>1, <2>2, <2>3, NothingMoved
<1>3. CASE Restart
  <2>1. /\ rules' = rules /\ orphans' = rules /\ list' = << >> /\ ~Busy' /\ ~applying'[Cleaner]
        /\ \A u \in Client : pc'[u] = "idle"
    BY <1>3, TableTypes DEF Restart, Busy, NoMapping
  <2>2. /\ rules \in [Rule -> Nat] /\ PlainRules \subseteq Rule
    BY TableTypes DEF PlainRules
  <2>3. \A r : ListedAs(r.pair)' = {} /\ Added(r)' = {} /\ RemoveCount(r)' = 0
    BY <2>1 DEF ListedAs, Added, HasAdded, InProgress, RemoveCount, Removing
  <2>4. \A r : Count(r)' = 0
    BY <2>3, FS_EmptySet DEF Count
  <2>5. CountsRight'
    BY <2>1, <2>2, <2>4 DEF OwnedInv, CountsRight
  <2> QED BY <2>1, <2>5 DEF OwnedInv, CallsOver, MissingSeen
<1> QED BY <1>1, <1>2, <1>3

(* For every number of clients, wherever their iptables processes interleave *)
(* and whatever an earlier process left: each copy of a translation rule has *)
(* somebody who will delete it, and the rules for established connections   *)
(* exist once.                                                              *)
THEOREM RulesAreTakenBack == Spec => []RulesOwned
<1>1. Init => OwnedInv
  <2> SUFFICES ASSUME Init PROVE OwnedInv
    OBVIOUS
  <2>1. /\ list = << >> /\ ~Busy /\ \A u \in Client : ~InProgress(u) /\ pc[u] = "idle"
        /\ ~applying[Cleaner] /\ \A r \in Rule : rules[r] = 0 /\ orphans[r] = 0
    BY CleanerIsNotClient DEF Init, Busy, NoMapping, InProgress, Thread
  <2>2. \A r : ListedAs(r.pair) = {} /\ Added(r) = {} /\ RemoveCount(r) = 0
    BY <2>1 DEF ListedAs, Added, HasAdded, RemoveCount, Removing
  <2>3. \A r : Count(r) = 0
    BY <2>2, FS_EmptySet DEF Count
  <2>4. CountsRight
    BY <2>1, <2>3 DEF CountsRight, PlainRules
  <2> QED BY <2>1, <2>4 DEF OwnedInv, CallsOver, MissingSeen
<1>2. ASSUME IInv, OwnedInv, [Next]_vars PROVE OwnedInv'
  BY <1>2, ClientStepCounts, RemoveCounts, ExpireCounts, OtherStepCounts DEF Next, CleanerStep
<1>3. ASSUME IInv, OwnedInv PROVE RulesOwned
  <2>1. \A r \in PlainRules : rules[r] <= orphans[r] + Count(r)
    BY <1>3 DEF OwnedInv, CountsRight
  <2>2. \A r \in PlainRules : WillDelete(r) = Count(r)
    BY <1>3, Counted
  <2> QED BY <1>3, <2>1, <2>2 DEF RulesOwned, OwnedInv, CountsRight
<1> QED BY <1>1, <1>2, <1>3, Invariance, PTL DEF Spec
-----------------------------------------------------------------------------
(* Who is about to list a mapping of an address.                             *)
Makers(ip) == {t \in Client : InProgress(t) /\ map[t].ip = ip}

(* While an address is live in the list every draw refuses it: whoever is    *)
(* still to list it drew it before.                                         *)
FewInv == \A ip \in PublicIPs :
            Cardinality(LiveWith(ip)) + Cardinality(Makers(ip)) <= Cardinality(Client)

LEMMA FewCounted ==
  ASSUME TypeOK, NEW ip
  PROVE  /\ IsFiniteSet(LiveWith(ip)) /\ Cardinality(LiveWith(ip)) \in Nat
         /\ IsFiniteSet(Makers(ip)) /\ Cardinality(Makers(ip)) \in Nat
         /\ Makers(ip) \subseteq Client /\ Cardinality(Makers(ip)) <= Cardinality(Client)
         /\ Cardinality(Client) \in Nat
<1>1. Len(list) \in Nat
  BY DEF TypeOK
<1>2. IsFiniteSet(1..Len(list))
  BY <1>1, FS_Interval
<1>3. LiveWith(ip) \subseteq 1..Len(list) /\ Makers(ip) \subseteq Client
  BY DEF LiveWith, Makers
<1>4. IsFiniteSet(LiveWith(ip))
  BY <1>2, <1>3, FS_Subset
<1>5. IsFiniteSet(Makers(ip)) /\ Cardinality(Makers(ip)) <= Cardinality(Client)
  BY <1>3, FS_Subset, ClientIsFinite
<1> QED BY <1>3, <1>4, <1>5, FS_CardinalityType, ClientIsFinite

(* Fewer places and fewer threads keep the count.                            *)
LEMMA FewerKeep ==
  ASSUME TypeOK, TypeOK', NEW ip, NEW L, L \subseteq LiveWith(ip),
         Cardinality(LiveWith(ip)') = Cardinality(L), Makers(ip)' \subseteq Makers(ip),
         Cardinality(LiveWith(ip)) + Cardinality(Makers(ip)) <= Cardinality(Client)
  PROVE  Cardinality(LiveWith(ip)') + Cardinality(Makers(ip)') <= Cardinality(Client)
<1> DEFINE l == Cardinality(LiveWith(ip))   l1 == Cardinality(LiveWith(ip)')
           m == Cardinality(Makers(ip))     m1 == Cardinality(Makers(ip)')
           c == Cardinality(Client)
<1>1. l \in Nat /\ m \in Nat /\ c \in Nat
  BY FewCounted
<1>2. IsFiniteSet(LiveWith(ip)) /\ IsFiniteSet(Makers(ip))
  BY FewCounted
<1>3. m1 <= m /\ IsFiniteSet(Makers(ip)')
  BY <1>2, FS_Subset
<1>4. Cardinality(L) <= l /\ IsFiniteSet(L)
  BY <1>2, FS_Subset
<1>5. l1 \in Nat /\ l1 <= l
  BY <1>4, FS_CardinalityType
<1>6. m1 \in Nat
  BY <1>3, FS_CardinalityType
<1>7. l + m <= c
  OBVIOUS
<1> HIDE DEF l, l1, m, m1, c
<1>8. l1 + m1 <= c
  BY <1>1, <1>3, <1>5, <1>6, <1>7
<1> QED BY <1>8 DEF l1, m1, c

(* Only a draw of the address makes a thread one of those about to list it.  *)
LEMMA MakersFewer ==
  ASSUME TypeOK, [Next]_vars, NEW ip,
         \A u \in Client, a \in PublicIPs : Draw(u, a) => a # ip
  PROVE  Makers(ip)' \subseteq Makers(ip)
<1> SUFFICES ASSUME NEW t \in Client, InProgress(t)', map'[t].ip = ip
             PROVE  InProgress(t) /\ map[t].ip = ip
  BY DEF Makers
<1>1. CASE UNCHANGED <<pc, map>>
  BY <1>1 DEF InProgress
<1>2. ASSUME NEW u \in Client, ClientStep(u), u # t
      PROVE  InProgress(t) /\ map[t].ip = ip
  <2>1. pc'[t] = pc[t] /\ map'[t] = map[t]
    BY <1>2 DEF ClientStep, ReceiveAdd, FindByPrefix, CheckMatch, CopyMatch, Draw,
       InstallRules, StampMapping, InsertMapping, Respond, threadVars, TypeOK
  <2> QED BY <2>1 DEF InProgress
<1>3. CASE ClientStep(t)
  <2>1. CASE \E a \in PublicIPs : Draw(t, a)
    <3>1. PICK a \in PublicIPs : Draw(t, a)
      BY <2>1
    <3>2. map'[t].ip = a /\ a # ip
      BY <3>1 DEF Draw, WithAddress, TypeOK
    <3> QED BY <3>2
  <2>2. CASE InstallRules(t)
    BY <1>1, <2>2 DEF InstallRules, threadVars
  <2>3. CASE StampMapping(t)
    BY <2>3 DEF StampMapping, CreatedAt, InProgress, TypeOK
  <2>4. CASE \/ \E h \in Hosts : ReceiveAdd(t, h)
             \/ FindByPrefix(t) \/ CheckMatch(t) \/ CopyMatch(t)
             \/ InsertMapping(t) \/ Respond(t)
    BY <2>4 DEF ReceiveAdd, FindByPrefix, CheckMatch, CopyMatch, InsertMapping, Respond,
       InProgress, TypeOK
  <2> QED BY <1>3, <2>1, <2>2, <2>3, <2>4 DEF ClientStep
<1>4. CASE Restart
  BY <1>4 DEF Restart, InProgress
<1>5. CASE CleanerStep \/ ClockTick \/ UNCHANGED vars
  BY <1>1, <1>5 DEF CleanerStep, Expire, RemoveRules, FreeMapping, ClockTick, vars, threadVars
<1> QED BY <1>2, <1>3, <1>4, <1>5 DEF Next

(* While the list stands still, time only ends lifetimes.                    *)
LEMMA SameListFew ==
  ASSUME TypeOK, TypeOK', NEW ip, UNCHANGED list, now' >= now, Makers(ip)' \subseteq Makers(ip),
         Cardinality(LiveWith(ip)) + Cardinality(Makers(ip)) <= Cardinality(Client)
  PROVE  Cardinality(LiveWith(ip)') + Cardinality(Makers(ip)') <= Cardinality(Client)
<1>1. /\ now \in Nat /\ now' \in Nat
      /\ \A i \in 1..Len(list) : list[i].time \in Nat
  BY ListFields, MaxTimeIsNat DEF TypeOK
<1>2. LiveWith(ip)' \subseteq LiveWith(ip)
  BY <1>1, PeriodsAreNat DEF LiveWith
<1> QED BY <1>2, FewerKeep

(* A pop takes a place away and moves the others up.                         *)
LEMMA PoppedFew ==
  ASSUME TypeOK, TypeOK', NEW ip, Expire, Makers(ip)' \subseteq Makers(ip),
         Cardinality(LiveWith(ip)) + Cardinality(Makers(ip)) <= Cardinality(Client)
  PROVE  Cardinality(LiveWith(ip)') + Cardinality(Makers(ip)') <= Cardinality(Client)
<1> DEFINE S == LiveWith(ip)'
           T == {i + 1 : i \in S}
<1>1. /\ Len(list') \in Nat /\ now' = now
      /\ \A i \in 1..Len(list') : i + 1 \in 1..Len(list) /\ list'[i] = list[i+1]
  <2>1. list \in Seq(Mapping) /\ list # << >> /\ list' = Tail(list) /\ now' = now
    BY DEF TypeOK, Expire, PopExpired
  <2> QED BY <2>1, HeadAndTail
<1>2. S \subseteq 1..Len(list') /\ S \subseteq Nat
  BY <1>1 DEF LiveWith
<1>3. IsFiniteSet(S)
  <2>0. Len(list') \in Int /\ 1 \in Int
    BY <1>1
  <2>1. IsFiniteSet(1..Len(list'))
    BY <2>0, FS_Interval
  <2> QED BY <1>2, <2>1, FS_Subset
<1>4. Cardinality(T) = Cardinality(S)
  BY <1>2, <1>3, Shifted
<1>5. T \subseteq LiveWith(ip)
  BY <1>1 DEF LiveWith
<1> HIDE DEF T, S
<1>6. Cardinality(S) = Cardinality(T)
  BY <1>4
<1> QED BY <1>5, <1>6, FewerKeep DEF S

(* What a draw lets through: a listed mapping of the drawn address was made  *)
(* more than a lifetime before the request.                                 *)
LEMMA DrawnIsFree ==
  ASSUME IInv, NEW t \in Client, NEW ip \in PublicIPs, Draw(t, ip),
         NEW i \in 1..Len(list), list[i].ip = ip
  PROVE  list[i].time + EXPIRATION < now
<1>1. ~Matches(AddressSearch(t, ip), list[i])
  BY DEF Draw
<1>2. list[i].time < since[t]
  <2>1. /\ list[i].time \in Nat /\ since[t] \in Int
    BY ListFields DEF IInv, TypeOK
  <2> QED BY <1>1, <2>1 DEF Matches, AddressSearch
<1>3. since[t] + EXPIRATION <= now
  BY DEF IInv, TimesPast, Draw
<1>4. list[i].time \in Nat /\ since[t] \in Int /\ now \in Nat
  BY ListFields, MaxTimeIsNat DEF IInv, TypeOK
<1> QED BY <1>2, <1>3, <1>4, PeriodsAreNat

(* The draw is refused while the address is live; when it is not, at most    *)
(* every connection is about to list it.                                    *)
LEMMA DrawnFew ==
  ASSUME IInv, IInv', FewInv, NEW t \in Client, NEW a \in PublicIPs, Draw(t, a)
  PROVE  Cardinality(LiveWith(a)') + Cardinality(Makers(a)') <= Cardinality(Client)
<1>1. list' = list /\ now' = now /\ now \in Nat
  BY MaxTimeIsNat DEF Draw, listVars, IInv, TypeOK
<1>2. ASSUME NEW i \in 1..Len(list), list[i].ip = a
      PROVE  ~(now <= list[i].time + EXPIRATION)
  <2>1. list[i].time + EXPIRATION < now
    BY <1>2, DrawnIsFree
  <2>2. list[i].time \in Nat
    BY ListFields DEF IInv, TypeOK
  <2> QED BY <1>1, <2>1, <2>2, PeriodsAreNat
<1>3. LiveWith(a)' = {}
  BY <1>1, <1>2 DEF LiveWith
<1>4. Cardinality(LiveWith(a)') = 0
  BY <1>3, FS_EmptySet
<1>5. TypeOK'
  BY DEF IInv
<1>6. /\ Cardinality(Makers(a)') \in Nat /\ Cardinality(Makers(a)') <= Cardinality(Client)
      /\ Cardinality(Client) \in Nat
  <2>1. Makers(a)' \subseteq Client
    BY DEF Makers
  <2> QED BY <2>1, FS_Subset, FS_CardinalityType, ClientIsFinite
<1> QED BY <1>4, <1>6

(* What enters the list was about to be listed.                              *)
LEMMA InsertedFew ==
  ASSUME TypeOK, TypeOK', [Next]_vars, NEW ip, NEW t \in Client, InsertMapping(t),
         Cardinality(LiveWith(ip)) + Cardinality(Makers(ip)) <= Cardinality(Client)
  PROVE  Cardinality(LiveWith(ip)') + Cardinality(Makers(ip)') <= Cardinality(Client)
<1> DEFINE n == Len(list) + 1
<1>1. /\ Len(list) \in Nat /\ 1..Len(list') = (1..Len(list)) \cup {n}
      /\ list'[n] = map[t] /\ \A i \in 1..Len(list) : list'[i] = list[i]
      /\ now' = now
  <2>1. list \in Seq(Mapping) /\ map[t] \in Mapping /\ list' = Append(list, map[t]) /\ now' = now
    BY DEF TypeOK, InsertMapping
  <2> QED BY <2>1
<1>2. Makers(ip)' \subseteq Makers(ip) \ {t}
  <2>1. pc'[t] = "respond" /\ map' = map /\ \A u \in Client : u # t => pc'[u] = pc[u]
    BY DEF InsertMapping, TypeOK
  <2> QED BY <2>1 DEF Makers, InProgress
<1>3. CASE map[t].ip # ip
  <2>1. LiveWith(ip)' \subseteq LiveWith(ip)
    BY <1>1, <1>3 DEF LiveWith
  <2> QED BY <1>2, <2>1, FewerKeep
<1>4. CASE map[t].ip = ip
  <2>1. LiveWith(ip)' \subseteq LiveWith(ip) \cup {n}
    BY <1>1 DEF LiveWith
  <2>2. t \in Makers(ip)
    BY <1>4 DEF Makers, InProgress, InsertMapping
  <2> DEFINE L == LiveWith(ip)  L1 == LiveWith(ip)'  M == Makers(ip)  M1 == Makers(ip)'
             c == Cardinality(Client)
  <2>3. /\ IsFiniteSet(L) /\ Cardinality(L) \in Nat /\ IsFiniteSet(M) /\ Cardinality(M) \in Nat
        /\ c \in Nat /\ Cardinality(L) + Cardinality(M) <= c
    BY FewCounted
  <2> HIDE DEF L, L1, M, M1, c, n
  <2>4. IsFiniteSet(L \cup {n}) /\ Cardinality(L \cup {n}) <= Cardinality(L) + 1
    <3>1. /\ IsFiniteSet(L \cup {n})
          /\ \/ Cardinality(L \cup {n}) = Cardinality(L)
             \/ Cardinality(L \cup {n}) = Cardinality(L) + 1
      BY <2>3, FS_AddElement, Zenon
    <3> QED BY <2>3, <3>1
  <2>5. IsFiniteSet(M \ {t}) /\ Cardinality(M \ {t}) = Cardinality(M) - 1
    BY <2>2, <2>3, FS_RemoveElement DEF M
  <2>6. IsFiniteSet(L1) /\ Cardinality(L1) <= Cardinality(L \cup {n})
    BY <2>1, <2>4, FS_Subset DEF L, L1
  <2>7. IsFiniteSet(M1) /\ Cardinality(M1) <= Cardinality(M \ {t})
    BY <1>2, <2>5, FS_Subset DEF M, M1
  <2>8. Cardinality(L1) \in Nat /\ Cardinality(M1) \in Nat /\ Cardinality(L \cup {n}) \in Nat
    BY <2>4, <2>6, <2>7, FS_CardinalityType
  <2>9. Cardinality(L1) + Cardinality(M1) <= c
    BY <2>3, <2>4, <2>5, <2>6, <2>7, <2>8
  <2> QED BY <2>9 DEF L1, M1, c
<1> QED BY <1>3, <1>4

LEMMA FewStep == IInv /\ IInv' /\ FewInv /\ [Next]_vars => FewInv'
<1> SUFFICES ASSUME IInv, IInv', FewInv, [Next]_vars, NEW ip \in PublicIPs
             PROVE  Cardinality(LiveWith(ip)') + Cardinality(Makers(ip)') <= Cardinality(Client)
  BY DEF FewInv
<1>1. /\ TypeOK /\ TypeOK' /\ now' >= now
      /\ Cardinality(LiveWith(ip)) + Cardinality(Makers(ip)) <= Cardinality(Client)
  BY NowStep DEF IInv, FewInv
<1>2. CASE \E t \in Client : Draw(t, ip)
  BY <1>2, DrawnFew
<1>3. CASE \A t \in Client : ~Draw(t, ip)
  <2>1. Makers(ip)' \subseteq Makers(ip)
    BY <1>1, <1>3, MakersFewer
  <2>2. CASE list' = list
    BY <1>1, <2>1, <2>2, SameListFew
  <2>3. CASE Expire
    BY <1>1, <2>1, <2>3, PoppedFew
  <2>4. CASE \E t \in Client : InsertMapping(t)
    BY <1>1, <2>4, InsertedFew
  <2>5. CASE Restart
    <3>1. LiveWith(ip)' = {}
      BY <2>5 DEF Restart, LiveWith
    <3>2. Cardinality(LiveWith(ip)') = Cardinality({})
      BY <3>1
    <3> QED BY <1>1, <2>1, <3>2, FewerKeep
  <2> QED BY <2>2, <2>3, <2>4, <2>5, ListStep
<1> QED BY <1>2, <1>3

(* What is left of one lease at a time with any number of connections: at no *)
(* time is an address leased to more mappings than there are connections,    *)
(* because the search that goes with a draw refuses it as soon as one of     *)
(* them is in the list.  With one connection it is one.                     *)
THEOREM AddressesSharedByFew == Spec => []SharedByFew
<1>1. Init => FewInv
  <2> SUFFICES ASSUME Init, NEW ip \in PublicIPs
               PROVE  Cardinality(LiveWith(ip)) + Cardinality(Makers(ip)) <= Cardinality(Client)
    BY DEF FewInv
  <2>1. LiveWith(ip) = {} /\ Makers(ip) = {}
    BY DEF Init, LiveWith, Makers, InProgress
  <2>2. Cardinality(LiveWith(ip)) = 0 /\ Cardinality(Makers(ip)) = 0
    BY <2>1, FS_EmptySet
  <2>3. Cardinality(Client) \in Nat
    BY ClientIsFinite, FS_CardinalityType
  <2> QED BY <2>2, <2>3
<1>2. IInv /\ FewInv => SharedByFew
  <2> SUFFICES ASSUME IInv, FewInv, NEW ip \in PublicIPs
               PROVE  Cardinality(LiveWith(ip)) <= Cardinality(Client)
    BY DEF SharedByFew
  <2>1. /\ Cardinality(LiveWith(ip)) \in Nat /\ Cardinality(Makers(ip)) \in Nat
        /\ Cardinality(Client) \in Nat
    BY FewCounted DEF IInv
  <2>2. Cardinality(LiveWith(ip)) + Cardinality(Makers(ip)) <= Cardinality(Client)
    BY DEF FewInv
  <2> QED BY <2>1, <2>2
<1> QED BY <1>1, <1>2, FewStep, Invariance, PTL DEF Spec

-----------------------------------------------------------------------------
(* The DNS filter holds one connection to the NAT, hence one adding thread.  *)
SingleAdder == \A t, u \in Client : t = u

(* What the thread is about to list begins after every listed lifetime of    *)
(* the same address: the draw refused the addresses alive at the request,    *)
(* and nobody else inserts before it does.                                  *)
NextLeaseLater ==
  \A t \in Client : \A i \in 1..Len(list) :
    InProgress(t) /\ list[i].ip = map[t].ip =>
      /\ list[i].time + EXPIRATION < now
      /\ pc[t] = "stamped" => list[i].time + EXPIRATION < map[t].time

LeaseInv == IInv /\ NextLeaseLater /\ UniqueLease

(* Every step keeps what is being made later than what is listed.           *)
LEMMA NextLeaseLaterStep ==
  ASSUME SingleAdder, IInv, NextLeaseLater, [Next]_vars
  PROVE  NextLeaseLater'
<1> USE DEF listVars, ruleVars, threadVars, historyVars
<1> SUFFICES ASSUME NEW t \in Client, NEW i \in 1..Len(list'), InProgress(t)',
                    list'[i].ip = map'[t].ip
             PROVE  /\ list'[i].time + EXPIRATION < now'
                    /\ pc'[t] = "stamped" => list'[i].time + EXPIRATION < map'[t].time
  BY DEF NextLeaseLater
<1>1. /\ now \in Nat /\ now' \in Nat /\ now' >= now
  BY NowStep DEF IInv
<1>2. \A j \in 1..Len(list) : list[j].time \in Nat
  BY ListFields DEF IInv, TypeOK
<1>3. CASE list' = list /\ map' = map /\ (pc' = pc \/ pc'[t] = pc[t])
  BY <1>1, <1>2, <1>3, PeriodsAreNat DEF NextLeaseLater, InProgress
<1>4. ASSUME NEW u \in Client, NEW ip \in PublicIPs, Draw(u, ip)
      PROVE  /\ list'[i].time + EXPIRATION < now'
             /\ pc'[t] = "stamped" => list'[i].time + EXPIRATION < map'[t].time
  <2>1. u = t
    BY DEF SingleAdder
  <2>2. /\ list' = list /\ now' = now /\ pc'[t] = "rules"
        /\ map'[t].ip = ip
    BY <1>4, <2>1 DEF Draw, IInv, TypeOK, WithAddress
  <2> QED BY <1>4, <2>1, <2>2, DrawnIsFree
<1>5. ASSUME NEW u \in Client, StampMapping(u)
      PROVE  /\ list'[i].time + EXPIRATION < now'
             /\ pc'[t] = "stamped" => list'[i].time + EXPIRATION < map'[t].time
  <2>1. u = t
    BY DEF SingleAdder
  <2>2. /\ list' = list /\ now' = now /\ InProgress(t)
        /\ map'[t].ip = map[t].ip /\ map'[t].time = now
    BY <1>5, <2>1 DEF StampMapping, IInv, TypeOK, CreatedAt, InProgress
  <2> QED BY <2>2 DEF NextLeaseLater
<1>6. ASSUME NEW u \in Client,
             \/ \E h \in Hosts : ReceiveAdd(u, h)
             \/ FindByPrefix(u) \/ CheckMatch(u) \/ CopyMatch(u)
             \/ InsertMapping(u) \/ Respond(u)
      PROVE  FALSE
  <2>1. u = t
    BY DEF SingleAdder
  <2> QED BY <1>6, <2>1 DEF ReceiveAdd, FindByPrefix, CheckMatch, CopyMatch,
             InsertMapping, Respond, InProgress, IInv, TypeOK
<1>7. ASSUME NEW u \in Client, InstallRules(u)
      PROVE  list' = list /\ map' = map /\ pc' = pc
  BY <1>7 DEF InstallRules
<1>8. CASE Expire
  <2>1. /\ list # << >> /\ list' = Tail(list) /\ now' = now /\ map' = map /\ pc' = pc
    BY <1>8 DEF Expire, PopExpired
  <2>2. i + 1 \in 1..Len(list) /\ list'[i] = list[i+1]
    BY <2>1, HeadAndTail DEF IInv, TypeOK
  <2>3. InProgress(t)
    BY <2>1 DEF InProgress
  <2> QED BY <2>1, <2>2, <2>3 DEF NextLeaseLater
<1>9. CASE RemoveRules \/ FreeMapping \/ ClockTick \/ UNCHANGED vars
  <2>1. list' = list /\ map' = map /\ pc' = pc
    BY <1>9 DEF RemoveRules, FreeMapping, ClockTick, vars
  <2> QED BY <1>3, <2>1
<1>10. CASE Restart
  BY <1>10 DEF Restart, InProgress
<1> QED BY <1>3, <1>4, <1>5, <1>6, <1>7, <1>8, <1>9, <1>10
  DEF Next, ClientStep, CleanerStep

(* Every step keeps the leases of an address one after the other.           *)
LEMMA UniqueLeaseStep ==
  ASSUME IInv, NextLeaseLater, UniqueLease, [Next]_vars
  PROVE  UniqueLease'
<1> USE DEF listVars, ruleVars, threadVars, historyVars
<1>1. CASE list' = list
  BY <1>1 DEF UniqueLease
<1>2. CASE Restart
  BY <1>2 DEF Restart, UniqueLease
<1>3. CASE Expire
  <2>1. list # << >> /\ list' = Tail(list)
    BY <1>3 DEF Expire, PopExpired
  <2>2. /\ \A i \in 1..Len(list') : /\ i + 1 \in 1..Len(list)
                                    /\ list'[i] = list[i+1]
        /\ \A i, j \in 1..Len(list') : i < j => i + 1 < j + 1
    BY <2>1, HeadAndTail DEF IInv, TypeOK
  <2> QED BY <2>2 DEF UniqueLease
<1>4. ASSUME NEW t \in Client, InsertMapping(t) PROVE UniqueLease'
  <2>1. /\ list' = Append(list, map[t]) /\ map[t] \in Mapping
        /\ InProgress(t) /\ pc[t] = "stamped" /\ Len(list) \in Nat
    BY <1>4 DEF InsertMapping, IInv, TypeOK, InProgress
  <2>2. \A i \in 1..Len(list') :
          \/ i \in 1..Len(list) /\ list'[i] = list[i]
          \/ i = Len(list) + 1 /\ list'[i] = map[t]
    BY <2>1, AppendOne DEF IInv, TypeOK
  <2>3. \A i \in 1..Len(list) :
          list[i].ip = map[t].ip => map[t].time > list[i].time + EXPIRATION
    <3>1. map[t].time \in Nat /\ \A i \in 1..Len(list) : list[i].time \in Nat
      BY <2>1, ListFields, MappingFields DEF IInv, TypeOK
    <3> QED BY <2>1, <3>1, PeriodsAreNat DEF NextLeaseLater
  <2>4. ASSUME NEW i \in 1..Len(list'), NEW j \in 1..Len(list'), i < j,
               list'[i].ip = list'[j].ip
        PROVE  list'[j].time > list'[i].time + EXPIRATION
    <3>1. i \in 1..Len(list) /\ list'[i] = list[i]
      BY <2>1, <2>2, <2>4
    <3>2. CASE j \in 1..Len(list) /\ list'[j] = list[j]
      BY <2>4, <3>1, <3>2 DEF UniqueLease
    <3>3. CASE j = Len(list) + 1 /\ list'[j] = map[t]
      BY <2>3, <2>4, <3>1, <3>3
    <3> QED BY <2>2, <3>2, <3>3
  <2> QED BY <2>4 DEF UniqueLease
<1> QED BY <1>1, <1>2, <1>3, <1>4, ListStep

(* The inductive invariant of a table with one adding thread.               *)
THEOREM LeaseInvariance == ASSUME SingleAdder PROVE Spec => []LeaseInv
<1>1. Init => LeaseInv
  BY InitIInv DEF Init, LeaseInv, NextLeaseLater, UniqueLease
<1>2. LeaseInv /\ [Next]_vars => LeaseInv'
  BY StepIInv, NextLeaseLaterStep, UniqueLeaseStep DEF LeaseInv
<1> QED BY <1>1, <1>2, PTL DEF Spec

(* With one adding thread an address is leased to one prefix at a time:      *)
(* whatever the interleaving with the cleaner, and however long the rules    *)
(* took to install, its lifetimes in the list follow one another.           *)
THEOREM LeasesAreUnique == ASSUME SingleAdder PROVE Spec => []UniqueLease
<1>1. LeaseInv => UniqueLease
  BY DEF LeaseInv
<1> QED BY <1>1, LeaseInvariance, PTL
-----------------------------------------------------------------------------
(* The parameters of the lease service.                                      *)
LEMMA LeaseFields ==
  ASSUME NEW m \in Mapping
  PROVE  /\ LeaseOf(m) = [prefix |-> m.prefix, ip |-> m.ip, start |-> m.time]
         /\ LeaseOf(m).start = m.time /\ LeaseOf(m).ip = m.ip
         /\ LeaseOf(m).prefix = m.prefix
         /\ Lease!End(LeaseOf(m)) = m.time + EXPIRATION
BY DEF LeaseOf, Lease!End

(* Copying a live match repeats its lease, be it listed or being removed.    *)
LEMMA CopyRepeats ==
  ASSUME IInv, NEW t \in Client, CopyMatch(t)
  PROVE  Lease!Next \/ UNCHANGED <<now, Leases, answer>>
<1> USE DEF listVars, ruleVars, threadVars, historyVars
<1> DEFINE m == match[t]
           l == LeaseOf(m)
<1>1. /\ list' = list /\ now' = now /\ Leases' = Leases
  BY DEF CopyMatch, Leases
<1>2. CASE Freed(m)
  BY <1>1, <1>2 DEF CopyMatch
<1>3. CASE ~Freed(m)
  <2>1. /\ m \in Mapping /\ m.time \in Nat /\ timeNow[t] \in Nat /\ now \in Nat
    BY MappingFields, MaxTimeIsNat DEF IInv, TypeOK
  <2>2. /\ m.time <= timeNow[t] /\ timeNow[t] < m.time + EXPIRATION
        /\ timeNow[t] <= now /\ m.time <= now
    BY <1>3 DEF IInv, MatchesKnown, MatchKnown, TimesPast, CopyMatch
  <2>3. /\ l = [prefix |-> m.prefix, ip |-> m.ip, start |-> m.time]
        /\ l.start = m.time /\ l.ip = m.ip /\ l.prefix = m.prefix
        /\ Lease!End(l) = m.time + EXPIRATION
    BY <2>1, LeaseFields
  <2>4. timeNow[t] \in l.start..now /\ timeNow[t] < Lease!End(l)
    BY <2>1, <2>2, <2>3
  <2>5. SecondsLeft(t) = Lease!End(l) - timeNow[t]
    BY <2>1, <2>3, PeriodsAreNat DEF SecondsLeft
  <2>6. answer' = [answer EXCEPT ![t] = [prefix |-> l.prefix, ip |-> l.ip,
                     at |-> timeNow[t], ttl |-> Lease!End(l) - timeNow[t]]]
    BY <1>3, <2>3, <2>5 DEF CopyMatch
  <2>7. Lease!Repeat(t, l, timeNow[t])
    BY <1>1, <2>4, <2>6 DEF Lease!Repeat
  <2>8. CASE Listed(m)
    <3>1. l \in Leases
      BY <2>8 DEF Listed, Leases
    <3> QED BY <2>4, <2>7, <3>1 DEF Lease!Next
  <2>9. CASE victim = m
    <3>1. /\ m.prefix \in Prefixes /\ m.ip \in PublicIPs /\ Busy
      BY <2>9 DEF IInv, PairsComplete, Complete, CopyMatch, Busy
    <3>2. now >= m.time + EXPIRATION + GRACE
      BY <2>9, <3>1 DEF IInv, TimesPast, Due, ExpirationTime
    <3>3. Lease!RepeatLate(t, m.prefix, m.ip, m.time, timeNow[t])
      BY <2>3, <2>7, <3>2 DEF Lease!RepeatLate
    <3>4. m.time \in 0..now /\ timeNow[t] \in m.time..now
      BY <2>1, <2>2
    <3> QED BY <3>1, <3>3, <3>4 DEF Lease!Next
  <2> QED BY <1>3, <2>8, <2>9 DEF Freed
<1> QED BY <1>2, <1>3

(* Inserting a mapping grants a lease.                                       *)
LEMMA InsertGrants ==
  ASSUME LeaseInv, NEW t \in Client, InsertMapping(t)
  PROVE  Lease!Next
<1> USE DEF listVars, ruleVars, threadVars, historyVars
<1> DEFINE m == map[t]
<1>1. /\ list' = Append(list, m) /\ m \in Mapping /\ m.time \in Nat /\ now \in Nat
      /\ now' = now /\ InProgress(t) /\ pc[t] = "stamped"
      /\ answer' = [answer EXCEPT ![t] = [prefix |-> m.prefix, ip |-> m.ip,
                      at |-> m.time, ttl |-> EXPIRATION]]
  BY MappingFields, MaxTimeIsNat DEF InsertMapping, LeaseInv, IInv, TypeOK, InProgress
<1>2. /\ \A i \in 1..Len(list) : i \in 1..Len(list') /\ list'[i] = list[i]
      /\ Len(list) + 1 \in 1..Len(list') /\ list'[Len(list) + 1] = m
      /\ \A i \in 1..Len(list') :
           \/ i \in 1..Len(list) /\ list'[i] = list[i]
           \/ i = Len(list) + 1 /\ list'[i] = m
  BY <1>1, AppendOne DEF LeaseInv, IInv, TypeOK
<1>3. Leases' = Leases \cup {LeaseOf(m)}
  BY <1>2 DEF Leases, LeaseOf
<1>4. m.time <= now /\ m.prefix \in Prefixes /\ m.ip \in PublicIPs
  BY <1>1 DEF LeaseInv, IInv, TimesPast, PairsComplete, Complete
<1>5. ASSUME NEW l \in Leases, l.ip = m.ip PROVE Lease!End(l) < m.time
  <2>1. PICK i \in 1..Len(list) : l = LeaseOf(list[i])
    BY DEF Leases
  <2>2. list[i] \in Mapping
    BY ListFields DEF LeaseInv, IInv, TypeOK
  <2>3. list[i].ip = m.ip /\ Lease!End(l) = list[i].time + EXPIRATION
    BY <1>5, <2>1, <2>2, LeaseFields
  <2> QED BY <1>1, <2>3 DEF LeaseInv, NextLeaseLater
<1>6. Lease!Grant(t, m.prefix, m.ip, m.time)
  BY <1>1, <1>3, <1>4, <1>5 DEF Lease!Grant, LeaseOf
<1>7. m.time \in 0..now
  BY <1>1, <1>4
<1> QED BY <1>4, <1>6, <1>7 DEF Lease!Next

(* Popping a mapping retires its lease: no other mapping has the same one.   *)
LEMMA ExpireRetires ==
  ASSUME LeaseInv, Expire
  PROVE  Lease!Next
<1> USE DEF listVars, ruleVars, threadVars, historyVars
<1> DEFINE m == list[1]
<1>1. /\ list # << >> /\ list' = Tail(list) /\ now' = now /\ answer' = answer
      /\ Due(Head(list))
  BY DEF Expire, PopExpired
<1>2. /\ Head(list) = m /\ Len(list) \in Nat \ {0}
      /\ Len(list') = Len(list) - 1
      /\ \A i \in 1..Len(list') : list'[i] = list[i+1]
  BY <1>1, HeadAndTail DEF LeaseInv, IInv, TypeOK
<1>3. \A i \in 1..Len(list) : list[i] \in Mapping /\ list[i].time \in Nat
  BY ListFields DEF LeaseInv, IInv, TypeOK
<1>4. ASSUME NEW i \in 2..Len(list) PROVE LeaseOf(list[i]) # LeaseOf(m)
  <2>1. 1 \in 1..Len(list) /\ i \in 1..Len(list) /\ 1 < i
    BY <1>2
  <2>2. list[i].ip = m.ip => list[i].time > m.time + EXPIRATION
    BY <2>1 DEF LeaseInv, UniqueLease
  <2>3. /\ LeaseOf(list[i]).ip = list[i].ip /\ LeaseOf(list[i]).start = list[i].time
        /\ LeaseOf(m).ip = m.ip /\ LeaseOf(m).start = m.time
    BY <1>3, <2>1, LeaseFields
  <2> QED BY <1>3, <2>1, <2>2, <2>3, PeriodsAreNat
<1>5. Leases' = {LeaseOf(list[i]) : i \in 2..Len(list)}
  <2>1. \A i \in 1..Len(list') : i + 1 \in 2..Len(list) /\ list'[i] = list[i+1]
    BY <1>2
  <2>2. \A i \in 2..Len(list) : i - 1 \in 1..Len(list') /\ list'[i-1] = list[i]
    BY <1>2
  <2>3. Leases' = {LeaseOf(list'[i]) : i \in 1..Len(list')}
    BY DEF Leases, LeaseOf
  <2> QED BY <2>1, <2>2, <2>3
<1>6. Leases' = Leases \ {LeaseOf(m)}
  <2>1. \A i \in 1..Len(list) : i = 1 \/ i \in 2..Len(list)
    BY <1>2
  <2>2. 1 \in 1..Len(list) /\ \A i \in 2..Len(list) : i \in 1..Len(list)
    BY <1>2
  <2> QED BY <1>4, <1>5, <2>1, <2>2 DEF Leases
<1>7. /\ LeaseOf(m) \in Leases
      /\ now >= Lease!End(LeaseOf(m)) + GRACE
  <2>1. 1 \in 1..Len(list) /\ m \in Mapping
    BY <1>2, <1>3
  <2>2. Lease!End(LeaseOf(m)) = m.time + EXPIRATION
    BY <2>1, LeaseFields
  <2> QED BY <1>1, <1>2, <2>1, <2>2 DEF Leases, Due, ExpirationTime
<1>8. Lease!Retire(LeaseOf(m))
  BY <1>1, <1>6, <1>7 DEF Lease!Retire
<1> QED BY <1>7, <1>8 DEF Lease!Next

(* Every step of the table is a step of the lease service or stutters.       *)
LEMMA LeaseStep ==
  ASSUME LeaseInv, [Next]_vars
  PROVE  Lease!Next \/ UNCHANGED <<now, Leases, answer>>
<1> USE DEF listVars, ruleVars, threadVars, historyVars
<1>1. ASSUME NEW t \in Client, NEW h \in Hosts, ReceiveAdd(t, h) PROVE Lease!Next
  BY <1>1 DEF ReceiveAdd, Lease!Next, Lease!Forget, Leases
<1>2. ASSUME NEW t \in Client,
             \/ FindByPrefix(t) \/ CheckMatch(t) \/ InstallRules(t)
             \/ StampMapping(t) \/ Respond(t) \/ \E ip \in PublicIPs : Draw(t, ip)
      PROVE  UNCHANGED <<now, Leases, answer>>
  <2>1. list' = list /\ now' = now /\ answer' = answer
    BY <1>2 DEF FindByPrefix, CheckMatch, InstallRules, StampMapping, Respond, Draw
  <2> QED BY <2>1 DEF Leases
<1>3. ASSUME NEW t \in Client, CopyMatch(t)
      PROVE  Lease!Next \/ UNCHANGED <<now, Leases, answer>>
  BY <1>3, CopyRepeats DEF LeaseInv
<1>4. ASSUME NEW t \in Client, InsertMapping(t) PROVE Lease!Next
  BY <1>4, InsertGrants
<1>5. CASE Expire
  BY <1>5, ExpireRetires
<1>6. CASE RemoveRules \/ FreeMapping \/ UNCHANGED vars
  BY <1>6 DEF RemoveRules, FreeMapping, vars, Leases
<1>7. CASE ClockTick
  BY <1>7 DEF ClockTick, Tick, Lease!Next, Lease!TimePasses, Leases
<1>8. CASE Restart
  <2>1. Leases' = {}
    BY <1>8 DEF Restart, Leases
  <2> QED BY <1>8, <2>1 DEF Restart, Lease!Next, Lease!StartOver
<1> QED BY <1>1, <1>2, <1>3, <1>4, <1>5, <1>6, <1>7, <1>8
  DEF Next, ClientStep, CleanerStep

(* With one adding thread the NAT's threads, lists and iptables calls        *)
(* implement the lease service: addresses are granted, repeated with the     *)
(* seconds they have left, and retired a grace period after their end.       *)
THEOREM TableIsLeaseService == ASSUME SingleAdder PROVE Spec => ImplementsLeaseService
<1>1. Init => Lease!Init
  BY DEF Init, Lease!Init, Leases
<1>2. LeaseInv /\ [Next]_vars => [Lease!Next]_(Lease!vars)
  BY LeaseStep DEF Lease!vars
<1> QED BY <1>1, <1>2, LeaseInvariance, PTL
  DEF Spec, ImplementsLeaseService, Lease!Spec
-----------------------------------------------------------------------------
(* What a search knows of its prefix.  A match is one of the prefix asked    *)
(* for, and only freed after its lifetime; with one adding thread nothing is *)
(* inserted between the request and the age test.                           *)
MatchOfPrefix(t) ==
  pc[t] = "match" => /\ match[t].prefix = map[t].prefix
                     /\ Freed(match[t]) => now >= match[t].time + EXPIRATION
NoneSince(t) ==
  pc[t] \in {"find", "match"} =>
    \A i \in 1..Len(list) : list[i].time <= since[t] + EXPIRATION

SearchInv == IInv /\ \A t \in Client : MatchOfPrefix(t) /\ NoneSince(t)

(* A search by prefix finds mappings of that prefix: no prefix is NULL.      *)
LEMMA SearchFindsPrefix ==
  ASSUME NEW t \in Client, map[t].prefix \in Prefixes, NEW m, Matches(PrefixSearch(t), m)
  PROVE  m.prefix = map[t].prefix
<1>1. ASSUME NEW h \in Hosts PROVE IspPrefix(h) # -1
  <2>1. h \in 0..255
    BY HostsAreOctets
  <2> QED BY <2>1 DEF IspPrefix
<1>2. map[t].prefix # NULL
  BY <1>1 DEF Prefixes, NULL
<1> QED BY <1>2 DEF Matches, PrefixSearch

(* The match of a thread before its age test, from one step to the next.     *)
LEMMA MatchOfPrefixStep ==
  ASSUME IInv, IInv', NEW t \in Client, MatchOfPrefix(t), [Next]_vars
  PROVE  MatchOfPrefix(t)'
<1> SUFFICES ASSUME pc'[t] = "match" PROVE MatchOfPrefix(t)'
  BY DEF MatchOfPrefix
<1>0. /\ TypeOK /\ PairsComplete /\ TimesPast /\ UniqueIds
      /\ now \in Nat /\ now' \in Nat /\ now' >= now
  BY NowStep DEF IInv
<1>1. CASE FindByPrefix(t)
  <2>1. PICK i \in 1..Len(list) : Matches(PrefixSearch(t), list[i]) /\ match'[t] = list[i]
    BY <1>0, <1>1 DEF FindByPrefix, TypeOK
  <2>2. /\ pc[t] = "find" /\ map' = map /\ list' = list
    BY <1>1 DEF FindByPrefix, listVars
  <2>3. map[t].prefix \in Prefixes
    BY <1>0, <2>2 DEF PairsComplete
  <2>4. match'[t].prefix = map'[t].prefix
    BY <2>1, <2>2, <2>3, SearchFindsPrefix
  <2>5. ~Freed(match[t])'
    BY <2>1, <2>2 DEF Freed, Listed
  <2> QED BY <2>4, <2>5 DEF MatchOfPrefix
<1>2. CASE ~FindByPrefix(t)
  <2>1. pc[t] = "match" /\ match'[t] = match[t]
    BY <1>0, <1>2, MatchLocals
  <2>2. map'[t] = map[t]
    <3>1. CASE UNCHANGED map
      BY <3>1
    <3>2. ASSUME NEW u \in Client, ClientStep(u) PROVE map'[t] = map[t]
      <4>1. CASE u = t
        BY <2>1, <3>2, <4>1 DEF ClientStep, ReceiveAdd, FindByPrefix, CheckMatch, CopyMatch,
           Draw, InstallRules, StampMapping, InsertMapping, Respond, threadVars
      <4>2. CASE u # t
        BY <1>0, <3>2, <4>2 DEF ClientStep, ReceiveAdd, FindByPrefix, CheckMatch, CopyMatch,
           Draw, InstallRules, StampMapping, InsertMapping, Respond, threadVars, TypeOK
      <4> QED BY <4>1, <4>2
    <3>3. ~Restart
      BY DEF Restart
    <3> QED BY <3>1, <3>2, <3>3 DEF Next, CleanerStep, Expire, RemoveRules, FreeMapping,
           ClockTick, vars, threadVars
  <2>3. match[t] \in Mapping /\ match[t].id # 0 /\ ~Restart /\ match[t].time \in Nat
    <3>1. match[t] \in Mapping
      BY <1>0 DEF TypeOK
    <3>2. ~Restart
      BY DEF Restart
    <3> QED BY <1>0, <2>1, <3>1, <3>2, MappingFields DEF PairsComplete, Complete
  <2>4. \A u \in Client : pc[u] = "stamped" => map[u].id # match[t].id
    BY <1>0, <2>1 DEF UniqueIds, Making
  <2>5. ~Freed(match[t]) /\ (Freed(match[t]))' => now >= match[t].time + EXPIRATION + GRACE
    <3> DEFINE m == match[t]
    <3>1. \A n \in Mapping : n = m => (~Freed(n) /\ Freed(n)' => now >= ExpirationTime(n))
      BY <1>0, <2>3, <2>4, FreedStep
    <3>2. PICK n \in Mapping : n = m
      BY <2>3
    <3>3. (Freed(match[t]))' <=> Freed(n)'
      BY <2>1, <3>2 DEF Freed, Listed
    <3>4. Freed(match[t]) <=> Freed(n)
      BY <3>2
    <3> HIDE DEF m
    <3> QED BY <3>1, <3>2, <3>3, <3>4 DEF ExpirationTime, m
  <2>6. Freed(match[t]) => now >= match[t].time + EXPIRATION
    BY <2>1 DEF MatchOfPrefix
  <2>7. (Freed(match[t]))' => now' >= match[t].time + EXPIRATION
    <3> HIDE DEF Freed
    <3> QED BY <1>0, <2>3, <2>5, <2>6, PeriodsAreNat
  <2>8. match[t].prefix = map[t].prefix
    BY <2>1 DEF MatchOfPrefix
  <2> QED BY <2>1, <2>2, <2>7, <2>8 DEF MatchOfPrefix
<1> QED BY <1>1, <1>2

(* With one adding thread the list only loses elements during a search.      *)
LEMMA NoneSinceStep ==
  ASSUME SingleAdder, IInv, NEW t \in Client, NoneSince(t), [Next]_vars
  PROVE  NoneSince(t)'
<1> USE DEF listVars, ruleVars, threadVars, historyVars
<1> SUFFICES ASSUME pc'[t] \in {"find", "match"}, NEW i \in 1..Len(list')
             PROVE  list'[i].time <= since'[t] + EXPIRATION
  BY DEF NoneSince
<1>0. TypeOK /\ TimesPast /\ now \in Nat
  BY NowStep DEF IInv
<1>1. CASE UNCHANGED <<pc, since, list>>
  BY <1>1 DEF NoneSince
<1>2. ASSUME NEW u \in Client, NEW h \in Hosts, ReceiveAdd(u, h)
      PROVE  list'[i].time <= since'[t] + EXPIRATION
  <2>1. u = t
    BY DEF SingleAdder
  <2>2. list' = list /\ since'[t] = now - EXPIRATION
    BY <1>0, <1>2, <2>1 DEF ReceiveAdd, TypeOK
  <2>3. list[i].time <= now /\ list[i].time \in Nat
    BY <1>0, <2>2, ListFields DEF TimesPast, TypeOK
  <2>4. now - EXPIRATION + EXPIRATION = now
    BY <1>0, PeriodsAreNat
  <2> QED BY <2>2, <2>3, <2>4
<1>3. ASSUME NEW u \in Client, FindByPrefix(u)
      PROVE  list'[i].time <= since'[t] + EXPIRATION
  <2>1. u = t
    BY DEF SingleAdder
  <2>2. pc[t] = "find" /\ UNCHANGED <<since, list>>
    BY <1>3, <2>1 DEF FindByPrefix
  <2> QED BY <2>2 DEF NoneSince
<1>4. ASSUME NEW u \in Client,
             \/ CheckMatch(u) \/ CopyMatch(u) \/ (\E ip \in PublicIPs : Draw(u, ip))
             \/ StampMapping(u) \/ InsertMapping(u) \/ Respond(u)
      PROVE  FALSE
  <2>1. u = t
    BY DEF SingleAdder
  <2> QED BY <1>0, <1>4, <2>1 DEF CheckMatch, CopyMatch, Draw, StampMapping, InsertMapping,
             Respond, TypeOK
<1>5. CASE Expire
  <2>1. /\ list # << >> /\ list' = Tail(list) /\ UNCHANGED <<pc, since>>
    BY <1>5 DEF Expire, PopExpired
  <2>2. i + 1 \in 1..Len(list) /\ list'[i] = list[i+1]
    BY <1>0, <2>1, HeadAndTail DEF TypeOK
  <2> QED BY <2>1, <2>2 DEF NoneSince
<1>6. CASE Restart
  BY <1>6 DEF Restart
<1>7. ASSUME NEW u \in Client, InstallRules(u) PROVE UNCHANGED <<pc, since, list>>
  BY <1>7 DEF InstallRules
<1>8. CASE RemoveRules \/ FreeMapping \/ ClockTick \/ UNCHANGED vars
  BY <1>1, <1>8 DEF RemoveRules, FreeMapping, ClockTick, vars
<1> QED BY <1>1, <1>2, <1>3, <1>4, <1>5, <1>6, <1>7, <1>8 DEF Next, ClientStep, CleanerStep

THEOREM SearchInvariance == ASSUME SingleAdder PROVE Spec => []SearchInv
<1>1. Init => SearchInv
  BY InitIInv DEF Init, SearchInv, MatchOfPrefix, NoneSince
<1>2. SearchInv /\ [Next]_vars => SearchInv'
  BY StepIInv, MatchOfPrefixStep, NoneSinceStep DEF SearchInv
<1> QED BY <1>1, <1>2, PTL DEF Spec

(* What is live and missed lies behind a match that has just ended.          *)
LEMMA LiveIsMissed ==
  ASSUME SearchInv, [Next]_vars, NEW t \in Client, NEW i \in 1..Len(list),
         pc[t] # "draw", pc'[t] = "draw",
         list[i].prefix = map[t].prefix, now - list[i].time < EXPIRATION
  PROVE  /\ match[t].time \in since[t]..(now - EXPIRATION)
         /\ OneByOne(t) => /\ match[t].time = since[t]
                           /\ list[i].time = since[t] + EXPIRATION
<1>0. /\ TypeOK /\ TimesPast /\ PairsComplete /\ MatchKnown(t) /\ MatchOfPrefix(t) /\ NoneSince(t)
      /\ now \in Nat /\ list[i].time \in Nat /\ since[t] \in Int /\ list[i].time <= now
      /\ match[t].time \in Nat
  <2>1. list[i].time \in Nat /\ since[t] \in Int /\ match[t].time \in Nat
    BY ListFields, MappingFields DEF SearchInv, IInv, TypeOK
  <2> QED BY <2>1, NowStep DEF SearchInv, IInv, MatchesKnown, TimesPast
<1>1. FindByPrefix(t) \/ CheckMatch(t)
  <2>1. ASSUME NEW u \in Client, ClientStep(u) PROVE FindByPrefix(t) \/ CheckMatch(t)
    <3>1. CASE u = t
      BY <1>0, <2>1, <3>1 DEF ClientStep, ReceiveAdd, FindByPrefix, CheckMatch, CopyMatch,
         Draw, InstallRules, StampMapping, InsertMapping, Respond, threadVars, TypeOK
    <3>2. CASE u # t
      BY <1>0, <2>1, <3>2 DEF ClientStep, ReceiveAdd, FindByPrefix, CheckMatch, CopyMatch,
         Draw, InstallRules, StampMapping, InsertMapping, Respond, threadVars, TypeOK
    <3> QED BY <3>1, <3>2
  <2>2. ~Restart
    BY DEF Restart
  <2> QED BY <2>1, <2>2 DEF Next, CleanerStep, Expire, RemoveRules, FreeMapping,
         ClockTick, vars, threadVars
<1>2. ~FindByPrefix(t)
  <2> SUFFICES ASSUME FindByPrefix(t) PROVE FALSE
    OBVIOUS
  <2>1. ~Matches(PrefixSearch(t), list[i])
    BY <1>0 DEF FindByPrefix, TypeOK
  <2>2. list[i].time < since[t]
    BY <1>0, <2>1 DEF Matches, PrefixSearch
  <2>3. since[t] + EXPIRATION <= now
    BY <1>0 DEF TimesPast, FindByPrefix
  <2> QED BY <1>0, <2>2, <2>3, PeriodsAreNat
<1>3. CheckMatch(t)
  BY <1>1, <1>2
<1>4. pc[t] = "match" /\ (Freed(match[t]) \/ now - match[t].time >= EXPIRATION)
  BY <1>0, <1>3 DEF CheckMatch, TypeOK
<1>5. match[t].time >= since[t] /\ match[t].prefix = map[t].prefix
  BY <1>0, <1>4 DEF MatchKnown, MatchOfPrefix
<1>6. match[t].time + EXPIRATION <= now
  <2>1. Freed(match[t]) => match[t].time + EXPIRATION <= now
    BY <1>0, <1>4, PeriodsAreNat DEF MatchOfPrefix
  <2> HIDE DEF Freed
  <2> QED BY <1>0, <1>4, <2>1, PeriodsAreNat
<1>7. list[i].time <= since[t] + EXPIRATION
  BY <1>0, <1>4 DEF NoneSince
<1>8. ASSUME OneByOne(t)
      PROVE  match[t].time = since[t] /\ list[i].time = since[t] + EXPIRATION
  <2>1. list[i] # match[t]
    BY <1>0, <1>6, PeriodsAreNat
  <2>2. \/ match[t].time + EXPIRATION <= list[i].time
        \/ list[i].time + EXPIRATION <= match[t].time
    BY <1>5, <1>8, <2>1 DEF OneByOne
  <2> DEFINE m == match[t].time  l == list[i].time  a == since[t]
  <2>3. /\ m \in Nat /\ l \in Nat /\ a \in Int /\ now \in Nat /\ EXPIRATION \in Nat
        /\ m >= a /\ m + EXPIRATION <= now /\ l <= a + EXPIRATION /\ now - l < EXPIRATION
        /\ m + EXPIRATION <= l \/ l + EXPIRATION <= m
    BY <1>0, <1>5, <1>6, <1>7, <2>2, PeriodsAreNat
  <2> HIDE DEF m, l, a
  <2>4. m = a /\ l = a + EXPIRATION
    BY <2>3
  <2> QED BY <2>4 DEF m, l, a
<1>9. match[t].time \in since[t]..(now - EXPIRATION)
  BY <1>0, <1>5, <1>6, PeriodsAreNat
<1> QED BY <1>8, <1>9

(* With one adding thread a prefix gets a second mapping beside a live one   *)
(* only when its search met one that ended during the request, and the first *)
(* time only when that one was exactly EXPIRATION old at the request         *)
(* (NATServer.c:289 accepts that age, :539 refuses it).                     *)
THEOREM SecondsOnlyAtExpiry == ASSUME SingleAdder PROVE Spec => SecondOnlyAtExpiry
<1>1. SearchInv /\ [Next]_vars =>
        [\A t \in Client : \A i \in 1..Len(list) :
           /\ pc[t] # "draw" /\ pc'[t] = "draw"
           /\ list[i].prefix = map[t].prefix
           /\ now - list[i].time < EXPIRATION
           => /\ match[t].time \in since[t]..(now - EXPIRATION)
              /\ OneByOne(t) => /\ match[t].time = since[t]
                                /\ list[i].time = since[t] + EXPIRATION]_vars
  BY LiveIsMissed
<1> QED BY <1>1, SearchInvariance, PTL DEF Spec, SecondOnlyAtExpiry
-----------------------------------------------------------------------------
(* The cleaner looks at the head of the list only.                           *)
HeadIsDueFirst == \A i \in 1..Len(list) : Due(list[i]) => Due(list[1])

InTimeOrder ==
  \A i, j \in 1..Len(list) : i < j => list[i].time <= list[j].time
NextIsYoungest ==
  \A t \in Client : pc[t] = "stamped" =>
    \A i \in 1..Len(list) : list[i].time <= map[t].time
OrderInv == InTimeOrder /\ NextIsYoungest

LEMMA OrderStep ==
  ASSUME SingleAdder, IInv, OrderInv, [Next]_vars
  PROVE  OrderInv'
<1> USE DEF listVars, ruleVars, threadVars, historyVars
<1>1. ASSUME list' = list, \A t \in Client : pc'[t] = "stamped" => pc[t] = "stamped" /\ map'[t] = map[t]
      PROVE  OrderInv'
  BY <1>1 DEF OrderInv, InTimeOrder, NextIsYoungest
<1>2. ASSUME NEW t \in Client, StampMapping(t) PROVE OrderInv'
  <2>1. list' = list /\ map'[t].time = now
    BY <1>2 DEF StampMapping, CreatedAt, IInv, TypeOK
  <2>2. \A i \in 1..Len(list) : list[i].time <= now
    BY DEF IInv, TimesPast
  <2>3. \A u \in Client : u = t
    BY DEF SingleAdder
  <2> QED BY <2>1, <2>2, <2>3 DEF OrderInv, InTimeOrder, NextIsYoungest
<1>3. ASSUME NEW t \in Client, InsertMapping(t) PROVE OrderInv'
  <2>1. /\ list' = Append(list, map[t]) /\ map[t] \in Mapping
        /\ pc[t] = "stamped" /\ Len(list) \in Nat /\ pc'[t] = "respond"
    BY <1>3 DEF InsertMapping, IInv, TypeOK
  <2>2. \A i \in 1..Len(list') :
          \/ i \in 1..Len(list) /\ list'[i] = list[i]
          \/ i = Len(list) + 1 /\ list'[i] = map[t]
    BY <2>1, AppendOne DEF IInv, TypeOK
  <2>3. ASSUME NEW i \in 1..Len(list'), NEW j \in 1..Len(list'), i < j
        PROVE  list'[i].time <= list'[j].time
    <3>1. i \in 1..Len(list) /\ list'[i] = list[i]
      BY <2>1, <2>2, <2>3
    <3>2. CASE j \in 1..Len(list) /\ list'[j] = list[j]
      BY <2>3, <3>1, <3>2 DEF OrderInv, InTimeOrder
    <3>3. CASE j = Len(list) + 1 /\ list'[j] = map[t]
      BY <2>1, <3>1, <3>3 DEF OrderInv, NextIsYoungest
    <3> QED BY <2>2, <3>2, <3>3
  <2>4. \A u \in Client : pc'[u] # "stamped"
    BY <2>1 DEF SingleAdder
  <2> QED BY <2>3, <2>4 DEF OrderInv, InTimeOrder, NextIsYoungest
<1>4. CASE Expire
  <2>1. /\ list # << >> /\ list' = Tail(list) /\ map' = map /\ pc' = pc
    BY <1>4 DEF Expire, PopExpired
  <2>2. /\ \A i \in 1..Len(list') : i + 1 \in 1..Len(list) /\ list'[i] = list[i+1]
        /\ \A i, j \in 1..Len(list') : i < j => i + 1 < j + 1
    BY <2>1, HeadAndTail DEF IInv, TypeOK
  <2> QED BY <2>1, <2>2 DEF OrderInv, InTimeOrder, NextIsYoungest
<1>5. CASE Restart
  BY <1>5 DEF Restart, OrderInv, InTimeOrder, NextIsYoungest
<1>6. ASSUME NEW t \in Client,
             \/ \E h \in Hosts : ReceiveAdd(t, h)
             \/ FindByPrefix(t) \/ CheckMatch(t) \/ CopyMatch(t)
             \/ (\E ip \in PublicIPs : Draw(t, ip)) \/ InstallRules(t) \/ Respond(t)
      PROVE  OrderInv'
  <2>1. list' = list /\ (pc'[t] = "stamped" => pc[t] = "stamped" /\ map'[t] = map[t])
    BY <1>6 DEF ReceiveAdd, FindByPrefix, CheckMatch, CopyMatch, Draw, InstallRules, Respond,
       IInv, TypeOK
  <2>2. \A u \in Client : u = t
    BY DEF SingleAdder
  <2> QED BY <1>1, <2>1, <2>2
<1>7. CASE RemoveRules \/ FreeMapping \/ ClockTick \/ UNCHANGED vars
  BY <1>1, <1>7 DEF RemoveRules, FreeMapping, ClockTick, vars
<1> QED BY <1>2, <1>3, <1>4, <1>5, <1>6, <1>7
  DEF Next, ClientStep, CleanerStep

(* With one adding thread the list is in the order of the times its mappings *)
(* were made at, so the cleaner, which looks at the head only and sleeps     *)
(* until that is due (NATServer.c:630), never sleeps on a mapping behind it. *)
THEOREM CleanerLooksAtTheOldest == ASSUME SingleAdder PROVE Spec => []HeadIsDueFirst
<1>1. Init => OrderInv
  BY DEF Init, OrderInv, InTimeOrder, NextIsYoungest
<1>2. IInv /\ OrderInv /\ [Next]_vars => OrderInv'
  BY OrderStep
<1>3. IInv /\ OrderInv => HeadIsDueFirst
  <2> SUFFICES ASSUME IInv, OrderInv, NEW i \in 1..Len(list), Due(list[i])
               PROVE  Due(list[1])
    BY DEF HeadIsDueFirst
  <2>1. list \in Seq(Mapping) /\ now \in Nat
    BY MaxTimeIsNat DEF IInv, TypeOK
  <2>2. 1 \in 1..Len(list)
    BY <2>1
  <2>3. list[1].time \in Nat /\ list[i].time \in Nat
    BY <2>1, <2>2, ListFields
  <2>4. list[1].time <= list[i].time
    BY <2>2, <2>3 DEF OrderInv, InTimeOrder
  <2> QED BY <2>1, <2>3, <2>4, PeriodsAreNat DEF Due, ExpirationTime
<1> QED BY <1>1, <1>2, <1>3, Invariance, PTL DEF Spec
-----------------------------------------------------------------------------
(* The list as a queue.  removed collects the elements the cleaner has       *)
(* popped since the process started; it is watched, never read.             *)
VARIABLE removed

Record == removed' = IF Restart THEN {}
                     ELSE IF Expire THEN removed \cup {Head(list)} ELSE removed
WatchedSpec == Spec /\ removed = {} /\ [][Record]_<<vars, removed>>

Queue == INSTANCE ElementQueue WITH Element <- Mapping, items <- list

(* From one start of the process to the next.                                *)
UsedAsQueue == Queue!Init /\ [][Queue!Next \/ Queue!Init']_(Queue!vars)

(* What was popped is none of the mappings that are still being made.        *)
RemovedApart ==
  \A m \in removed :
    /\ m \in Mapping /\ m.id <= received
    /\ \A t \in Client : Making(t) => map[t].id # m.id

(* A mapping that is being made after a step was being made before, under    *)
(* the same id, or has the number of the request just received.             *)
LEMMA MakingStep ==
  ASSUME TypeOK, [Next]_vars, NEW t \in Client, Making(t)'
  PROVE  \/ Making(t) /\ map'[t].id = map[t].id
         \/ map'[t].id = received + 1
<1> USE DEF listVars, ruleVars, threadVars, historyVars
<1>1. ASSUME NEW u \in Client, NEW h \in Hosts, ReceiveAdd(u, h)
      PROVE  \/ Making(t) /\ map'[t].id = map[t].id
             \/ map'[t].id = received + 1
  <2>1. CASE t = u
    <3>1. map'[t].id = received + 1
      BY <1>1, <2>1 DEF ReceiveAdd, TypeOK
    <3> QED BY <3>1
  <2>2. CASE t # u
    <3>1. pc'[t] = pc[t] /\ map'[t] = map[t]
      BY <1>1, <2>2 DEF ReceiveAdd, TypeOK
    <3> QED BY <3>1 DEF Making
  <2> QED BY <2>1, <2>2
<1>2. ASSUME NEW u \in Client, \/ FindByPrefix(u) \/ CheckMatch(u) \/ CopyMatch(u)
                              \/ InstallRules(u) \/ InsertMapping(u)
      PROVE  Making(t) /\ map'[t].id = map[t].id
  <2>1. map' = map
    BY <1>2 DEF FindByPrefix, CheckMatch, CopyMatch, InstallRules, InsertMapping
  <2>2. pc'[t] = pc[t] \/ pc[t] \in {"find", "match", "copy", "rules", "stamped"}
    BY <1>2 DEF FindByPrefix, CheckMatch, CopyMatch, InstallRules, InsertMapping, TypeOK
  <2> QED BY <2>1, <2>2 DEF Making
<1>3. ASSUME NEW u \in Client, (\E ip \in PublicIPs : Draw(u, ip)) \/ StampMapping(u)
      PROVE  Making(t) /\ map'[t].id = map[t].id
  <2>1. Making(u)
    BY <1>3 DEF Draw, StampMapping, Making
  <2>2. PICK m : /\ map' = [map EXCEPT ![u] = m] /\ m.id = map[u].id
                 /\ \E next : pc' = [pc EXCEPT ![u] = next]
    <3>1. CASE StampMapping(u)
      BY <3>1 DEF StampMapping, CreatedAt
    <3>2. ASSUME NEW ip \in PublicIPs, Draw(u, ip)
          PROVE  /\ map' = [map EXCEPT ![u] = WithAddress(map[u], ip)]
                 /\ WithAddress(map[u], ip).id = map[u].id
                 /\ pc' = [pc EXCEPT ![u] = "rules"]
      BY <3>2 DEF Draw, WithAddress
    <3> QED BY <1>3, <3>1, <3>2
  <2> QED BY <2>1, <2>2 DEF Making, TypeOK
<1>4. ASSUME NEW u \in Client, Respond(u)
      PROVE  Making(t) /\ map'[t].id = map[t].id
  <2>1. t # u
    BY <1>4 DEF Respond, Making, TypeOK
  <2>2. pc'[t] = pc[t] /\ map'[t] = map[t]
    BY <1>4, <2>1 DEF Respond, TypeOK
  <2> QED BY <2>1, <2>2 DEF Making
<1>5. CASE Expire \/ RemoveRules \/ FreeMapping \/ ClockTick \/ UNCHANGED vars
  <2>1. pc' = pc /\ map' = map
    BY <1>5 DEF Expire, RemoveRules, FreeMapping, ClockTick, vars
  <2> QED BY <2>1 DEF Making
<1>6. CASE Restart
  BY <1>6 DEF Restart, Making
<1> QED BY <1>1, <1>2, <1>3, <1>4, <1>5, <1>6
  DEF Next, ClientStep, CleanerStep

LEMMA ReceivedGrows ==
  ASSUME TypeOK, [Next]_vars
  PROVE  received \in Nat /\ received' \in Nat /\ received <= received'
<1>1. received \in Nat
  BY BoundsAreNat DEF TypeOK
<1>2. received' = received \/ received' = received + 1
  BY DEF Next, vars, listVars, threadVars, ClientStep, CleanerStep, ReceiveAdd,
     FindByPrefix, CheckMatch, CopyMatch, Draw, InstallRules, StampMapping,
     InsertMapping, Respond, Expire, RemoveRules, FreeMapping, ClockTick, Restart
<1> QED BY <1>1, <1>2

(* What is popped is listed and so not being made; and a client starts a     *)
(* mapping under a number no element has.                                   *)
LEMMA RemovedApartStep ==
  ASSUME IInv, RemovedApart, [Next]_vars, [Record]_<<vars, removed>>
  PROVE  RemovedApart'
<1>1. TypeOK /\ UniqueIds /\ received \in Nat /\ received' \in Nat /\ received <= received'
  BY ReceivedGrows DEF IInv
<1>2. ASSUME NEW m \in Mapping, m.id <= received,
             \A t \in Client : Making(t) => map[t].id # m.id
      PROVE  /\ m.id <= received'
             /\ \A t \in Client : Making(t)' => map'[t].id # m.id
  <2>1. m.id \in Nat
    BY MappingFields
  <2>2. ASSUME NEW t \in Client, Making(t)' PROVE map'[t].id # m.id
    <3>1. \/ Making(t) /\ map'[t].id = map[t].id
          \/ map'[t].id = received + 1
      BY <1>1, <2>2, MakingStep
    <3> QED BY <1>1, <1>2, <2>1, <3>1
  <2> QED BY <1>1, <1>2, <2>1, <2>2
<1>3. ASSUME NEW m \in removed', m \notin removed
      PROVE  m \in Mapping /\ m.id <= received /\ \A t \in Client : Making(t) => map[t].id # m.id
  <2>1. Expire /\ m = Head(list)
    BY <1>3 DEF Record
  <2>2. list # << >>
    BY <2>1 DEF Expire, PopExpired
  <2>3. m = list[1] /\ 1 \in 1..Len(list) /\ m \in Mapping
    BY <1>1, <2>1, <2>2, HeadAndTail DEF TypeOK
  <2> QED BY <1>1, <2>3 DEF UniqueIds
<1>4. ASSUME NEW m \in removed'
      PROVE  m \in Mapping /\ m.id <= received /\ \A t \in Client : Making(t) => map[t].id # m.id
  BY <1>3, <1>4 DEF RemovedApart
<1> QED BY <1>2, <1>4 DEF RemovedApart

LEMMA QueueStep ==
  ASSUME IInv, RemovedApart, [Next]_vars, [Record]_<<vars, removed>>
  PROVE  [Queue!Next \/ Queue!Init']_(Queue!vars)
<1>1. TypeOK /\ UniqueIds
  BY DEF IInv
<1>2. CASE UNCHANGED <<vars, removed>>
  BY <1>2 DEF vars, Queue!vars
<1>3. CASE Record /\ Restart
  BY <1>3 DEF Record, Restart, Queue!Init
<1>4. CASE Record /\ ~Restart /\ Expire
  BY <1>4 DEF Record, Expire, PopExpired, Queue!Next, Queue!Remove
<1>5. CASE Record /\ ~Restart /\ ~Expire
  <2>1. removed' = removed
    BY <1>5 DEF Record
  <2>2. ASSUME NEW t \in Client, InsertMapping(t) PROVE Queue!Next
    <3>1. Making(t) /\ list' = Append(list, map[t]) /\ map[t] \in Mapping
      BY <1>1, <2>2 DEF InsertMapping, Making, TypeOK
    <3>2. map[t] \notin removed
      BY <3>1 DEF RemovedApart
    <3>3. \A i \in 1..Len(list) : list[i] # map[t]
      BY <1>1, <3>1 DEF UniqueIds
    <3> QED BY <2>1, <3>1, <3>2, <3>3 DEF Queue!Next, Queue!Insert
  <2>3. list' = list \/ \E t \in Client : InsertMapping(t)
    BY <1>5, ListStep
  <2> QED BY <2>1, <2>2, <2>3 DEF Queue!vars
<1> QED BY <1>2, <1>3, <1>4, <1>5

(* From one start of the process to the next the threads use the list as the *)
(* queue ElementQueue describes: what LinkedList does under one lock is all  *)
(* they rely on, and they keep what it asks of them: no element is put in    *)
(* that is listed or was taken out (NATServer.c:592 and :252).               *)
THEOREM ListIsUsedAsQueue == WatchedSpec => UsedAsQueue
<1>1. Init /\ removed = {} => Queue!Init /\ RemovedApart
  BY DEF Init, Queue!Init, RemovedApart
<1>2. IInv /\ RemovedApart /\ [Next]_vars /\ [Record]_<<vars, removed>> => RemovedApart'
  BY RemovedApartStep
<1>3. IInv /\ RemovedApart /\ [Next]_vars /\ [Record]_<<vars, removed>>
        => [Queue!Next \/ Queue!Init']_(Queue!vars)
  BY QueueStep
<1> QED BY <1>1, <1>2, <1>3, Invariance, PTL DEF Spec, WatchedSpec, UsedAsQueue
=============================================================================
