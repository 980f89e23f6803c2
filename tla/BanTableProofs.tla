---------------------------- MODULE BanTableProofs ----------------------------
(***************************************************************************)
(* Proofs about BanTable, for every number of clients and addresses and     *)
(* every period: a listed ban is in force, and no rule is forgotten.        *)
(***************************************************************************)
EXTENDS BanTable, FiniteSetTheorems, TLAPS

(* The head and the tail of the list, element by element.                    *)
LEMMA HeadAndTail ==
  ASSUME NEW S, NEW s \in Seq(S), s # << >>
  PROVE  /\ Len(s) \in Nat \ {0}
         /\ Head(s) = s[1] /\ s[1] \in S
         /\ Tail(s) \in Seq(S) /\ Len(Tail(s)) = Len(s) - 1
         /\ \A i \in 1..Len(Tail(s)) : Tail(s)[i] = s[i+1]
OBVIOUS

(* What is in the list after an insertion at its end.                        *)
LEMMA AppendOne ==
  ASSUME NEW S, NEW s \in Seq(S), NEW e \in S
  PROVE  /\ Append(s, e) \in Seq(S)
         /\ Len(Append(s, e)) = Len(s) + 1
         /\ Append(s, e)[Len(s) + 1] = e
         /\ \A i \in 1..Len(s) : Append(s, e)[i] = s[i]
OBVIOUS

(* Each script is one call of checkAddRule.                                  *)
LEMMA Scripts ==
  ASSUME NEW b
  PROVE  /\ Len(AddScript(b)) = 1
         /\ AddScript(b)[1].command = "-A" /\ AddScript(b)[1].rule = b.ip
         /\ Len(RemovalScript(b)) = 1
         /\ RemovalScript(b)[1].command = "-D" /\ RemovalScript(b)[1].rule = b.ip
BY DEF AddScript, RemovalScript, AddRule, DeleteRule

LEMMA BanFields ==
  ASSUME NEW b \in Ban
  PROVE  b.id \in Nat /\ b.ip \in IPs /\ b.time \in 0..MaxTime
BY DEF Ban
-----------------------------------------------------------------------------
(* A ban that is being made or listed is not the NULL pointer.               *)
BansMade ==
  /\ \A t \in Client : InProgress(t) => map[t] \in Ban /\ map[t].id # 0
  /\ \A i \in 1..Len(list) : list[i].id # 0

TypeInv == TypeOK /\ BansMade

(* The one who lifts a ban has one.                                          *)
LEMMA VictimIsBan ==
  ASSUME TypeInv, Busy
  PROVE  victim \in Ban /\ victim.ip \in IPs
<1>1. victim \in Ban
  BY DEF TypeInv, TypeOK, Busy, NoBan
<1> QED BY <1>1, BanFields

(* The client's two iptables processes: it asks, and if the rule is missing  *)
(* it adds a copy.                                                          *)
LEMMA InstallStep ==
  ASSUME TypeInv, NEW t \in Client, InstallBan(t)
  PROVE  /\ map[t].ip \in IPs /\ InProgress(t) /\ pc[t] = "rule" /\ at[t] = 1
         /\ applying' \in [Thread -> BOOLEAN]
         /\ \/ rules' = rules /\ at' = at
            \/ rules[map[t].ip] > 0 /\ rules' = rules /\ at' = [at EXCEPT ![t] = 2]
            \/ /\ rules' = [rules EXCEPT ![map[t].ip] = rules[map[t].ip] + 1]
               /\ at' = [at EXCEPT ![t] = 2]
<1> DEFINE ip == map[t].ip
           c == AddScript(map[t])[1]
<1>1. InProgress(t) /\ pc[t] = "rule"
  BY DEF InstallBan, InProgress
<1>2. ip \in IPs /\ t \in Thread
  BY <1>1, BanFields DEF TypeInv, BansMade, Thread
<1>3. at[t] \in Nat \ {0} /\ rules[ip] \in Nat
  BY <1>2 DEF TypeInv, TypeOK
<1>4. at[t] = 1
  <2>1. at[t] <= Len(AddScript(map[t]))
    BY DEF InstallBan, CheckRule, ApplyRule
  <2>2. Len(AddScript(map[t])) = 1
    BY Scripts
  <2> QED BY <1>3, <2>1, <2>2
<1>5. CASE CheckRule(t, AddScript(map[t]))
  <2>1. rules' = rules /\ applying' \in [Thread -> BOOLEAN]
    BY <1>5 DEF CheckRule, TypeInv, TypeOK
  <2>2. CASE Wanted(c)
    BY <1>1, <1>2, <1>4, <1>5, <2>1, <2>2 DEF CheckRule
  <2>3. CASE ~Wanted(c)
    <3>1. rules[ip] > 0
      <4>1. c.command = "-A" /\ c.rule = ip
        BY Scripts
      <4>2. rules[ip] # 0
        BY <2>3, <4>1 DEF Wanted
      <4> QED BY <1>3, <4>2
    <3>2. at' = [at EXCEPT ![t] = 2]
      BY <1>4, <1>5, <2>3 DEF CheckRule, NextCall
    <3> QED BY <1>1, <1>2, <1>4, <2>1, <3>1, <3>2
  <2> QED BY <2>2, <2>3
<1>6. CASE ApplyRule(t, AddScript(map[t]))
  <2>1. at' = [at EXCEPT ![t] = 2]
    BY <1>4, <1>6 DEF ApplyRule, NextCall
  <2>4. applying' \in [Thread -> BOOLEAN]
    BY <1>6 DEF ApplyRule, TypeInv, TypeOK
  <2>2. rules' = [rules EXCEPT ![ip] = Applied(c, rules[ip])]
    BY <1>4, <1>6, Scripts DEF ApplyRule
  <2>3. Applied(c, rules[ip]) = rules[ip] + 1
    BY Scripts DEF Applied
  <2> QED BY <1>1, <1>2, <1>4, <2>1, <2>2, <2>3, <2>4
<1> QED BY <1>5, <1>6 DEF InstallBan

(* The remover's two iptables processes: it asks, and if the rule is there   *)
(* it deletes a copy.                                                       *)
LEMMA LiftStep ==
  ASSUME TypeInv, LiftBan
  PROVE  /\ Busy /\ victim.ip \in IPs /\ at[Cleaner] = 1
         /\ applying' \in [Thread -> BOOLEAN]
         /\ \/ rules' = rules /\ at' = at
            \/ /\ rules[victim.ip] = 0 /\ rules' = rules
               /\ at' = [at EXCEPT ![Cleaner] = 2]
            \/ \E n \in Nat : /\ n = IF rules[victim.ip] > 0 THEN rules[victim.ip] - 1 ELSE 0
                            /\ rules' = [rules EXCEPT ![victim.ip] = n]
                            /\ at' = [at EXCEPT ![Cleaner] = 2]
<1> DEFINE ip == victim.ip
           c == RemovalScript(victim)[1]
<1>1. Busy /\ ip \in IPs /\ Cleaner \in Thread
  BY VictimIsBan DEF LiftBan, Thread
<1>2. at[Cleaner] \in Nat \ {0} /\ rules[ip] \in Nat
  BY <1>1 DEF TypeInv, TypeOK
<1>3. c.command = "-D" /\ c.rule = ip /\ Len(RemovalScript(victim)) = 1
  BY Scripts
<1>4. at[Cleaner] = 1
  <2>1. at[Cleaner] <= Len(RemovalScript(victim))
    BY DEF LiftBan, CheckRule, ApplyRule
  <2> QED BY <1>2, <1>3, <2>1
<1>5. CASE CheckRule(Cleaner, RemovalScript(victim))
  <2>1. rules' = rules /\ applying' \in [Thread -> BOOLEAN]
    BY <1>5 DEF CheckRule, TypeInv, TypeOK
  <2>2. CASE Wanted(c)
    BY <1>1, <1>4, <1>5, <2>1, <2>2 DEF CheckRule
  <2>3. CASE ~Wanted(c)
    <3>1. rules[ip] = 0
      BY <1>3, <2>3 DEF Wanted
    <3>2. at' = [at EXCEPT ![Cleaner] = 2]
      BY <1>4, <1>5, <2>3 DEF CheckRule, NextCall
    <3> QED BY <1>1, <1>4, <2>1, <3>1, <3>2
  <2> QED BY <2>2, <2>3
<1>6. CASE ApplyRule(Cleaner, RemovalScript(victim))
  <2>1. at' = [at EXCEPT ![Cleaner] = 2]
    BY <1>4, <1>6 DEF ApplyRule, NextCall
  <2>2. applying' \in [Thread -> BOOLEAN]
    BY <1>6 DEF ApplyRule, TypeInv, TypeOK
  <2>3. rules' = [rules EXCEPT ![ip] = Applied(c, rules[ip])]
    BY <1>3, <1>4, <1>6 DEF ApplyRule
  <2>4. Applied(c, rules[ip]) = IF rules[ip] > 0 THEN rules[ip] - 1 ELSE 0
    BY <1>3 DEF Applied
  <2>5. Applied(c, rules[ip]) \in Nat
    BY <1>2, <2>4
  <2> QED BY <1>1, <1>4, <2>1, <2>2, <2>3, <2>4, <2>5
<1> QED BY <1>5, <1>6 DEF LiftBan

(* What a step does to the list and to the remover's ban.                    *)
LEMMA ListStep ==
  ASSUME TypeInv, list' = list \/ Expire \/ (\E t \in Client : InsertBan(t))
  PROVE  /\ list \in Seq(Ban) /\ Len(list) \in Nat
         /\ \A i \in 1..Len(list) : list[i] \in Ban /\ list[i].ip \in IPs
         /\ list' \in Seq(Ban)
         /\ Expire => /\ Len(list) > 0 /\ victim' = list[1] /\ Len(list') = Len(list) - 1
                      /\ \A i \in 1..Len(list') : list'[i] = list[i+1]
         /\ \A t \in Client :
              InsertBan(t) => /\ map[t] \in Ban /\ Len(list') = Len(list) + 1
                              /\ list'[Len(list) + 1] = map[t]
                              /\ \A i \in 1..Len(list) : list'[i] = list[i]
<1>1. /\ list \in Seq(Ban) /\ Len(list) \in Nat
      /\ \A i \in 1..Len(list) : list[i] \in Ban
  BY DEF TypeInv, TypeOK
<1>2. \A i \in 1..Len(list) : list[i].ip \in IPs
  BY <1>1, BanFields
<1>3. ASSUME Expire
      PROVE  /\ list' \in Seq(Ban) /\ Len(list) > 0 /\ victim' = list[1]
             /\ Len(list') = Len(list) - 1
             /\ \A i \in 1..Len(list') : list'[i] = list[i+1]
  BY <1>1, <1>3, HeadAndTail DEF Expire, PopExpired
<1>4. ASSUME NEW t \in Client, InsertBan(t)
      PROVE  /\ list' \in Seq(Ban) /\ map[t] \in Ban /\ Len(list') = Len(list) + 1
             /\ list'[Len(list) + 1] = map[t]
             /\ \A i \in 1..Len(list) : list'[i] = list[i]
  <2>1. map[t] \in Ban /\ list' = Append(list, map[t])
    BY <1>4 DEF InsertBan, TypeInv, BansMade, InProgress
  <2> QED BY <1>1, <2>1, AppendOne
<1> QED BY <1>1, <1>2, <1>3, <1>4

LEMMA InitTypes == Init => TypeInv
<1> SUFFICES ASSUME Init PROVE TypeInv
  OBVIOUS
<1>1. TypeOK
  BY MaxTimeIsNat, BoundsAreNat DEF Init, TypeOK
<1>2. BansMade
  BY DEF Init, BansMade, InProgress
<1> QED BY <1>1, <1>2 DEF TypeInv

LEMMA ClientStepTypes ==
  ASSUME TypeInv, NEW t \in Client, ClientStep(t)
  PROVE  TypeInv'
<1> USE DEF listVars, ruleVars
<1>1. t \in Thread /\ received \in Nat /\ MaxRequests \in Nat /\ 0 \in 0..MaxTime
  BY MaxTimeIsNat, BoundsAreNat DEF Thread, TypeInv, TypeOK
<1>2. ASSUME NEW ip \in IPs, ReceiveBan(t, ip) PROVE TypeInv'
  <2> DEFINE b == [id |-> received + 1, ip |-> ip, time |-> 0]
  <2>1. b \in Ban /\ b.id # 0
    BY <1>1 DEF Ban
  <2>2. received' \in 0..MaxRequests
    BY <1>1, <1>2 DEF ReceiveBan
  <2>3. at' \in [Thread -> Nat \ {0}]
    BY <1>1, <1>2 DEF ReceiveBan, TypeInv, TypeOK
  <2>4. map' = [map EXCEPT ![t] = b] /\ pc' = [pc EXCEPT ![t] = "rule"]
    BY <1>2 DEF ReceiveBan
  <2> HIDE DEF b
  <2>5. TypeOK'
    BY <1>2, <2>1, <2>2, <2>3, <2>4 DEF ReceiveBan, TypeInv, TypeOK
  <2>6. BansMade'
    BY <1>2, <2>1, <2>4 DEF ReceiveBan, TypeInv, TypeOK, BansMade, InProgress
  <2> QED BY <2>5, <2>6 DEF TypeInv
<1>3. CASE InstallBan(t)
  <2>1. UNCHANGED <<now, list, victim, pc, received, restarts, map, renewed>>
    BY <1>3 DEF InstallBan
  <2>2. rules' \in [IPs -> Nat] /\ at' \in [Thread -> Nat \ {0}]
    <3>1. map[t].ip \in IPs /\ rules[map[t].ip] + 1 \in Nat
      BY <1>3, InstallStep DEF TypeInv, TypeOK
    <3>2. rules \in [IPs -> Nat] /\ at \in [Thread -> Nat \ {0}] /\ 2 \in Nat \ {0}
      BY DEF TypeInv, TypeOK
    <3>3. rules' \in [IPs -> Nat]
      <4>1. rules' = rules \/ rules' = [rules EXCEPT ![map[t].ip] = rules[map[t].ip] + 1]
        BY <1>3, InstallStep
      <4> QED BY <3>1, <3>2, <4>1
    <3>4. at' \in [Thread -> Nat \ {0}]
      <4>1. at' = at \/ at' = [at EXCEPT ![t] = 2]
        BY <1>3, InstallStep
      <4> QED BY <1>1, <3>2, <4>1
    <3> QED BY <3>3, <3>4
  <2>3. TypeOK'
    BY <1>3, <2>1, <2>2, InstallStep DEF TypeInv, TypeOK
  <2>4. BansMade'
    BY <2>1 DEF TypeInv, BansMade, InProgress
  <2> QED BY <2>3, <2>4 DEF TypeInv
<1>4. CASE StampBan(t)
  <2> DEFINE b == [map[t] EXCEPT !.time = now]
  <2>1. map[t] \in Ban /\ map[t].id # 0 /\ now \in 0..MaxTime
    BY <1>4 DEF StampBan, TypeInv, TypeOK, BansMade, InProgress
  <2>2. b \in Ban /\ b.id # 0
    BY <2>1 DEF Ban
  <2>3. map' = [map EXCEPT ![t] = b] /\ pc' = [pc EXCEPT ![t] = "stamped"]
    BY <1>4 DEF StampBan
  <2> HIDE DEF b
  <2>4. TypeOK'
    BY <1>4, <2>2, <2>3 DEF StampBan, TypeInv, TypeOK
  <2>5. BansMade'
    BY <1>4, <2>2, <2>3 DEF StampBan, TypeInv, TypeOK, BansMade, InProgress
  <2> QED BY <2>4, <2>5 DEF TypeInv
<1>5. CASE InsertBan(t)
  <2>1. /\ UNCHANGED <<now, victim, rules, at, applying, received, restarts, renewed>>
        /\ map' = [map EXCEPT ![t] = NoBan] /\ pc' = [pc EXCEPT ![t] = "idle"]
        /\ InProgress(t)
    BY <1>5 DEF InsertBan, InProgress
  <2>2. TypeOK'
    BY <1>5, <2>1, ListStep DEF TypeInv, TypeOK
  <2>3. \A i \in 1..Len(list') : list'[i].id # 0
    <3>1. map[t].id # 0
      BY <2>1 DEF TypeInv, BansMade
    <3>2. ASSUME NEW i \in 1..Len(list') PROVE i \in 1..Len(list) \/ i = Len(list) + 1
      BY <1>5, <3>2, ListStep
    <3> QED BY <1>5, <3>1, <3>2, ListStep DEF TypeInv, BansMade
  <2>4. \A u \in Client : InProgress(u)' => InProgress(u) /\ map'[u] = map[u]
    BY <2>1 DEF TypeInv, TypeOK, InProgress
  <2> QED BY <2>2, <2>3, <2>4 DEF TypeInv, BansMade
<1> QED BY <1>2, <1>3, <1>4, <1>5 DEF ClientStep

LEMMA OtherStepTypes ==
  ASSUME TypeInv, CleanerStep \/ ClockTick \/ Restart
  PROVE  TypeInv'
<1> USE DEF listVars, ruleVars
<1>1. Cleaner \in Thread /\ 1 \in Nat \ {0} /\ 2 \in Nat \ {0}
  BY DEF Thread
<1>2. CASE Expire
  <2>1. /\ UNCHANGED <<now, rules, applying, pc, received, restarts, map, renewed>>
        /\ at' = [at EXCEPT ![Cleaner] = 1]
    BY <1>2 DEF Expire, PopExpired
  <2>2. victim' \in Ban
    BY <1>2, ListStep
  <2>3. TypeOK'
    BY <1>1, <1>2, <2>1, <2>2, ListStep DEF TypeInv, TypeOK
  <2>4. \A i \in 1..Len(list') : i + 1 \in 1..Len(list) /\ list'[i] = list[i+1]
    BY <1>2, ListStep
  <2>5. BansMade'
    BY <2>1, <2>4 DEF TypeInv, BansMade, InProgress
  <2> QED BY <2>3, <2>5 DEF TypeInv
<1>3. CASE LiftBan
  <2>1. UNCHANGED <<now, list, victim, pc, received, restarts, map, renewed>>
    BY <1>3 DEF LiftBan
  <2>2. rules' \in [IPs -> Nat] /\ at' \in [Thread -> Nat \ {0}]
    BY <1>1, <1>3, LiftStep DEF TypeInv, TypeOK
  <2>3. TypeOK'
    BY <1>3, <2>1, <2>2, LiftStep DEF TypeInv, TypeOK
  <2>4. BansMade'
    BY <2>1 DEF TypeInv, BansMade, InProgress
  <2> QED BY <2>3, <2>4 DEF TypeInv
<1>4. CASE FreeBan
  <2>1. /\ UNCHANGED <<now, list, rules, at, applying, pc, received, restarts, map>>
        /\ victim' = NoBan /\ renewed' \subseteq renewed
    BY <1>4 DEF FreeBan
  <2> QED BY <2>1 DEF TypeInv, TypeOK, BansMade, InProgress
<1>5. CASE ClockTick
  <2>1. /\ UNCHANGED <<list, victim, rules, at, applying, pc, received, restarts, map, renewed>>
        /\ now' \in 0..MaxTime
    BY <1>5, MaxTimeIsNat DEF ClockTick, Tick, TypeInv, TypeOK
  <2> QED BY <2>1 DEF TypeInv, TypeOK, BansMade, InProgress
<1>6. CASE Restart
  <2>1. restarts' \in 0..MaxRestarts
    BY <1>6, BoundsAreNat DEF Restart, TypeInv, TypeOK
  <2>2. TypeOK'
    BY <1>1, <1>6, <2>1 DEF Restart, TypeInv, TypeOK
  <2>3. BansMade'
    BY <1>6 DEF Restart, BansMade, InProgress
  <2> QED BY <2>2, <2>3 DEF TypeInv
<1> QED BY <1>2, <1>3, <1>4, <1>5, <1>6 DEF CleanerStep

LEMMA Typed == Spec => []TypeInv
<1>1. ASSUME TypeInv, [Next]_vars PROVE TypeInv'
  <2>1. CASE UNCHANGED vars
    BY <1>1, <2>1 DEF vars, TypeInv, TypeOK, BansMade, InProgress
  <2> QED BY <1>1, <2>1, ClientStepTypes, OtherStepTypes DEF Next
<1> QED BY <1>1, InitTypes, PTL DEF Spec

(* Every variable keeps its type: no rule is deleted more often than it was  *)
(* added, and the time of a ban is one the clock has shown.                  *)
THEOREM TypeCorrect == Spec => []TypeOK
<1>1. TypeInv => TypeOK
  BY DEF TypeInv
<1> QED BY <1>1, Typed, PTL
-----------------------------------------------------------------------------
(* An address that is not banned again while it is has one ban at the most,  *)
(* listed, being lifted or being made.                                       *)
HeldOnce ==
  /\ \A i, j \in 1..Len(list) :
       list[i].ip = list[j].ip /\ list[i].ip \notin renewed => i = j
  /\ Busy /\ victim.ip \notin renewed =>
       /\ \A i \in 1..Len(list) : list[i].ip # victim.ip
       /\ \A t \in Client : InProgress(t) => map[t].ip # victim.ip
  /\ \A t \in Client : InProgress(t) /\ map[t].ip \notin renewed =>
       /\ \A i \in 1..Len(list) : list[i].ip # map[t].ip
       /\ \A u \in Client : InProgress(u) /\ map[u].ip = map[t].ip => u = t

(* A client that has made its call has found the rule or added it.           *)
RuleThere ==
  /\ \A t \in Client :
       InProgress(t) /\ at[t] > 1 /\ map[t].ip \notin renewed => rules[map[t].ip] > 0
  /\ \A t \in Client : pc[t] = "stamped" => at[t] > 1

EnforceInv == HeldOnce /\ RuleThere /\ BanEnforced

LEMMA ClientStepEnforces ==
  ASSUME TypeInv, EnforceInv, NEW t \in Client, ClientStep(t)
  PROVE  EnforceInv'
<1> USE DEF listVars, ruleVars
<1>1. t \in Thread /\ Cleaner \notin Client /\ Client \subseteq Thread
  BY CleanerIsNotClient DEF Thread
<1>2. ASSUME NEW ip \in IPs, ReceiveBan(t, ip) PROVE EnforceInv'
  <2>1. /\ UNCHANGED <<list, victim, rules>>
        /\ pc'[t] = "rule" /\ map'[t].ip = ip /\ at'[t] = 1 /\ ~InProgress(t)
        /\ \A u \in Client \ {t} : pc'[u] = pc[u] /\ map'[u] = map[u] /\ at'[u] = at[u]
        /\ renewed' = IF Owned(ip) THEN renewed \cup {ip} ELSE renewed
    BY <1>1, <1>2 DEF ReceiveBan, TypeInv, TypeOK, InProgress
  <2>2. InProgress(t)' /\ \A u \in Client \ {t} : InProgress(u)' = InProgress(u)
    BY <2>1 DEF InProgress
  <2>3. HeldOnce'
    BY <2>1, <2>2 DEF EnforceInv, HeldOnce, Owned, Busy
  <2>4. RuleThere'
    <3>1. ASSUME NEW u \in Client, InProgress(u)', at'[u] > 1, map'[u].ip \notin renewed'
          PROVE  rules'[map'[u].ip] > 0
      BY <2>1, <2>2, <3>1 DEF EnforceInv, RuleThere
    <3>2. ASSUME NEW u \in Client, pc'[u] = "stamped" PROVE at'[u] > 1
      BY <2>1, <3>2 DEF EnforceInv, RuleThere
    <3> QED BY <3>1, <3>2 DEF RuleThere
  <2>5. BanEnforced'
    BY <2>1 DEF EnforceInv, BanEnforced
  <2> QED BY <2>3, <2>4, <2>5 DEF EnforceInv
<1>3. CASE InstallBan(t)
  <2>1. UNCHANGED <<list, victim, pc, map, renewed>>
    BY <1>3 DEF InstallBan
  <2>2. \A ip \in IPs : rules[ip] \in Nat /\ rules'[ip] \in Nat /\ rules'[ip] >= rules[ip]
    <3>1. rules \in [IPs -> Nat] /\ map[t].ip \in IPs
      BY <1>3, InstallStep DEF TypeInv, TypeOK
    <3>2. rules' = rules \/ rules' = [rules EXCEPT ![map[t].ip] = rules[map[t].ip] + 1]
      BY <1>3, InstallStep
    <3> QED BY <3>1, <3>2
  <2>3. \A u \in Client \ {t} : at'[u] = at[u]
    <3>1. at \in [Thread -> Nat \ {0}]
      BY DEF TypeInv, TypeOK
    <3>2. at' = at \/ at' = [at EXCEPT ![t] = 2]
      BY <1>3, InstallStep
    <3> QED BY <1>1, <3>1, <3>2
  <2>4. pc[t] = "rule" /\ (at'[t] > 1 => rules'[map[t].ip] > 0)
    <3>1. /\ rules[map[t].ip] \in Nat /\ rules \in [IPs -> Nat] /\ map[t].ip \in IPs
          /\ at[t] = 1 /\ pc[t] = "rule"
      BY <1>3, InstallStep DEF TypeInv, TypeOK
    <3>2. CASE at' = at
      BY <3>1, <3>2
    <3>3. CASE rules[map[t].ip] > 0 /\ rules' = rules
      BY <3>1, <3>3
    <3>4. CASE rules' = [rules EXCEPT ![map[t].ip] = rules[map[t].ip] + 1]
      BY <3>1, <3>4
    <3> QED BY <1>3, <3>1, <3>2, <3>3, <3>4, InstallStep
  <2>5. HeldOnce'
    BY <2>1 DEF EnforceInv, HeldOnce, InProgress, Busy
  <2>6. RuleThere'
    <3>1. ASSUME NEW u \in Client, InProgress(u), at'[u] > 1, map[u].ip \notin renewed
          PROVE  rules'[map[u].ip] > 0
      <4>1. map[u].ip \in IPs
        BY <3>1, BanFields DEF TypeInv, BansMade
      <4>2. CASE u = t
        BY <2>4, <3>1, <4>2
      <4>3. CASE u # t
        <5>1. rules[map[u].ip] > 0
          BY <2>3, <3>1, <4>3 DEF EnforceInv, RuleThere
        <5> QED BY <2>2, <4>1, <5>1
      <4> QED BY <4>2, <4>3
    <3>2. ASSUME NEW u \in Client, pc[u] = "stamped" PROVE at'[u] > 1
      BY <2>3, <2>4, <3>2 DEF EnforceInv, RuleThere
    <3> QED BY <2>1, <3>1, <3>2 DEF RuleThere, InProgress
  <2>7. BanEnforced'
    <3>1. ASSUME NEW i \in 1..Len(list), list[i].ip \notin renewed PROVE rules'[list[i].ip] > 0
      <4>1. list[i].ip \in IPs /\ rules[list[i].ip] > 0
        BY <2>1, <3>1, ListStep DEF EnforceInv, BanEnforced
      <4> QED BY <2>2, <4>1
    <3> QED BY <2>1, <3>1 DEF BanEnforced
  <2> QED BY <2>5, <2>6, <2>7 DEF EnforceInv
<1>4. CASE StampBan(t)
  <2>1. /\ UNCHANGED <<list, victim, rules, at, renewed>>
        /\ pc[t] = "rule" /\ pc'[t] = "stamped" /\ at[t] > Len(AddScript(map[t]))
        /\ \A u \in Client \ {t} : pc'[u] = pc[u] /\ map'[u] = map[u]
        /\ map' = [map EXCEPT ![t] = [map[t] EXCEPT !.time = now]]
    BY <1>4 DEF StampBan, ScriptDone, TypeInv, TypeOK
  <2>2. map'[t].ip = map[t].ip
    <3>1. map[t] \in Ban
      BY <2>1 DEF TypeInv, BansMade, InProgress
    <3> QED BY <2>1, <3>1 DEF Ban, TypeInv, TypeOK
  <2>3. /\ at[t] > 1
        /\ \A u \in Client : (InProgress(u)' <=> InProgress(u)) /\ map'[u].ip = map[u].ip
    BY <2>1, <2>2, Scripts DEF InProgress
  <2>4. HeldOnce' /\ BanEnforced'
    BY <2>1, <2>3 DEF EnforceInv, HeldOnce, BanEnforced, Busy
  <2>5. RuleThere'
    BY <2>1, <2>3 DEF EnforceInv, RuleThere
  <2> QED BY <2>4, <2>5 DEF EnforceInv
<1>5. CASE InsertBan(t)
  <2>1. /\ UNCHANGED <<victim, rules, at, renewed>>
        /\ pc[t] = "stamped" /\ ~InProgress(t)' /\ InProgress(t) /\ pc'[t] # "stamped"
        /\ \A u \in Client \ {t} : pc'[u] = pc[u] /\ map'[u] = map[u] /\ InProgress(u)' = InProgress(u)
    BY <1>5 DEF InsertBan, TypeInv, TypeOK, InProgress
  <2>2. /\ Len(list) \in Nat /\ Len(list') = Len(list) + 1
        /\ list'[Len(list) + 1] = map[t]
        /\ \A i \in 1..Len(list) : list'[i] = list[i]
        /\ \A i \in 1..Len(list') : i \in 1..Len(list) \/ i = Len(list) + 1
    BY <1>5, ListStep
  <2>3. HeldOnce'
    <3>1. ASSUME NEW i \in 1..Len(list'), NEW j \in 1..Len(list'),
                 list'[i].ip = list'[j].ip, list'[i].ip \notin renewed
          PROVE  i = j
      BY <2>1, <2>2, <3>1 DEF EnforceInv, HeldOnce
    <3>2. ASSUME Busy, victim.ip \notin renewed
          PROVE  /\ \A i \in 1..Len(list') : list'[i].ip # victim.ip
                 /\ \A u \in Client : InProgress(u)' => map'[u].ip # victim.ip
      BY <2>1, <2>2, <3>2 DEF EnforceInv, HeldOnce
    <3>3. ASSUME NEW v \in Client, InProgress(v)', map'[v].ip \notin renewed
          PROVE  /\ \A i \in 1..Len(list') : list'[i].ip # map'[v].ip
                 /\ \A u \in Client : InProgress(u)' /\ map'[u].ip = map'[v].ip => u = v
      BY <2>1, <2>2, <3>3 DEF EnforceInv, HeldOnce
    <3> QED BY <2>1, <3>1, <3>2, <3>3 DEF HeldOnce, Busy
  <2>4. RuleThere'
    BY <2>1 DEF EnforceInv, RuleThere
  <2>5. BanEnforced'
    BY <2>1, <2>2 DEF EnforceInv, RuleThere, BanEnforced
  <2> QED BY <2>3, <2>4, <2>5 DEF EnforceInv
<1> QED BY <1>2, <1>3, <1>4, <1>5 DEF ClientStep

LEMMA OtherStepEnforces ==
  ASSUME TypeInv, EnforceInv, CleanerStep \/ ClockTick \/ Restart
  PROVE  EnforceInv'
<1> USE DEF listVars, ruleVars
<1>1. /\ \A i \in 1..Len(list) : list[i].ip \in IPs
      /\ \A u \in Client : InProgress(u) => map[u].ip \in IPs
      /\ Client \subseteq Thread /\ Cleaner \notin Client
      /\ rules \in [IPs -> Nat] /\ at \in [Thread -> Nat \ {0}]
  BY BanFields, ListStep, CleanerIsNotClient DEF TypeInv, TypeOK, BansMade, Thread
<1>2. CASE Expire
  <2>1. /\ UNCHANGED <<rules, pc, map, renewed>> /\ ~Busy
        /\ \A u \in Client : at'[u] = at[u]
    BY <1>1, <1>2 DEF Expire, PopExpired, TypeInv, TypeOK
  <2>2. /\ Len(list) \in Nat /\ Len(list) > 0 /\ victim' = list[1]
        /\ Len(list') = Len(list) - 1
        /\ \A i \in 1..Len(list') : list'[i] = list[i+1] /\ i + 1 \in 1..Len(list)
    BY <1>2, ListStep
  <2>3. HeldOnce'
    <3>1. ASSUME NEW i \in 1..Len(list'), NEW j \in 1..Len(list'),
                 list'[i].ip = list'[j].ip, list'[i].ip \notin renewed
          PROVE  i = j
      <4>1. i + 1 = j + 1
        BY <2>2, <3>1 DEF EnforceInv, HeldOnce
      <4> QED BY <2>2, <4>1
    <3>2. ASSUME victim'.ip \notin renewed
          PROVE  /\ \A i \in 1..Len(list') : list'[i].ip # victim'.ip
                 /\ \A u \in Client : InProgress(u) => map[u].ip # victim'.ip
      <4>1. ASSUME NEW i \in 1..Len(list'), list'[i].ip = victim'.ip PROVE FALSE
        <5>1. 1 \in 1..Len(list) /\ i + 1 = 1
          BY <2>2, <3>2, <4>1 DEF EnforceInv, HeldOnce
        <5> QED BY <2>2, <5>1
      <4>2. ASSUME NEW u \in Client, InProgress(u), map[u].ip = victim'.ip PROVE FALSE
        BY <2>2, <3>2, <4>2 DEF EnforceInv, HeldOnce
      <4> QED BY <4>1, <4>2
    <3>3. ASSUME NEW v \in Client, InProgress(v), map[v].ip \notin renewed
          PROVE  /\ \A i \in 1..Len(list') : list'[i].ip # map[v].ip
                 /\ \A u \in Client : InProgress(u) /\ map[u].ip = map[v].ip => u = v
      BY <2>2, <3>3 DEF EnforceInv, HeldOnce
    <3> QED BY <2>1, <3>1, <3>2, <3>3 DEF HeldOnce, InProgress
  <2>4. RuleThere'
    BY <2>1 DEF EnforceInv, RuleThere, InProgress
  <2>5. BanEnforced'
    BY <2>1, <2>2 DEF EnforceInv, BanEnforced
  <2> QED BY <2>3, <2>4, <2>5 DEF EnforceInv
<1>3. CASE LiftBan
  <2>1. UNCHANGED <<list, victim, pc, map, renewed>> /\ Busy
    BY <1>3 DEF LiftBan
  <2>2. /\ \A u \in Client : at'[u] = at[u]
        /\ \A ip \in IPs \ {victim.ip} : rules'[ip] = rules[ip]
    BY <1>1, <1>3, LiftStep
  <2>3. HeldOnce'
    BY <2>1 DEF EnforceInv, HeldOnce, InProgress, Busy
  <2>4. RuleThere'
    <3>1. ASSUME NEW u \in Client, InProgress(u), at[u] > 1, map[u].ip \notin renewed
          PROVE  rules'[map[u].ip] > 0
      <4>1. map[u].ip # victim.ip
        BY <2>1, <3>1 DEF EnforceInv, HeldOnce
      <4> QED BY <1>1, <2>2, <3>1, <4>1 DEF EnforceInv, RuleThere
    <3> QED BY <2>1, <2>2, <3>1 DEF EnforceInv, RuleThere, InProgress
  <2>5. BanEnforced'
    <3>1. ASSUME NEW i \in 1..Len(list), list[i].ip \notin renewed PROVE rules'[list[i].ip] > 0
      <4>1. list[i].ip # victim.ip
        BY <2>1, <3>1 DEF EnforceInv, HeldOnce
      <4> QED BY <1>1, <2>2, <3>1, <4>1 DEF EnforceInv, BanEnforced
    <3> QED BY <2>1, <3>1 DEF BanEnforced
  <2> QED BY <2>3, <2>4, <2>5 DEF EnforceInv
<1>4. CASE FreeBan
  <2>1. /\ UNCHANGED <<list, rules, at, pc, map>>
        /\ victim' = NoBan /\ renewed' = {ip \in renewed : Owned(ip)'}
    BY <1>4 DEF FreeBan
  <2>2. ~Busy'
    BY <2>1 DEF Busy, NoBan
  <2>3. ASSUME NEW i \in 1..Len(list), list[i].ip \notin renewed' PROVE list[i].ip \notin renewed
    BY <2>1, <2>3 DEF Owned
  <2>4. ASSUME NEW u \in Client, InProgress(u), map[u].ip \notin renewed'
        PROVE  map[u].ip \notin renewed
    <3>1. Owned(map[u].ip)'
      BY <2>1, <2>4 DEF Owned, InProgress
    <3> QED BY <2>1, <2>4, <3>1
  <2>5. HeldOnce'
    BY <2>1, <2>2, <2>3, <2>4 DEF EnforceInv, HeldOnce, InProgress
  <2>6. RuleThere'
    BY <2>1, <2>4 DEF EnforceInv, RuleThere, InProgress
  <2>7. BanEnforced'
    BY <2>1, <2>3 DEF EnforceInv, BanEnforced
  <2> QED BY <2>5, <2>6, <2>7 DEF EnforceInv
<1>5. CASE ClockTick
  <2>1. UNCHANGED <<list, victim, rules, at, pc, map, renewed>>
    BY <1>5 DEF ClockTick
  <2> QED BY <2>1 DEF EnforceInv, HeldOnce, RuleThere, BanEnforced, InProgress, Busy
<1>6. CASE Restart
  <2>1. /\ Len(list') = 0 /\ ~Busy'
        /\ \A u \in Client : pc'[u] = "idle" /\ ~InProgress(u)'
    BY <1>6 DEF Restart, Busy, NoBan, InProgress
  <2> QED BY <2>1 DEF EnforceInv, HeldOnce, RuleThere, BanEnforced
<1> QED BY <1>2, <1>3, <1>4, <1>5, <1>6 DEF CleanerStep

(* A listed ban is in force, whatever the interleaving of the threads'       *)
(* iptables processes, unless it was asked for while an earlier ban of the   *)
(* same address was still held: removals and additions never take back the  *)
(* rule of a ban that the remover has not popped.                           *)
THEOREM BansAreEnforced == Spec => []BanEnforced
<1>1. Init => EnforceInv
  <2>1. Init => /\ Len(list) = 0 /\ ~Busy
                /\ \A u \in Client : pc[u] = "idle" /\ ~InProgress(u)
    BY DEF Init, Busy, NoBan, InProgress
  <2> QED BY <2>1 DEF EnforceInv, HeldOnce, RuleThere, BanEnforced
<1>2. ASSUME TypeInv, EnforceInv, [Next]_vars PROVE EnforceInv'
  <2>1. CASE UNCHANGED vars
    BY <1>2, <2>1 DEF vars, EnforceInv, HeldOnce, RuleThere, BanEnforced, InProgress, Busy
  <2> QED BY <1>2, <2>1, ClientStepEnforces, OtherStepEnforces DEF Next
<1>3. EnforceInv => BanEnforced
  BY DEF EnforceInv
<1> QED BY <1>1, <1>2, <1>3, Typed, PTL DEF Spec
-----------------------------------------------------------------------------
(* The three summands of WillDelete.                                         *)
Listed(ip) == {i \in 1..Len(list) : list[i].ip = ip}
Lifting(ip) == Busy /\ victim.ip = ip /\ at[Cleaner] <= Len(RemovalScript(victim))
Made(ip) == {t \in Client : InProgress(t) /\ map[t].ip = ip /\ at[t] > 1}

LiftCount(ip) == IF Lifting(ip) THEN 1 ELSE 0

Count(ip) == Cardinality(Listed(ip)) + LiftCount(ip) + Cardinality(Made(ip))

CountInv ==
  /\ orphans \in [IPs -> Nat]
  /\ \A t \in Client : pc[t] = "stamped" => at[t] > 1
  /\ \A ip \in IPs : rules[ip] <= orphans[ip] + Count(ip)

LEMMA Counted ==
  ASSUME NEW ip
  PROVE  WillDelete(ip) = Count(ip)
BY DEF WillDelete, Count, Listed, LiftCount, Lifting, Made

LEMMA CountTypes ==
  ASSUME Len(list) \in Nat, NEW ip
  PROVE  /\ IsFiniteSet(Listed(ip)) /\ Cardinality(Listed(ip)) \in Nat
         /\ LiftCount(ip) \in 0..1
         /\ IsFiniteSet(Made(ip)) /\ Cardinality(Made(ip)) \in Nat
<1>1. IsFiniteSet(1..Len(list))
  BY FS_Interval
<1>2. Listed(ip) \subseteq 1..Len(list) /\ Made(ip) \subseteq Client
  BY DEF Listed, Made
<1>3. IsFiniteSet(Listed(ip)) /\ IsFiniteSet(Made(ip))
  BY <1>1, <1>2, FS_Subset, ClientIsFinite
<1> QED BY <1>3, FS_CardinalityType DEF LiftCount

(* Moving every place of a list up by one loses no place.                    *)
LEMMA Shifted ==
  ASSUME NEW S, IsFiniteSet(S), S \subseteq Nat
  PROVE  LET T == {i + 1 : i \in S}
         IN  IsFiniteSet(T) /\ Cardinality(T) = Cardinality(S)
<1> DEFINE T == {i + 1 : i \in S}
           f == [i \in S |-> i + 1]
<1>1. f \in [S -> T] /\ \A i, j \in S : f[i] = f[j] => i = j
  OBVIOUS
<1>2. \A k \in T : \E i \in S : f[i] = k
  OBVIOUS
<1>3. f \in Bijection(S, T)
  BY <1>1, <1>2 DEF Bijection, Injection, Surjection, IsInjective
<1>4. ExistsBijection(S, T)
  BY <1>3 DEF ExistsBijection
<1> QED BY <1>4, FS_Bijection

(* A popped element leaves one place less, at the head.                      *)
LEMMA ListedPopped ==
  ASSUME TypeInv, Expire, NEW ip
  PROVE  /\ Cardinality(Listed(ip)') \in Nat
         /\ Cardinality(Listed(ip)) =
              Cardinality(Listed(ip)') + (IF list[1].ip = ip THEN 1 ELSE 0)
<1> DEFINE T == {i + 1 : i \in Listed(ip)'}
<1>1. /\ Len(list) \in Nat /\ Len(list) > 0 /\ Len(list') = Len(list) - 1
      /\ Len(list') \in Nat /\ \A i \in 1..Len(list') : list'[i] = list[i+1]
  BY ListStep
<1>2. Listed(ip)' \subseteq Nat /\ Listed(ip)' \subseteq 1..Len(list')
  BY <1>1 DEF Listed
<1>3. IsFiniteSet(Listed(ip)')
  <2>1. IsFiniteSet(1..Len(list'))
    BY <1>1, FS_Interval
  <2> QED BY <1>2, <2>1, FS_Subset
<1>4. IsFiniteSet(T) /\ Cardinality(T) = Cardinality(Listed(ip)')
  BY <1>2, <1>3, Shifted
<1>5. 1 \notin T
  BY <1>1 DEF Listed
<1>6. Listed(ip) = IF list[1].ip = ip THEN T \cup {1} ELSE T
  <2>1. ASSUME NEW i \in T PROVE i \in Listed(ip)
    BY <1>1, <2>1 DEF Listed
  <2>2. ASSUME NEW i \in Listed(ip), i # 1 PROVE i \in T
    <3>1. i - 1 \in 1..Len(list') /\ list'[i - 1] = list[(i - 1) + 1] /\ (i - 1) + 1 = i
      BY <1>1, <2>2 DEF Listed
    <3>2. i - 1 \in Listed(ip)'
      BY <2>2, <3>1 DEF Listed
    <3> QED BY <3>1, <3>2
  <2>3. 1 \in Listed(ip) <=> list[1].ip = ip
    BY <1>1 DEF Listed
  <2> QED BY <2>1, <2>2, <2>3
<1>7. Cardinality(Listed(ip)') \in Nat
  BY <1>3, FS_CardinalityType
<1> HIDE DEF T
<1>8. Cardinality(T \cup {1}) = Cardinality(T) + 1
  BY <1>4, <1>5, FS_AddElement
<1> QED BY <1>4, <1>6, <1>7, <1>8

(* An insertion adds one place, for the address inserted.                    *)
LEMMA ListedInserted ==
  ASSUME TypeInv, NEW t \in Client, InsertBan(t), NEW ip
  PROVE  Cardinality(Listed(ip)') =
           Cardinality(Listed(ip)) + (IF map[t].ip = ip THEN 1 ELSE 0)
<1>1. /\ Len(list) \in Nat /\ Len(list') = Len(list) + 1
      /\ list'[Len(list) + 1] = map[t]
      /\ \A i \in 1..Len(list) : list'[i] = list[i]
      /\ 1..Len(list') = (1..Len(list)) \cup {Len(list) + 1}
      /\ Len(list) + 1 \notin 1..Len(list)
  BY ListStep
<1>2. IsFiniteSet(Listed(ip)) /\ Cardinality(Listed(ip)) \in Nat
  BY <1>1, CountTypes
<1>3. Listed(ip)' = IF map[t].ip = ip THEN Listed(ip) \cup {Len(list) + 1} ELSE Listed(ip)
  BY <1>1 DEF Listed
<1>4. Len(list) + 1 \notin Listed(ip)
  BY <1>1 DEF Listed
<1>5. Cardinality(Listed(ip) \cup {Len(list) + 1}) = Cardinality(Listed(ip)) + 1
  BY <1>2, <1>4, FS_AddElement
<1>6. CASE map[t].ip = ip
  BY <1>3, <1>5, <1>6
<1>7. CASE map[t].ip # ip
  <2>1. Listed(ip)' = Listed(ip)
    BY <1>3, <1>7
  <2> QED BY <1>2, <1>7, <2>1
<1> QED BY <1>6, <1>7

LEMMA ClientStepCounts ==
  ASSUME TypeInv, CountInv, NEW t \in Client, ClientStep(t)
  PROVE  CountInv'
<1> USE DEF listVars, ruleVars
<1>1. /\ t \in Thread /\ Cleaner \notin Client /\ Client \subseteq Thread /\ Cleaner \in Thread
      /\ Len(list) \in Nat /\ rules \in [IPs -> Nat] /\ at \in [Thread -> Nat \ {0}]
      /\ orphans' = orphans /\ orphans \in [IPs -> Nat]
  BY CleanerIsNotClient, ListStep
     DEF Thread, TypeInv, TypeOK, CountInv, ClientStep, ReceiveBan, InstallBan, StampBan, InsertBan
<1>2. \A ip \in IPs :
        /\ Cardinality(Listed(ip)) \in Nat /\ LiftCount(ip) \in Nat
        /\ IsFiniteSet(Made(ip)) /\ Cardinality(Made(ip)) \in Nat
        /\ rules[ip] \in Nat /\ orphans[ip] \in Nat /\ rules[ip] <= orphans[ip] + Count(ip)
  BY <1>1, CountTypes DEF CountInv
<1>3. ASSUME NEW ip \in IPs, ReceiveBan(t, ip) PROVE CountInv'
  <2>1. /\ UNCHANGED <<list, victim, rules>>
        /\ pc'[t] = "rule" /\ at'[t] = 1 /\ ~InProgress(t) /\ at'[Cleaner] = at[Cleaner]
        /\ \A u \in Client \ {t} : pc'[u] = pc[u] /\ map'[u] = map[u] /\ at'[u] = at[u]
    BY <1>1, <1>3 DEF ReceiveBan, TypeInv, TypeOK, InProgress
  <2>2. \A x : Listed(x)' = Listed(x) /\ LiftCount(x)' = LiftCount(x)
    BY <2>1 DEF Listed, LiftCount, Lifting, Busy
  <2>3. \A x : Made(x)' = Made(x)
    BY <2>1 DEF Made, InProgress
  <2>4. \A x \in IPs : Count(x)' = Count(x)
    BY <2>2, <2>3 DEF Count
  <2> QED BY <1>1, <1>2, <2>1, <2>4 DEF CountInv
<1>4. CASE InstallBan(t)
  <2> DEFINE b == map[t].ip
  <2>1. /\ UNCHANGED <<list, victim, pc, map>> /\ b \in IPs /\ InProgress(t) /\ at[t] = 1
    BY <1>4, InstallStep DEF InstallBan
  <2>2. \A u \in Thread \ {t} : at'[u] = at[u]
    BY <1>1, <1>4, InstallStep
  <2>3. \A x : Listed(x)' = Listed(x) /\ LiftCount(x)' = LiftCount(x)
    BY <1>1, <2>1, <2>2 DEF Listed, LiftCount, Lifting, Busy
  <2>4. \A x : Made(x)' = IF at'[t] > 1 /\ x = b THEN Made(x) \cup {t} ELSE Made(x)
    BY <1>1, <2>1, <2>2 DEF Made, InProgress
  <2>5. \A x : t \notin Made(x)
    BY <2>1 DEF Made
  <2>6. \A x \in IPs : Count(x)' = Count(x) + (IF at'[t] > 1 /\ x = b THEN 1 ELSE 0)
    <3> SUFFICES ASSUME NEW x \in IPs
                 PROVE  Count(x)' = Count(x) + (IF at'[t] > 1 /\ x = b THEN 1 ELSE 0)
      OBVIOUS
    <3>1. Cardinality(Made(x) \cup {t}) = Cardinality(Made(x)) + 1
      BY <1>2, <2>5, FS_AddElement
    <3>2. Cardinality(Made(x)') =
            IF at'[t] > 1 /\ x = b THEN Cardinality(Made(x)) + 1 ELSE Cardinality(Made(x))
      BY <2>4, <3>1
    <3> QED BY <1>2, <2>3, <3>2 DEF Count
  <2>7. \A x \in IPs : Count(x) \in Nat
    BY <1>2 DEF Count
  <2>8. \A x \in IPs : rules'[x] <= orphans[x] + Count(x)'
    <3> HIDE DEF b
    <3>1. CASE rules' = rules
      BY <1>2, <2>6, <2>7, <3>1
    <3>2. CASE /\ rules' = [rules EXCEPT ![b] = rules[b] + 1]
               /\ at' = [at EXCEPT ![t] = 2]
      <4>1. at'[t] > 1
        BY <1>1, <3>2
      <4>2. \A x \in IPs : rules'[x] = rules[x] + (IF x = b THEN 1 ELSE 0)
        BY <1>1, <3>2
      <4> QED BY <1>2, <2>6, <2>7, <4>1, <4>2
    <3> QED BY <1>4, <3>1, <3>2, InstallStep DEF b
  <2>9. \A u \in Client : pc'[u] = "stamped" => at'[u] > 1
    BY <1>1, <1>4, <2>1, <2>2 DEF CountInv, InstallBan
  <2> QED BY <1>1, <2>8, <2>9 DEF CountInv
<1>5. CASE StampBan(t)
  <2>1. /\ UNCHANGED <<list, victim, rules, at>>
        /\ pc[t] = "rule" /\ pc'[t] = "stamped" /\ at[t] > Len(AddScript(map[t]))
        /\ \A u \in Client \ {t} : pc'[u] = pc[u] /\ map'[u] = map[u]
        /\ map' = [map EXCEPT ![t] = [map[t] EXCEPT !.time = now]]
    BY <1>5 DEF StampBan, ScriptDone, TypeInv, TypeOK
  <2>2. map'[t].ip = map[t].ip
    <3>1. map[t] \in Ban
      BY <2>1 DEF TypeInv, BansMade, InProgress
    <3> QED BY <2>1, <3>1 DEF Ban, TypeInv, TypeOK
  <2>3. /\ at[t] > 1
        /\ \A u \in Client : (InProgress(u)' <=> InProgress(u)) /\ map'[u].ip = map[u].ip
    BY <2>1, <2>2, Scripts DEF InProgress
  <2>4. \A x : Listed(x)' = Listed(x) /\ LiftCount(x)' = LiftCount(x) /\ Made(x)' = Made(x)
    BY <2>1, <2>3 DEF Listed, LiftCount, Lifting, Busy, Made
  <2>5. \A x : Count(x)' = Count(x)
    BY <2>4 DEF Count
  <2> QED BY <1>1, <1>2, <2>1, <2>3, <2>5 DEF CountInv
<1>6. CASE InsertBan(t)
  <2> DEFINE b == map[t].ip
  <2>1. /\ UNCHANGED <<victim, rules, at>>
        /\ pc[t] = "stamped" /\ pc'[t] = "idle" /\ InProgress(t) /\ ~InProgress(t)' /\ at[t] > 1
        /\ \A u \in Client \ {t} : pc'[u] = pc[u] /\ map'[u] = map[u] /\ InProgress(u)' = InProgress(u)
    BY <1>6 DEF InsertBan, TypeInv, TypeOK, InProgress, CountInv
  <2>2. \A x : LiftCount(x)' = LiftCount(x)
    BY <2>1 DEF LiftCount, Lifting, Busy
  <2>3. \A x : Made(x)' = IF x = b THEN Made(x) \ {t} ELSE Made(x)
    BY <2>1 DEF Made
  <2>4. t \in Made(b)
    BY <2>1 DEF Made
  <2>5. \A x \in IPs : Count(x)' = Count(x)
    <3> SUFFICES ASSUME NEW x \in IPs PROVE Count(x)' = Count(x)
      OBVIOUS
    <3>1. Cardinality(Listed(x)') = Cardinality(Listed(x)) + (IF b = x THEN 1 ELSE 0)
      BY <1>6, ListedInserted
    <3>2. x = b => Cardinality(Made(x) \ {t}) = Cardinality(Made(x)) - 1
      BY <1>2, <2>4, FS_RemoveElement
    <3>3. Cardinality(Made(x)') = Cardinality(Made(x)) - (IF b = x THEN 1 ELSE 0)
      <4>1. CASE x = b
        BY <2>3, <3>2, <4>1
      <4>2. CASE x # b
        BY <1>2, <2>3, <4>2
      <4> QED BY <4>1, <4>2
    <3> HIDE DEF b
    <3> QED BY <1>2, <2>2, <3>1, <3>3 DEF Count
  <2> QED BY <1>1, <1>2, <2>1, <2>5 DEF CountInv
<1> QED BY <1>3, <1>4, <1>5, <1>6 DEF ClientStep

LEMMA OtherStepCounts ==
  ASSUME TypeInv, CountInv, CleanerStep \/ ClockTick \/ Restart
  PROVE  CountInv'
<1> USE DEF listVars, ruleVars
<1>1. /\ Cleaner \notin Client /\ Client \subseteq Thread /\ Cleaner \in Thread
      /\ Len(list) \in Nat /\ rules \in [IPs -> Nat] /\ at \in [Thread -> Nat \ {0}]
      /\ orphans \in [IPs -> Nat]
  BY CleanerIsNotClient DEF Thread, TypeInv, TypeOK, CountInv
<1>2. \A ip \in IPs :
        /\ Cardinality(Listed(ip)) \in Nat /\ LiftCount(ip) \in Nat
        /\ Cardinality(Made(ip)) \in Nat
        /\ rules[ip] \in Nat /\ orphans[ip] \in Nat /\ rules[ip] <= orphans[ip] + Count(ip)
  BY <1>1, CountTypes DEF CountInv
<1>3. CASE Expire
  <2>1. /\ UNCHANGED <<rules, pc, map, orphans>> /\ ~Busy /\ at'[Cleaner] = 1
        /\ \A u \in Client : at'[u] = at[u]
    BY <1>1, <1>3 DEF Expire, PopExpired
  <2>2. victim' = list[1] /\ list[1].id # 0
    <3>1. 1 \in 1..Len(list)
      BY <1>3, ListStep
    <3> QED BY <1>3, <3>1, ListStep DEF TypeInv, BansMade
  <2>3. \A x : Made(x)' = Made(x)
    BY <2>1 DEF Made, InProgress
  <2>4. \A x : LiftCount(x) = 0 /\ LiftCount(x)' = IF list[1].ip = x THEN 1 ELSE 0
    <3>1. Len(RemovalScript(list[1])) = 1
      BY Scripts
    <3>2. \A x : Lifting(x)' <=> list[1].ip = x
      BY <2>1, <2>2, <3>1 DEF Lifting, Busy
    <3> QED BY <2>1, <3>2 DEF LiftCount, Lifting
  <2>5. \A x \in IPs : Count(x)' = Count(x)
    <3> SUFFICES ASSUME NEW x \in IPs PROVE Count(x)' = Count(x)
      OBVIOUS
    <3>1. /\ Cardinality(Listed(x)') \in Nat
          /\ Cardinality(Listed(x)) =
               Cardinality(Listed(x)') + (IF list[1].ip = x THEN 1 ELSE 0)
      BY <1>3, ListedPopped
    <3> QED BY <1>2, <2>3, <2>4, <3>1 DEF Count
  <2> QED BY <1>1, <1>2, <2>1, <2>5 DEF CountInv
<1>4. CASE LiftBan
  <2> DEFINE b == victim.ip
  <2>1. /\ UNCHANGED <<list, victim, pc, map, orphans>> /\ Busy /\ b \in IPs /\ at[Cleaner] = 1
    BY <1>4, LiftStep DEF LiftBan
  <2>2. \A u \in Client : at'[u] = at[u]
    BY <1>1, <1>4, LiftStep
  <2>3. \A x : Listed(x)' = Listed(x) /\ Made(x)' = Made(x)
    BY <2>1, <2>2 DEF Listed, Made, InProgress
  <2>4. Len(RemovalScript(victim)) = 1
    BY Scripts
  <2>5. \A x : /\ LiftCount(x) = (IF b = x THEN 1 ELSE 0)
               /\ x # b => LiftCount(x)' = 0
               /\ at' = at => LiftCount(x)' = LiftCount(x)
               /\ at'[Cleaner] = 2 => LiftCount(x)' = 0
    BY <2>1, <2>4 DEF LiftCount, Lifting, Busy
  <2>6. \A x \in IPs : rules'[x] <= orphans[x] + Count(x)'
    <3> SUFFICES ASSUME NEW x \in IPs PROVE rules'[x] <= orphans[x] + Count(x)'
      OBVIOUS
    <3>1. Count(x)' = Cardinality(Listed(x)) + LiftCount(x)' + Cardinality(Made(x))
      BY <2>3 DEF Count
    <3> HIDE DEF b
    <3>2. CASE rules' = rules /\ at' = at
      BY <1>2, <2>5, <3>1, <3>2 DEF Count
    <3>3. CASE x # b /\ rules'[x] = rules[x]
      BY <1>2, <2>5, <3>1, <3>3 DEF Count
    <3>4. CASE /\ x = b /\ at'[Cleaner] = 2
               /\ rules'[x] = IF rules[x] > 0 THEN rules[x] - 1 ELSE 0
      BY <1>2, <2>5, <3>1, <3>4 DEF Count
    <3>5. \/ rules' = rules /\ at' = at
          \/ x # b /\ rules'[x] = rules[x]
          \/ /\ x = b /\ at'[Cleaner] = 2
             /\ rules'[x] = IF rules[x] > 0 THEN rules[x] - 1 ELSE 0
      <4>1. CASE rules' = rules /\ at' = at
        BY <4>1
      <4>2. CASE rules[b] = 0 /\ rules' = rules /\ at' = [at EXCEPT ![Cleaner] = 2]
        BY <1>1, <4>2
      <4>3. ASSUME NEW n \in Nat, n = IF rules[b] > 0 THEN rules[b] - 1 ELSE 0,
                   rules' = [rules EXCEPT ![b] = n], at' = [at EXCEPT ![Cleaner] = 2]
            PROVE  IF x = b THEN at'[Cleaner] = 2 /\ rules'[x] = n ELSE rules'[x] = rules[x]
        BY <1>1, <4>3
      <4> QED BY <1>4, <4>1, <4>2, <4>3, LiftStep DEF b
    <3> QED BY <3>2, <3>3, <3>4, <3>5
  <2> QED BY <1>1, <2>1, <2>2, <2>6 DEF CountInv
<1>5. CASE FreeBan
  <2>1. /\ UNCHANGED <<list, rules, at, pc, map, orphans>>
        /\ victim' = NoBan /\ at[Cleaner] > Len(RemovalScript(victim))
    BY <1>5 DEF FreeBan, ScriptDone
  <2>2. \A x : LiftCount(x) = 0
    <3>1. ~(at[Cleaner] <= Len(RemovalScript(victim)))
      BY <1>1, <2>1, Scripts
    <3> QED BY <3>1 DEF LiftCount, Lifting
  <2>3. \A x : LiftCount(x)' = 0
    BY <2>1 DEF LiftCount, Lifting, Busy, NoBan
  <2>4. \A x : Listed(x)' = Listed(x) /\ Made(x)' = Made(x)
    BY <2>1 DEF Listed, Made, InProgress
  <2>5. \A x : Count(x)' = Count(x)
    BY <2>2, <2>3, <2>4 DEF Count
  <2> QED BY <1>1, <1>2, <2>1, <2>5 DEF CountInv
<1>6. CASE ClockTick
  <2>1. UNCHANGED <<list, victim, rules, at, pc, map, orphans>>
    BY <1>6 DEF ClockTick
  <2> QED BY <2>1 DEF CountInv, Count, Listed, LiftCount, Lifting, Made, InProgress, Busy
<1>7. CASE Restart
  <2>1. /\ rules' = rules /\ orphans' = rules /\ Len(list') = 0
        /\ \A u \in Client : pc'[u] = "idle"
    BY <1>7 DEF Restart
  <2>2. \A x : Listed(x)' = {} /\ Made(x)' = {} /\ LiftCount(x)' = 0
    BY <1>7, <2>1 DEF Restart, Listed, Made, LiftCount, Lifting, Busy, NoBan, InProgress
  <2>3. \A x : Count(x)' = 0
    BY <2>2, FS_EmptySet DEF Count
  <2> QED BY <1>1, <1>2, <2>1, <2>3 DEF CountInv
<1> QED BY <1>3, <1>4, <1>5, <1>6, <1>7 DEF CleanerStep

(* No address stays blocked for good: each copy of its rule, also the copies *)
(* two racing clients add, has somebody who will take it back: a listed ban, *)
(* the remover, a client past its own call, or it is an earlier process's.   *)
THEOREM CopiesAreTakenBack == Spec => []NoForgottenBan
<1>1. Init => CountInv
  <2> SUFFICES ASSUME Init PROVE CountInv
    OBVIOUS
  <2>1. \A ip : Listed(ip) = {} /\ Made(ip) = {} /\ LiftCount(ip) = 0
    BY DEF Init, Listed, Made, LiftCount, Lifting, Busy, NoBan, InProgress
  <2>2. \A ip : Count(ip) = 0
    BY <2>1, FS_EmptySet DEF Count
  <2> QED BY <2>2 DEF Init, CountInv
<1>2. ASSUME TypeInv, CountInv, [Next]_vars PROVE CountInv'
  <2>1. CASE UNCHANGED vars
    BY <1>2, <2>1
       DEF vars, CountInv, Count, Listed, LiftCount, Lifting, Made, InProgress, Busy
  <2> QED BY <1>2, <2>1, ClientStepCounts, OtherStepCounts DEF Next
<1>3. CountInv => NoForgottenBan
  BY Counted DEF CountInv, NoForgottenBan
<1> QED BY <1>1, <1>2, <1>3, Typed, PTL DEF Spec
-----------------------------------------------------------------------------
Kept == [ip: IPs, at: 0..MaxTime, ttl: {PERIOD}]

(* While the seconds of an answer run, its ban is listed under the time the  *)
(* answer counts from: the remover takes only bans that are due, and where a *)
(* ban is in the list makes no difference.                                  *)
AnswerListed ==
  \A t \in Client :
    \/ answer[t] = NoAnswer
    \/ /\ answer[t] \in Kept
       /\ now < answer[t].at + PERIOD =>
            \E i \in 1..Len(list) :
              list[i].ip = answer[t].ip /\ list[i].time = answer[t].at

AnswerInv == answer \in [Client -> Kept \cup {NoAnswer}] /\ AnswerListed

LEMMA PeriodIsNat == PERIOD \in Nat
BY PeriodsAreNat DEF PERIOD

(* A step that leaves the bans listed for an answer keeps what it says.      *)
LEMMA AnswerKept ==
  ASSUME AnswerInv, UNCHANGED answer, now' \in Nat, now \in Nat, now <= now',
         \A i \in 1..Len(list) :
           now' < list[i].time + PERIOD =>
             \E j \in 1..Len(list') : list'[j] = list[i]
  PROVE  AnswerInv'
<1>1. ASSUME NEW t \in Client, answer[t] # NoAnswer, now' < answer[t].at + PERIOD
      PROVE  \E j \in 1..Len(list') :
               list'[j].ip = answer[t].ip /\ list'[j].time = answer[t].at
  <2>1. answer[t].at \in Int /\ PERIOD \in Int
    BY <1>1, PeriodIsNat, MaxTimeIsNat DEF AnswerInv, AnswerListed, Kept
  <2>2. now < answer[t].at + PERIOD
    BY <1>1, <2>1
  <2>3. PICK i \in 1..Len(list) : list[i].ip = answer[t].ip /\ list[i].time = answer[t].at
    BY <1>1, <2>2 DEF AnswerInv, AnswerListed
  <2>4. PICK j \in 1..Len(list') : list'[j] = list[i]
    BY <1>1, <2>3
  <2> QED BY <2>3, <2>4
<1> QED BY <1>1 DEF AnswerInv, AnswerListed

LEMMA AnswerStep ==
  ASSUME TypeInv, AnswerInv, [Next]_vars
  PROVE  AnswerInv'
<1> USE DEF listVars, ruleVars
<1>1. now \in Nat /\ now' \in Nat /\ now <= now'
  <2>1. now \in Nat
    BY MaxTimeIsNat DEF TypeInv, TypeOK
  <2>2. now' = now \/ now' = now + 1
    BY DEF vars, Next, ClientStep, CleanerStep, ReceiveBan, InstallBan, StampBan, InsertBan,
       Expire, LiftBan, FreeBan, ClockTick, Tick, Restart
  <2> QED BY <2>1, <2>2
<1>2. CASE UNCHANGED <<answer, list>>
  BY <1>1, <1>2, AnswerKept
<1>3. ASSUME NEW t \in Client, NEW ip \in IPs, ReceiveBan(t, ip) PROVE AnswerInv'
  <2>1. /\ UNCHANGED <<now, list>>
        /\ answer' = [answer EXCEPT ![t] = NoAnswer]
    BY <1>3 DEF ReceiveBan
  <2> QED BY <2>1 DEF AnswerInv, AnswerListed
<1>4. ASSUME NEW t \in Client, InsertBan(t) PROVE AnswerInv'
  <2> DEFINE new == [ip |-> map[t].ip, at |-> map[t].time, ttl |-> PERIOD]
  <2>1. /\ UNCHANGED now
        /\ answer' = [answer EXCEPT ![t] = new]
    BY <1>4 DEF InsertBan
  <2>2. /\ Len(list) \in Nat /\ map[t] \in Ban /\ Len(list') = Len(list) + 1
        /\ list'[Len(list) + 1] = map[t]
        /\ \A i \in 1..Len(list) : list'[i] = list[i]
    BY <1>4, ListStep
  <2>3. new \in Kept
    BY <2>2, BanFields DEF Kept
  <2>4. ASSUME NEW u \in Client, u # t, answer[u] # NoAnswer, now < answer[u].at + PERIOD
        PROVE  \E j \in 1..Len(list') :
                 list'[j].ip = answer[u].ip /\ list'[j].time = answer[u].at
    <3>1. PICK i \in 1..Len(list) : list[i].ip = answer[u].ip /\ list[i].time = answer[u].at
      BY <2>4 DEF AnswerInv, AnswerListed
    <3>2. i \in 1..Len(list') /\ list'[i] = list[i]
      BY <2>2
    <3> QED BY <3>1, <3>2
  <2>5. \E j \in 1..Len(list') : list'[j].ip = new.ip /\ list'[j].time = new.at
    <3>1. Len(list) + 1 \in 1..Len(list')
      BY <2>2
    <3> QED BY <2>2, <3>1
  <2> HIDE DEF new
  <2>6. /\ answer'[t] = new
        /\ \A u \in Client \ {t} : answer'[u] = answer[u]
        /\ answer' \in [Client -> Kept \cup {NoAnswer}]
    BY <2>1, <2>3 DEF AnswerInv
  <2> QED BY <2>1, <2>3, <2>4, <2>5, <2>6 DEF AnswerInv, AnswerListed
<1>5. CASE Expire
  <2>1. /\ Len(list) > 0 /\ victim' = list[1] /\ Len(list') = Len(list) - 1
        /\ Len(list) \in Nat
        /\ \A i \in 1..Len(list') : list'[i] = list[i+1]
        /\ \A i \in 1..Len(list) : list[i] \in Ban
    BY <1>5, ListStep
  <2>2. UNCHANGED <<now, answer>>
    BY <1>5 DEF Expire
  <2>3. ~(now < list[1].time + PERIOD)
    <3>1. Head(list) = list[1] /\ 1 \in 1..Len(list)
      BY <2>1, HeadAndTail DEF TypeInv, TypeOK
    <3>2. now >= list[1].time + EXPIRATION + GRACE
      BY <1>5, <3>1 DEF Expire, PopExpired, Due, ExpirationTime
    <3>3. list[1].time \in Int
      BY <2>1, <3>1, BanFields, MaxTimeIsNat
    <3> QED BY <1>1, <3>2, <3>3, PeriodsAreNat DEF PERIOD
  <2>4. ASSUME NEW i \in 1..Len(list), now' < list[i].time + PERIOD
        PROVE  \E j \in 1..Len(list') : list'[j] = list[i]
    <3>1. i # 1
      BY <2>2, <2>3, <2>4
    <3>2. i - 1 \in 1..Len(list') /\ (i - 1) + 1 = i
      BY <2>1, <3>1
    <3> QED BY <2>1, <3>2
  <2> QED BY <1>1, <2>2, <2>4, AnswerKept
<1>6. CASE Restart
  BY <1>6 DEF Restart, AnswerInv, AnswerListed
<1>7. CASE \/ \E t \in Client : InstallBan(t) \/ StampBan(t)
           \/ LiftBan \/ FreeBan \/ ClockTick \/ UNCHANGED vars
  BY <1>2, <1>7 DEF InstallBan, StampBan, LiftBan, FreeBan, ClockTick, vars
<1> QED
  BY <1>3, <1>4, <1>5, <1>6, <1>7 DEF Next, ClientStep, CleanerStep

(* What the NAT answers to a BAN (NATServer.c:476) is kept: the address is   *)
(* blocked for the seconds of the answer, counted from the ban's time, for   *)
(* any number of clients and bans, unless it was banned again meanwhile.    *)
THEOREM BansAreKept == Spec => []BanKept
<1>1. Init => AnswerInv
  BY DEF Init, AnswerInv, AnswerListed
<1>2. TypeInv /\ AnswerInv /\ BanEnforced => BanKept
  <2> SUFFICES ASSUME AnswerInv, BanEnforced, NEW t \in Client, answer[t] # NoAnswer,
                      now < answer[t].at + answer[t].ttl, answer[t].ip \notin renewed
               PROVE  rules[answer[t].ip] > 0
    BY DEF BanKept
  <2>1. answer[t].ttl = PERIOD
    BY DEF AnswerInv, AnswerListed, Kept
  <2>2. PICK i \in 1..Len(list) : list[i].ip = answer[t].ip
    BY <2>1 DEF AnswerInv, AnswerListed
  <2> QED BY <2>2 DEF BanEnforced
<1>3. TypeInv /\ AnswerInv /\ [Next]_vars => AnswerInv'
  BY AnswerStep
<1> QED BY <1>1, <1>2, <1>3, BansAreEnforced, Typed, PTL DEF Spec
-----------------------------------------------------------------------------
(* The list as a queue.  removed collects the bans the remover has popped    *)
(* since the process started; it is watched, never read.                    *)
VARIABLE removed

Record == removed' = IF Restart THEN {}
                     ELSE IF Expire THEN removed \cup {Head(list)} ELSE removed
WatchedSpec == Spec /\ removed = {} /\ [][Record]_<<vars, removed>>

Queue == INSTANCE ElementQueue WITH Element <- Ban, items <- list

(* From one start of the process to the next.                                *)
UsedAsQueue == Queue!Init /\ [][Queue!Next \/ Queue!Init']_(Queue!vars)

(* Every ban has a number of its own: one that is being made is nowhere else. *)
BansApart ==
  /\ \A i \in 1..Len(list) : list[i].id <= received
  /\ \A b \in removed : b \in Ban /\ b.id <= received
  /\ \A t \in Client : InProgress(t) =>
       /\ map[t].id <= received
       /\ \A i \in 1..Len(list) : list[i].id # map[t].id
       /\ \A b \in removed : b.id # map[t].id
       /\ \A u \in Client \ {t} : InProgress(u) => map[u].id # map[t].id

(* A ban that is being made after a step was being made before, under the    *)
(* same number, or has the number of the request just received.             *)
LEMMA ProgressStep ==
  ASSUME TypeInv, [Next]_vars, NEW t \in Client, InProgress(t)'
  PROVE  \/ InProgress(t) /\ map'[t].id = map[t].id
         \/ /\ map'[t].id = received + 1 /\ received' = received + 1
            /\ ~InProgress(t)
            /\ \A u \in Client \ {t} : map'[u] = map[u] /\ pc'[u] = pc[u]
<1> USE DEF listVars, ruleVars
<1>1. ASSUME NEW u \in Client, NEW ip \in IPs, ReceiveBan(u, ip)
      PROVE  \/ InProgress(t) /\ map'[t].id = map[t].id
             \/ /\ map'[t].id = received + 1 /\ received' = received + 1
                /\ ~InProgress(t)
                /\ \A v \in Client \ {t} : map'[v] = map[v] /\ pc'[v] = pc[v]
  <2>1. \A v \in Client \ {u} : map'[v] = map[v] /\ pc'[v] = pc[v]
    BY <1>1 DEF ReceiveBan, TypeInv, TypeOK
  <2>2. /\ map'[u].id = received + 1 /\ received' = received + 1
        /\ ~InProgress(u)
    BY <1>1 DEF ReceiveBan, InProgress, TypeInv, TypeOK
  <2> QED BY <2>1, <2>2 DEF InProgress
<1>2. ASSUME NEW u \in Client, InstallBan(u) \/ InsertBan(u)
      PROVE  InProgress(t) /\ map'[t].id = map[t].id
  <2>1. CASE InstallBan(u)
    BY <2>1 DEF InstallBan, InProgress
  <2>2. CASE InsertBan(u)
    <3>1. u # t
      BY <2>2 DEF InsertBan, InProgress, TypeInv, TypeOK
    <3> QED BY <2>2, <3>1 DEF InsertBan, InProgress, TypeInv, TypeOK
  <2> QED BY <1>2, <2>1, <2>2
<1>3. ASSUME NEW u \in Client, StampBan(u)
      PROVE  InProgress(t) /\ map'[t].id = map[t].id
  <2>1. InProgress(u) /\ map[u] \in Ban
    BY <1>3 DEF StampBan, InProgress, TypeInv, BansMade
  <2>2. /\ map' = [map EXCEPT ![u] = [@ EXCEPT !.time = now]]
        /\ pc' = [pc EXCEPT ![u] = "stamped"]
    BY <1>3 DEF StampBan
  <2>3. map'[u].id = map[u].id
    BY <2>1, <2>2 DEF TypeInv, TypeOK, Ban
  <2> QED BY <2>1, <2>2, <2>3 DEF InProgress, TypeInv, TypeOK
<1>4. CASE CleanerStep \/ ClockTick \/ UNCHANGED vars
  BY <1>4 DEF CleanerStep, Expire, LiftBan, FreeBan, ClockTick, vars, InProgress
<1>5. CASE Restart
  BY <1>5 DEF Restart, InProgress
<1> QED BY <1>1, <1>2, <1>3, <1>4, <1>5 DEF Next, ClientStep

LEMMA ReceivedGrows ==
  ASSUME TypeInv, [Next]_vars
  PROVE  received \in Nat /\ received' \in Nat /\ received <= received'
<1>1. received \in Nat
  BY BoundsAreNat DEF TypeInv, TypeOK
<1>2. received' = received \/ received' = received + 1
  BY DEF Next, vars, listVars, ClientStep, CleanerStep, ReceiveBan, InstallBan,
     StampBan, InsertBan, Expire, LiftBan, FreeBan, ClockTick, Restart
<1> QED BY <1>1, <1>2

(* The list changes by an insertion, a pop or a restart, and by nothing else. *)
LEMMA ListChanges ==
  ASSUME [Next]_vars
  PROVE  \/ list' = list \/ Expire \/ Restart
         \/ \E t \in Client : InsertBan(t)
BY DEF Next, vars, listVars, ClientStep, CleanerStep, ReceiveBan, InstallBan,
   StampBan, LiftBan, FreeBan, ClockTick

(* What is listed or removed after a step was so before, or is the ban of    *)
(* the client that inserts it.                                              *)
LEMMA ElementsStep ==
  ASSUME TypeInv, BansApart, [Next]_vars, [Record]_<<vars, removed>>
  PROVE  /\ \A i \in 1..Len(list') :
              \/ \E j \in 1..Len(list) : list'[i] = list[j]
              \/ \E t \in Client : InsertBan(t) /\ list'[i] = map[t] /\ map[t] \in Ban
         /\ \A b \in removed' : b \in removed \/ \E j \in 1..Len(list) : b = list[j] /\ b \in Ban
<1>1. ASSUME NEW i \in 1..Len(list')
      PROVE  \/ \E j \in 1..Len(list) : list'[i] = list[j]
             \/ \E t \in Client : InsertBan(t) /\ list'[i] = map[t] /\ map[t] \in Ban
  <2>1. CASE list' = list
    BY <1>1, <2>1
  <2>2. CASE Expire
    <3>1. /\ Len(list) \in Nat /\ Len(list') = Len(list) - 1
          /\ \A k \in 1..Len(list') : list'[k] = list[k+1]
      BY <2>2, ListStep
    <3>2. i + 1 \in 1..Len(list)
      BY <1>1, <3>1
    <3> QED BY <1>1, <3>1, <3>2
  <2>3. CASE Restart
    BY <1>1, <2>3 DEF Restart
  <2>4. ASSUME NEW t \in Client, InsertBan(t)
        PROVE  \/ \E j \in 1..Len(list) : list'[i] = list[j]
               \/ list'[i] = map[t] /\ map[t] \in Ban
    <3>1. /\ Len(list) \in Nat /\ map[t] \in Ban /\ Len(list') = Len(list) + 1
          /\ list'[Len(list) + 1] = map[t]
          /\ \A k \in 1..Len(list) : list'[k] = list[k]
      BY <2>4, ListStep
    <3>2. i \in 1..Len(list) \/ i = Len(list) + 1
      BY <1>1, <3>1
    <3> QED BY <3>1, <3>2
  <2> QED BY <2>1, <2>2, <2>3, <2>4, ListChanges
<1>2. ASSUME NEW b \in removed', b \notin removed
      PROVE  \E j \in 1..Len(list) : b = list[j] /\ b \in Ban
  <2>1. Expire /\ b = Head(list) /\ list # << >>
    BY <1>2 DEF Record, Expire, PopExpired
  <2>2. b = list[1] /\ 1 \in 1..Len(list) /\ b \in Ban
    BY <2>1, HeadAndTail DEF TypeInv, TypeOK
  <2> QED BY <2>2
<1> QED BY <1>1, <1>2

LEMMA BansApartStep ==
  ASSUME TypeInv, BansApart, [Next]_vars, [Record]_<<vars, removed>>
  PROVE  BansApart'
<1>1. received \in Nat /\ received' \in Nat /\ received <= received'
  BY ReceivedGrows
<1>2. \A i \in 1..Len(list) : list[i] \in Ban /\ list[i].id \in Nat
  BY ListStep, BanFields DEF TypeInv, TypeOK
<1>3. \A t \in Client : InProgress(t) => map[t] \in Ban /\ map[t].id \in Nat
  BY BanFields DEF TypeInv, BansMade
<1>4. \A i \in 1..Len(list') :
        /\ list'[i].id \in Nat /\ list'[i].id <= received
        /\ \A t \in Client : InProgress(t) /\ InProgress(t)' => list'[i].id # map[t].id
  <2>1. ASSUME NEW t \in Client, InsertBan(t)
        PROVE  /\ InProgress(t) /\ map[t].id \in Nat /\ map[t].id <= received
               /\ \A u \in Client : InProgress(u) /\ InProgress(u)' => map[t].id # map[u].id
    <3>1. InProgress(t) /\ ~InProgress(t)'
      BY <2>1 DEF InsertBan, InProgress, TypeInv, TypeOK
    <3> QED BY <1>3, <3>1 DEF BansApart
  <2> QED BY <1>2, <2>1, ElementsStep DEF BansApart
<1>5. \A b \in removed' :
        /\ b \in Ban /\ b.id \in Nat /\ b.id <= received
        /\ \A t \in Client : InProgress(t) => b.id # map[t].id
  BY ElementsStep, BanFields DEF BansApart
<1>6. ASSUME NEW n \in Nat, n <= received
      PROVE  n <= received' /\ n # received + 1
  BY <1>1, <1>6
<1>7. ASSUME NEW t \in Client, InProgress(t)'
      PROVE  /\ map'[t].id <= received'
             /\ \A i \in 1..Len(list') : list'[i].id # map'[t].id
             /\ \A b \in removed' : b.id # map'[t].id
             /\ \A u \in Client \ {t} : InProgress(u)' => map'[u].id # map'[t].id
  <2>1. CASE InProgress(t) /\ map'[t].id = map[t].id
    <3>1. map[t].id \in Nat /\ map[t].id <= received
      BY <1>3, <2>1 DEF BansApart
    <3>2. ASSUME NEW u \in Client \ {t}, InProgress(u)' PROVE map'[u].id # map'[t].id
      <4>1. \/ InProgress(u) /\ map'[u].id = map[u].id
            \/ map'[u].id = received + 1
        BY <3>2, ProgressStep
      <4> QED BY <1>6, <2>1, <3>1, <4>1 DEF BansApart
    <3> QED BY <1>4, <1>5, <1>6, <1>7, <2>1, <3>1, <3>2
  <2>2. CASE /\ map'[t].id = received + 1 /\ received' = received + 1
             /\ ~InProgress(t)
             /\ \A u \in Client \ {t} : map'[u] = map[u] /\ pc'[u] = pc[u]
    <3>1. ASSUME NEW u \in Client \ {t}, InProgress(u)' PROVE map'[u].id # map'[t].id
      <4>1. InProgress(u) /\ map'[u] = map[u]
        BY <2>2, <3>1 DEF InProgress
      <4>2. map[u].id \in Nat /\ map[u].id <= received
        BY <1>3, <4>1 DEF BansApart
      <4> QED BY <1>6, <2>2, <4>1, <4>2
    <3>2. map'[t].id <= received'
      BY <1>1, <2>2
    <3>3. \A n \in Nat : n <= received => n # map'[t].id
      BY <1>6, <2>2
    <3> QED BY <1>4, <1>5, <3>1, <3>2, <3>3
  <2> QED BY <1>7, <2>1, <2>2, ProgressStep
<1>8. /\ \A i \in 1..Len(list') : list'[i].id <= received'
      /\ \A b \in removed' : b \in Ban /\ b.id <= received'
  BY <1>4, <1>5, <1>6
<1> QED BY <1>7, <1>8 DEF BansApart

LEMMA QueueStep ==
  ASSUME TypeInv, BansApart, [Next]_vars, [Record]_<<vars, removed>>
  PROVE  [Queue!Next \/ Queue!Init']_(Queue!vars)
<1>1. CASE UNCHANGED <<vars, removed>>
  BY <1>1 DEF vars, Queue!vars
<1>2. CASE Record /\ Restart
  BY <1>2 DEF Record, Restart, Queue!Init
<1>3. CASE Record /\ ~Restart /\ Expire
  BY <1>3 DEF Record, Expire, PopExpired, Queue!Next, Queue!Remove
<1>4. CASE Record /\ ~Restart /\ ~Expire
  <2>1. removed' = removed
    BY <1>4 DEF Record
  <2>2. ASSUME NEW t \in Client, InsertBan(t) PROVE Queue!Next
    <3>1. InProgress(t) /\ list' = Append(list, map[t]) /\ map[t] \in Ban
      BY <2>2 DEF InsertBan, InProgress, TypeInv, BansMade
    <3>2. map[t] \notin removed /\ \A i \in 1..Len(list) : list[i] # map[t]
      BY <3>1 DEF BansApart
    <3> QED BY <2>1, <3>1, <3>2 DEF Queue!Next, Queue!Insert
  <2>3. list' = list \/ \E t \in Client : InsertBan(t)
    BY <1>4, ListChanges
  <2> QED BY <2>1, <2>2, <2>3 DEF Queue!vars
<1> QED BY <1>1, <1>2, <1>3, <1>4

(* From one start of the process to the next the threads use the list of     *)
(* bans as the queue ElementQueue describes: no ban is put in that is listed *)
(* or was taken out (NATServer.c:485 and :637), and they rely on no more     *)
(* than what LinkedList does under one lock.                                 *)
THEOREM ListIsUsedAsQueue == WatchedSpec => UsedAsQueue
<1>1. Init /\ removed = {} => Queue!Init /\ BansApart
  BY DEF Init, Queue!Init, BansApart, InProgress
<1>2. TypeInv /\ BansApart /\ [Next]_vars /\ [Record]_<<vars, removed>> => BansApart'
  BY BansApartStep
<1>3. TypeInv /\ BansApart /\ [Next]_vars /\ [Record]_<<vars, removed>>
        => [Queue!Next \/ Queue!Init']_(Queue!vars)
  BY QueueStep
<1> QED BY <1>1, <1>2, <1>3, Typed, PTL DEF Spec, WatchedSpec, UsedAsQueue
=============================================================================
