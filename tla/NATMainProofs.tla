---------------------------- MODULE NATMainProofs ----------------------------
(***************************************************************************)
(* The safety of the NAT's main thread, for any number of starts, any peers *)
(* and any rules an administrator put up: proved from one inductive         *)
(* invariant.                                                               *)
(***************************************************************************)
EXTENDS NATMain, TLAPS

(* The policy follows the line the thread is at; a process that was cut off  *)
(* may have left either.                                                    *)
PolicyFollows ==
  /\ pc \in {"test", "listen", "accept", "spawn", "open"} => policy = "DROP"
  /\ pc = "delete" => policy = "ACCEPT"

(* What the calls of a script that are over have done                        *)
InsertsDone ==
  pc = "insert" => \A i \in 1..4 : i < at[Main] => rules[InsertScript[i].rule] > 0
DeletesDone ==
  pc = "delete" => \A i \in 1..4 : i < at[Main] => rules[DeleteScript[i].rule] = 0

(* Nobody else changes the access rules between the two iptables processes.  *)
AnswerHolds ==
  /\ pc = "insert" /\ applying[Main] => at[Main] <= 4 /\ rules[InsertScript[at[Main]].rule] = 0
  /\ pc = "delete" /\ applying[Main] => at[Main] <= 4 /\ rules[DeleteScript[at[Main]].rule] > 0

EndedIsDown == status = "exit" => pc = "down"

NotYetOpen == pc \in {"down", "insert"} => ~listening /\ conn = NobodyConnected

(* A stranger gets as far as the queue of the socket, and only in a shutdown *)
StrangersOut ==
  \A p \in Peer \ AccessRule : conn[p] = "out" \/ (pc = "delete" /\ conn[p] = "pending")

QuitAfterOne ==
  /\ overrun \in 0..1
  /\ overrun = 1 => quit /\ pc \in {"spawn", "test", "open", "delete"}

IInv ==
  /\ TypeOK
  /\ PolicyFollows
  /\ NeverLockedOut
  /\ InsertsDone
  /\ DeletesDone
  /\ AnswerHolds
  /\ EndedIsDown
  /\ CleanExit
  /\ NotYetOpen
  /\ StrangersOut
  /\ QuitAfterOne
-----------------------------------------------------------------------------
LEMMA Inserts ==
  /\ Len(InsertScript) = 4
  /\ \A i \in 1..4 : InsertScript[i].command = "-A" /\ InsertScript[i].rule \in AccessRule
  /\ \A r \in AccessRule : \E i \in 1..4 : InsertScript[i].rule = r
BY DEF InsertScript, AddRule, AccessRule

LEMMA Deletes ==
  /\ Len(DeleteScript) = 4
  /\ \A i \in 1..4 : DeleteScript[i].command = "-D" /\ DeleteScript[i].rule \in AccessRule
  /\ \A r \in AccessRule : \E i \in 1..4 : DeleteScript[i].rule = r
BY DEF DeleteScript, DeleteRule, AccessRule

LEMMA Initially == Init => IInv
<1> SUFFICES ASSUME Init PROVE IInv
  OBVIOUS
<1>1. at \in [{Main} -> 1..5] /\ applying \in [{Main} -> BOOLEAN]
  BY DEF Init
<1>2. conn \in [Peer -> {"out", "pending", "accepted", "served", "neglected"}]
  BY DEF Init, NobodyConnected
<1>3. starts \in 0..MaxStarts /\ overrun \in Nat
  BY MaxStartsIsNat DEF Init
<1>4. TypeOK
  BY <1>1, <1>2, <1>3 DEF Init, TypeOK
<1>5. StrangersOut
  BY DEF Init, StrangersOut, NobodyConnected
<1> QED
  BY <1>4, <1>5 DEF Init, IInv, PolicyFollows, NeverLockedOut, InsertsDone, DeletesDone,
     AnswerHolds, EndedIsDown, CleanExit, NotYetOpen, QuitAfterOne
-----------------------------------------------------------------------------
(* The rules stay 0 or 1 copies each: the thread appends what was absent and *)
(* deletes what was there.                                                  *)
LEMMA CheckTyped ==
  ASSUME TypeOK, NEW script, Len(script) = 4, CheckRule(Main, script)
  PROVE  /\ rules' = rules
         /\ at' \in [{Main} -> 1..5] /\ applying' \in [{Main} -> BOOLEAN]
<1>1. at[Main] \in 1..4 /\ at[Main] + 1 \in 1..5
  BY DEF CheckRule, TypeOK
<1> QED BY <1>1 DEF CheckRule, NextCall, TypeOK

LEMMA ApplyTyped ==
  ASSUME TypeOK, NEW script, Len(script) = 4, ApplyRule(Main, script),
         script[at[Main]].rule \in AccessRule,
         \/ script[at[Main]].command = "-A" /\ rules[script[at[Main]].rule] = 0
         \/ script[at[Main]].command = "-D"
  PROVE  /\ rules' \in [AccessRule -> 0..1]
         /\ at' \in [{Main} -> 1..5] /\ applying' \in [{Main} -> BOOLEAN]
<1>1. at[Main] \in 1..4 /\ at[Main] + 1 \in 1..5
  BY DEF ApplyRule, TypeOK
<1>2. Applied(script[at[Main]], rules[script[at[Main]].rule]) \in 0..1
  BY DEF Applied, TypeOK
<1>3. rules' \in [AccessRule -> 0..1]
  BY <1>2 DEF ApplyRule, TypeOK
<1> QED BY <1>1, <1>3 DEF ApplyRule, NextCall, TypeOK

LEMMA EndTyped == ASSUME TypeOK, NEW how \in {"exit", "crash"}, End(how) PROVE TypeOK'
<1>1. at' \in [{Main} -> 1..5] /\ applying' \in [{Main} -> BOOLEAN]
  BY DEF End, BeginScript
<1>2. conn' \in [Peer -> {"out", "pending", "accepted", "served", "neglected"}]
  BY DEF End, NobodyConnected
<1> QED BY <1>1, <1>2 DEF End, Goto, TypeOK

LEMMA TypePreserved == TypeOK /\ AnswerHolds /\ [Next]_vars => TypeOK'
<1> SUFFICES ASSUME TypeOK, AnswerHolds, [Next]_vars PROVE TypeOK'
  OBVIOUS
<1> DEFINE States == {"out", "pending", "accepted", "served", "neglected"}
<1>1. CASE Start
  <2>1. at' \in [{Main} -> 1..5] /\ applying' \in [{Main} -> BOOLEAN]
    BY <1>1 DEF Start, BeginScript
  <2>2. starts' \in 0..MaxStarts
    BY <1>1, MaxStartsIsNat DEF Start, TypeOK
  <2> QED BY <1>1, <2>1, <2>2 DEF Start, Goto, TypeOK
<1>2. CASE InsertRules
  <2>1. CASE CheckRule(Main, InsertScript)
    BY <1>2, <2>1, CheckTyped, Inserts DEF InsertRules, mainVars, historyVars, TypeOK
  <2>2. CASE ApplyRule(Main, InsertScript)
    <3>1. at[Main] \in 1..4 /\ rules[InsertScript[at[Main]].rule] = 0
      BY <1>2, <2>2, Inserts DEF InsertRules, ApplyRule, AnswerHolds, TypeOK
    <3>2. /\ rules' \in [AccessRule -> 0..1]
          /\ at' \in [{Main} -> 1..5] /\ applying' \in [{Main} -> BOOLEAN]
      BY <2>2, <3>1, ApplyTyped, Inserts
    <3> QED BY <1>2, <3>2 DEF InsertRules, mainVars, historyVars, TypeOK
  <2> QED BY <1>2, <2>1, <2>2 DEF InsertRules
<1>3. CASE DeleteRules
  <2>1. CASE CheckRule(Main, DeleteScript)
    BY <1>3, <2>1, CheckTyped, Deletes DEF DeleteRules, mainVars, historyVars, TypeOK
  <2>2. CASE ApplyRule(Main, DeleteScript)
    <3>1. at[Main] \in 1..4
      BY <2>2, Deletes DEF ApplyRule, TypeOK
    <3>2. /\ rules' \in [AccessRule -> 0..1]
          /\ at' \in [{Main} -> 1..5] /\ applying' \in [{Main} -> BOOLEAN]
      BY <2>2, <3>1, ApplyTyped, Deletes
    <3> QED BY <1>3, <3>2 DEF DeleteRules, mainVars, historyVars, TypeOK
  <2> QED BY <1>3, <2>1, <2>2 DEF DeleteRules
<1>4. CASE DropOthers \/ TestQuit \/ CallAccept \/ AcceptFails
  BY <1>4 DEF DropOthers, TestQuit, CallAccept, AcceptFails, Goto, ruleVars, historyVars, TypeOK
<1>5. ASSUME NEW p \in Peer, Accept(p) PROVE TypeOK'
  <2>1. conn' \in [Peer -> States]
    BY <1>5 DEF Accept, TypeOK
  <2>2. overrun' \in Nat
    BY <1>5 DEF Accept, TypeOK
  <2> QED BY <1>5, <2>1, <2>2 DEF Accept, Goto, ruleVars, TypeOK
<1>6. ASSUME NEW p \in Peer, CreateThread(p) PROVE TypeOK'
  <2>1. conn' \in [Peer -> States]
    BY <1>6 DEF CreateThread, TypeOK
  <2> QED BY <1>6, <2>1 DEF CreateThread, Goto, ruleVars, historyVars, TypeOK
<1>7. CASE AdmitOthers
  <2>1. at' \in [{Main} -> 1..5] /\ applying' \in [{Main} -> BOOLEAN]
    BY <1>7 DEF AdmitOthers, BeginScript
  <2> QED BY <1>7, <2>1 DEF AdmitOthers, Goto, historyVars, TypeOK
<1>8. CASE Exit \/ Crash
  BY <1>8, EndTyped DEF Exit, Crash
<1>9. CASE Sigint
  <2>1. missed' \in BOOLEAN
    BY <1>9 DEF Sigint, TypeOK
  <2>2. pc' \in {"down", "insert", "test", "listen", "accept", "spawn", "open", "delete"}
    BY <1>9 DEF Sigint, Goto, TypeOK
  <2> QED BY <1>9, <2>1, <2>2 DEF Sigint, ruleVars, TypeOK
<1>10. ASSUME NEW p \in Peer, Connect(p) \/ Leave(p) PROVE TypeOK'
  <2>1. conn' \in [Peer -> States]
    BY <1>10 DEF Connect, Leave, TypeOK
  <2> QED BY <1>10, <2>1 DEF Connect, Leave, ruleVars, mainVars, historyVars, TypeOK
<1>11. CASE UNCHANGED vars
  BY <1>11 DEF vars, ruleVars, mainVars, historyVars, TypeOK
<1> QED
  BY <1>1, <1>2, <1>3, <1>4, <1>5, <1>6, <1>7, <1>8, <1>9, <1>10, <1>11 DEF Next, MainStep
-----------------------------------------------------------------------------
LEMMA PolicyPreserved == TypeOK /\ PolicyFollows /\ [Next]_vars => PolicyFollows'
<1> SUFFICES ASSUME TypeOK, PolicyFollows, [Next]_vars PROVE PolicyFollows'
  OBVIOUS
<1> USE DEF PolicyFollows, Goto
<1>1. CASE Start
  BY <1>1 DEF Start
<1>2. CASE InsertRules \/ DeleteRules
  BY <1>2 DEF InsertRules, DeleteRules, mainVars
<1>3. CASE DropOthers \/ TestQuit \/ CallAccept \/ AcceptFails \/ AdmitOthers
  BY <1>3 DEF DropOthers, TestQuit, CallAccept, AcceptFails, AdmitOthers
<1>4. ASSUME NEW p \in Peer, Accept(p) \/ CreateThread(p) PROVE PolicyFollows'
  BY <1>4 DEF Accept, CreateThread
<1>5. CASE Exit \/ Crash
  BY <1>5 DEF Exit, Crash, End
<1>6. CASE Sigint
  BY <1>6 DEF Sigint
<1>7. ASSUME NEW p \in Peer, Connect(p) \/ Leave(p) PROVE PolicyFollows'
  BY <1>7 DEF Connect, Leave, mainVars
<1>8. CASE UNCHANGED vars
  BY <1>8 DEF vars, mainVars
<1> QED BY <1>1, <1>2, <1>3, <1>4, <1>5, <1>6, <1>7, <1>8 DEF Next, MainStep
-----------------------------------------------------------------------------
(* Policy and rules together                                                 *)
RulesRight == NeverLockedOut /\ InsertsDone /\ DeletesDone /\ AnswerHolds

(* A step in which the thread neither begins nor runs a script               *)
LEMMA RulesKept ==
  ASSUME RulesRight, rules' = rules, at' = at, applying' = applying,
         policy' = policy, pc' = pc \/ pc' \notin {"insert", "delete"}
  PROVE  RulesRight'
BY DEF RulesRight, NeverLockedOut, InsertsDone, DeletesDone, AnswerHolds

LEMMA InsertingIsSafe ==
  ASSUME TypeOK, RulesRight, InsertRules
  PROVE  RulesRight'
<1> DEFINE i == at[Main]
           r == InsertScript[i].rule
<1>1. pc = "insert" /\ pc' = pc /\ policy' = policy
  BY DEF InsertRules, mainVars
<1>2. i \in 1..5 /\ DOMAIN at = {Main} /\ DOMAIN applying = {Main}
  BY DEF TypeOK
<1>3. CASE CheckRule(Main, InsertScript)
  <2>1. i \in 1..4 /\ rules' = rules /\ InsertScript[i].command = "-A"
    BY <1>2, <1>3, Inserts DEF CheckRule
  <2>2. CASE rules[r] = 0
    <3>1. at' = at /\ applying'[Main]
      BY <1>2, <1>3, <2>1, <2>2 DEF CheckRule, Wanted
    <3> QED BY <1>1, <2>1, <2>2, <3>1 DEF RulesRight, NeverLockedOut, InsertsDone,
              DeletesDone, AnswerHolds
  <2>3. CASE rules[r] # 0
    <3>1. at'[Main] = i + 1 /\ applying' = applying /\ ~applying[Main]
      BY <1>2, <1>3, <2>1, <2>3 DEF CheckRule, Wanted, NextCall
    <3>2. rules[r] > 0
      BY <2>1, <2>3, Inserts DEF TypeOK
    <3>3. InsertsDone'
      BY <1>1, <2>1, <3>1, <3>2 DEF RulesRight, InsertsDone
    <3> QED BY <1>1, <2>1, <3>1, <3>3 DEF RulesRight, NeverLockedOut, DeletesDone, AnswerHolds
  <2> QED BY <2>2, <2>3
<1>4. CASE ApplyRule(Main, InsertScript)
  <2>1. i \in 1..4 /\ r \in AccessRule /\ InsertScript[i].command = "-A"
    BY <1>2, <1>4, Inserts DEF ApplyRule
  <2>2. /\ rules' = [rules EXCEPT ![r] = @ + 1]
        /\ at'[Main] = i + 1 /\ ~applying'[Main]
    BY <1>2, <1>4, <2>1 DEF ApplyRule, Applied, NextCall
  <2>3. \A q \in AccessRule : rules'[q] >= rules[q] /\ rules'[r] > 0 /\ rules[q] \in 0..1
                                /\ rules'[q] \in Int
    BY <2>1, <2>2 DEF TypeOK
  <2>4. NeverLockedOut'
    BY <1>1, <2>3 DEF RulesRight, NeverLockedOut
  <2>5. InsertsDone'
    <3> SUFFICES ASSUME NEW j \in 1..4, j < i + 1 PROVE rules'[InsertScript[j].rule] > 0
      BY <1>1, <2>2 DEF InsertsDone
    <3>1. j = i \/ rules[InsertScript[j].rule] > 0
      BY <1>1, <2>1 DEF RulesRight, InsertsDone
    <3>2. InsertScript[j].rule \in AccessRule /\ rules'[InsertScript[j].rule] \in Int
      BY <2>1, <2>2, Inserts DEF TypeOK
    <3> QED BY <2>3, <3>1, <3>2
  <2> QED BY <1>1, <2>2, <2>4, <2>5 DEF RulesRight, DeletesDone, AnswerHolds
<1> QED BY <1>3, <1>4 DEF InsertRules

LEMMA DeletingIsSafe ==
  ASSUME TypeOK, PolicyFollows, RulesRight, DeleteRules
  PROVE  RulesRight'
<1> DEFINE i == at[Main]
           r == DeleteScript[i].rule
<1>1. pc = "delete" /\ pc' = pc /\ policy' = "ACCEPT"
  BY DEF DeleteRules, mainVars, PolicyFollows
<1>2. i \in 1..5 /\ DOMAIN at = {Main} /\ DOMAIN applying = {Main}
  BY DEF TypeOK
<1>3. CASE CheckRule(Main, DeleteScript)
  <2>1. i \in 1..4 /\ rules' = rules /\ DeleteScript[i].command = "-D"
    BY <1>2, <1>3, Deletes DEF CheckRule
  <2>2. CASE rules[r] # 0
    <3>1. at' = at /\ applying'[Main]
      BY <1>2, <1>3, <2>1, <2>2 DEF CheckRule, Wanted
    <3>2. rules[r] > 0
      BY <2>1, <2>2, Deletes DEF TypeOK
    <3> QED BY <1>1, <2>1, <3>1, <3>2 DEF RulesRight, NeverLockedOut, InsertsDone,
              DeletesDone, AnswerHolds
  <2>3. CASE rules[r] = 0
    <3>1. at'[Main] = i + 1 /\ applying' = applying /\ ~applying[Main]
      BY <1>2, <1>3, <2>1, <2>3 DEF CheckRule, Wanted, NextCall
    <3>2. DeletesDone'
      BY <1>1, <2>1, <2>3, <3>1 DEF RulesRight, DeletesDone
    <3> QED BY <1>1, <2>1, <3>1, <3>2 DEF RulesRight, NeverLockedOut, InsertsDone, AnswerHolds
  <2> QED BY <2>2, <2>3
<1>4. CASE ApplyRule(Main, DeleteScript)
  <2>1. i \in 1..4 /\ r \in AccessRule /\ DeleteScript[i].command = "-D"
    BY <1>2, <1>4, Deletes DEF ApplyRule
  <2>2. rules[r] = 1
    BY <1>1, <1>4, <2>1 DEF ApplyRule, RulesRight, AnswerHolds, TypeOK
  <2>3. /\ rules' = [rules EXCEPT ![r] = 0]
        /\ at'[Main] = i + 1 /\ ~applying'[Main]
    BY <1>2, <1>4, <2>1, <2>2 DEF ApplyRule, Applied, NextCall, TypeOK
  <2>4. DeletesDone'
    <3> SUFFICES ASSUME NEW j \in 1..4, j < i + 1 PROVE rules'[DeleteScript[j].rule] = 0
      BY <1>1, <2>3 DEF DeletesDone
    <3>1. j = i \/ rules[DeleteScript[j].rule] = 0
      BY <1>1, <2>1 DEF RulesRight, DeletesDone
    <3> QED BY <2>1, <2>3, <3>1, Deletes DEF TypeOK
  <2> QED BY <1>1, <2>3, <2>4 DEF RulesRight, NeverLockedOut, InsertsDone, AnswerHolds
<1> QED BY <1>3, <1>4 DEF DeleteRules

LEMMA RulesPreserved == TypeOK /\ PolicyFollows /\ RulesRight /\ [Next]_vars => RulesRight'
<1> SUFFICES ASSUME TypeOK, PolicyFollows, RulesRight, [Next]_vars PROVE RulesRight'
  OBVIOUS
<1>1. CASE Start
  BY <1>1 DEF Start, BeginScript, Goto, RulesRight, NeverLockedOut, InsertsDone, DeletesDone,
     AnswerHolds
<1>2. CASE InsertRules
  BY <1>2, InsertingIsSafe
<1>3. CASE DeleteRules
  BY <1>3, DeletingIsSafe
<1>4. CASE DropOthers
  <2>1. pc = "insert" /\ rules' = rules /\ pc' = "test"
    BY <1>4 DEF DropOthers, ruleVars, Goto
  <2>2. at[Main] > 4
    BY <1>4, Inserts DEF DropOthers, ScriptDone
  <2>3. \A q \in AccessRule : rules[q] > 0
    BY <2>1, <2>2, Inserts DEF RulesRight, InsertsDone, TypeOK
  <2> QED BY <2>1, <2>3 DEF RulesRight, NeverLockedOut, InsertsDone, DeletesDone, AnswerHolds
<1>5. CASE TestQuit \/ CallAccept \/ AcceptFails
  BY <1>5, RulesKept DEF TestQuit, CallAccept, AcceptFails, Goto, ruleVars
<1>6. ASSUME NEW p \in Peer, Accept(p) \/ CreateThread(p) PROVE RulesRight'
  BY <1>6, RulesKept DEF Accept, CreateThread, Goto, ruleVars
<1>7. CASE AdmitOthers
  BY <1>7 DEF AdmitOthers, BeginScript, Goto, RulesRight, NeverLockedOut, InsertsDone,
     DeletesDone, AnswerHolds
<1>8. CASE Exit \/ Crash
  BY <1>8 DEF Exit, Crash, End, Goto, RulesRight, NeverLockedOut, InsertsDone, DeletesDone,
     AnswerHolds
<1>9. CASE Sigint
  BY <1>9, RulesKept DEF Sigint, Goto, ruleVars
<1>10. ASSUME NEW p \in Peer, Connect(p) \/ Leave(p) PROVE RulesRight'
  BY <1>10, RulesKept DEF Connect, Leave, ruleVars, mainVars
<1>11. CASE UNCHANGED vars
  BY <1>11, RulesKept DEF vars, ruleVars, mainVars
<1> QED
  BY <1>1, <1>2, <1>3, <1>4, <1>5, <1>6, <1>7, <1>8, <1>9, <1>10, <1>11 DEF Next, MainStep
-----------------------------------------------------------------------------
(* An orderly end, and what comes after it                                   *)
LEMMA EndPreserved ==
  TypeOK /\ PolicyFollows /\ RulesRight /\ EndedIsDown /\ CleanExit /\ [Next]_vars
    => EndedIsDown' /\ CleanExit'
<1> SUFFICES ASSUME TypeOK, PolicyFollows, RulesRight, EndedIsDown, CleanExit, [Next]_vars
             PROVE  EndedIsDown' /\ CleanExit'
  OBVIOUS
<1>1. CASE Exit
  <2>1. pc = "delete" /\ rules' = rules /\ policy' = policy /\ pc' = "down"
    BY <1>1 DEF Exit, End, Goto
  <2>2. at[Main] > 4
    BY <1>1, Deletes DEF Exit, ScriptDone
  <2>3. \A q \in AccessRule : rules[q] = 0
    BY <2>1, <2>2, Deletes DEF RulesRight, DeletesDone, TypeOK
  <2> QED BY <2>1, <2>3 DEF EndedIsDown, CleanExit, PolicyFollows
<1>2. CASE Start \/ Crash
  BY <1>2 DEF Start, Crash, End, EndedIsDown, CleanExit
<1>3. CASE InsertRules \/ DeleteRules \/ DropOthers \/ AdmitOthers
  BY <1>3 DEF InsertRules, DeleteRules, DropOthers, AdmitOthers, historyVars, EndedIsDown,
     CleanExit
<1>4. CASE TestQuit \/ CallAccept \/ AcceptFails \/ Sigint
  BY <1>4 DEF TestQuit, CallAccept, AcceptFails, Sigint, historyVars, EndedIsDown, CleanExit
<1>5. ASSUME NEW p \in Peer, Accept(p) \/ CreateThread(p) PROVE EndedIsDown' /\ CleanExit'
  BY <1>5 DEF Accept, CreateThread, historyVars, EndedIsDown, CleanExit
<1>6. ASSUME NEW p \in Peer, Connect(p) \/ Leave(p) PROVE EndedIsDown' /\ CleanExit'
  BY <1>6 DEF Connect, Leave, ruleVars, mainVars, historyVars, EndedIsDown, CleanExit
<1>7. CASE UNCHANGED vars
  BY <1>7 DEF vars, ruleVars, mainVars, historyVars, EndedIsDown, CleanExit
<1> QED BY <1>1, <1>2, <1>3, <1>4, <1>5, <1>6, <1>7 DEF Next, MainStep
-----------------------------------------------------------------------------
(* The socket takes connections only after the policy has become DROP, and   *)
(* the thread accepts none after it has become ACCEPT again.                 *)
PeersRight == NotYetOpen /\ StrangersOut

LEMMA PeersPreserved == TypeOK /\ PolicyFollows /\ PeersRight /\ [Next]_vars => PeersRight'
<1> SUFFICES ASSUME TypeOK, PolicyFollows, PeersRight, [Next]_vars PROVE PeersRight'
  OBVIOUS
<1> USE DEF PeersRight, NotYetOpen, StrangersOut, Goto
<1>1. CASE Start
  BY <1>1 DEF Start
<1>2. CASE InsertRules \/ DeleteRules
  BY <1>2 DEF InsertRules, DeleteRules, mainVars
<1>3. CASE DropOthers \/ TestQuit \/ CallAccept \/ AcceptFails \/ AdmitOthers
  BY <1>3 DEF DropOthers, TestQuit, CallAccept, AcceptFails, AdmitOthers
<1>4. ASSUME NEW p \in Peer, Accept(p) PROVE PeersRight'
  <2>1. p \in AccessRule
    BY <1>4 DEF Accept
  <2> QED BY <1>4, <2>1 DEF Accept, TypeOK
<1>5. ASSUME NEW p \in Peer, CreateThread(p) PROVE PeersRight'
  <2>1. p \in AccessRule
    BY <1>5 DEF CreateThread
  <2> QED BY <1>5, <2>1 DEF CreateThread, TypeOK
<1>6. CASE Exit \/ Crash
  BY <1>6 DEF Exit, Crash, End, NobodyConnected
<1>7. CASE Sigint
  BY <1>7 DEF Sigint
<1>8. ASSUME NEW p \in Peer, Connect(p) PROVE PeersRight'
  <2>1. pc \notin {"down", "insert"} /\ pc' = pc /\ listening' = listening
    BY <1>8 DEF Connect, mainVars
  <2>2. p \in AccessRule \/ pc = "delete"
    BY <1>8, <2>1 DEF Connect, Admitted, PolicyFollows, TypeOK
  <2> QED BY <1>8, <2>1, <2>2 DEF Connect, TypeOK
<1>9. ASSUME NEW p \in Peer, Leave(p) PROVE PeersRight'
  <2>1. /\ p \in AccessRule /\ pc' = pc /\ listening' = listening
        /\ pc \notin {"down", "insert"}
    BY <1>9 DEF Leave, mainVars, NobodyConnected
  <2> QED BY <1>9, <2>1 DEF Leave, TypeOK
<1>10. CASE UNCHANGED vars
  BY <1>10 DEF vars, mainVars
<1> QED
  BY <1>1, <1>2, <1>3, <1>4, <1>5, <1>6, <1>7, <1>8, <1>9, <1>10 DEF Next, MainStep
-----------------------------------------------------------------------------
LEMMA QuitPreserved == TypeOK /\ QuitAfterOne /\ [Next]_vars => QuitAfterOne'
<1> SUFFICES ASSUME TypeOK, QuitAfterOne, [Next]_vars PROVE QuitAfterOne'
  OBVIOUS
<1> USE DEF QuitAfterOne, Goto
<1>1. CASE Start
  BY <1>1 DEF Start
<1>2. CASE InsertRules \/ DeleteRules
  BY <1>2 DEF InsertRules, DeleteRules, mainVars, historyVars
<1>3. CASE DropOthers \/ TestQuit \/ CallAccept \/ AcceptFails \/ AdmitOthers
  BY <1>3 DEF DropOthers, TestQuit, CallAccept, AcceptFails, AdmitOthers, historyVars
<1>4. ASSUME NEW p \in Peer, Accept(p) PROVE QuitAfterOne'
  BY <1>4 DEF Accept
<1>5. ASSUME NEW p \in Peer, CreateThread(p) PROVE QuitAfterOne'
  BY <1>5 DEF CreateThread, historyVars
<1>6. CASE Exit \/ Crash
  BY <1>6 DEF Exit, Crash, End
<1>7. CASE Sigint
  BY <1>7 DEF Sigint
<1>8. ASSUME NEW p \in Peer, Connect(p) \/ Leave(p) PROVE QuitAfterOne'
  BY <1>8 DEF Connect, Leave, mainVars, historyVars
<1>9. CASE UNCHANGED vars
  BY <1>9 DEF vars, mainVars, historyVars
<1> QED BY <1>1, <1>2, <1>3, <1>4, <1>5, <1>6, <1>7, <1>8, <1>9 DEF Next, MainStep
-----------------------------------------------------------------------------
LEMMA Invariance == Spec => []IInv
<1>1. IInv /\ [Next]_vars => IInv'
  BY TypePreserved, PolicyPreserved, RulesPreserved, EndPreserved, PeersPreserved, QuitPreserved
     DEF IInv, RulesRight, PeersRight
<1> QED BY <1>1, Initially, PTL DEF Spec

(* Every variable keeps its type, whatever rules the first process finds and *)
(* wherever a signal or a second start cuts a process off.                   *)
THEOREM TypeCorrect == Spec => []TypeOK
<1>1. IInv => TypeOK
  BY DEF IInv
<1> QED BY <1>1, Invariance, PTL

(* Nobody is locked out, however many processes were cut off at whatever     *)
(* call of their scripts, and whatever rules were there before the first.    *)
THEOREM NobodyLockedOut == Spec => []NeverLockedOut
<1>1. IInv => NeverLockedOut
  BY DEF IInv
<1> QED BY <1>1, Invariance, PTL

(* An orderly end takes back every access rule, its own and those that       *)
(* processes which were cut off left behind.                                 *)
THEOREM OrderlyEndIsClean == Spec => []CleanExit
<1>1. IInv => CleanExit
  BY DEF IInv
<1> QED BY <1>1, Invariance, PTL

(* No host but those of the access rules is ever given a thread.             *)
THEOREM StrangersStayOut == Spec => []NoStrangerServed
<1>1. IInv => NoStrangerServed
  BY DEF IInv, StrangersOut, NoStrangerServed
<1> QED BY <1>1, Invariance, PTL

(* Of the connections that come after SIGINT at most one is accepted.        *)
THEOREM OneMoreAtMost == Spec => []AtMostOneMore
<1>1. IInv => AtMostOneMore
  BY DEF IInv, QuitAfterOne, AtMostOneMore
<1> QED BY <1>1, Invariance, PTL
=============================================================================
