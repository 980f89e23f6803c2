------------------------------- MODULE NATMain -------------------------------
(***************************************************************************)
(* The main thread of the NAT (NATServer.c): it puts up the rules that let  *)
(* only the DNS server and the protected server talk to the NAT, accepts    *)
(* their connections and gives each a thread, and takes the rules down when *)
(* SIGINT told it to quit.  The process may also end in any other way (exit *)
(* in send_all, a signal) and be started again; the kernel keeps its rules  *)
(* and the policy of its INPUT chain.                                       *)
(***************************************************************************)
EXTENDS RuleTable

CONSTANTS
  Main,          \* the thread
  Peer,          \* hosts that connect, some of them named in an access rule
  MaxStarts      \* bound on the starts of the process

ASSUME MaxStartsIsNat == MaxStarts \in Nat

VARIABLES
  policy,      \* of the INPUT chain: "ACCEPT" or "DROP"
  pc,          \* where the main thread is; "down" when there is no process
  quit,        \* the flag the signal handler sets
  listening,   \* the socket takes connections
  conn,        \* conn[p]: what became of p's connection
  starts,      \* starts so far
  status,      \* how the last process ended: by "exit" or by a "crash"
  missed,      \* history: the last SIGINT came between the test of quit and accept
  overrun      \* history: connections accepted after quit was set

mainVars == <<pc, quit, listening>>
historyVars == <<starts, status, missed, overrun>>
vars == <<ruleVars, policy, mainVars, conn, historyVars>>
-----------------------------------------------------------------------------
AccessRule == {"lo", "ssh", "server", "dns"}

InsertScript == <<AddRule("lo"), AddRule("ssh"), AddRule("server"), AddRule("dns")>>
DeleteScriptSshKept == <<DeleteRule("lo"), DeleteRule("server"), DeleteRule("dns")>>
DeleteScript ==
  <<DeleteRule("lo"), DeleteRule("ssh"), DeleteRule("server"), DeleteRule("dns")>>

(* What the kernel lets through to the NAT's port                            *)
Admitted(p) == policy = "ACCEPT" \/ (p \in AccessRule /\ rules[p] > 0)

NobodyConnected == [p \in Peer |-> "out"]
Pending == \E p \in Peer : conn[p] = "pending"

Goto(line) == pc' = line
BeginScript == at' = [t \in {Main} |-> 1] /\ applying' = [t \in {Main} |-> FALSE]
-----------------------------------------------------------------------------
(* main up to insertNATAccessRules; the lists and their threads are in       *)
(* MappingTable and BanTable                                                *)
StartListening ==
  /\ pc = "down"
  /\ starts < MaxStarts
  /\ starts' = starts + 1
  /\ status' = "running"
  /\ BeginScript
  /\ Goto("insert")
  /\ listening' = TRUE
  /\ UNCHANGED <<rules, policy, quit, conn, missed, overrun>>
Start ==
  /\ pc = "down"
  /\ starts < MaxStarts
  /\ starts' = starts + 1
  /\ status' = "running"
  /\ BeginScript
  /\ Goto("insert")
  /\ UNCHANGED <<rules, policy, quit, listening, conn, missed, overrun>>

(* insertNATAccessRules                                                      *)
InsertRules ==
  /\ pc = "insert"
  /\ CheckRule(Main, InsertScript) \/ ApplyRule(Main, InsertScript)
  /\ UNCHANGED <<policy, mainVars, conn, historyVars>>

DropTooEarly ==
  /\ pc = "insert"
  /\ at[Main] = Len(InsertScript) /\ ~applying[Main]
  /\ policy' = "DROP"
  /\ Goto("test")
  /\ UNCHANGED <<ruleVars, quit, listening, conn, historyVars>>
DropOthers ==
  /\ pc = "insert"
  /\ ScriptDone(Main, InsertScript)
  /\ policy' = "DROP"
  /\ Goto("test")
  /\ UNCHANGED <<ruleVars, quit, listening, conn, historyVars>>

(* while(!quit), and listen                                                  *)
TestQuitIgnored ==
  /\ pc = "test"
  /\ listening' = TRUE
  /\ Goto("listen")
  /\ UNCHANGED <<ruleVars, policy, quit, conn, historyVars>>
TestQuit ==
  /\ pc = "test"
  /\ \/ quit /\ Goto("open") /\ UNCHANGED listening
     \/ ~quit /\ Goto("listen") /\ listening' = TRUE
  /\ UNCHANGED <<ruleVars, policy, quit, conn, historyVars>>

(* From here on the thread is inside accept and a signal wakes it.           *)
CallAccept ==
  /\ pc = "listen"
  /\ Goto("accept")
  /\ UNCHANGED <<ruleVars, policy, quit, listening, conn, historyVars>>

Accept(p) ==
  /\ pc = "accept"
  /\ conn[p] = "pending"
  /\ conn' = [conn EXCEPT ![p] = "accepted"]
  /\ overrun' = IF quit THEN overrun + 1 ELSE overrun
  /\ Goto("spawn")
  /\ UNCHANGED <<ruleVars, policy, quit, listening, starts, status, missed>>

(* accept fails by itself                                                    *)
AcceptFails ==
  /\ pc = "accept"
  /\ Goto(IF quit THEN "open" ELSE "test")
  /\ UNCHANGED <<ruleVars, policy, quit, listening, conn, historyVars>>

(* pthread_create; when it fails the connection stays open with nobody to    *)
(* serve it.                                                                *)
CreateThread(p) ==
  /\ pc = "spawn"
  /\ conn[p] = "accepted"
  /\ \E fate \in {"served", "neglected"} : conn' = [conn EXCEPT ![p] = fate]
  /\ Goto("test")
  /\ UNCHANGED <<ruleVars, policy, quit, listening, historyVars>>

(* deleteNATAccessRules, and the end of main                                 *)
AdmitOthers ==
  /\ pc = "open"
  /\ policy' = "ACCEPT"
  /\ BeginScript
  /\ Goto("delete")
  /\ UNCHANGED <<rules, quit, listening, conn, historyVars>>

DeleteRules ==
  /\ pc = "delete"
  /\ CheckRule(Main, DeleteScript) \/ ApplyRule(Main, DeleteScript)
  /\ UNCHANGED <<policy, mainVars, conn, historyVars>>

End(how) ==
  /\ Goto("down")
  /\ quit' = FALSE
  /\ listening' = FALSE
  /\ conn' = NobodyConnected
  /\ status' = how
  /\ missed' = FALSE
  /\ overrun' = 0
  /\ BeginScript
  /\ UNCHANGED <<rules, policy, starts>>

Exit ==
  /\ pc = "delete"
  /\ ScriptDone(Main, DeleteScript)
  /\ End("exit")

(* exit(1) in the thread of a connection, an error in any thread, SIGKILL    *)
Crash == pc # "down" /\ End("crash")

(* term.  accept returns EINTR, as the handler was installed without         *)
(* SA_RESTART, and the loop is left; anywhere else the flag is found at the  *)
(* next test.  A SIGINT that comes while system() runs is ignored: no step.  *)
SigintRestarts ==
  /\ pc # "down"
  /\ quit' = TRUE
  /\ missed' = (pc = "listen")
  /\ UNCHANGED <<ruleVars, policy, pc, listening, conn, starts, status, overrun>>
Sigint ==
  /\ pc # "down"
  /\ quit' = TRUE
  /\ missed' = (pc = "listen" \/ (missed /\ pc # "accept"))
  /\ Goto(IF pc = "accept" THEN "open" ELSE pc)
  /\ UNCHANGED <<ruleVars, policy, listening, conn, starts, status, overrun>>
-----------------------------------------------------------------------------
Connect(p) ==
  /\ listening
  /\ Admitted(p)
  /\ conn[p] = "out"
  /\ conn' = [conn EXCEPT ![p] = "pending"]
  /\ UNCHANGED <<ruleVars, policy, mainVars, historyVars>>

(* The peer goes; its thread reads an empty message over and over.           *)
Leave(p) ==
  /\ conn[p] = "served"
  /\ conn' = [conn EXCEPT ![p] = "out"]
  /\ UNCHANGED <<ruleVars, policy, mainVars, historyVars>>
-----------------------------------------------------------------------------
(* An administrator may have put up some of the rules before.                *)
Init ==
  /\ rules \in [AccessRule -> 0..1]
  /\ policy = "ACCEPT"
  /\ at = [t \in {Main} |-> 1]
  /\ applying = [t \in {Main} |-> FALSE]
  /\ pc = "down"
  /\ quit = FALSE
  /\ listening = FALSE
  /\ conn = NobodyConnected
  /\ starts = 0
  /\ status = "none"
  /\ missed = FALSE
  /\ overrun = 0

MainStep ==
  \/ InsertRules
  \/ DropOthers
  \/ TestQuit
  \/ CallAccept
  \/ \E p \in Peer : Accept(p) \/ CreateThread(p)
  \/ AdmitOthers
  \/ DeleteRules
  \/ Exit

Next ==
  \/ Start
  \/ MainStep
  \/ AcceptFails
  \/ Crash
  \/ Sigint
  \/ \E p \in Peer : Connect(p) \/ Leave(p)

Spec == Init /\ [][Next]_vars

(* The main thread runs; it blocks on accept only.                           *)
FairSpec == Spec /\ WF_vars(MainStep)
-----------------------------------------------------------------------------
TypeOK ==
  /\ rules \in [AccessRule -> 0..1]
  /\ policy \in {"ACCEPT", "DROP"}
  /\ at \in [{Main} -> 1..5]
  /\ applying \in [{Main} -> BOOLEAN]
  /\ pc \in {"down", "insert", "test", "listen", "accept", "spawn", "open", "delete"}
  /\ quit \in BOOLEAN
  /\ listening \in BOOLEAN
  /\ conn \in [Peer -> {"out", "pending", "accepted", "served", "neglected"}]
  /\ starts \in 0..MaxStarts
  /\ status \in {"none", "running", "exit", "crash"}
  /\ missed \in BOOLEAN
  /\ overrun \in Nat

(* Whatever the process is doing and wherever an earlier one was cut off:    *)
(* while the policy drops packets, the exceptions for the loopback, for ssh, *)
(* for the server and for the DNS are all there; nobody is locked out.       *)
NeverLockedOut == policy = "DROP" => \A r \in AccessRule : rules[r] > 0

(* A host that no access rule names is never given a thread, not even when   *)
(* it connects while a shutdown has opened the policy again.                 *)
NoStrangerServed ==
  \A p \in Peer \ AccessRule : conn[p] \notin {"accepted", "served", "neglected"}

(* An orderly end leaves nothing behind, also when earlier processes were    *)
(* cut off with their rules in place.                                       *)
CleanExit ==
  status = "exit" => policy = "ACCEPT" /\ \A r \in AccessRule : rules[r] = 0

(* A process told to quit ends, but for a signal that came between the test  *)
(* of the flag and accept: that one is only noticed with the next            *)
(* connection or the next signal.                                           *)
QuitHonoured == quit ~> pc = "down" \/ (missed /\ pc = "accept" /\ ~Pending)

(* At most one connection is still taken after that.                         *)
AtMostOneMore == overrun <= 1
=============================================================================
