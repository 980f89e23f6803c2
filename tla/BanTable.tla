------------------------------ MODULE BanTable ------------------------------
(***************************************************************************)
(* The bans of the NAT (NATServer.c): client threads that answer            *)
(*                                                                          *)
(*     BAN;<ip>   with   ACK;<ip>;<seconds>                                 *)
(*                                                                          *)
(* by asking iptables to drop what <ip> sends and listing the ban, and the  *)
(* thread that lifts each listed ban when its period is over.  It is the    *)
(* same thread function as the one of the mappings, with handleExpiredBan   *)
(* for its expiration action.  Unlike ADD, BAN never looks at the list.     *)
(***************************************************************************)
EXTENDS ExpiringList, FiniteSets

CONSTANTS
  Client,        \* the threads running handleClientConnections
  IPs,           \* the addresses banned
  MaxRequests,   \* bound on the requests received
  MaxRestarts    \* bound on the times the process ends and is started again

ASSUME ClientIsFinite == IsFiniteSet(Client)
ASSUME CleanerIsNotClient == Cleaner \notin Client
ASSUME BoundsAreNat == MaxRequests \in Nat /\ MaxRestarts \in Nat

VARIABLES
  pc,          \* where each client thread is in handling its request
  received,    \* requests received so far
  restarts,    \* how often the process was started again
  map,         \* map[t]: the ban t is making
  answer,      \* answer[t]: t's last answer and when its ban was stamped
  renewed,     \* history: addresses banned again while a ban was in force
  orphans      \* history: the rules an earlier process left in the kernel

vars == <<now, list, victim, rules, at, applying, pc, received, restarts, map,
          answer, renewed, orphans>>
-----------------------------------------------------------------------------
Thread == Client \cup {Cleaner}

(* The Mapping struct as handleRequest fills it for a ban; id 0 is the NULL   *)
(* pointer.  publicIP is never set.                                         *)
Ban == [id: Nat, ip: IPs, time: 0..MaxTime]
NoBan == [id |-> 0]

PERIOD == EXPIRATION + GRACE
NoAnswer == [ttl |-> 0]

(* The rule FORWARD -s ip -j DROP is named by its address.                   *)
AddScriptWrongFlag(ban) == <<DeleteRule(ban.ip)>>
AddScript(ban) == <<AddRule(ban.ip)>>

RemovalScriptNone(ban) == << >>
RemovalScript(ban) == <<DeleteRule(ban.ip)>>

InProgress(t) == pc[t] \in {"rule", "stamped"}

(* Somebody answers for a ban of ip: it is listed, being lifted or being made *)
Owned(ip) ==
  \/ \E i \in 1..Len(list) : list[i].ip = ip
  \/ Busy /\ victim.ip = ip
  \/ \E t \in Client : InProgress(t) /\ map[t].ip = ip
-----------------------------------------------------------------------------
(* handleClientConnections and handleRequest up to the BAN branch            *)
ReceiveBan(t, ip) ==
  /\ pc[t] = "idle"
  /\ received < MaxRequests
  /\ received' = received + 1
  /\ pc' = [pc EXCEPT ![t] = "rule"]
  /\ map' = [map EXCEPT ![t] = [id |-> received + 1, ip |-> ip, time |-> 0]]
  /\ at' = [at EXCEPT ![t] = 1]
  /\ answer' = [answer EXCEPT ![t] = NoAnswer]
  /\ renewed' = IF Owned(ip) THEN renewed \cup {ip} ELSE renewed
  /\ UNCHANGED <<listVars, rules, applying, restarts, orphans>>

(* checkAddRule for the DROP rule                                            *)
InstallBan(t) ==
  /\ pc[t] = "rule"
  /\ CheckRule(t, AddScript(map[t])) \/ ApplyRule(t, AddScript(map[t]))
  /\ UNCHANGED <<listVars, pc, received, restarts, map, answer, renewed, orphans>>

(* time(&(map->time)), after the rule is there                               *)
StampBan(t) ==
  /\ pc[t] = "rule"
  /\ ScriptDone(t, AddScript(map[t]))
  /\ map' = [map EXCEPT ![t] = [@ EXCEPT !.time = now]]
  /\ pc' = [pc EXCEPT ![t] = "stamped"]
  /\ UNCHANGED <<listVars, ruleVars, received, restarts, answer, renewed, orphans>>

(* insertElement under bannedListLock, and the answer                        *)
InsertBan(t) ==
  /\ pc[t] = "stamped"
  /\ list' = Append(list, map[t])
  /\ answer' = [answer EXCEPT ![t] =
                  [ip |-> map[t].ip, at |-> map[t].time, ttl |-> PERIOD]]
  /\ pc' = [pc EXCEPT ![t] = "idle"]
  /\ map' = [map EXCEPT ![t] = NoBan]
  /\ UNCHANGED <<now, victim, ruleVars, received, restarts, renewed, orphans>>
-----------------------------------------------------------------------------
Expire ==
  /\ PopExpired
  /\ UNCHANGED <<now, rules, applying, pc, received, restarts, map, answer,
                 renewed, orphans>>

(* handleExpiredBan: the DROP rule goes if it is there                       *)
LiftBan ==
  /\ Busy
  /\ \/ CheckRule(Cleaner, RemovalScript(victim))
     \/ ApplyRule(Cleaner, RemovalScript(victim))
  /\ UNCHANGED <<listVars, pc, received, restarts, map, answer, renewed, orphans>>

(* The release of the ban.  It frees publicIP, which was never set: either   *)
(* that does no harm, as here, or it ends the process, as Restart may at any *)
(* time.                                                                    *)
FreeBan ==
  /\ Busy
  /\ ScriptDone(Cleaner, RemovalScript(victim))
  /\ victim' = NoBan
  /\ UNCHANGED <<now, list, ruleVars, pc, received, restarts, map, answer, orphans>>
  /\ renewed' = {ip \in renewed : Owned(ip)'}

ClockTick ==
  /\ Tick
  /\ UNCHANGED <<list, victim, ruleVars, pc, received, restarts, map, answer,
                 renewed, orphans>>

(* The process ends and is started again: the bans are forgotten and their   *)
(* rules stay, deleteNATAccessRules only takes back the rules of the start.  *)
Restart ==
  /\ restarts < MaxRestarts
  /\ restarts' = restarts + 1
  /\ list' = << >>
  /\ victim' = NoBan
  /\ at' = [t \in Thread |-> 1]
  /\ applying' = [t \in Thread |-> FALSE]
  /\ pc' = [t \in Client |-> "idle"]
  /\ map' = [t \in Client |-> NoBan]
  /\ answer' = [t \in Client |-> NoAnswer]
  /\ renewed' = {}
  /\ orphans' = rules
  /\ UNCHANGED <<now, rules, received>>
-----------------------------------------------------------------------------
Init ==
  /\ now = 0
  /\ list = << >>
  /\ victim = NoBan
  /\ rules = [ip \in IPs |-> 0]
  /\ at = [t \in Thread |-> 1]
  /\ applying = [t \in Thread |-> FALSE]
  /\ pc = [t \in Client |-> "idle"]
  /\ received = 0
  /\ restarts = 0
  /\ map = [t \in Client |-> NoBan]
  /\ answer = [t \in Client |-> NoAnswer]
  /\ renewed = {}
  /\ orphans = [ip \in IPs |-> 0]

ClientStep(t) ==
  \/ \E ip \in IPs : ReceiveBan(t, ip)
  \/ InstallBan(t)
  \/ StampBan(t)
  \/ InsertBan(t)

CleanerStep == Expire \/ LiftBan \/ FreeBan

Next ==
  \/ \E t \in Client : ClientStep(t)
  \/ CleanerStep
  \/ ClockTick
  \/ Restart

Spec == Init /\ [][Next]_vars

-----------------------------------------------------------------------------
TypeOK ==
  /\ now \in 0..MaxTime
  /\ list \in Seq(Ban)
  /\ victim \in Ban \cup {NoBan}
  /\ rules \in [IPs -> Nat]
  /\ at \in [Thread -> Nat \ {0}]
  /\ applying \in [Thread -> BOOLEAN]
  /\ pc \in [Client -> {"idle", "rule", "stamped"}]
  /\ map \in [Client -> Ban \cup {NoBan}]
  /\ received \in 0..MaxRequests
  /\ restarts \in 0..MaxRestarts
  /\ renewed \subseteq IPs

(* A listed ban is in force, whatever the interleaving of the threads'       *)
(* iptables processes, unless it was asked for while an earlier ban of the   *)
(* same address was still held by somebody.                                 *)
BanEnforced ==
  \A i \in 1..Len(list) : list[i].ip \notin renewed => rules[list[i].ip] > 0

(* The answer to a BAN is kept: for the seconds it names, from the time the   *)
(* ban is stamped with, what comes from the address is dropped, whatever the *)
(* remover and the other clients do and whichever bans are in front of it in *)
(* the list.                                                                *)
BanKept ==
  \A t \in Client :
    /\ answer[t] # NoAnswer
    /\ now < answer[t].at + answer[t].ttl
    /\ answer[t].ip \notin renewed
    => rules[answer[t].ip] > 0

(* Who will still delete a copy of the DROP rule of ip: every listed ban, the *)
(* remover while its deletion is ahead, a client that is past its own call.  *)
WillDelete(ip) ==
  Cardinality({i \in 1..Len(list) : list[i].ip = ip})
  + (IF Busy /\ victim.ip = ip /\ at[Cleaner] <= Len(RemovalScript(victim))
     THEN 1 ELSE 0)
  + Cardinality({t \in Client : InProgress(t) /\ map[t].ip = ip /\ at[t] > 1})

(* No address stays blocked for good: each copy of its rule, also the copies *)
(* two racing clients add, has somebody who will take it back, but for what  *)
(* an earlier process left behind.                                          *)
NoForgottenBan == \A ip \in IPs : rules[ip] <= orphans[ip] + WillDelete(ip)

=============================================================================
