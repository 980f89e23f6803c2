----------------------------- MODULE RuleTable -----------------------------
(***************************************************************************)
(* The kernel's iptables rules, and the helper every thread of the NAT      *)
(* changes them with: checkAddRule runs one iptables process that asks      *)
(* whether a rule is there (-C) and, depending on the answer, a second one  *)
(* that appends it (-A) or deletes it (-D).  No lock is held around the     *)
(* two, so they are two steps.  A handler makes a fixed sequence of such    *)
(* calls, its script.                                                       *)
(***************************************************************************)
EXTENDS Integers, Sequences

VARIABLES
  rules,     \* rules[r]: how many copies of rule r the kernel's chain holds
  at,        \* at[t]: which call of its script thread t has reached
  applying   \* applying[t]: the -C of that call asked for the -A or the -D

ruleVars == <<rules, at, applying>>

AddRule(r) == [command |-> "-A", rule |-> r]
DeleteRule(r) == [command |-> "-D", rule |-> r]

ScriptDone(t, script) == at[t] > Len(script) /\ ~applying[t]

NextCall(t) == at' = [at EXCEPT ![t] = @ + 1]

(* The -C process: an -A is wanted when the rule is absent, a -D when it is  *)
(* present.                                                                 *)
Wanted(call) == (call.command = "-A") <=> (rules[call.rule] = 0)

CheckRule(t, script) ==
  /\ at[t] <= Len(script)
  /\ ~applying[t]
  /\ \/ /\ Wanted(script[at[t]])
        /\ applying' = [applying EXCEPT ![t] = TRUE]
        /\ UNCHANGED at
     \/ /\ ~Wanted(script[at[t]])
        /\ NextCall(t)
        /\ UNCHANGED applying
  /\ UNCHANGED rules

(* What the -A or the -D does to the number of copies; deleting an absent    *)
(* rule fails and its exit status is ignored.                               *)
Applied(call, copies) ==
  IF call.command = "-A" THEN copies + 1
  ELSE IF copies > 0 THEN copies - 1 ELSE 0

ApplyRule(t, script) ==
  /\ at[t] <= Len(script)
  /\ applying[t]
  /\ rules' = [rules EXCEPT ![script[at[t]].rule] = Applied(script[at[t]], @)]
  /\ applying' = [applying EXCEPT ![t] = FALSE]
  /\ NextCall(t)
=============================================================================
