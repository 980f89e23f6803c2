---------------------------- MODULE ExpiringList ----------------------------
(***************************************************************************)
(* A list of timed elements and the thread that removes them when they      *)
(* expire: removeExpiredMappings, which the NAT runs once for its mappings  *)
(* and once for its bans.  The thread waits until the element at the head   *)
(* is due, pops it, and runs the list's expiration action on it; the action *)
(* is a script of iptables calls and the release of the element.            *)
(*                                                                          *)
(* Time is the second counter of time(); it moves by itself up to MaxTime.  *)
(***************************************************************************)
EXTENDS RuleTable

CONSTANTS
  Cleaner,      \* the removing thread
  EXPIRATION,   \* EXPIRATIONTIMESECONDS
  GRACE,        \* GRACEPERIODSECONDS
  MaxTime       \* bound on the clock

ASSUME PeriodsAreNat == EXPIRATION \in Nat \ {0} /\ GRACE \in Nat
ASSUME MaxTimeIsNat == MaxTime \in Nat

VARIABLES
  now,          \* what time() returns
  list,         \* the elements, oldest insertion first
  victim        \* the element popped and not freed yet, id 0 when there is none

listVars == <<now, list, victim>>

Tick ==
  /\ now < MaxTime
  /\ now' = now + 1

(* getExpirationTimeMap *)
ExpirationTimeTooEarly(elm) == elm.time + EXPIRATION
ExpirationTime(elm) == elm.time + EXPIRATION + GRACE

DueLater(elm) == now > ExpirationTime(elm)
Due(elm) == now >= ExpirationTime(elm)

Busy == victim.id # 0

(* The loop of removeExpiredMappings up to popElement: only this thread      *)
(* removes elements, so the head it slept for is the head it pops.          *)
PopExpired ==
  /\ ~Busy
  /\ list # << >>
  /\ Due(Head(list))
  /\ victim' = Head(list)
  /\ list' = Tail(list)
  /\ at' = [at EXCEPT ![Cleaner] = 1]
=============================================================================
