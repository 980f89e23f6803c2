---------------------------- MODULE LeaseService ----------------------------
(***************************************************************************)
(* What the NAT promises the DNS filter and its clients, without threads,   *)
(* lists or rules: public addresses are leased to prefixes, one prefix at a *)
(* time; a lease lasts EXPIRATION seconds and is kept for GRACE seconds     *)
(* more; what a client is told never runs past the end of the lease.        *)
(***************************************************************************)
EXTENDS Integers

CONSTANTS Client, Prefixes, PublicIPs, EXPIRATION, GRACE, NoAnswer

VARIABLES
  now,
  leases,   \* the leases kept: [prefix, ip, start]
  told      \* told[t]: the answer t has been given, good for ttl seconds from at

vars == <<now, leases, told>>

End(l) == l.start + EXPIRATION

Init ==
  /\ now = 0
  /\ leases = {}
  /\ told = [t \in Client |-> NoAnswer]

TimePasses == now' = now + 1 /\ UNCHANGED <<leases, told>>

(* A new lease of an address begins after the end of every kept lease of it. *)
Grant(t, p, ip, start) ==
  /\ start <= now
  /\ \A l \in leases : l.ip = ip => End(l) < start
  /\ leases' = leases \cup {[prefix |-> p, ip |-> ip, start |-> start]}
  /\ told' = [told EXCEPT ![t] = [prefix |-> p, ip |-> ip,
                                  at |-> start, ttl |-> EXPIRATION]]
  /\ UNCHANGED now

(* A lease that has not ended is told again with the seconds it has left.    *)
Repeat(t, l, at) ==
  /\ at \in l.start..now
  /\ at < End(l)
  /\ told' = [told EXCEPT ![t] = [prefix |-> l.prefix, ip |-> l.ip,
                                  at |-> at, ttl |-> End(l) - at]]
  /\ UNCHANGED <<now, leases>>

(* Only an answer that comes a grace period late may name a lease that is    *)
(* not kept any more.                                                       *)
RepeatLate(t, p, ip, start, at) ==
  /\ now >= start + EXPIRATION + GRACE
  /\ Repeat(t, [prefix |-> p, ip |-> ip, start |-> start], at)

Forget(t) ==
  /\ told' = [told EXCEPT ![t] = NoAnswer]
  /\ UNCHANGED <<now, leases>>

Retire(l) ==
  /\ now >= End(l) + GRACE
  /\ leases' = leases \ {l}
  /\ UNCHANGED <<now, told>>

(* The service may lose its leases, and with them what it told.              *)
StartOver ==
  /\ leases' = {}
  /\ told' = [t \in Client |-> NoAnswer]
  /\ UNCHANGED now

Next ==
  \/ TimePasses
  \/ \E t \in Client :
       \/ Forget(t)
       \/ \E l \in leases : \E at \in l.start..now : Repeat(t, l, at)
       \/ \E p \in Prefixes, ip \in PublicIPs, start \in 0..now :
            \/ Grant(t, p, ip, start)
            \/ \E at \in start..now : RepeatLate(t, p, ip, start, at)
  \/ \E l \in leases : Retire(l)
  \/ StartOver

Spec == Init /\ [][Next]_vars
-----------------------------------------------------------------------------
(* Two leases of an address never overlap.                                   *)
LeasesDisjoint ==
  \A l, m \in leases : l.ip = m.ip => l = m \/ End(l) < m.start \/ End(m) < l.start

(* What a client was told is kept until a grace period after it ran out.     *)
ToldIsKept ==
  \A t \in Client :
    told[t] # NoAnswer =>
      \/ now >= told[t].at + told[t].ttl + GRACE
      \/ \E l \in leases : /\ l.prefix = told[t].prefix /\ l.ip = told[t].ip
                           /\ End(l) = told[t].at + told[t].ttl
=============================================================================
