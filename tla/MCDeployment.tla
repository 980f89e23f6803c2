---------------------------- MODULE MCDeployment ----------------------------
(***************************************************************************)
(* An instance of Deployment: two ISPs, one with two threads.               *)
(***************************************************************************)
EXTENDS Deployment

CONSTANTS t1, t2, t3, p1, p2

MCIspOf == [t \in Thread |-> IF t = t3 THEN p2 ELSE p1]
=============================================================================
