----------------------------- MODULE MCHopCount -----------------------------
(***************************************************************************)
(* An instance of HopCount: the address of host near is a part of the       *)
(* address of host long, as 10.4.11.1 is of 10.4.11.19.                     *)
(***************************************************************************)
EXTENDS HopCount

CONSTANTS near, long

MCSource == {near, long}
MCContains == [s \in MCSource |-> IF s = near THEN {near, long} ELSE {long}]
=============================================================================
