-------------------------- MODULE MCRequestChannel --------------------------
(***************************************************************************)
(* An instance of RequestChannel with one filter and one listener.  The     *)
(* filter's second request and the listener's first name an address that    *)
(* the NAT refuses for its length, so each kind of peer has a request behind *)
(* such a one, and the filter also one before it.                           *)
(***************************************************************************)
EXTENDS RequestChannel

CONSTANTS f, l

MCLongAddress == {<<f, 2>>, <<l, 1>>}
=============================================================================
