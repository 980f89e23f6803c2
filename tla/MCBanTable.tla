----------------------------- MODULE MCBanTable -----------------------------
(***************************************************************************)
(* Instances of BanTable: the lifetime is 2 seconds and the grace period 1. *)
(* Client threads are interchangeable, and so are the addresses.            *)
(***************************************************************************)
EXTENDS BanTable, TLC

BanSymmetry == Permutations(Client) \cup Permutations(IPs)
=============================================================================
