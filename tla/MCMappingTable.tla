--------------------------- MODULE MCMappingTable ---------------------------
(***************************************************************************)
(* Instances of MappingTable: the lifetime is 2 seconds and the grace       *)
(* period 1; hosts 65 and 66 share the prefix 64, host 130 has prefix 128.  *)
(* Client threads are interchangeable, so the runs that check only safety   *)
(* identify the states that differ by swapping them.                        *)
(***************************************************************************)
EXTENDS MappingTable, TLC

ClientSymmetry == Permutations(Client)
=============================================================================
