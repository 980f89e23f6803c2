---------------------------- MODULE MCLinkedList ----------------------------
(***************************************************************************)
(* Instances of LinkedList; client threads are interchangeable.             *)
(***************************************************************************)
EXTENDS LinkedList, TLC

ClientSymmetry == Permutations(Client)
=============================================================================
