----------------------------- MODULE MCResolver -----------------------------
(***************************************************************************)
(* An instance of Resolver, and the names its queries and answers are tried *)
(* with: up to three labels of one to three letters.                        *)
(***************************************************************************)
EXTENDS Resolver, DNSName

MCLabel == {<<97>>, <<98, 97>>, <<97, 98, 98>>}
MCNames == UNION {[1..n -> MCLabel] : n \in 1..3}

(* A query that was sent can be answered in every form there is, with names  *)
(* compressed or not (query_dns, ReadName): its thread reads it right.       *)
QueriesAreRead == \A t \in Thread : pc[t] = "query" => EveryAnswerIsRead
=============================================================================
