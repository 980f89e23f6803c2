------------------------- MODULE RequestChannelProofs -------------------------
(***************************************************************************)
(* Proofs about RequestChannel, for every number of filters and listeners   *)
(* and every bound: what a filter can take for its answer after it gave up  *)
(* waits, and what it takes to end the NAT's process.                       *)
(*                                                                          *)
(* A part has a place in the stream of its peer.  The place of the last     *)
(* part read fixes what the buffer holds, which message can be answered     *)
(* next, and how many answers there can have been.                          *)
(***************************************************************************)
EXTENDS RequestChannel, SequenceTheorems, WellFoundedInduction, TLAPS

Index(x) == 3 * (x.of[2] - 1) + x.part

(* s is what comes in the stream of p behind the first n parts.              *)
Placed(s, p, n) ==
  \A i \in 1..Len(s) : /\ s[i].of \in {p} \X (1..MaxRequests)
                       /\ s[i].part \in 1..3
                       /\ Index(s[i]) = n + i

Active(p) == pc[p] # "recv"
ReadBy(p) == 3 * asked[p] - Len(up[p])
DoneBy(p) == IF Active(p) THEN ReadBy(p) - Len(buffer[p]) ELSE ReadBy(p)
SecondToken(s) == FirstToken(AfterToken(s))

StreamRight(p) == ReadBy(p) >= 0 /\ Placed(up[p], p, ReadBy(p))

BufferRight(p) ==
  Active(p) => /\ Len(buffer[p]) \in 1..REQUESTPARTS
               /\ DoneBy(p) >= 0
               /\ Placed(buffer[p], p, DoneBy(p))

(* The answers the filter has received, or stopped waiting for and then      *)
(* received others in their place.                                          *)
Received(p) == asked[p] - late[p] - (IF peerAt[p] = "waiting" THEN 1 ELSE 0)

(* There is at most one answer to every three parts read.                    *)
AnswersCounted(p) ==
  p \in Filter /\ peerAt[p] # "closed" =>
    2 * Received(p) + Len(down[p])
      <= 2 * ((ReadBy(p) \div 3) - (IF Active(p) THEN 1 ELSE 0))

(* A peer that has always waited, or has sent one request only: its requests *)
(* arrive and are read one by one.                                          *)
Calm(p) == IF p \in Filter THEN late[p] = 0 ELSE asked[p] <= 1

CalmIsWhole(p) ==
  Calm(p) /\ peerAt[p] # "closed" =>
    /\ Len(up[p]) \in {0, 3}
    /\ Active(p) => Len(up[p]) = 0 /\ Len(buffer[p]) = 3

(* While no other thread calls strtok the tokens are those of the buffer;    *)
(* a refused address leaves none.                                           *)
TokensRight(p) ==
  /\ pc[p] \in {"address", "check", "answer"} => command[p] = FirstToken(buffer[p])
  /\ pc[p] = "address" => saved = AfterToken(buffer[p])
  /\ pc[p] = "check" => address[p] = SecondToken(buffer[p])
  /\ pc[p] = "answer" => address[p] \in {SecondToken(buffer[p]), << >>}

(* An answer on its way comes in time for its place in the connection; it    *)
(* was read to its end, and is newer than those used.                        *)
AnswersRight(p) ==
  /\ taken[p] = NoRequest \/ taken[p][1] = p
  /\ 3 * taken[p][2] <= DoneBy(p)
  /\ \A i \in 1..Len(down[p]) :
       down[p][i].of # NoRequest =>
         /\ down[p][i].of \in {p} \X (1..MaxRequests)
         /\ taken[p][2] < down[p][i].of[2]
         /\ 3 * down[p][i].of[2] <= DoneBy(p)
         /\ p \in Filter /\ peerAt[p] # "closed" =>
              2 * Received(p) + i + 2 - down[p][i].part <= 2 * down[p][i].of[2]

(* The invariant is proved in layers, each from those before it.  Only the   *)
(* last two need that tokens do not race.                                   *)
PartsInv == TypeOK /\ \A p \in Peer : StreamRight(p) /\ BufferRight(p)
CountInv == \A p \in Peer : AnswersCounted(p) /\ CalmIsWhole(p)
TokensInv == \A p \in Peer : TokensRight(p)
OnlyFiltersWait(p) == peerAt[p] = "waiting" => p \in Filter
AnswersInv == (\A p \in Peer : AnswersRight(p) /\ OnlyFiltersWait(p)) /\ EndedForACause
-----------------------------------------------------------------------------
LEMMA SizesAreNat ==
  /\ REQUESTPARTS = 4 /\ ANSWERPARTS = 3
  /\ MaxRequests \in Nat /\ MaxTimeouts \in Nat
BY BoundsAreNat DEF REQUESTPARTS, ANSWERPARTS

LEMMA WindowsAreNat == \A p \in Peer : WindowTo(p) \in Nat /\ 0 <= WindowTo(p)
  BY WindowsHoldAMessage DEF WindowTo

(* What is read and what is left are the stream.                             *)
LEMMA ReadIsPrefix ==
  ASSUME NEW S, NEW s \in Seq(S), NEW n \in Nat \ {0}
  PROVE  /\ Readable(s, n) \in Seq(S)
         /\ Len(Readable(s, n)) = IF Len(s) > n THEN n ELSE Len(s)
         /\ \A i \in 1..Len(Readable(s, n)) : Readable(s, n)[i] = s[i]
         /\ Rest(s, n) \in Seq(S)
         /\ Len(Rest(s, n)) = Len(s) - Len(Readable(s, n))
         /\ \A i \in 1..Len(Rest(s, n)) :
              /\ i + Len(Readable(s, n)) \in 1..Len(s)
              /\ Rest(s, n)[i] = s[i + Len(Readable(s, n))]
<1>1. Len(s) \in Nat /\ \A i \in 1..Len(s) : s[i] \in S
  OBVIOUS
<1>2. CASE Len(s) > n
  <2>1. Readable(s, n) = SubSeq(s, 1, n) /\ Rest(s, n) = SubSeq(s, n+1, Len(s))
    BY <1>2 DEF Readable, Rest
  <2>2. /\ SubSeq(s, 1, n) \in Seq(S) /\ Len(SubSeq(s, 1, n)) = n
        /\ \A i \in 1..n : SubSeq(s, 1, n)[i] = s[1+i-1]
    <3>1. \A i \in 1..n : s[i] \in S
      BY <1>1, <1>2
    <3> QED
      BY <3>1, SubSeqProperties
  <2>3. /\ SubSeq(s, n+1, Len(s)) \in Seq(S) /\ Len(SubSeq(s, n+1, Len(s))) = Len(s) - n
        /\ \A i \in 1..(Len(s)-n) : SubSeq(s, n+1, Len(s))[i] = s[n+1+i-1]
    <3>1. \A i \in (n+1)..Len(s) : s[i] \in S
      BY <1>1
    <3>2. n+1 <= Len(s) /\ n+1 \in Int /\ Len(s) \in Int /\ Len(s)-(n+1)+1 = Len(s)-n
      BY <1>1, <1>2
    <3> QED
      BY <3>1, <3>2, SubSeqProperties
  <2>4. \A i \in 1..n : SubSeq(s, 1, n)[i] = s[i]
    BY <2>2
  <2>5. \A i \in 1..(Len(s)-n) : SubSeq(s, n+1, Len(s))[i] = s[i+n] /\ i+n \in 1..Len(s)
    <3> TAKE i \in 1..(Len(s)-n)
    <3>1. n+1+i-1 = i+n /\ i+n \in 1..Len(s)
      BY <1>1
    <3> QED
      BY <2>3, <3>1
  <2> QED
    BY <1>2, <2>1, <2>2, <2>3, <2>4, <2>5
<1>3. CASE ~(Len(s) > n)
  <2>1. Readable(s, n) = s /\ Rest(s, n) = << >>
    BY <1>3 DEF Readable, Rest
  <2> QED
    BY <1>1, <1>3, <2>1, EmptySeq
<1> QED
  BY <1>2, <1>3

(* The lengths alone.                                                        *)
LEMMA ReadLengths ==
  ASSUME NEW s \in Seq(Parts), NEW n \in Nat \ {0}
  PROVE  /\ Len(Readable(s, n)) = IF Len(s) > n THEN n ELSE Len(s)
         /\ Len(Rest(s, n)) = Len(s) - Len(Readable(s, n))
BY ReadIsPrefix, Zenon

(* A non-empty set of numbers has a smallest.                                *)
LEMMA SmallestNumber ==
  ASSUME NEW S, S \subseteq Nat, S # {}
  PROVE  \E i \in S : \A j \in S : i <= j
<1>1. \E i \in S : \A j \in S : <<j, i>> \notin OpToRel(<, Nat)
  BY NatLessThanWellFounded, WFMin
<1>2. ASSUME NEW i \in Nat, NEW j \in Nat, <<j, i>> \notin OpToRel(<, Nat)
      PROVE  i <= j
  <2>1. <<j, i>> \in Nat \X Nat /\ <<j, i>>[1] = j /\ <<j, i>>[2] = i
    OBVIOUS
  <2>2. ~(j < i)
    BY <1>2, <2>1 DEF OpToRel
  <2> QED
    BY <2>2
<1> QED
  BY <1>1, <1>2

(* A token ends at the first separator, or where the message does.           *)
LEMMA TokenEnds ==
  ASSUME NEW S, NEW s \in Seq(S), s # << >>
  PROVE  /\ TokenEnd(s) \in 1..Len(s)
         /\ IsEnd(s, TokenEnd(s))
         /\ \A j \in 1..(TokenEnd(s)-1) : ~IsEnd(s, j)
<1> DEFINE E == {i \in 1..Len(s) : IsEnd(s, i)}
<1>1. Len(s) \in Nat \ {0}
  BY EmptySeq
<1>2. Len(s) \in E /\ E \subseteq Nat
  BY <1>1 DEF IsEnd
<1>3. PICK i \in E : \A j \in E : i <= j
  <2> HIDE DEF E
  <2> QED
    BY <1>2, SmallestNumber
<1>4. i \in 1..Len(s) /\ IsEnd(s, i) /\ \A j \in 1..(i-1) : ~IsEnd(s, j)
  BY <1>1, <1>3
<1> QED
  BY <1>4 DEF TokenEnd

(* The first token and what is left behind it.                               *)
LEMMA TokensArePieces ==
  ASSUME NEW S, NEW s \in Seq(S), s # << >>
  PROVE  /\ FirstToken(s) \in Seq(S) /\ Len(FirstToken(s)) = TokenEnd(s)
         /\ \A i \in 1..TokenEnd(s) : FirstToken(s)[i] = s[i]
         /\ AfterToken(s) \in Seq(S) /\ Len(AfterToken(s)) = Len(s) - TokenEnd(s)
         /\ \A i \in 1..(Len(s) - TokenEnd(s)) : AfterToken(s)[i] = s[TokenEnd(s) + i]
<1> DEFINE e == TokenEnd(s)
<1>1. e \in 1..Len(s) /\ Len(s) \in Nat /\ \A i \in 1..Len(s) : s[i] \in S
  BY TokenEnds
<1>2. FirstToken(s) = SubSeq(s, 1, e) /\ AfterToken(s) = SubSeq(s, e+1, Len(s))
  BY DEF FirstToken, AfterToken
<1> HIDE DEF e
<1>3. /\ SubSeq(s, 1, e) \in Seq(S) /\ Len(SubSeq(s, 1, e)) = e
      /\ \A i \in 1..e : SubSeq(s, 1, e)[i] = s[i]
  <2>1. \A i \in 1..e : s[i] \in S
    BY <1>1
  <2>2. /\ SubSeq(s, 1, e) \in Seq(S)
        /\ Len(SubSeq(s, 1, e)) = IF 1 <= e THEN e-1+1 ELSE 0
        /\ \A i \in 1..e-1+1 : SubSeq(s, 1, e)[i] = s[1+i-1]
    BY <1>1, <2>1, SubSeqProperties
  <2> QED
    BY <1>1, <2>2
<1>4. /\ SubSeq(s, e+1, Len(s)) \in Seq(S) /\ Len(SubSeq(s, e+1, Len(s))) = Len(s) - e
      /\ \A i \in 1..(Len(s)-e) : SubSeq(s, e+1, Len(s))[i] = s[e + i]
  <2>1. \A i \in (e+1)..Len(s) : s[i] \in S
    BY <1>1
  <2>2. /\ SubSeq(s, e+1, Len(s)) \in Seq(S)
        /\ Len(SubSeq(s, e+1, Len(s))) = IF e+1 <= Len(s) THEN Len(s)-(e+1)+1 ELSE 0
        /\ \A i \in 1..Len(s)-(e+1)+1 : SubSeq(s, e+1, Len(s))[i] = s[e+1+i-1]
    BY <1>1, <2>1, SubSeqProperties
  <2>3. Len(s)-(e+1)+1 = Len(s)-e
    BY <1>1
  <2>4. ASSUME NEW i \in 1..(Len(s)-e) PROVE SubSeq(s, e+1, Len(s))[i] = s[e + i]
    <3>1. e+1+i-1 = e+i
      BY <1>1
    <3> QED
      BY <2>2, <2>3, <3>1
  <2>5. Len(SubSeq(s, e+1, Len(s))) = Len(s)-e
    BY <1>1, <2>2
  <2> QED
    BY <2>2, <2>4, <2>5
<1> QED
  BY <1>2, <1>3, <1>4 DEF e

LEMMA TokensAreTyped ==
  ASSUME NEW S, NEW s \in Seq(S)
  PROVE  FirstToken(s) \in Seq(S) /\ AfterToken(s) \in Seq(S)
<1>1. CASE s = << >>
  BY <1>1, EmptySeq DEF FirstToken, AfterToken
<1>2. CASE s # << >>
  BY <1>2, TokensArePieces
<1> QED
  BY <1>1, <1>2
-----------------------------------------------------------------------------
LEMMA MessagesAreParts ==
  /\ \A r \in Requests \cup {NoRequest} :
       /\ Request(r) \in Seq(Parts) /\ Len(Request(r)) = 3
       /\ Answer(r) \in Seq(Parts) /\ Len(Answer(r)) = 2
       /\ \A i \in 1..3 : Request(r)[i] = Part(r, i)
       /\ \A i \in 1..2 : Answer(r)[i] = Part(r, i)
  /\ \A x \in Parts : x.of \in Requests \cup {NoRequest} /\ x.part \in 1..3
<1>1. ASSUME NEW r \in Requests \cup {NoRequest}
      PROVE  /\ Request(r) \in Seq(Parts) /\ Len(Request(r)) = 3
             /\ Answer(r) \in Seq(Parts) /\ Len(Answer(r)) = 2
             /\ \A i \in 1..3 : Request(r)[i] = Part(r, i)
             /\ \A i \in 1..2 : Answer(r)[i] = Part(r, i)
  <2>1. Part(r, 1) \in Parts /\ Part(r, 2) \in Parts /\ Part(r, 3) \in Parts
    BY DEF Part, Parts
  <2>2. /\ <<Part(r, 1), Part(r, 2), Part(r, 3)>> \in Seq(Parts)
        /\ <<Part(r, 1), Part(r, 2)>> \in Seq(Parts)
    BY <2>1
  <2> QED
    BY <2>2 DEF Request, Answer
<1> QED
  BY <1>1 DEF Parts

LEMMA AnswersDiffer ==
  ASSUME NEW q \in Requests, NEW r \in Requests, Answer(q) = Answer(r)
  PROVE  q = r
<1>1. Part(q, 1) = Part(r, 1)
  BY MessagesAreParts
<1> QED
  BY <1>1 DEF Part

(* What the NAT answers is an answer, to the request the address begins.     *)
LEMMA AnswersAreRequests ==
  ASSUME NEW token \in Seq(Parts)
  PROVE  \/ AnswerFor(token) = Answer(NoRequest)
         \/ /\ Len(token) >= 2
            /\ token[1].of \in Requests /\ AnswerFor(token) = Answer(token[1].of)
            /\ token[1] = Part(token[1].of, 2) /\ token[2] = Part(token[1].of, 3)
<1>1. CASE Len(token) >= 2 /\ IsAddress(SubSeq(token, 1, 2))
  <2>1. PICK r \in Requests : SubSeq(token, 1, 2) = <<Part(r, 2), Part(r, 3)>>
    BY <1>1 DEF IsAddress
  <2>2. \A i \in 1..2 : token[i] \in Parts
    BY <1>1
  <2>3. \A i \in 1..2-1+1 : SubSeq(token, 1, 2)[i] = token[1+i-1]
    BY <2>2, SubSeqProperties
  <2>4. token[1] = Part(r, 2) /\ token[2] = Part(r, 3)
    <3>1. 2-1+1 = 2 /\ 1+1-1 = 1 /\ 1+2-1 = 2
      OBVIOUS
    <3>2. SubSeq(token, 1, 2)[1] = token[1] /\ SubSeq(token, 1, 2)[2] = token[2]
      BY <2>3, <3>1
    <3>3. <<Part(r, 2), Part(r, 3)>>[1] = Part(r, 2) /\ <<Part(r, 2), Part(r, 3)>>[2] = Part(r, 3)
      OBVIOUS
    <3> QED
      BY <2>1, <3>2, <3>3, Zenon
  <2>5. token[1].of = r
    BY <2>4 DEF Part
  <2> QED
    BY <1>1, <2>4, <2>5 DEF AnswerFor
<1>2. CASE ~(Len(token) >= 2 /\ IsAddress(SubSeq(token, 1, 2)))
  BY <1>2 DEF AnswerFor
<1> QED
  BY <1>1, <1>2

LEMMA AnswersHaveTwoParts ==
  ASSUME NEW token \in Seq(Parts)
  PROVE  AnswerFor(token) \in Seq(Parts) /\ Len(AnswerFor(token)) = 2
<1>1. PICK r \in Requests \cup {NoRequest} : AnswerFor(token) = Answer(r)
  BY AnswersAreRequests
<1> QED
  BY <1>1, MessagesAreParts

Lines == {"recv", "command", "address", "check", "answer"}

LEMMA TypeKept == TypeOK /\ [Next]_vars => TypeOK'
<1> SUFFICES ASSUME TypeOK, [Next]_vars PROVE TypeOK'
  OBVIOUS
<1> USE SizesAreNat
<1>1. ASSUME NEW p \in Peer, SendRequest(p) PROVE TypeOK'
  <2>1. /\ asked[p] \in Nat /\ asked[p] < MaxRequests
        /\ asked' = [asked EXCEPT ![p] = @ + 1]
        /\ up' = [up EXCEPT ![p] = @ \o Request(<<p, asked'[p]>>)]
        /\ Len(up[p]) + 3 <= Window
        /\ peerAt' = [peerAt EXCEPT ![p] = IF p \in Filter THEN "waiting" ELSE "idle"]
        /\ UNCHANGED <<taken, late, down, threadVars, saved, ended>>
    BY <1>1 DEF SendRequest, TypeOK
  <2>2. asked'[p] \in 1..MaxRequests /\ asked' \in [Peer -> 0..MaxRequests]
    BY <2>1 DEF TypeOK
  <2>3. <<p, asked'[p]>> \in Requests
    BY <2>2 DEF Requests
  <2> DEFINE q == Request(<<p, asked'[p]>>)
  <2>4. q \in Seq(Parts) /\ Len(q) = 3 /\ up[p] \in Seq(Parts)
    BY <2>3, MessagesAreParts DEF TypeOK
  <2> HIDE DEF q
  <2>5. up[p] \o q \in Seq(Parts) /\ Len(up[p] \o q) = Len(up[p]) + 3
    <3>1. up[p] \o q \in Seq(Parts) /\ Len(up[p] \o q) = Len(up[p]) + Len(q)
      BY <2>4, ConcatProperties
    <3> QED
      BY <2>4, <3>1
  <2>6. up' \in [Peer -> Seq(Parts)] /\ \A r \in Peer : Len(up'[r]) <= Window
    BY <2>1, <2>5 DEF TypeOK, q
  <2>7. peerAt' \in [Peer -> {"idle", "waiting", "closed"}]
    BY <2>1 DEF TypeOK
  <2> QED
    BY <2>1, <2>2, <2>6, <2>7 DEF TypeOK, threadVars
<1>2. ASSUME NEW p \in Peer, ReceiveAnswer(p) PROVE TypeOK'
  <2>1. taken' \in [Peer -> Requests \cup {NoRequest}]
    BY <1>2 DEF ReceiveAnswer, UsesAnswer, TypeOK
  <2>2. down[p] \in Seq(Parts) /\ ANSWERPARTS \in Nat \ {0} /\ Len(down[p]) <= WindowTo(p)
        /\ WindowTo(p) \in Nat
    BY WindowsAreNat DEF TypeOK
  <2>3. Rest(down[p], ANSWERPARTS) \in Seq(Parts) /\ Len(Rest(down[p], ANSWERPARTS)) <= WindowTo(p)
    <3>1. /\ Rest(down[p], ANSWERPARTS) \in Seq(Parts)
          /\ Readable(down[p], ANSWERPARTS) \in Seq(Parts)
          /\ Len(Rest(down[p], ANSWERPARTS)) = Len(down[p]) - Len(Readable(down[p], ANSWERPARTS))
      BY <2>2, ReadIsPrefix
    <3>2. Len(Readable(down[p], ANSWERPARTS)) \in Nat /\ Len(down[p]) \in Nat
      BY <2>2, <3>1
    <3> QED
      BY <2>2, <3>1, <3>2
  <2>4. down' \in [Peer -> Seq(Parts)] /\ \A r \in Peer : Len(down'[r]) <= WindowTo(r)
    BY <1>2, <2>3 DEF ReceiveAnswer, TypeOK
  <2> QED
    BY <1>2, <2>1, <2>4 DEF ReceiveAnswer, TypeOK, threadVars
<1>3. ASSUME NEW p \in Peer, GiveUp(p) PROVE TypeOK'
  <2>1. late[p] + 1 \in 0..MaxTimeouts
    BY <1>3 DEF GiveUp, TypeOK
  <2> QED
    BY <1>3, <2>1 DEF GiveUp, TypeOK, threadVars
<1>4. ASSUME NEW p \in Peer, Close(p) PROVE TypeOK'
  BY <1>4 DEF Close, TypeOK, threadVars
<1>5. ASSUME NEW p \in Peer, ReceiveRequest(p) PROVE TypeOK'
  <2>1. up[p] \in Seq(Parts) /\ REQUESTPARTS \in Nat \ {0} /\ Len(up[p]) <= Window
        /\ Window \in Nat
    BY WindowsHoldAMessage DEF TypeOK
  <2>2. /\ Rest(up[p], REQUESTPARTS) \in Seq(Parts)
        /\ Readable(up[p], REQUESTPARTS) \in Seq(Parts)
        /\ Len(Rest(up[p], REQUESTPARTS)) = Len(up[p]) - Len(Readable(up[p], REQUESTPARTS))
    BY <2>1, ReadIsPrefix
  <2>3. Len(Rest(up[p], REQUESTPARTS)) <= Window
    <3>1. Len(Readable(up[p], REQUESTPARTS)) \in Nat /\ Len(up[p]) \in Nat
      BY <2>1, <2>2
    <3> QED
      BY <2>1, <2>2, <3>1
  <2>4. up' \in [Peer -> Seq(Parts)] /\ \A r \in Peer : Len(up'[r]) <= Window
    BY <1>5, <2>2, <2>3 DEF ReceiveRequest, TypeOK
  <2>5. buffer' \in [Peer -> Seq(Parts)]
    BY <1>5, <2>2 DEF ReceiveRequest, TypeOK
  <2> QED
    BY <1>5, <2>4, <2>5 DEF ReceiveRequest, TypeOK, peerVars
<1>6. ASSUME NEW p \in Peer, TakeCommand(p) PROVE TypeOK'
  <2>1. FirstToken(buffer[p]) \in Seq(Parts) /\ AfterToken(buffer[p]) \in Seq(Parts)
    BY TokensAreTyped DEF TypeOK
  <2> QED
    BY <1>6, <2>1 DEF TakeCommand, TypeOK, peerVars
<1>7. ASSUME NEW p \in Peer, TakeAddress(p) PROVE TypeOK'
  <2>1. FirstToken(saved) \in Seq(Parts) /\ AfterToken(saved) \in Seq(Parts)
    BY TokensAreTyped DEF TypeOK
  <2> QED
    BY <1>7, <2>1 DEF TakeAddress, TypeOK, peerVars
<1>8. ASSUME NEW p \in Peer, HandleRequest(p) PROVE TypeOK'
  BY <1>8 DEF HandleRequest, TypeOK, peerVars
<1>9. ASSUME NEW p \in Peer, DropRequest(p) PROVE TypeOK'
  BY <1>9 DEF DropRequest, TypeOK, peerVars
<1>10. ASSUME NEW p \in Peer, RefuseAddress(p) PROVE TypeOK'
  <2>1. << >> \in Seq(Parts)
    BY EmptySeq
  <2>2. pc' \in [Peer -> Lines]
    BY <1>10 DEF RefuseAddress, TypeOK, Lines
  <2>3. address' \in [Peer -> Seq(Parts)]
    BY <1>10, <2>1 DEF RefuseAddress, TypeOK
  <2>4. ended' \in BOOLEAN
    BY <1>10 DEF RefuseAddress, TypeOK
  <2> QED
    BY <1>10, <2>2, <2>3, <2>4 DEF RefuseAddress, TypeOK, peerVars, Lines
<1>11. ASSUME NEW p \in Peer, SendAnswer(p) PROVE TypeOK'
  <2>1. address[p] \in Seq(Parts) /\ down[p] \in Seq(Parts)
    BY DEF TypeOK
  <2>2. AnswerFor(address[p]) \in Seq(Parts) /\ Len(AnswerFor(address[p])) = 2
    BY <2>1, AnswersHaveTwoParts
  <2>3. /\ down[p] \o AnswerFor(address[p]) \in Seq(Parts)
        /\ Len(down[p] \o AnswerFor(address[p])) = Len(down[p]) + 2
    <3>1. /\ down[p] \o AnswerFor(address[p]) \in Seq(Parts)
          /\ Len(down[p] \o AnswerFor(address[p])) = Len(down[p]) + Len(AnswerFor(address[p]))
      BY <2>1, <2>2, ConcatProperties
    <3> QED
      BY <2>2, <3>1
  <2>4. down' \in [Peer -> Seq(Parts)] /\ \A r \in Peer : Len(down'[r]) <= WindowTo(r)
    <3>1. \/ down' = down
          \/ /\ down' = [down EXCEPT ![p] = @ \o AnswerFor(address[p])]
             /\ Len(down[p]) + 2 <= WindowTo(p)
      BY <1>11 DEF SendAnswer
    <3>2. CASE down' = down
      BY <3>2 DEF TypeOK
    <3>3. CASE /\ down' = [down EXCEPT ![p] = @ \o AnswerFor(address[p])]
               /\ Len(down[p]) + 2 <= WindowTo(p)
      BY <2>3, <3>3 DEF TypeOK
    <3> QED
      BY <3>1, <3>2, <3>3
  <2>5. pc' \in [Peer -> Lines] /\ ended' \in BOOLEAN
    BY <1>11 DEF SendAnswer, TypeOK, Lines
  <2> QED
    BY <1>11, <2>4, <2>5 DEF SendAnswer, TypeOK, peerVars, Lines
<1>12. CASE UNCHANGED vars
  BY <1>12 DEF vars, peerVars, threadVars, TypeOK
<1> QED
  BY <1>1, <1>2, <1>3, <1>4, <1>5, <1>6, <1>7, <1>8, <1>9, <1>10, <1>11, <1>12
  DEF Next, PeerStep, ThreadStep

LEMMA TypeAtInit == Init => TypeOK
<1> SUFFICES ASSUME Init PROVE TypeOK
  OBVIOUS
<1>1. << >> \in Seq(Parts) /\ Len(<< >>) = 0
  BY EmptySeq
<1>2. 0 \in 0..MaxRequests /\ 0 \in 0..MaxTimeouts /\ 0 <= Window
      /\ \A p \in Peer : 0 <= WindowTo(p)
  BY SizesAreNat, WindowsHoldAMessage, WindowsAreNat
<1> QED
  BY <1>1, <1>2 DEF Init, TypeOK

(* Every stream, buffer and token is made of parts of requests or of answers *)
(* to none, whatever the threads do to each other's tokens, and no direction *)
(* of a connection holds more than its window.                              *)
THEOREM TypeCorrect == Spec => []TypeOK
BY TypeAtInit, TypeKept, PTL DEF Spec
-----------------------------------------------------------------------------
LEMMA Numbers ==
  ASSUME TypeOK, NEW p \in Peer
  PROVE  /\ asked[p] \in Nat /\ asked[p] <= MaxRequests /\ late[p] \in Nat
         /\ up[p] \in Seq(Parts) /\ Len(up[p]) \in Nat
         /\ down[p] \in Seq(Parts) /\ Len(down[p]) \in Nat
         /\ buffer[p] \in Seq(Parts) /\ Len(buffer[p]) \in Nat
         /\ ReadBy(p) \in Int /\ DoneBy(p) \in Int /\ Received(p) \in Int
         /\ pc[p] \in Lines
<1>1. /\ asked[p] \in 0..MaxRequests /\ late[p] \in 0..MaxTimeouts
      /\ up[p] \in Seq(Parts) /\ down[p] \in Seq(Parts) /\ buffer[p] \in Seq(Parts)
      /\ pc[p] \in Lines
  BY DEF TypeOK, Lines
<1>2. asked[p] \in Nat /\ asked[p] <= MaxRequests /\ late[p] \in Nat
  BY <1>1, SizesAreNat
<1>3. Len(up[p]) \in Nat /\ Len(down[p]) \in Nat /\ Len(buffer[p]) \in Nat
  BY <1>1
<1>4. ReadBy(p) \in Int
  BY <1>2, <1>3 DEF ReadBy
<1>5. DoneBy(p) \in Int
  BY <1>3, <1>4 DEF DoneBy
<1>6. Received(p) \in Int
  BY <1>2 DEF Received
<1> QED
  BY <1>1, <1>2, <1>3, <1>4, <1>5, <1>6

LEMMA NumbersNext ==
  ASSUME TypeOK', NEW p \in Peer
  PROVE  DoneBy(p)' \in Int
<1>1. /\ asked'[p] \in 0..MaxRequests /\ up'[p] \in Seq(Parts) /\ buffer'[p] \in Seq(Parts)
  BY DEF TypeOK
<1>2. asked'[p] \in Int /\ Len(up'[p]) \in Nat /\ Len(buffer'[p]) \in Nat
  BY <1>1, SizesAreNat
<1>3. ReadBy(p)' \in Int
  BY <1>2 DEF ReadBy
<1> QED
  BY <1>2, <1>3 DEF DoneBy

(* The other peers and their threads are not touched.                        *)
LEMMA OthersKept ==
  ASSUME TypeOK, NEW p \in Peer, PeerStep(p) \/ ThreadStep(p), NEW q \in Peer, q # p
  PROVE  /\ UNCHANGED <<peerAt[q], asked[q], taken[q], late[q], up[q], down[q]>>
         /\ UNCHANGED <<pc[q], buffer[q], command[q], address[q]>>
<1>1. CASE PeerStep(p)
  BY <1>1 DEF PeerStep, SendRequest, ReceiveAnswer, UsesAnswer, GiveUp, Close, TypeOK, threadVars
<1>2. CASE ThreadStep(p)
  BY <1>2 DEF ThreadStep, ReceiveRequest, TakeCommand, TakeAddress, HandleRequest,
     DropRequest, RefuseAddress, SendAnswer, TypeOK, peerVars
<1> QED
  BY <1>1, <1>2

(* A step that neither sends nor reads a request.                            *)
LEMMA PartsKept ==
  ASSUME NEW p \in Peer, StreamRight(p), BufferRight(p),
         UNCHANGED <<asked[p], up[p], buffer[p]>>, Active(p)' => Active(p)
  PROVE  StreamRight(p)' /\ BufferRight(p)'
<1>1. ReadBy(p)' = ReadBy(p) /\ (Active(p)' => DoneBy(p)' = DoneBy(p))
  BY DEF ReadBy, DoneBy
<1> QED
  BY <1>1 DEF StreamRight, BufferRight, Placed

LEMMA SendRequestPlaces ==
  ASSUME PartsInv, NEW p \in Peer, SendRequest(p)
  PROVE  StreamRight(p)' /\ BufferRight(p)' /\ ReadBy(p)' = ReadBy(p)
         /\ Len(up[p])' = Len(up[p]) + 3 /\ asked'[p] = asked[p] + 1
<1> DEFINE a == asked[p]  u == up[p]  r == <<p, a + 1>>
<1>1. /\ a \in Nat /\ a < MaxRequests /\ u \in Seq(Parts) /\ Len(u) \in Nat
      /\ ReadBy(p) \in Int /\ DoneBy(p) \in Int /\ MaxRequests \in Nat
  BY Numbers, SizesAreNat DEF PartsInv, SendRequest
<1>2. asked'[p] = a + 1 /\ up'[p] = u \o Request(r)
      /\ UNCHANGED <<pc, buffer>>
  BY DEF PartsInv, TypeOK, SendRequest, threadVars
<1>3. r \in Requests /\ r \in {p} \X (1..MaxRequests)
  BY <1>1 DEF Requests
<1>4. /\ Request(r) \in Seq(Parts) /\ Len(Request(r)) = 3
      /\ \A i \in 1..3 : Request(r)[i] = Part(r, i)
  BY <1>3, MessagesAreParts
<1> HIDE DEF a, u, r
<1>5. /\ Len(up'[p]) = Len(u) + 3
      /\ \A i \in 1..(Len(u) + 3) :
           up'[p][i] = IF i <= Len(u) THEN u[i] ELSE Request(r)[i - Len(u)]
  <2>1. /\ Len(u \o Request(r)) = Len(u) + Len(Request(r))
        /\ \A i \in 1 .. Len(u) + Len(Request(r)) : (u \o Request(r))[i] =
             IF i <= Len(u) THEN u[i] ELSE Request(r)[i - Len(u)]
    BY <1>1, <1>4, ConcatProperties
  <2> QED
    BY <1>2, <1>4, <2>1
<1>6. ReadBy(p) = 3 * a - Len(u) /\ ReadBy(p)' = ReadBy(p)
  <2>1. ReadBy(p) = 3 * a - Len(u)
    BY DEF ReadBy, a, u
  <2>2. ReadBy(p)' = 3 * asked'[p] - Len(up'[p])
    BY DEF ReadBy
  <2> QED
    BY <1>1, <1>2, <1>5, <2>1, <2>2
<1>7. ReadBy(p) >= 0 /\ Placed(u, p, ReadBy(p))
  BY DEF PartsInv, StreamRight, u
<1>8. Placed(up'[p], p, ReadBy(p))
  <2> SUFFICES ASSUME NEW i \in 1..(Len(u) + 3)
               PROVE  /\ up'[p][i].of \in {p} \X (1..MaxRequests)
                      /\ up'[p][i].part \in 1..3
                      /\ Index(up'[p][i]) = ReadBy(p) + i
    BY <1>5 DEF Placed
  <2>1. CASE i <= Len(u)
    <3>1. i \in 1..Len(u) /\ up'[p][i] = u[i]
      BY <2>1, <1>1, <1>5
    <3> QED
      BY <3>1, <1>7 DEF Placed
  <2>2. CASE ~(i <= Len(u))
    <3> DEFINE k == i - Len(u)
    <3>1. k \in 1..3 /\ i = Len(u) + k
      BY <2>2, <1>1
    <3>2. up'[p][i] = Part(r, k)
      BY <2>2, <3>1, <1>4, <1>5
    <3>3. /\ up'[p][i].of = r /\ up'[p][i].part = k /\ r[2] = a + 1
      BY <3>2 DEF Part, r
    <3>4. Index(up'[p][i]) = 3 * a + k
      BY <3>1, <3>3, <1>1 DEF Index
    <3> QED
      BY <3>1, <3>3, <3>4, <1>1, <1>3, <1>6
  <2> QED
    BY <2>1, <2>2
<1>9. StreamRight(p)'
  BY <1>6, <1>7, <1>8 DEF StreamRight, Placed, Index
<1>10. BufferRight(p)'
  <2>1. Active(p)' = Active(p) /\ (Active(p) => DoneBy(p)' = DoneBy(p))
    BY <1>2, <1>6 DEF Active, DoneBy
  <2>2. BufferRight(p)
    BY DEF PartsInv
  <2> QED
    BY <2>1, <2>2, <1>2 DEF BufferRight, Placed, Index
<1> QED
  BY <1>2, <1>5, <1>6, <1>9, <1>10 DEF a, u

LEMMA ReceiveRequestPlaces ==
  ASSUME PartsInv, NEW p \in Peer, ReceiveRequest(p)
  PROVE  /\ StreamRight(p)' /\ BufferRight(p)'
         /\ asked'[p] = asked[p] /\ Active(p)' /\ ~Active(p)
         /\ buffer'[p] = Readable(up[p], 4)
         /\ Len(buffer[p])' = IF Len(up[p]) > 4 THEN 4 ELSE Len(up[p])
         /\ Len(up[p]) > 0
         /\ Len(up[p])' = Len(up[p]) - Len(buffer[p])'
         /\ ReadBy(p)' = ReadBy(p) + Len(buffer[p])'
         /\ DoneBy(p)' = ReadBy(p)
<1> DEFINE u == up[p]  b == Readable(up[p], 4)  v == Rest(up[p], 4)
<1>1. /\ asked[p] \in Nat /\ u \in Seq(Parts) /\ Len(u) \in Nat \ {0}
      /\ ReadBy(p) \in Int /\ u # << >>
  BY Numbers, EmptySeq DEF PartsInv, ReceiveRequest
<1>2. /\ buffer'[p] = b /\ up'[p] = v /\ asked'[p] = asked[p]
      /\ pc[p] = "recv" /\ pc'[p] = "command"
  BY SizesAreNat DEF PartsInv, TypeOK, ReceiveRequest, peerVars
<1>3. /\ Len(b) = IF Len(u) > 4 THEN 4 ELSE Len(u)
      /\ b \in Seq(Parts)
      /\ \A i \in 1..Len(b) : b[i] = u[i]
      /\ Len(v) = Len(u) - Len(b)
      /\ \A i \in 1..Len(v) : i + Len(b) \in 1..Len(u) /\ v[i] = u[i + Len(b)]
  <2>1. u \in Seq(Parts) /\ 4 \in Nat \ {0}
    BY <1>1
  <2>2. /\ b \in Seq(Parts)
        /\ Len(b) = IF Len(u) > 4 THEN 4 ELSE Len(u)
        /\ \A i \in 1..Len(b) : b[i] = u[i]
        /\ v \in Seq(Parts)
        /\ Len(v) = Len(u) - Len(b)
        /\ \A i \in 1..Len(v) : i + Len(b) \in 1..Len(u) /\ v[i] = u[i + Len(b)]
    BY <2>1, ReadIsPrefix
  <2> QED
    BY <2>2, Zenon
<1> HIDE DEF u, b, v
<1>4. Len(b) \in 1..4 /\ Len(b) <= Len(u) /\ Len(v) \in Nat
  <2>1. Len(u) \in Nat \ {0} /\ Len(b) = (IF Len(u) > 4 THEN 4 ELSE Len(u))
        /\ Len(v) = Len(u) - Len(b)
    BY <1>1, <1>3
  <2>2. CASE Len(u) > 4
    BY <2>1, <2>2
  <2>3. CASE ~(Len(u) > 4)
    BY <2>1, <2>3
  <2> QED
    BY <2>2, <2>3
<1>5. ReadBy(p) >= 0 /\ Placed(u, p, ReadBy(p)) /\ ReadBy(p) = 3 * asked[p] - Len(u)
  BY DEF PartsInv, StreamRight, ReadBy, u
<1>6. ReadBy(p)' = ReadBy(p) + Len(b)
  <2>1. Len(v) = Len(u) - Len(b) /\ Len(u) \in Nat /\ Len(b) \in Nat
    BY <1>1, <1>3, <1>4
  <2>2. ReadBy(p)' = 3 * asked[p] - Len(v)
    BY <1>2 DEF ReadBy
  <2>3. 3 * asked[p] \in Int
    BY <1>1
  <2> DEFINE n == 3 * asked[p]  k == Len(b)  l == Len(u)
  <2>4. n \in Int /\ k \in Nat /\ l \in Nat /\ ReadBy(p)' = n - (l - k) /\ ReadBy(p) = n - l
    BY <2>1, <2>2, <2>3, <1>5
  <2> HIDE DEF n, k, l
  <2>5. ReadBy(p)' = ReadBy(p) + k
    BY <2>4
  <2> QED
    BY <2>5 DEF k
<1>7. Active(p)' /\ ~Active(p) /\ DoneBy(p)' = ReadBy(p)
  BY <1>1, <1>2, <1>4, <1>6 DEF Active, DoneBy
<1>8. Placed(v, p, ReadBy(p) + Len(b))
  <2> SUFFICES ASSUME NEW i \in 1..Len(v)
               PROVE  /\ v[i].of \in {p} \X (1..MaxRequests)
                      /\ v[i].part \in 1..3
                      /\ Index(v[i]) = ReadBy(p) + Len(b) + i
    BY DEF Placed
  <2>1. i + Len(b) \in 1..Len(u) /\ v[i] = u[i + Len(b)]
    BY <1>3
  <2>2. ReadBy(p) + (i + Len(b)) = ReadBy(p) + Len(b) + i
    BY <1>1, <1>4
  <2> QED
    BY <2>1, <2>2, <1>5 DEF Placed
<1>9. Placed(b, p, ReadBy(p))
  <2>1. 1..Len(b) \subseteq 1..Len(u)
    BY <1>1, <1>4
  <2> QED
    BY <2>1, <1>3, <1>5 DEF Placed
<1>10. ReadBy(p) + Len(b) >= 0
  BY <1>1, <1>4, <1>5
<1>11. StreamRight(p)'
  BY <1>2, <1>6, <1>8, <1>10 DEF StreamRight, Placed, Index
<1>12. BufferRight(p)'
  BY <1>2, <1>4, <1>5, <1>7, <1>9, SizesAreNat DEF BufferRight, Placed, Index
<1> QED
  BY <1>1, <1>2, <1>3, <1>4, <1>6, <1>7, <1>11, <1>12 DEF u, b, v

(* What a step of p that is neither of the two leaves as it was.             *)
LEMMA OtherStepsPlace ==
  ASSUME PartsInv, NEW p \in Peer, PeerStep(p) \/ ThreadStep(p),
         ~SendRequest(p), ~ReceiveRequest(p)
  PROVE  /\ UNCHANGED <<asked[p], up[p], buffer[p]>> /\ (Active(p)' => Active(p))
         /\ StreamRight(p)' /\ BufferRight(p)'
         /\ ReadBy(p)' = ReadBy(p) /\ (Active(p)' => DoneBy(p)' = DoneBy(p))
<1>1. UNCHANGED <<asked[p], up[p], buffer[p]>> /\ (Active(p)' => Active(p))
  BY DEF PartsInv, TypeOK, PeerStep, ThreadStep, ReceiveAnswer, GiveUp, Close, TakeCommand,
     TakeAddress, HandleRequest, DropRequest, RefuseAddress, SendAnswer, peerVars, threadVars, Active
<1>2. StreamRight(p)' /\ BufferRight(p)'
  BY <1>1, PartsKept DEF PartsInv
<1> QED
  BY <1>1, <1>2 DEF ReadBy, DoneBy

LEMMA PartsInvKept == PartsInv /\ [Next]_vars => PartsInv'
<1> SUFFICES ASSUME PartsInv, [Next]_vars PROVE PartsInv'
  OBVIOUS
<1>1. TypeOK'
  BY TypeKept DEF PartsInv
<1>2. ASSUME NEW q \in Peer PROVE StreamRight(q)' /\ BufferRight(q)'
  <2>0. StreamRight(q) /\ BufferRight(q) /\ TypeOK
    BY DEF PartsInv
  <2>1. CASE UNCHANGED vars
    BY <2>1, <2>0, PartsKept DEF vars, peerVars, threadVars, Active
  <2>2. ASSUME NEW p \in Peer, PeerStep(p) \/ ThreadStep(p)
        PROVE  StreamRight(q)' /\ BufferRight(q)'
    <3>1. CASE q # p
      <4>1. UNCHANGED <<asked[q], up[q], buffer[q], pc[q]>>
        BY <2>0, <2>2, <3>1, OthersKept
      <4> QED
        BY <4>1, <2>0, PartsKept DEF Active
    <3>2. CASE q = p
      BY <2>2, <3>2, SendRequestPlaces, ReceiveRequestPlaces, OtherStepsPlace
    <3> QED
      BY <3>1, <3>2
  <2> QED
    BY <2>1, <2>2 DEF Next
<1> QED
  BY <1>1, <1>2 DEF PartsInv
-----------------------------------------------------------------------------
(* A message read takes the reading to the end of another request.           *)
LEMMA ThirdsGrow ==
  ASSUME NEW n \in Nat, NEW a \in Nat, NEW k \in 1..4,
         k \in {3, 4} \/ n + k = 3 * a
  PROVE  (n + k) \div 3 - 1 >= n \div 3
<1>1. CASE k = 1 \/ k = 2
  BY <1>1
<1>2. CASE k = 3 \/ k = 4
  BY <1>2
<1> QED
  BY <1>1, <1>2

LEMMA ThirdsBound ==
  ASSUME NEW n \in Int, NEW a \in Nat, n <= 3 * a
  PROVE  n \div 3 <= a /\ (n \div 3 = a => n = 3 * a)
OBVIOUS

(* What a filter that always waited has sent is read when it asks again.     *)
LEMMA CalmHasNothingUp ==
  ASSUME PartsInv, CountInv, NEW p \in Peer, Calm(p), peerAt[p] = "idle",
         p \in Filter \/ asked[p] = 0
  PROVE  Len(up[p]) = 0 /\ ~Active(p)
<1>1. /\ asked[p] \in Nat /\ Len(up[p]) \in Nat /\ Len(down[p]) \in Nat
      /\ Len(buffer[p]) \in Nat
      /\ ReadBy(p) \in Int /\ ReadBy(p) >= 0 /\ ReadBy(p) = 3 * asked[p] - Len(up[p])
  BY Numbers DEF PartsInv, StreamRight, ReadBy
<1>2. CASE p \in Filter
  <2>1. 2 * Received(p) + Len(down[p])
          <= 2 * ((ReadBy(p) \div 3) - (IF Active(p) THEN 1 ELSE 0))
    BY <1>2 DEF CountInv, AnswersCounted
  <2>2. Received(p) = asked[p]
    BY <1>1, <1>2 DEF Received, Calm
  <2>3. ReadBy(p) \div 3 <= asked[p] /\ (ReadBy(p) \div 3 = asked[p] => ReadBy(p) = 3 * asked[p])
    <3>1. ReadBy(p) <= 3 * asked[p]
      BY <1>1
    <3> QED
      BY <3>1, <1>1, ThirdsBound
  <2>4. ReadBy(p) \div 3 \in Int
    BY <1>1
  <2>5. ~Active(p)
    BY <1>1, <2>1, <2>2, <2>3, <2>4
  <2>6. ReadBy(p) \div 3 = asked[p]
    <3>1. 2 * asked[p] + Len(down[p]) <= 2 * (ReadBy(p) \div 3)
      BY <2>1, <2>2, <2>4, <2>5
    <3> DEFINE n == ReadBy(p) \div 3
    <3>2. n \in Int /\ n <= asked[p] /\ 2 * asked[p] + Len(down[p]) <= 2 * n
      BY <3>1, <2>3, <2>4
    <3>3. asked[p] \in Nat /\ Len(down[p]) \in Nat
      BY <1>1
    <3> HIDE DEF n
    <3>4. n = asked[p]
      BY <3>2, <3>3
    <3> QED
      BY <3>4 DEF n
  <2> QED
    BY <1>1, <2>3, <2>5, <2>6
<1>3. CASE asked[p] = 0
  <2>1. Len(up[p]) = 0 /\ ReadBy(p) = 0
    BY <1>1, <1>3
  <2>2. Active(p) => DoneBy(p) = ReadBy(p) - Len(buffer[p]) /\ DoneBy(p) >= 0
                     /\ Len(buffer[p]) \in 1..4
    BY SizesAreNat DEF PartsInv, BufferRight, DoneBy
  <2>3. Active(p) => Len(buffer[p]) <= 0
    BY <1>1, <2>1, <2>2
  <2> QED
    BY <2>1, <2>2, <2>3
<1> QED
  BY <1>2, <1>3

LEMMA SendRequestCounts ==
  ASSUME PartsInv, CountInv, NEW p \in Peer, SendRequest(p)
  PROVE  AnswersCounted(p)' /\ CalmIsWhole(p)'
<1>1. /\ ReadBy(p)' = ReadBy(p) /\ Len(up[p])' = Len(up[p]) + 3 /\ asked'[p] = asked[p] + 1
  BY SendRequestPlaces
<1>2. /\ peerAt[p] = "idle" /\ UNCHANGED <<late, down, pc, buffer>>
      /\ peerAt'[p] = IF p \in Filter THEN "waiting" ELSE "idle"
  BY DEF PartsInv, TypeOK, SendRequest, threadVars
<1>3. asked[p] \in Nat /\ late[p] \in Nat
  BY Numbers DEF PartsInv
<1>4. AnswersCounted(p)'
  <2>1. SUFFICES ASSUME p \in Filter
                 PROVE  2 * Received(p)' + Len(down[p])
                          <= 2 * ((ReadBy(p) \div 3) - (IF Active(p) THEN 1 ELSE 0))
    BY <1>1, <1>2 DEF AnswersCounted, Active
  <2>2. Received(p)' = Received(p)
    BY <2>1, <1>1, <1>2, <1>3 DEF Received
  <2> QED
    BY <2>1, <2>2, <1>2 DEF CountInv, AnswersCounted
<1>5. CalmIsWhole(p)'
  <2> SUFFICES ASSUME Calm(p)' PROVE Len(up[p])' = 3 /\ ~Active(p)'
    BY DEF CalmIsWhole
  <2>1. Calm(p) /\ (p \in Filter \/ asked[p] = 0)
    BY <1>1, <1>2, <1>3 DEF Calm
  <2>2. Len(up[p]) = 0 /\ ~Active(p)
    BY <2>1, <1>2, CalmHasNothingUp
  <2> QED
    BY <2>2, <1>1, <1>2 DEF Active
<1> QED
  BY <1>4, <1>5

LEMMA ReceiveRequestCounts ==
  ASSUME PartsInv, CountInv, NEW p \in Peer, ReceiveRequest(p)
  PROVE  AnswersCounted(p)' /\ CalmIsWhole(p)'
<1> DEFINE k == Len(buffer[p])'
<1>1. /\ asked'[p] = asked[p] /\ Active(p)' /\ ~Active(p)
      /\ k = (IF Len(up[p]) > 4 THEN 4 ELSE Len(up[p]))
      /\ Len(up[p]) > 0
      /\ Len(up[p])' = Len(up[p]) - k
      /\ ReadBy(p)' = ReadBy(p) + k
  BY ReceiveRequestPlaces
<1>2. UNCHANGED <<peerAt, late, down>>
  BY DEF ReceiveRequest, peerVars
<1>3. /\ asked[p] \in Nat /\ Len(up[p]) \in Nat /\ Received(p) \in Int /\ Len(down[p]) \in Nat
      /\ ReadBy(p) \in Int /\ ReadBy(p) >= 0 /\ ReadBy(p) = 3 * asked[p] - Len(up[p])
  BY Numbers DEF PartsInv, StreamRight, ReadBy
<1> HIDE DEF k
<1>4. k \in 1..4 /\ (k \in {3, 4} \/ ReadBy(p) + k = 3 * asked[p])
  <2>1. CASE Len(up[p]) > 4
    BY <2>1, <1>1, <1>3
  <2>2. CASE ~(Len(up[p]) > 4)
    <3>1. k = Len(up[p]) /\ k \in 1..4
      <4>1. Len(up[p]) \in Nat /\ Len(up[p]) > 0 /\ k = Len(up[p])
        BY <2>2, <1>1, <1>3
      <4> DEFINE n == Len(up[p])
      <4>2. n \in Nat /\ n > 0 /\ ~(n > 4)
        BY <2>2, <4>1
      <4> HIDE DEF n
      <4>3. n \in 1..4
        BY <4>2
      <4> QED
        BY <4>1, <4>3 DEF n
    <3> QED
      BY <3>1, <1>3
  <2> QED
    BY <2>1, <2>2
<1>5. AnswersCounted(p)'
  <2>1. SUFFICES ASSUME p \in Filter, peerAt[p] # "closed"
                 PROVE  2 * Received(p)' + Len(down[p]) <= 2 * ((ReadBy(p)' \div 3) - 1)
    BY <1>1, <1>2 DEF AnswersCounted
  <2>2. Received(p)' = Received(p)
    BY <1>1, <1>2 DEF Received
  <2>3. 2 * Received(p) + Len(down[p]) <= 2 * (ReadBy(p) \div 3)
    <3>1. 2 * Received(p) + Len(down[p])
            <= 2 * ((ReadBy(p) \div 3) - (IF Active(p) THEN 1 ELSE 0))
      BY <2>1 DEF CountInv, AnswersCounted
    <3> QED
      BY <3>1, <1>1, <1>3
  <2>4. (ReadBy(p) + k) \div 3 - 1 >= ReadBy(p) \div 3
    <3>1. ReadBy(p) \in Nat
      BY <1>3
    <3> QED
      BY <3>1, <1>3, <1>4, ThirdsGrow
  <2>5. ReadBy(p) \div 3 \in Int /\ (ReadBy(p) + k) \div 3 \in Int
    <3> DEFINE n == ReadBy(p)
    <3>1. n \in Int /\ k \in Int
      BY <1>3, <1>4
    <3> HIDE DEF n, k
    <3>2. n \div 3 \in Int /\ (n + k) \div 3 \in Int
      BY <3>1
    <3> QED
      BY <3>2 DEF n
  <2> QED
    BY <2>2, <2>3, <2>4, <2>5, <1>1, <1>3
<1>6. CalmIsWhole(p)'
  <2> SUFFICES ASSUME Calm(p)', peerAt[p] # "closed"
               PROVE  Len(up[p])' = 0 /\ k = 3
    BY <1>2 DEF CalmIsWhole, k
  <2>1. Calm(p)
    BY <1>1, <1>2 DEF Calm
  <2>2. Len(up[p]) \in {0, 3}
    BY <2>1 DEF CountInv, CalmIsWhole
  <2>3. Len(up[p]) = 3
    BY <2>2, <1>1
  <2>4. k = 3
    BY <2>3, <1>1
  <2> QED
    BY <2>3, <2>4, <1>1
<1> QED
  BY <1>5, <1>6

(* A read of the connection takes at least two parts, or the odd one left    *)
(* by a read of three.                                                      *)
LEMMA ReceiveAnswerCounts ==
  ASSUME PartsInv, CountInv, NEW p \in Peer, ReceiveAnswer(p)
  PROVE  /\ AnswersCounted(p)' /\ CalmIsWhole(p)'
         /\ Received(p)' = Received(p) + 1
         /\ down'[p] = Rest(down[p], 3)
<1>1. /\ UNCHANGED <<asked, late, up, pc, buffer>>
      /\ peerAt[p] = "waiting" /\ peerAt'[p] = "idle" /\ down[p] # << >>
      /\ down'[p] = Rest(down[p], 3)
  BY SizesAreNat DEF PartsInv, TypeOK, ReceiveAnswer, threadVars
<1>2. /\ asked[p] \in Nat /\ late[p] \in Nat /\ Received(p) \in Int /\ ReadBy(p) \in Int
      /\ down[p] \in Seq(Parts) /\ Len(down[p]) \in Nat \ {0}
  BY <1>1, Numbers, EmptySeq DEF PartsInv
<1>3. Received(p)' = Received(p) + 1
  BY <1>1, <1>2 DEF Received
<1>4. /\ Len(down[p])' = Len(down[p]) - Len(Readable(down[p], 3))
      /\ Len(Readable(down[p], 3)) = IF Len(down[p]) > 3 THEN 3 ELSE Len(down[p])
  <2>1. 3 \in Nat \ {0}
    OBVIOUS
  <2> QED
    BY <1>1, <1>2, <2>1, ReadLengths, Zenon
<1>5. Len(down[p])' = (IF Len(down[p]) > 3 THEN Len(down[p]) - 3 ELSE 0)
  <2>1. Len(down[p]) \in Nat
    BY <1>2
  <2>2. CASE Len(down[p]) > 3
    BY <2>1, <2>2, <1>4
  <2>3. CASE ~(Len(down[p]) > 3)
    <3>1. Len(down[p])' = Len(down[p]) - Len(down[p])
      BY <2>3, <1>4
    <3> QED
      BY <2>1, <2>3, <3>1
  <2> QED
    BY <2>2, <2>3
<1>6. AnswersCounted(p)'
  <2> DEFINE K == (ReadBy(p) \div 3) - (IF Active(p) THEN 1 ELSE 0)
  <2>1. SUFFICES ASSUME p \in Filter
                 PROVE  2 * Received(p)' + Len(down[p])' <= 2 * K
    BY <1>1 DEF AnswersCounted, Active, ReadBy
  <2>2. 2 * Received(p) + Len(down[p]) <= 2 * K
    BY <2>1, <1>1 DEF CountInv, AnswersCounted
  <2>3. K \in Int
    BY <1>2
  <2> HIDE DEF K
  <2>4. CASE Len(down[p]) > 3
    BY <2>2, <2>3, <2>4, <1>2, <1>3, <1>5
  <2>5. CASE ~(Len(down[p]) > 3)
    <3>1. Len(down[p])' = 0 /\ Len(down[p]) >= 1
      BY <2>5, <1>2, <1>5
    <3> QED
      BY <3>1, <2>2, <2>3, <1>2, <1>3
  <2> QED
    BY <2>4, <2>5
<1>7. CalmIsWhole(p)'
  BY <1>1 DEF CountInv, CalmIsWhole, Calm, Active
<1> QED
  BY <1>1, <1>3, <1>6, <1>7

LEMMA SendAnswerCounts ==
  ASSUME PartsInv, CountInv, NEW p \in Peer, SendAnswer(p)
  PROVE  AnswersCounted(p)' /\ CalmIsWhole(p)'
<1>1. /\ UNCHANGED <<peerAt, asked, late, up, buffer>>
      /\ pc[p] = "answer" /\ pc'[p] = "recv"
  BY DEF PartsInv, TypeOK, SendAnswer, peerVars
<1>2. Active(p) /\ ~Active(p)' /\ ReadBy(p)' = ReadBy(p) /\ Received(p)' = Received(p)
  BY <1>1 DEF Active, ReadBy, Received
<1>3. /\ Received(p) \in Int /\ ReadBy(p) \in Int /\ Len(down[p]) \in Nat
      /\ down[p] \in Seq(Parts) /\ address[p] \in Seq(Parts)
  BY Numbers DEF PartsInv, TypeOK
<1>4. AnswersCounted(p)'
  <2>1. SUFFICES ASSUME p \in Filter, peerAt[p] # "closed"
                 PROVE  2 * Received(p) + Len(down[p])' <= 2 * (ReadBy(p) \div 3)
    BY <1>1, <1>2, <1>3 DEF AnswersCounted
  <2>2. 2 * Received(p) + Len(down[p]) <= 2 * ((ReadBy(p) \div 3) - 1)
    BY <2>1, <1>2 DEF CountInv, AnswersCounted
  <2>3. Len(down[p])' = Len(down[p]) + 2
    <3>1. down'[p] = down[p] \o AnswerFor(address[p])
      BY <2>1, <1>1 DEF SendAnswer, PartsInv, TypeOK
    <3>2. AnswerFor(address[p]) \in Seq(Parts) /\ Len(AnswerFor(address[p])) = 2
      BY <1>3, AnswersHaveTwoParts
    <3>3. Len(down[p] \o AnswerFor(address[p])) = Len(down[p]) + Len(AnswerFor(address[p]))
      BY <1>3, <3>2, ConcatProperties
    <3> QED
      BY <3>1, <3>2, <3>3
  <2>4. ReadBy(p) \div 3 \in Int
    BY <1>3
  <2> DEFINE q == ReadBy(p) \div 3  l == Len(down[p])  n == Received(p)
  <2>5. 2 * n + l <= 2 * (q - 1) /\ q \in Int /\ l \in Int /\ n \in Int
    BY <2>2, <2>4, <1>3
  <2> HIDE DEF q, l, n
  <2>6. 2 * n + (l + 2) <= 2 * q
    BY <2>5
  <2> QED
    BY <2>3, <2>6 DEF q, l, n
<1>5. CalmIsWhole(p)'
  BY <1>1, <1>2 DEF CountInv, CalmIsWhole, Calm
<1> QED
  BY <1>4, <1>5

LEMMA CountKept ==
  ASSUME PartsInv, CountInv, NEW p \in Peer, PeerStep(p) \/ ThreadStep(p)
  PROVE  AnswersCounted(p)' /\ CalmIsWhole(p)'
<1> DEFINE Same == UNCHANGED <<asked[p], up[p], buffer[p], down[p]>>
<1>0. /\ asked[p] \in Nat /\ late[p] \in Nat /\ ReadBy(p) \in Int /\ Len(down[p]) \in Nat
      /\ AnswersCounted(p) /\ CalmIsWhole(p)
  BY Numbers DEF PartsInv, CountInv
<1>1. CASE GiveUp(p)
  <2>1. /\ Same /\ pc'[p] = pc[p] /\ late'[p] = late[p] + 1
        /\ peerAt[p] = "waiting" /\ peerAt'[p] = "idle"
    BY <1>1 DEF PartsInv, TypeOK, GiveUp, threadVars
  <2>2. Received(p)' = Received(p)
    BY <2>1, <1>0 DEF Received
  <2>3. AnswersCounted(p)'
    BY <2>1, <2>2, <1>0 DEF AnswersCounted, Active, ReadBy
  <2>4. CalmIsWhole(p)'
    BY <2>1, <1>0 DEF CalmIsWhole, Calm, Active
  <2> QED
    BY <2>3, <2>4
<1>2. CASE Close(p)
  <2>1. peerAt'[p] = "closed"
    BY <1>2 DEF PartsInv, TypeOK, Close
  <2> QED
    BY <2>1 DEF AnswersCounted, CalmIsWhole
<1>3. CASE DropRequest(p)
  <2>1. Same /\ UNCHANGED <<peerAt[p], late[p]>> /\ Active(p) /\ ~Active(p)'
    BY <1>3 DEF PartsInv, TypeOK, DropRequest, peerVars, Active
  <2>2. Received(p)' = Received(p) /\ ReadBy(p)' = ReadBy(p)
    BY <2>1 DEF Received, ReadBy
  <2>3. Received(p) \in Int /\ ReadBy(p) \div 3 \in Int
    BY <1>0, Numbers DEF PartsInv
  <2>4. AnswersCounted(p)'
    BY <2>1, <2>2, <2>3, <1>0 DEF AnswersCounted
  <2>5. CalmIsWhole(p)'
    BY <2>1, <1>0 DEF CalmIsWhole, Calm
  <2> QED
    BY <2>4, <2>5
<1>4. CASE TakeCommand(p) \/ TakeAddress(p) \/ HandleRequest(p) \/ RefuseAddress(p)
  <2>1. Same /\ UNCHANGED <<peerAt[p], late[p]>> /\ Active(p) /\ Active(p)'
    BY <1>4 DEF PartsInv, TypeOK, TakeCommand, TakeAddress, HandleRequest, RefuseAddress,
       peerVars, Active
  <2> QED
    BY <2>1, <1>0 DEF AnswersCounted, CalmIsWhole, Calm, Received, ReadBy
<1> QED
  BY <1>1, <1>2, <1>3, <1>4, SendRequestCounts, ReceiveRequestCounts, ReceiveAnswerCounts,
     SendAnswerCounts DEF PeerStep, ThreadStep

LEMMA CountInvKept == PartsInv /\ CountInv /\ [Next]_vars => CountInv'
<1> SUFFICES ASSUME PartsInv, CountInv, [Next]_vars, NEW q \in Peer
             PROVE  AnswersCounted(q)' /\ CalmIsWhole(q)'
  BY DEF CountInv
<1>1. ASSUME UNCHANGED <<peerAt[q], asked[q], late[q], up[q], down[q], pc[q], buffer[q]>>
      PROVE  AnswersCounted(q)' /\ CalmIsWhole(q)'
  <2>1. AnswersCounted(q) /\ CalmIsWhole(q)
    BY DEF CountInv
  <2> QED
    BY <1>1, <2>1 DEF AnswersCounted, CalmIsWhole, Calm, Received, ReadBy, Active
<1>2. CASE UNCHANGED vars
  BY <1>1, <1>2 DEF vars, peerVars, threadVars
<1>3. ASSUME NEW p \in Peer, PeerStep(p) \/ ThreadStep(p)
      PROVE  AnswersCounted(q)' /\ CalmIsWhole(q)'
  <2>1. CASE q # p
    BY <1>1, <1>3, <2>1, OthersKept DEF PartsInv
  <2>2. CASE q = p
    BY <1>3, <2>2, CountKept
  <2> QED
    BY <2>1, <2>2
<1> QED
  BY <1>2, <1>3 DEF Next

LEMMA CountsAlways == Spec => [](PartsInv /\ CountInv)
<1>1. Init => PartsInv /\ CountInv
  <2> SUFFICES ASSUME Init PROVE PartsInv /\ CountInv
    OBVIOUS
  <2>1. TypeOK
    BY TypeAtInit
  <2>2. ASSUME NEW p \in Peer
        PROVE  StreamRight(p) /\ BufferRight(p) /\ AnswersCounted(p) /\ CalmIsWhole(p)
    <3>1. /\ peerAt[p] = "idle" /\ asked[p] = 0 /\ late[p] = 0 /\ up[p] = << >>
          /\ down[p] = << >> /\ pc[p] = "recv" /\ Len(<< >>) = 0
      BY DEF Init
    <3>2. ReadBy(p) = 0 /\ Received(p) = 0 /\ ~Active(p) /\ 0 \div 3 = 0
      <4>1. asked[p] = 0 /\ late[p] = 0 /\ Len(up[p]) = 0
        BY <3>1
      <4>2. 3 * asked[p] - Len(up[p]) = 0 /\ asked[p] - late[p] - 0 = 0
        BY <4>1
      <4>3. 0 \div 3 = 0
        OBVIOUS
      <4> QED
        BY <3>1, <4>2, <4>3 DEF ReadBy, Received, Active
    <3> QED
      BY <3>1, <3>2 DEF StreamRight, Placed, BufferRight, AnswersCounted, CalmIsWhole
  <2> QED
    BY <2>1, <2>2 DEF PartsInv, CountInv
<1> QED
  BY <1>1, PartsInvKept, CountInvKept, PTL DEF Spec
-----------------------------------------------------------------------------
LEMMA OwnTokens ==
  ASSUME TypeOK, NEW p \in Peer, TokensRight(p), PeerStep(p) \/ ThreadStep(p)
  PROVE  TokensRight(p)'
<1>1. CASE PeerStep(p)
  BY <1>1 DEF PeerStep, SendRequest, ReceiveAnswer, GiveUp, Close, threadVars, TokensRight
<1>2. CASE ReceiveRequest(p)
  <2>1. pc'[p] = "command"
    BY <1>2 DEF ReceiveRequest, TypeOK
  <2> QED
    BY <2>1 DEF TokensRight
<1>3. CASE TakeCommand(p)
  <2>1. /\ pc'[p] = "address" /\ command'[p] = FirstToken(buffer[p])
        /\ saved' = AfterToken(buffer[p]) /\ buffer' = buffer
    BY <1>3 DEF TakeCommand, TypeOK
  <2> QED
    BY <2>1 DEF TokensRight
<1>4. CASE TakeAddress(p)
  <2>1. /\ pc[p] = "address" /\ pc'[p] = "check" /\ address'[p] = FirstToken(saved)
        /\ UNCHANGED <<buffer, command>>
    BY <1>4 DEF TakeAddress, TypeOK
  <2> QED
    BY <2>1 DEF TokensRight, SecondToken
<1>5. CASE HandleRequest(p)
  <2>1. pc[p] = "check" /\ pc'[p] = "answer" /\ UNCHANGED <<buffer, command, address>>
    BY <1>5 DEF HandleRequest, TypeOK
  <2> QED
    BY <2>1 DEF TokensRight
<1>6. CASE DropRequest(p) \/ SendAnswer(p)
  <2>1. pc'[p] = "recv"
    BY <1>6 DEF DropRequest, SendAnswer, TypeOK
  <2> QED
    BY <2>1 DEF TokensRight
<1>7. CASE RefuseAddress(p)
  <2>1. /\ pc[p] = "check" /\ UNCHANGED <<buffer, command>>
        /\ \/ pc'[p] = "check" /\ address'[p] = address[p]
           \/ pc'[p] = "answer" /\ address'[p] = << >>
    BY <1>7 DEF RefuseAddress, TypeOK
  <2> QED
    BY <2>1 DEF TokensRight
<1> QED
  BY <1>1, <1>2, <1>3, <1>4, <1>5, <1>6, <1>7 DEF ThreadStep

(* The tokens of q are q's own as long as nobody calls strtok in between.    *)
LEMMA TokensInvKept ==
  TypeOK /\ TokensInv /\ NoTokenRace /\ NoTokenRace' /\ [Next]_vars => TokensInv'
<1> SUFFICES ASSUME TypeOK, TokensInv, NoTokenRace, NoTokenRace', [Next]_vars, NEW q \in Peer
             PROVE  TokensRight(q)'
  BY DEF TokensInv
<1>0. TokensRight(q)
  BY DEF TokensInv
<1>1. CASE UNCHANGED vars
  BY <1>0, <1>1 DEF vars, threadVars, TokensRight
<1>2. ASSUME NEW p \in Peer, PeerStep(p) \/ ThreadStep(p) PROVE TokensRight(q)'
  <2>1. CASE q = p
    BY <1>0, <1>2, <2>1, OwnTokens
  <2>2. CASE q # p
    <3>1. UNCHANGED <<pc[q], buffer[q], command[q], address[q]>>
      BY <1>2, <2>2, OthersKept
    <3>2. pc[q] = "address" => saved' = saved
      <4> SUFFICES ASSUME pc[q] = "address" PROVE saved' = saved
        OBVIOUS
      <4>1. ~TakeAddress(p)
        BY <2>2 DEF TakeAddress, NoTokenRace
      <4>2. ~TakeCommand(p)
        <5> SUFFICES ASSUME TakeCommand(p) PROVE FALSE
          OBVIOUS
        <5>1. pc'[p] = "address" /\ pc'[q] = "address"
          BY <3>1 DEF TakeCommand, TypeOK
        <5> QED
          BY <5>1, <2>2 DEF NoTokenRace
      <4> QED
        BY <1>2, <4>1, <4>2 DEF PeerStep, ThreadStep, SendRequest, ReceiveAnswer, GiveUp, Close,
           ReceiveRequest, HandleRequest, DropRequest, RefuseAddress, SendAnswer
    <3> QED
      BY <1>0, <3>1, <3>2 DEF TokensRight
  <2> QED
    BY <2>1, <2>2
<1> QED
  BY <1>1, <1>2 DEF Next

(* What can be answered of a message: a request whose end is in it, so that  *)
(* at most one part of the next has been read.                               *)
LEMMA AnsweredIsRead ==
  ASSUME NEW p \in Peer, NEW b \in Seq(Parts), Len(b) \in 1..4,
         NEW n \in Int, Placed(b, p, n)
  PROVE  \/ AnswerFor(SecondToken(b)) = Answer(NoRequest)
         \/ \E r \in {p} \X (1..MaxRequests) :
              /\ AnswerFor(SecondToken(b)) = Answer(r)
              /\ n + 3 <= 3 * r[2] /\ 3 * r[2] <= n + Len(b) /\ n + Len(b) <= 3 * r[2] + 1
<1> DEFINE a == AfterToken(b)  t == FirstToken(a)  e == TokenEnd(b)
<1>1. a \in Seq(Parts) /\ t \in Seq(Parts) /\ SecondToken(b) = t
  BY TokensAreTyped DEF SecondToken
<1>2. SUFFICES ASSUME Len(t) >= 2, t[2] = Part(t[1].of, 3), AnswerFor(t) = Answer(t[1].of)
               PROVE  \E r \in {p} \X (1..MaxRequests) :
                        /\ AnswerFor(t) = Answer(r)
                        /\ n + 3 <= 3 * r[2] /\ 3 * r[2] <= n + Len(b)
                        /\ n + Len(b) <= 3 * r[2] + 1
  BY <1>1, AnswersAreRequests
<1>3. b # << >>
  <2>1. \A k \in 1..4 : k # 0
    OBVIOUS
  <2>2. Len(b) # 0
    BY <2>1, Zenon
  <2> QED
    BY <2>2, EmptySeq
<1>4. /\ e \in 1..Len(b) /\ Len(a) = Len(b) - e
      /\ \A i \in 1..(Len(b) - e) : a[i] = b[e + i]
  BY <1>3, TokenEnds, TokensArePieces
<1>5. a # << >>
  <2>1. a = << >> => t = << >>
    BY DEF FirstToken
  <2>2. Len(t) # 0
    BY <1>1, <1>2
  <2> QED
    BY <1>1, <2>1, <2>2, EmptySeq
<1>6. /\ Len(t) = TokenEnd(a) /\ TokenEnd(a) \in 1..Len(a)
      /\ \A i \in 1..TokenEnd(a) : t[i] = a[i]
  BY <1>1, <1>5, TokenEnds, TokensArePieces
<1>7. Len(b) \in Nat /\ Len(a) \in Nat
  BY <1>1
<1> HIDE DEF a, t, e
<1>8. e \in Nat /\ e >= 1 /\ e + 2 <= Len(b) /\ Len(b) <= 4
  <2> DEFINE k == Len(b)  l == Len(a)  f == TokenEnd(a)
  <2>1. k \in 1..4 /\ l \in Nat /\ e \in 1..k /\ l = k - e /\ f \in 1..l /\ f >= 2
    BY <1>2, <1>4, <1>6, <1>7
  <2> HIDE DEF k, l, f
  <2>2. e \in Nat /\ e >= 1 /\ e + 2 <= k /\ k <= 4
    BY <2>1
  <2> QED
    BY <2>2 DEF k
<1>9. t[1] = b[e + 1] /\ t[2] = b[e + 2] /\ e + 1 \in 1..Len(b) /\ e + 2 \in 1..Len(b)
  <2>1. 1 \in 1..TokenEnd(a) /\ 2 \in 1..TokenEnd(a)
    BY <1>2, <1>6, <1>7
  <2>2. 1 \in 1..(Len(b) - e) /\ 2 \in 1..(Len(b) - e)
    BY <1>7, <1>8
  <2> QED
    BY <2>1, <2>2, <1>4, <1>6, <1>7, <1>8
<1> DEFINE r == t[1].of
<1>10. r \in {p} \X (1..MaxRequests)
  BY <1>9 DEF Placed
<1>11. 3 * r[2] = n + (e + 2)
  <2>1. t[2].of = r /\ t[2].part = 3
    BY <1>2 DEF Part
  <2>2. Index(t[2]) = n + (e + 2)
    BY <1>9 DEF Placed
  <2>3. r[2] \in Int
    BY <1>10, SizesAreNat
  <2> HIDE DEF r
  <2> QED
    BY <2>1, <2>2, <2>3 DEF Index
<1>12. n + 3 <= 3 * r[2] /\ 3 * r[2] <= n + Len(b) /\ n + Len(b) <= 3 * r[2] + 1
  <2> HIDE DEF r
  <2> QED
    BY <1>7, <1>8, <1>11
<1> QED
  BY <1>2, <1>10, <1>12
-----------------------------------------------------------------------------
LEMMA RequestNumbers ==
  /\ NoRequest \notin Requests /\ NoRequest[2] = 0
  /\ \A r \in Requests : r[1] \in Peer /\ r[2] \in 1..MaxRequests /\ r[2] \in Nat /\ r = <<r[1], r[2]>>
  /\ \A p \in Peer : {p} \X (1..MaxRequests) \subseteq Requests
  /\ \A p \in Peer : \A r \in {p} \X (1..MaxRequests) : r[1] = p
BY SizesAreNat, NobodyIsNoPeer DEF Requests, NoRequest, Peer

(* A step of p that answers nothing and receives no answer.                  *)
LEMMA AnswersKept ==
  ASSUME TypeOK, TypeOK', NEW p \in Peer, AnswersRight(p), UNCHANGED <<taken[p], down[p]>>,
         DoneBy(p) <= DoneBy(p)',
         peerAt'[p] # "closed" => peerAt[p] # "closed" /\ (p \in Filter => Received(p)' = Received(p))
  PROVE  AnswersRight(p)'
<1>1. DoneBy(p) \in Int /\ DoneBy(p)' \in Int /\ taken[p][2] \in Nat
  <2>1. taken[p] \in Requests \cup {NoRequest}
    BY DEF TypeOK
  <2>2. DoneBy(p)' \in Int
    BY NumbersNext
  <2> QED
    BY <2>1, <2>2, Numbers, RequestNumbers
<1>2. (taken[p] = NoRequest \/ taken[p][1] = p) /\ 3 * taken[p][2] <= DoneBy(p)'
  BY <1>1 DEF AnswersRight
<1>3. ASSUME NEW i \in 1..Len(down[p]), down[p][i].of # NoRequest
      PROVE  /\ down[p][i].of \in {p} \X (1..MaxRequests)
             /\ taken[p][2] < down[p][i].of[2]
             /\ 3 * down[p][i].of[2] <= DoneBy(p)'
             /\ p \in Filter /\ peerAt'[p] # "closed" =>
                  2 * Received(p)' + i + 2 - down[p][i].part <= 2 * down[p][i].of[2]
  <2>1. /\ down[p][i].of \in {p} \X (1..MaxRequests)
        /\ taken[p][2] < down[p][i].of[2]
        /\ 3 * down[p][i].of[2] <= DoneBy(p)
        /\ p \in Filter /\ peerAt[p] # "closed" =>
             2 * Received(p) + i + 2 - down[p][i].part <= 2 * down[p][i].of[2]
    BY <1>3 DEF AnswersRight
  <2>2. down[p][i].of[2] \in Nat
    BY <2>1, RequestNumbers
  <2>3. 3 * down[p][i].of[2] <= DoneBy(p)'
    BY <2>1, <2>2, <1>1
  <2> QED
    BY <2>1, <2>3
<1> QED
  BY <1>2, <1>3 DEF AnswersRight

LEMMA LagArithmetic ==
  ASSUME NEW a \in Nat, NEW l \in Nat, NEW m \in Nat, NEW d \in Int, NEW n \in Int,
         n = a - l - 1, 2 * n + 2 + 2 - 2 <= 2 * m, 3 * m <= d, d <= 3 * a
  PROVE  m <= a /\ a - m <= l
OBVIOUS

LEMMA ShiftArithmetic ==
  ASSUME NEW n \in Int, NEW i \in Nat, NEW k \in Nat, NEW m \in Nat,
         2 * n + (i + 3) + 2 - k <= 2 * m
  PROVE  2 * (n + 1) + i + 2 - k <= 2 * m
OBVIOUS

LEMMA ReceiveAnswerTakes ==
  ASSUME PartsInv, CountInv, NEW p \in Filter, AnswersRight(p), ReceiveAnswer(p)
  PROVE  /\ AnswersRight(p)'
         /\ \A r \in Requests : Readable(down[p], ANSWERPARTS) = Answer(r) =>
              /\ taken'[p] = r /\ r[1] = p /\ r[2] > taken[p][2]
              /\ asked[p] - r[2] \in 0..late[p]
         /\ taken'[p] # taken[p] =>
              \E r \in Requests : Readable(down[p], ANSWERPARTS) = Answer(r)
<1> DEFINE d == down[p]  s == Readable(down[p], 3)
<1>0. p \in Peer
  BY DEF Peer
<1>1. /\ d \in Seq(Parts) /\ asked[p] \in Nat /\ late[p] \in Nat /\ Received(p) \in Int
      /\ Len(d) \in Nat /\ Len(up[p]) \in Nat /\ Len(buffer[p]) \in Nat
      /\ DoneBy(p) \in Int /\ DoneBy(p) <= 3 * asked[p]
  <2>1. d \in Seq(Parts) /\ Len(d) \in Nat /\ Len(up[p]) \in Nat /\ Len(buffer[p]) \in Nat
    BY <1>0, Numbers DEF PartsInv
  <2>2. asked[p] \in Nat /\ late[p] \in Nat /\ Received(p) \in Int /\ DoneBy(p) \in Int
    BY <1>0, Numbers DEF PartsInv
  <2>3. DoneBy(p) <= 3 * asked[p]
    <3> DEFINE n == 3 * asked[p]  k == Len(up[p])  l == Len(buffer[p])
    <3>1. n \in Int /\ k \in Nat /\ l \in Nat
      BY <2>1, <2>2
    <3>2. DoneBy(p) = n - k - l \/ DoneBy(p) = n - k
      BY DEF DoneBy, ReadBy
    <3> HIDE DEF n, k, l
    <3>3. DoneBy(p) <= n
      BY <3>1, <3>2
    <3> QED
      BY <3>3 DEF n
  <2> QED
    BY <2>1, <2>2, <2>3
<1>2. /\ s \in Seq(Parts) /\ Len(s) = (IF Len(d) > 3 THEN 3 ELSE Len(d))
      /\ \A i \in 1..Len(s) : s[i] = d[i]
      /\ Len(Rest(d, 3)) = Len(d) - Len(s)
      /\ \A i \in 1..Len(Rest(d, 3)) :
           i + Len(s) \in 1..Len(d) /\ Rest(d, 3)[i] = d[i + Len(s)]
  <2>1. 3 \in Nat \ {0}
    OBVIOUS
  <2>2. d \in Seq(Parts)
    BY <1>1
  <2>3. /\ s \in Seq(Parts)
        /\ Len(s) = IF Len(d) > 3 THEN 3 ELSE Len(d)
        /\ \A i \in 1..Len(s) : s[i] = d[i]
        /\ Rest(d, 3) \in Seq(Parts)
        /\ Len(Rest(d, 3)) = Len(d) - Len(s)
        /\ \A i \in 1..Len(Rest(d, 3)) :
             i + Len(s) \in 1..Len(d) /\ Rest(d, 3)[i] = d[i + Len(s)]
    BY <2>1, <2>2, ReadIsPrefix
  <2> QED
    BY <2>3, Zenon
<1>3. /\ peerAt[p] = "waiting" /\ peerAt'[p] = "idle"
      /\ \/ \E r \in Requests : s = Answer(r) /\ taken'[p] = r
         \/ (\A r \in Requests : s # Answer(r)) /\ taken'[p] = taken[p]
      /\ UNCHANGED <<asked, late, up, pc, buffer>>
  BY <1>0, SizesAreNat DEF PartsInv, TypeOK, ReceiveAnswer, UsesAnswer, threadVars
<1>4. down'[p] = Rest(d, 3) /\ Received(p)' = Received(p) + 1
  BY <1>0, ReceiveAnswerCounts
<1>5. DoneBy(p)' = DoneBy(p)
  BY <1>3 DEF DoneBy, ReadBy, Active
<1> HIDE DEF d, s
<1>6. /\ taken[p] = NoRequest \/ taken[p][1] = p
      /\ 3 * taken[p][2] <= DoneBy(p)
      /\ \A i \in 1..Len(d) :
           d[i].of # NoRequest =>
             /\ d[i].of \in {p} \X (1..MaxRequests)
             /\ taken[p][2] < d[i].of[2]
             /\ 3 * d[i].of[2] <= DoneBy(p)
             /\ 2 * Received(p) + i + 2 - d[i].part <= 2 * d[i].of[2]
  BY <1>3 DEF AnswersRight, d
<1>7. ASSUME NEW r \in Requests, s = Answer(r)
      PROVE  /\ Len(d) = 2 /\ r \in {p} \X (1..MaxRequests) /\ r[1] = p /\ r[2] > taken[p][2]
             /\ asked[p] - r[2] \in 0..late[p] /\ 3 * r[2] <= DoneBy(p)
  <2>1. Len(s) = 2 /\ s[2] = Part(r, 2)
    BY <1>7, MessagesAreParts
  <2>2. Len(d) = 2
    <3>1. CASE Len(d) > 3
      <4>1. Len(s) = 3
        BY <3>1, <1>2
      <4> QED
        BY <4>1, <2>1
    <3>2. CASE ~(Len(d) > 3)
      BY <2>1, <3>2, <1>2
    <3> QED
      BY <3>1, <3>2
  <2>3. d[2] = Part(r, 2) /\ 2 \in 1..Len(d)
    BY <2>1, <2>2, <1>2
  <2>4. d[2].of = r /\ d[2].part = 2 /\ r # NoRequest
    BY <2>3, RequestNumbers DEF Part
  <2>5. /\ r \in {p} \X (1..MaxRequests) /\ taken[p][2] < r[2] /\ 3 * r[2] <= DoneBy(p)
        /\ 2 * Received(p) + 2 + 2 - 2 <= 2 * r[2]
    BY <2>3, <2>4, <1>6
  <2>6. r[1] = p /\ r[2] \in Nat
    BY <2>5, RequestNumbers
  <2>7. Received(p) = asked[p] - late[p] - 1
    BY <1>3 DEF Received
  <2>8. r[2] <= asked[p] /\ asked[p] - r[2] <= late[p]
    BY <2>5, <2>6, <2>7, <1>1, LagArithmetic
  <2>9. taken[p] \in Requests \cup {NoRequest}
    BY <1>0 DEF PartsInv, TypeOK
  <2>10. taken[p][2] \in Nat
    BY <2>9, RequestNumbers
  <2>11. r[2] > taken[p][2] /\ asked[p] - r[2] \in 0..late[p]
    <3> DEFINE n == r[2]  t == taken[p][2]
    <3>1. /\ n \in Nat /\ t \in Nat /\ t < n /\ asked[p] \in Nat /\ late[p] \in Nat
          /\ n <= asked[p] /\ asked[p] - n <= late[p]
      BY <2>5, <2>6, <2>8, <2>10, <1>1
    <3> HIDE DEF n, t
    <3>2. n > t /\ asked[p] - n \in 0..late[p]
      BY <3>1
    <3> QED
      BY <3>2 DEF n, t
  <2> QED
    BY <2>2, <2>5, <2>6, <2>11
<1>8. ASSUME \E r \in Requests : s = Answer(r) PROVE AnswersRight(p)'
  <2>1. PICK r \in Requests : s = Answer(r) /\ taken'[p] = r
    BY <1>3, <1>8
  <2>2. Len(d) = 2 /\ r[1] = p /\ 3 * r[2] <= DoneBy(p)
    BY <2>1, <1>7
  <2>3. Len(down'[p]) = 0
    BY <2>2, <1>2, <1>4
  <2>4. 3 * taken'[p][2] <= DoneBy(p)' /\ taken'[p][1] = p
    BY <2>1, <2>2, <1>5
  <2>5. 1..Len(down'[p]) = {}
    BY <2>3
  <2> QED
    BY <2>4, <2>5 DEF AnswersRight
<1>9. ASSUME ~ \E r \in Requests : s = Answer(r) PROVE AnswersRight(p)'
  <2>1. taken'[p] = taken[p]
    BY <1>3, <1>9
  <2>2. ASSUME NEW i \in 1..Len(down'[p]), down'[p][i].of # NoRequest
        PROVE  /\ down'[p][i].of \in {p} \X (1..MaxRequests)
               /\ taken[p][2] < down'[p][i].of[2]
               /\ 3 * down'[p][i].of[2] <= DoneBy(p)
               /\ 2 * Received(p)' + i + 2 - down'[p][i].part <= 2 * down'[p][i].of[2]
    <3>1. i + Len(s) \in 1..Len(d) /\ down'[p][i] = d[i + Len(s)]
      BY <1>2, <1>4
    <3>2. Len(s) = 3
      <4>1. i \in Nat /\ i >= 1
        BY <1>1, <1>2, <1>4
      <4> QED
        BY <4>1, <3>1, <1>1, <1>2
    <3> DEFINE x == d[i + 3]
    <3>3. /\ down'[p][i] = x /\ i + 3 \in 1..Len(d)
      BY <3>1, <3>2
    <3>4. /\ x.of \in {p} \X (1..MaxRequests)
          /\ taken[p][2] < x.of[2]
          /\ 3 * x.of[2] <= DoneBy(p)
          /\ 2 * Received(p) + (i + 3) + 2 - x.part <= 2 * x.of[2]
      BY <2>2, <3>3, <1>6
    <3>5. x.of[2] \in Nat /\ x.part \in Nat /\ i \in Nat
      <4>1. x \in Parts
        BY <3>3, <1>1
      <4>2. x.of[2] \in Nat
        BY <3>4, <1>0, RequestNumbers
      <4>3. x.part \in 1..3
        BY <4>1, MessagesAreParts
      <4> QED
        BY <4>2, <4>3
    <3> HIDE DEF x
    <3>6. 2 * Received(p)' + i + 2 - x.part <= 2 * x.of[2]
      <4>1. 2 * (Received(p) + 1) + i + 2 - x.part <= 2 * x.of[2]
        BY <3>4, <3>5, <1>1, ShiftArithmetic
      <4> QED
        BY <4>1, <1>4
    <3> QED
      BY <3>3, <3>4, <3>6
  <2>3. /\ taken'[p] = NoRequest \/ taken'[p][1] = p
        /\ 3 * taken'[p][2] <= DoneBy(p)'
    BY <2>1, <1>5, <1>6
  <2>4. \A i \in 1..Len(down'[p]) :
          down'[p][i].of # NoRequest =>
            /\ down'[p][i].of \in {p} \X (1..MaxRequests)
            /\ taken'[p][2] < down'[p][i].of[2]
            /\ 3 * down'[p][i].of[2] <= DoneBy(p)'
            /\ 2 * Received(p)' + i + 2 - down'[p][i].part <= 2 * down'[p][i].of[2]
    BY <2>1, <2>2, <1>5
  <2> QED
    BY <2>3, <2>4 DEF AnswersRight
<1>10. Readable(down[p], ANSWERPARTS) = s
  BY SizesAreNat DEF s
<1>11. ASSUME NEW r \in Requests, s = Answer(r) PROVE taken'[p] = r
  <2>1. \A q \in Requests : s = Answer(q) => q = r
    BY <1>11, AnswersDiffer
  <2> QED
    BY <2>1, <1>3, <1>11
<1> QED
  BY <1>3, <1>7, <1>8, <1>9, <1>10, <1>11

LEMMA AnswerArithmetic ==
  ASSUME NEW n \in Int, NEW l \in Nat, NEW rd \in Int, NEW m \in Nat, NEW k \in 1..2,
         2 * n + l <= 2 * ((rd \div 3) - 1), rd <= 3 * m + 1
  PROVE  2 * n + (l + k) + 2 - k <= 2 * m
<1>1. rd \div 3 <= m
  OBVIOUS
<1>2. rd \div 3 \in Int
  OBVIOUS
<1> DEFINE q == rd \div 3
<1>3. 2 * n + l <= 2 * (q - 1) /\ q <= m /\ q \in Int
  BY <1>1, <1>2
<1> HIDE DEF q
<1>4. 2 * n + l + 2 <= 2 * m
  BY <1>3
<1> QED
  BY <1>4

(* What the NAT answers is behind all that is on its way, and in time.       *)
LEMMA SendAnswerRight ==
  ASSUME PartsInv, PartsInv', CountInv, NEW p \in Peer, TokensRight(p), AnswersRight(p),
         SendAnswer(p)
  PROVE  AnswersRight(p)'
<1> DEFINE d == down[p]  b == buffer[p]  a == AnswerFor(address[p])
<1>1. /\ UNCHANGED <<peerAt, asked, late, up, buffer, taken>>
      /\ pc[p] = "answer" /\ pc'[p] = "recv"
      /\ down'[p] = d \/ down'[p] = d \o a
  BY DEF PartsInv, TypeOK, SendAnswer, peerVars
<1>2. /\ Active(p) /\ ~Active(p)' /\ ReadBy(p)' = ReadBy(p) /\ Received(p)' = Received(p)
      /\ DoneBy(p) = ReadBy(p) - Len(b) /\ DoneBy(p)' = ReadBy(p)
  BY <1>1 DEF Active, ReadBy, Received, DoneBy
<1>3. /\ Received(p) \in Int /\ ReadBy(p) \in Int /\ Len(d) \in Nat /\ DoneBy(p) \in Int
      /\ d \in Seq(Parts) /\ b \in Seq(Parts) /\ address[p] \in Seq(Parts)
      /\ taken[p][2] \in Nat
  <2>1. taken[p] \in Requests \cup {NoRequest}
    BY DEF PartsInv, TypeOK
  <2>2. address[p] \in Seq(Parts)
    BY DEF PartsInv, TypeOK
  <2>3. taken[p][2] \in Nat
    BY <2>1, RequestNumbers
  <2> QED
    BY <2>2, <2>3, Numbers DEF PartsInv
<1>4. Len(b) \in 1..4 /\ Placed(b, p, DoneBy(p))
  BY <1>2, SizesAreNat DEF PartsInv, BufferRight
<1>5. Len(b) \in Nat /\ DoneBy(p) <= DoneBy(p)' /\ DoneBy(p) + Len(b) = ReadBy(p)
  <2>1. Len(b) \in Nat
    BY <1>3
  <2> HIDE DEF b
  <2> QED
    BY <2>1, <1>2, <1>3
<1>6. CASE down'[p] = d
  BY <1>1, <1>2, <1>5, <1>6, AnswersKept DEF PartsInv
<1>7. CASE down'[p] = d \o a
  <2>1. a \in Seq(Parts) /\ Len(a) = 2
    BY <1>3, AnswersHaveTwoParts
  <2>2. /\ Len(down'[p]) = Len(d) + 2
        /\ \A i \in 1..Len(down'[p]) :
             down'[p][i] = IF i <= Len(d) THEN d[i] ELSE a[i - Len(d)]
    <3>1. d \o a \in Seq(Parts) /\ Len(d \o a) = Len(d) + Len(a)
      BY <1>3, <2>1, ConcatProperties
    <3>2. \A i \in 1..Len(d) + Len(a) :
            (d \o a)[i] = IF i <= Len(d) THEN d[i] ELSE a[i - Len(d)]
      BY <1>3, <2>1, ConcatProperties
    <3> HIDE DEF d, a
    <3> QED
      BY <1>7, <2>1, <3>1, <3>2
  <2>3. \/ a = Answer(NoRequest)
        \/ \E r \in {p} \X (1..MaxRequests) :
             a = Answer(r) /\ DoneBy(p) + 3 <= 3 * r[2]
             /\ 3 * r[2] <= ReadBy(p) /\ ReadBy(p) <= 3 * r[2] + 1
    <3>1. CASE address[p] = SecondToken(b)
      BY <1>3, <1>4, <1>5, <3>1, AnsweredIsRead
    <3>2. CASE address[p] = << >>
      BY <3>2 DEF AnswerFor
    <3> QED
      BY <1>1, <3>1, <3>2 DEF TokensRight
  <2>4. ASSUME NEW i \in 1..Len(down'[p]), down'[p][i].of # NoRequest
        PROVE  /\ down'[p][i].of \in {p} \X (1..MaxRequests)
               /\ taken[p][2] < down'[p][i].of[2]
               /\ 3 * down'[p][i].of[2] <= ReadBy(p)
               /\ p \in Filter /\ peerAt[p] # "closed" =>
                    2 * Received(p) + i + 2 - down'[p][i].part <= 2 * down'[p][i].of[2]
    <3>0. i \in Nat /\ 1 <= i /\ i <= Len(d) + 2
      BY <1>3, <2>2
    <3>1. CASE i <= Len(d)
      <4>1. i \in 1..Len(d) /\ down'[p][i] = d[i]
        BY <1>3, <2>2, <3>0, <3>1
      <4>2. /\ d[i].of \in {p} \X (1..MaxRequests)
            /\ taken[p][2] < d[i].of[2]
            /\ 3 * d[i].of[2] <= DoneBy(p)
            /\ p \in Filter /\ peerAt[p] # "closed" =>
                 2 * Received(p) + i + 2 - d[i].part <= 2 * d[i].of[2]
        BY <2>4, <4>1 DEF AnswersRight
      <4>3. d[i].of[2] \in Nat
        BY <4>2, RequestNumbers
      <4>4. 3 * d[i].of[2] <= ReadBy(p)
        <5> DEFINE n == d[i].of[2]  k == Len(b)
        <5>1. /\ n \in Nat /\ k \in Nat /\ ReadBy(p) \in Int /\ DoneBy(p) \in Int
              /\ 3 * n <= DoneBy(p) /\ DoneBy(p) = ReadBy(p) - k
          BY <4>2, <4>3, <1>2, <1>3, <1>5
        <5> HIDE DEF n, k
        <5>2. 3 * n <= ReadBy(p)
          BY <5>1
        <5> QED
          BY <5>2 DEF n
      <4> QED
        BY <4>1, <4>2, <4>4
    <3>2. CASE ~(i <= Len(d))
      <4> DEFINE k == i - Len(d)
      <4>1. k \in 1..2 /\ i = Len(d) + k /\ down'[p][i] = a[k]
        <5>1. down'[p][i] = a[k]
          BY <2>2, <3>2
        <5>2. Len(d) \in Nat
          BY <1>3
        <5> HIDE DEF d, a
        <5>3. k \in 1..2 /\ i = Len(d) + k
          BY <5>2, <3>0, <3>2
        <5> QED
          BY <5>1, <5>3
      <4> HIDE DEF k
      <4>2. a # Answer(NoRequest)
        <5>1. Answer(NoRequest)[k] = Part(NoRequest, k)
          BY <4>1, MessagesAreParts
        <5> QED
          BY <2>4, <4>1, <5>1 DEF Part
      <4>3. PICK r \in {p} \X (1..MaxRequests) :
              /\ a = Answer(r) /\ DoneBy(p) + 3 <= 3 * r[2]
              /\ 3 * r[2] <= ReadBy(p) /\ ReadBy(p) <= 3 * r[2] + 1
        BY <2>3, <4>2
      <4>4. r \in Requests /\ r[2] \in Nat
        BY RequestNumbers
      <4>5. down'[p][i].of = r /\ down'[p][i].part = k
        <5>1. Answer(r)[k] = Part(r, k)
          BY <4>1, <4>4, MessagesAreParts
        <5> QED
          BY <4>1, <4>3, <5>1 DEF Part
      <4>6. taken[p][2] < r[2]
        <5>1. 3 * taken[p][2] <= DoneBy(p)
          BY DEF AnswersRight
        <5> QED
          BY <4>3, <4>4, <5>1, <1>3
      <4>7. ASSUME p \in Filter, peerAt[p] # "closed"
            PROVE  2 * Received(p) + i + 2 - k <= 2 * r[2]
        <5>1. 2 * Received(p) + Len(d) <= 2 * ((ReadBy(p) \div 3) - 1)
          BY <4>7, <1>2 DEF CountInv, AnswersCounted
        <5>2. 2 * Received(p) + (Len(d) + k) + 2 - k <= 2 * r[2]
          BY <5>1, <4>1, <4>3, <4>4, <1>3, AnswerArithmetic
        <5> QED
          BY <5>2, <4>1
      <4> QED
        BY <4>3, <4>5, <4>6, <4>7
    <3> QED
      BY <3>1, <3>2
  <2>5. (taken[p] = NoRequest \/ taken[p][1] = p) /\ 3 * taken[p][2] <= ReadBy(p)
    <3>1. (taken[p] = NoRequest \/ taken[p][1] = p) /\ 3 * taken[p][2] <= DoneBy(p)
      BY DEF AnswersRight
    <3> QED
      BY <3>1, <1>2, <1>3, <1>5
  <2>6. UNCHANGED <<taken[p], peerAt[p]>>
    BY <1>1
  <2> HIDE DEF d, a, b
  <2> QED
    BY <2>4, <2>5, <2>6, <1>2 DEF AnswersRight
<1> QED
  BY <1>1, <1>6, <1>7

(* A step of p, its thread's steps included.                                 *)
LEMMA AnswersOfPeer ==
  ASSUME PartsInv, PartsInv', CountInv, NEW p \in Peer, TokensRight(p), AnswersRight(p),
         OnlyFiltersWait(p), PeerStep(p) \/ ThreadStep(p)
  PROVE  AnswersRight(p)' /\ OnlyFiltersWait(p)'
<1>0. /\ TypeOK /\ TypeOK' /\ asked[p] \in Nat /\ late[p] \in Nat /\ ReadBy(p) \in Int
      /\ Len(buffer[p]) \in Nat
  BY Numbers DEF PartsInv
<1>1. CASE SendRequest(p)
  <2>1. /\ UNCHANGED <<pc, buffer, late, taken, down>>
        /\ peerAt[p] = "idle" /\ peerAt'[p] = (IF p \in Filter THEN "waiting" ELSE "idle")
    BY <1>0, <1>1 DEF TypeOK, SendRequest, threadVars
  <2>2. asked'[p] = asked[p] + 1 /\ ReadBy(p)' = ReadBy(p)
    BY <1>1, SendRequestPlaces
  <2>3. DoneBy(p)' = DoneBy(p)
    BY <2>1, <2>2 DEF DoneBy, Active
  <2>4. p \in Filter => Received(p)' = Received(p)
    <3> SUFFICES ASSUME p \in Filter PROVE Received(p)' = Received(p)
      OBVIOUS
    <3>1. Received(p) = asked[p] - late[p] - 0
      BY <2>1 DEF Received
    <3>2. Received(p)' = (asked[p] + 1) - late[p] - 1
      <4>1. peerAt'[p] = "waiting" /\ late'[p] = late[p] /\ asked'[p] = asked[p] + 1
        BY <2>1, <2>2
      <4> QED
        BY <4>1 DEF Received
    <3> QED
      BY <1>0, <3>1, <3>2
  <2>5. DoneBy(p) <= DoneBy(p)'
    BY <1>0, <2>3, Numbers
  <2>6. AnswersRight(p)'
    BY <1>0, <2>1, <2>4, <2>5, AnswersKept
  <2> QED
    BY <2>1, <2>6 DEF OnlyFiltersWait
<1>2. CASE ReceiveAnswer(p)
  <2>1. peerAt[p] = "waiting" /\ peerAt'[p] = "idle"
    BY <1>0, <1>2 DEF TypeOK, ReceiveAnswer
  <2>2. p \in Filter
    BY <2>1 DEF OnlyFiltersWait
  <2> QED
    BY <1>2, <2>1, <2>2, ReceiveAnswerTakes DEF OnlyFiltersWait
<1>3. CASE GiveUp(p)
  <2>1. /\ UNCHANGED <<asked, up, pc, buffer, taken, down>>
        /\ peerAt[p] = "waiting" /\ peerAt'[p] = "idle" /\ late'[p] = late[p] + 1
    BY <1>0, <1>3 DEF TypeOK, GiveUp, threadVars
  <2>2. DoneBy(p)' = DoneBy(p)
    BY <2>1 DEF DoneBy, ReadBy, Active
  <2>3. Received(p)' = Received(p)
    BY <2>1, <1>0 DEF Received
  <2>4. DoneBy(p) <= DoneBy(p)'
    BY <1>0, <2>2, Numbers
  <2> QED
    BY <1>0, <2>1, <2>3, <2>4, AnswersKept DEF OnlyFiltersWait
<1>4. CASE Close(p)
  <2>1. UNCHANGED <<asked, up, pc, buffer, taken, down>> /\ peerAt'[p] = "closed"
    BY <1>0, <1>4 DEF TypeOK, Close, threadVars
  <2>2. DoneBy(p)' = DoneBy(p)
    BY <2>1 DEF DoneBy, ReadBy, Active
  <2>3. DoneBy(p) <= DoneBy(p)'
    BY <1>0, <2>2, Numbers
  <2> QED
    BY <1>0, <2>1, <2>3, AnswersKept DEF OnlyFiltersWait
<1>5. CASE ReceiveRequest(p)
  <2>1. /\ UNCHANGED <<peerAt, asked, late, taken, down>>
        /\ Active(p)' /\ ~Active(p)
    BY <1>0, <1>5, ReceiveRequestPlaces DEF ReceiveRequest, peerVars
  <2>2. DoneBy(p)' = DoneBy(p)
    <3>1. DoneBy(p)' = ReadBy(p)
      BY <1>5, ReceiveRequestPlaces
    <3>2. DoneBy(p) = ReadBy(p)
      BY <2>1 DEF DoneBy
    <3> QED
      BY <3>1, <3>2
  <2>3. Received(p)' = Received(p)
    BY <2>1 DEF Received
  <2>4. DoneBy(p) <= DoneBy(p)'
    BY <1>0, <2>2, Numbers
  <2> QED
    BY <1>0, <2>1, <2>3, <2>4, AnswersKept DEF OnlyFiltersWait
<1>6. CASE TakeCommand(p) \/ TakeAddress(p) \/ HandleRequest(p) \/ DropRequest(p)
           \/ RefuseAddress(p)
  <2>1. UNCHANGED <<peerAt, asked, late, taken, up, down, buffer>> /\ Active(p)
    BY <1>6 DEF TakeCommand, TakeAddress, HandleRequest, DropRequest, RefuseAddress,
       peerVars, Active
  <2>2. Received(p)' = Received(p) /\ ReadBy(p)' = ReadBy(p)
    BY <2>1 DEF Received, ReadBy
  <2>3. DoneBy(p) <= DoneBy(p)'
    <3>1. DoneBy(p) = ReadBy(p) - Len(buffer[p])
      BY <2>1 DEF DoneBy
    <3>2. DoneBy(p)' \in {ReadBy(p) - Len(buffer[p]), ReadBy(p)}
      BY <2>1, <2>2 DEF DoneBy
    <3> QED
      BY <1>0, <3>1, <3>2
  <2> QED
    BY <1>0, <2>1, <2>2, <2>3, AnswersKept DEF OnlyFiltersWait
<1>7. CASE SendAnswer(p)
  <2>1. UNCHANGED peerAt
    BY <1>7 DEF SendAnswer, peerVars
  <2> QED
    BY <1>7, <2>1, SendAnswerRight DEF OnlyFiltersWait
<1> QED
  BY <1>1, <1>2, <1>3, <1>4, <1>5, <1>6, <1>7 DEF PeerStep, ThreadStep
-----------------------------------------------------------------------------
(* The second token of a message that is one request is its address.         *)
LEMMA WholeRequest ==
  ASSUME NEW r \in Requests, NEW b \in Seq(Parts), Len(b) = 3,
         \A i \in 1..3 : b[i] = Part(r, i)
  PROVE  SecondToken(b) = <<Part(r, 2), Part(r, 3)>>
<1> DEFINE a == AfterToken(b)
<1>1. TokenEnd(b) = 1
  <2>1. b # << >>
    BY EmptySeq
  <2>2. TokenEnd(b) \in 1..3 /\ \A j \in 1..(TokenEnd(b)-1) : ~IsEnd(b, j)
    BY <2>1, TokenEnds
  <2>3. IsEnd(b, 1)
    BY DEF IsEnd, Part
  <2>4. TokenEnd(b) > 1 => 1 \in 1..(TokenEnd(b)-1)
    BY <2>2
  <2> QED
    BY <2>2, <2>3, <2>4
<1>2. a \in Seq(Parts) /\ Len(a) = 2 /\ a[1] = Part(r, 2) /\ a[2] = Part(r, 3)
  <2>1. b # << >>
    BY EmptySeq
  <2>2. /\ a \in Seq(Parts) /\ Len(a) = Len(b) - TokenEnd(b)
        /\ \A i \in 1..(Len(b) - TokenEnd(b)) : a[i] = b[TokenEnd(b) + i]
    BY <2>1, TokensArePieces
  <2> HIDE DEF a
  <2>3. Len(a) = 2 /\ a[1] = b[2] /\ a[2] = b[3]
    BY <2>2, <1>1
  <2>4. b[2] = Part(r, 2) /\ b[3] = Part(r, 3)
    OBVIOUS
  <2> QED
    BY <2>2, <2>3, <2>4
<1> HIDE DEF a
<1>3. TokenEnd(a) = 2
  <2>1. a # << >>
    BY <1>2, EmptySeq
  <2>2. TokenEnd(a) \in 1..2 /\ IsEnd(a, TokenEnd(a))
    BY <1>2, <2>1, TokenEnds
  <2>3. ~IsEnd(a, 1)
    BY <1>2 DEF IsEnd, Part
  <2>4. TokenEnd(a) # 1
    BY <2>2, <2>3, Zenon
  <2>5. \A e \in 1..2 : e # 1 => e = 2
    OBVIOUS
  <2> QED
    BY <2>2, <2>4, <2>5, Zenon
<1>4. /\ FirstToken(a) \in Seq(Parts) /\ Len(FirstToken(a)) = 2
      /\ \A i \in 1..2 : FirstToken(a)[i] = a[i]
  <2>1. a # << >>
    BY <1>2, EmptySeq
  <2> QED
    <3>1. /\ FirstToken(a) \in Seq(Parts) /\ Len(FirstToken(a)) = TokenEnd(a)
          /\ \A i \in 1..TokenEnd(a) : FirstToken(a)[i] = a[i]
      BY <1>2, <2>1, TokensArePieces
    <3> QED
      BY <3>1, <1>3, Zenon
<1>5. FirstToken(a) = <<Part(r, 2), Part(r, 3)>>
  <2> DEFINE t == FirstToken(a)
  <2>1. t \in Seq(Parts) /\ Len(t) = 2 /\ t[1] = Part(r, 2) /\ t[2] = Part(r, 3)
    BY <1>2, <1>4
  <2>2. t = <<t[1], t[2]>>
    <3> HIDE DEF t
    <3> QED
      BY <2>1
  <2> HIDE DEF t
  <2>3. t = <<Part(r, 2), Part(r, 3)>>
    BY <2>1, <2>2
  <2> QED
    BY <2>3 DEF t
<1> QED
  BY <1>5 DEF SecondToken, a

LEMMA PlaceIsOne ==
  ASSUME NEW q \in Nat, NEW k \in 1..3, NEW n \in Nat, NEW i \in 1..3,
         3 * (q - 1) + k = 3 * n - 3 + i
  PROVE  q = n /\ k = i
OBVIOUS

(* A calm peer's message is its last request.                                *)
LEMMA CalmMessage ==
  ASSUME PartsInv, CountInv, NEW p \in Peer, Active(p), Calm(p), peerAt[p] # "closed"
  PROVE  /\ <<p, asked[p]>> \in Requests
         /\ \A i \in 1..3 : Len(buffer[p]) = 3 /\ buffer[p][i] = Part(<<p, asked[p]>>, i)
<1> DEFINE b == buffer[p]  r == <<p, asked[p]>>
<1>1. Len(b) = 3 /\ Len(up[p]) = 0 /\ b \in Seq(Parts) /\ asked[p] \in Nat
  BY Numbers DEF PartsInv, CountInv, CalmIsWhole
<1>2. Placed(b, p, 3 * asked[p] - 3)
  <2>1. DoneBy(p) = 3 * asked[p] - 0 - 3
    BY <1>1 DEF DoneBy, ReadBy
  <2>2. DoneBy(p) = 3 * asked[p] - 3
    BY <2>1, <1>1
  <2> QED
    BY <2>2 DEF PartsInv, BufferRight
<1> HIDE DEF b
<1>3. ASSUME NEW i \in 1..3 PROVE b[i] = Part(r, i) /\ asked[p] \in 1..MaxRequests
  <2>1. /\ b[i].of \in {p} \X (1..MaxRequests) /\ b[i].part \in 1..3
        /\ 3 * (b[i].of[2] - 1) + b[i].part = 3 * asked[p] - 3 + i
    BY <1>1, <1>2 DEF Placed, Index
  <2> DEFINE x == b[i]
  <2> HIDE DEF x
  <2>2. b[i].of[2] \in 1..MaxRequests /\ b[i].of[1] = p /\ b[i].of = <<b[i].of[1], b[i].of[2]>>
    <3>1. x.of \in {p} \X (1..MaxRequests)
      BY <2>1 DEF x
    <3>2. x.of[2] \in 1..MaxRequests /\ x.of[1] = p /\ x.of = <<x.of[1], x.of[2]>>
      BY <3>1
    <3> QED
      BY <3>2 DEF x
  <2>3. b[i].of[2] = asked[p] /\ b[i].part = i
    <3> DEFINE q == b[i].of[2]  k == b[i].part
    <3>1. q \in Nat
      BY <2>2, SizesAreNat
    <3>2. k \in 1..3 /\ 3 * (q - 1) + k = 3 * asked[p] - 3 + i /\ asked[p] \in Nat
      BY <2>1, <1>1
    <3> HIDE DEF q, k
    <3>3. q = asked[p] /\ k = i
      BY <3>1, <3>2, PlaceIsOne
    <3> QED
      BY <3>3 DEF q, k
  <2>4. b[i] \in Parts
    BY <1>1, ElementOfSeq
  <2>5. b[i] = [of |-> b[i].of, part |-> b[i].part]
    BY <2>4 DEF Parts
  <2>6. b[i].of = r
    BY <2>2, <2>3
  <2> QED
    BY <2>2, <2>3, <2>5, <2>6 DEF Part
<1>4. r \in Requests
  <2>1. 1 \in 1..3
    OBVIOUS
  <2> QED
    BY <1>3, <2>1 DEF Requests
<1> QED
  BY <1>1, <1>3, <1>4 DEF b

(* What ends the process: a closed connection, or an address that is none or *)
(* too long; and the address of a calm peer is that of its last request.     *)
LEMMA EndKept ==
  ASSUME PartsInv, CountInv, TokensInv, EndedForACause, [Next]_vars
  PROVE  EndedForACause'
<1>1. CASE UNCHANGED vars
  BY <1>1 DEF vars, peerVars, EndedForACause
<1>2. ASSUME NEW p \in Peer, PeerStep(p) \/ ThreadStep(p) PROVE EndedForACause'
  <2>1. ~ended
    BY <1>2 DEF PeerStep, ThreadStep, SendRequest, ReceiveAnswer, GiveUp, Close, ReceiveRequest,
       TakeCommand, TakeAddress, HandleRequest, DropRequest, RefuseAddress, SendAnswer
  <2>2. ended' = ended \/ SendAnswer(p) \/ RefuseAddress(p)
    BY <1>2 DEF PeerStep, ThreadStep, SendRequest, ReceiveAnswer, GiveUp, Close, ReceiveRequest,
       TakeCommand, TakeAddress, HandleRequest, DropRequest
  <2>3. CASE SendAnswer(p)
    <3>1. peerAt' = peerAt /\ (ended' = ended \/ peerAt[p] = "closed")
      BY <2>3 DEF SendAnswer, peerVars
    <3> QED
      BY <2>1, <3>1 DEF EndedForACause
  <2>4. CASE RefuseAddress(p)
    <3>1. /\ UNCHANGED <<peerAt, late, asked>> /\ pc[p] = "check"
          /\ MayFail(address[p])
      BY <2>4 DEF RefuseAddress, peerVars
    <3>2. Calm(p) /\ peerAt[p] # "closed" => <<p, asked[p]>> \in LongAddress
      <4> SUFFICES ASSUME Calm(p), peerAt[p] # "closed" PROVE <<p, asked[p]>> \in LongAddress
        OBVIOUS
      <4>1. Active(p)
        BY <3>1 DEF Active
      <4> DEFINE r == <<p, asked[p]>>
      <4>2. r \in Requests /\ \A i \in 1..3 : Len(buffer[p]) = 3 /\ buffer[p][i] = Part(r, i)
        BY <4>1, CalmMessage
      <4> HIDE DEF r
      <4>3. buffer[p] \in Seq(Parts)
        BY DEF PartsInv, TypeOK
      <4>4. SecondToken(buffer[p]) = <<Part(r, 2), Part(r, 3)>> /\ r \in Requests
        <5>1. 1 \in 1..3
          OBVIOUS
        <5>2. Len(buffer[p]) = 3
          BY <4>2, <5>1
        <5> QED
          BY <4>2, <4>3, <5>2, WholeRequest
      <4>5. address[p] = <<Part(r, 2), Part(r, 3)>>
        BY <3>1, <4>4 DEF TokensInv, TokensRight
      <4>6. IsAddress(address[p]) /\ address[p][1].of = r
        BY <4>4, <4>5 DEF IsAddress, Part
      <4>7. TooLong(address[p])
        BY <3>1, <4>6 DEF MayFail
      <4> QED
        BY <4>6, <4>7 DEF TooLong, r
    <3>3. asked[p] \in Nat /\ late[p] \in Nat
      BY Numbers DEF PartsInv
    <3>4. \/ peerAt[p] = "closed" \/ late[p] > 0 \/ (p \in Listener /\ asked[p] > 1)
          \/ <<p, asked[p]>> \in LongAddress
      BY <3>2, <3>3 DEF Calm, Peer
    <3> QED
      BY <3>1, <3>4 DEF EndedForACause
  <2> QED
    BY <2>1, <2>2, <2>3, <2>4 DEF EndedForACause
<1> QED
  BY <1>1, <1>2 DEF Next

LEMMA AnswersInvKept ==
  PartsInv /\ PartsInv' /\ CountInv /\ TokensInv /\ AnswersInv /\ [Next]_vars => AnswersInv'
<1> SUFFICES ASSUME PartsInv, PartsInv', CountInv, TokensInv, AnswersInv, [Next]_vars
             PROVE  AnswersInv'
  OBVIOUS
<1>1. ASSUME NEW q \in Peer PROVE AnswersRight(q)' /\ OnlyFiltersWait(q)'
  <2>0. AnswersRight(q) /\ OnlyFiltersWait(q) /\ TokensRight(q)
    BY DEF AnswersInv, TokensInv
  <2>1. ASSUME UNCHANGED <<peerAt[q], asked[q], taken[q], late[q], up[q], down[q], pc[q], buffer[q]>>
        PROVE  AnswersRight(q)' /\ OnlyFiltersWait(q)'
    BY <2>0, <2>1 DEF AnswersRight, OnlyFiltersWait, DoneBy, ReadBy, Active, Received
  <2>2. CASE UNCHANGED vars
    BY <2>1, <2>2 DEF vars, peerVars, threadVars
  <2>3. ASSUME NEW p \in Peer, PeerStep(p) \/ ThreadStep(p)
        PROVE  AnswersRight(q)' /\ OnlyFiltersWait(q)'
    <3>1. CASE q # p
      BY <2>1, <2>3, <3>1, OthersKept DEF PartsInv
    <3>2. CASE q = p
      BY <2>0, <2>3, <3>2, AnswersOfPeer
    <3> QED
      BY <3>1, <3>2
  <2> QED
    BY <2>2, <2>3 DEF Next
<1>2. EndedForACause'
  BY EndKept DEF AnswersInv
<1> QED
  BY <1>1, <1>2 DEF AnswersInv

LEMMA AnswersAlways == Spec /\ []NoTokenRace => [](TokensInv /\ AnswersInv)
<1>1. Init => TokensInv /\ AnswersInv
  <2> SUFFICES ASSUME Init PROVE TokensInv /\ AnswersInv
    OBVIOUS
  <2>1. ASSUME NEW p \in Peer
        PROVE  TokensRight(p) /\ AnswersRight(p) /\ OnlyFiltersWait(p)
    <3>1. /\ peerAt[p] = "idle" /\ asked[p] = 0 /\ up[p] = << >> /\ pc[p] = "recv"
          /\ down[p] = << >> /\ taken[p] = NoRequest
      BY <2>1 DEF Init
    <3>2. DoneBy(p) = 0
      <4>1. asked[p] = 0 /\ Len(up[p]) = 0
        BY <3>1
      <4>2. 3 * asked[p] - Len(up[p]) = 0
        BY <4>1
      <4> QED
        BY <3>1, <4>2 DEF DoneBy, ReadBy, Active
    <3>3. Len(down[p]) = 0 /\ 1..Len(down[p]) = {} /\ 3 * taken[p][2] <= 0
      <4>1. Len(down[p]) = 0 /\ taken[p][2] = 0
        BY <3>1, RequestNumbers
      <4> QED
        BY <4>1
    <3> QED
      BY <3>1, <3>2, <3>3 DEF TokensRight, AnswersRight, OnlyFiltersWait
  <2>2. EndedForACause
    BY DEF Init, EndedForACause
  <2> QED
    BY <2>1, <2>2 DEF TokensInv, AnswersInv
<1>2. /\ PartsInv /\ PartsInv' /\ CountInv /\ NoTokenRace /\ NoTokenRace' /\ [Next]_vars
      /\ TokensInv /\ AnswersInv
      => (TokensInv /\ AnswersInv)'
  BY TokensInvKept, AnswersInvKept DEF PartsInv
<1> QED
  BY <1>1, <1>2, CountsAlways, PTL DEF Spec

(* What a step may do to the answer a filter used last.                      *)
LEMMA AnswerUsed ==
  ASSUME PartsInv, CountInv, AnswersInv, [Next]_vars, NEW p \in Filter, taken'[p] # taken[p]
  PROVE  taken'[p][1] = p /\ asked[p] - taken'[p][2] \in 0..late[p]
<1>0. p \in Peer /\ AnswersRight(p)
  BY DEF Peer, AnswersInv
<1>1. ~UNCHANGED vars
  BY DEF vars, peerVars
<1>2. PICK q \in Peer : PeerStep(q) \/ ThreadStep(q)
  BY <1>1 DEF Next
<1>3. q = p
  BY <1>0, <1>2, OthersKept DEF PartsInv
<1>4. ReceiveAnswer(p)
  BY <1>2, <1>3 DEF PeerStep, ThreadStep, SendRequest, GiveUp, Close, ReceiveRequest,
     TakeCommand, TakeAddress, HandleRequest, DropRequest, RefuseAddress, SendAnswer, peerVars
<1> QED
  BY <1>0, <1>4, ReceiveAnswerTakes
-----------------------------------------------------------------------------
(* As long as no two threads of the NAT are inside strtok together           *)
(* (NATServer.c:438-449), a filter uses only answers to its own requests,   *)
(* and of no more requests ago than it gave up waits.                       *)
THEOREM LagIsBounded == Spec /\ []NoTokenRace => LagBounded
<1>1. ASSUME PartsInv, CountInv, AnswersInv, [Next]_vars
      PROVE  [\A p \in Filter :
                taken'[p] # taken[p] =>
                  taken'[p][1] = p /\ asked[p] - taken'[p][2] \in 0..late[p]]_vars
  BY <1>1, AnswerUsed
<1> QED
  BY <1>1, CountsAlways, AnswersAlways, PTL DEF Spec, LagBounded

(* ... and each answer it uses is newer than the last, however the two got   *)
(* out of step.                                                             *)
THEOREM AnswersComeInOrder == Spec /\ []NoTokenRace => AnswersInOrder
<1>1. ASSUME PartsInv, CountInv, AnswersInv
      PROVE  \A p \in Filter : \A r \in Requests :
               ReceiveAnswer(p) /\ Readable(down[p], ANSWERPARTS) = Answer(r)
                 => r[1] = p /\ r[2] > taken[p][2]
  BY <1>1, ReceiveAnswerTakes DEF AnswersInv, Peer
<1> QED
  BY <1>1, CountsAlways, AnswersAlways, PTL DEF AnswersInOrder

(* ... and the process ends only when a peer closed its connection, gave up  *)
(* a wait, sent a second request without waiting, or asked last for an       *)
(* address that the test of its length refuses (NATServer.c:442).            *)
THEOREM ProcessEndsForACause == Spec /\ []NoTokenRace => []EndedForACause
<1>1. AnswersInv => EndedForACause
  BY DEF AnswersInv
<1> QED
  BY <1>1, AnswersAlways, PTL

(* ... and both tokens of a request come from the thread's own message, as   *)
(* the comment in request_handler says (NATServer.c:438).  Without the      *)
(* hypothesis this is what ChannelTokens.cfg refutes.                       *)
THEOREM TokensComeFromTheRequest == Spec /\ []NoTokenRace => []TokensOfOwnRequest
<1>1. PartsInv /\ TokensInv => TokensOfOwnRequest
  <2> SUFFICES ASSUME PartsInv, TokensInv, NEW p \in Peer, pc[p] = "check",
                      NEW r \in Requests, buffer[p] = Request(r)
               PROVE  address[p] = Tail(buffer[p])
    BY DEF TokensOfOwnRequest
  <2>1. address[p] = SecondToken(buffer[p])
    BY DEF TokensInv, TokensRight
  <2>2. /\ buffer[p] \in Seq(Parts) /\ Len(buffer[p]) = 3
        /\ \A i \in 1..3 : buffer[p][i] = Part(r, i)
    BY MessagesAreParts
  <2>3. SecondToken(buffer[p]) = <<Part(r, 2), Part(r, 3)>>
    BY <2>2, WholeRequest
  <2>4. Tail(Request(r)) = <<Part(r, 2), Part(r, 3)>>
    BY DEF Request
  <2> QED
    BY <2>1, <2>3, <2>4
<1> QED
  BY <1>1, CountsAlways, AnswersAlways, PTL

(* With a single connection no hypothesis is needed: there is no other       *)
(* thread to be inside strtok.                                              *)
THEOREM OneConnectionIsSafe ==
  ASSUME \A p, q \in Peer : p = q
  PROVE  Spec => LagBounded /\ AnswersInOrder /\ []EndedForACause
<1>1. NoTokenRace
  BY DEF NoTokenRace
<1> QED
  BY <1>1, LagIsBounded, AnswersComeInOrder, ProcessEndsForACause, PTL

-----------------------------------------------------------------------------
ListenersNeverWait == \A p \in Listener : peerAt[p] # "waiting"

LEMMA ListenersKeepOn == TypeOK /\ ListenersNeverWait /\ [Next]_vars => ListenersNeverWait'
<1> SUFFICES ASSUME TypeOK, ListenersNeverWait, [Next]_vars, NEW q \in Listener
             PROVE  peerAt'[q] # "waiting"
  BY DEF ListenersNeverWait
<1>0. q \in Peer /\ q \notin Filter /\ peerAt[q] # "waiting"
  BY PeersDiffer DEF Peer, ListenersNeverWait
<1>1. CASE UNCHANGED vars
  BY <1>0, <1>1 DEF vars, peerVars
<1>2. ASSUME NEW p \in Peer, PeerStep(p) \/ ThreadStep(p) PROVE peerAt'[q] # "waiting"
  <2>1. CASE p # q
    BY <1>0, <1>2, <2>1, OthersKept
  <2>2. CASE p = q /\ PeerStep(p)
    BY <1>0, <2>2 DEF PeerStep, SendRequest, ReceiveAnswer, GiveUp, Close, TypeOK
  <2>3. CASE p = q /\ ThreadStep(p)
    BY <1>0, <2>3 DEF ThreadStep, ReceiveRequest, TakeCommand, TakeAddress, HandleRequest,
       DropRequest, RefuseAddress, SendAnswer, peerVars
  <2> QED
    BY <1>2, <2>1, <2>2, <2>3
<1> QED
  BY <1>1, <1>2 DEF Next

(* Only the listener could make room, and it never receives.                 *)
LEMMA JamStays ==
  ASSUME TypeOK, ListenersNeverWait, [Next]_vars, NEW q \in Peer, Jammed(q)
  PROVE  \/ Jammed(q)' /\ Len(up'[q]) >= Len(up[q])
         \/ peerAt[q] = "closed" /\ ended'
<1>0. /\ q \notin Filter /\ peerAt[q] # "waiting" /\ pc[q] = "answer" /\ q \in Listener
      /\ Len(down[q]) + 2 > WindowTo(q)
      /\ up[q] \in Seq(Parts) /\ Len(up[q]) \in Nat
      /\ up \in [Peer -> Seq(Parts)]
  BY PeersDiffer DEF Jammed, ListenersNeverWait, TypeOK
<1>1. CASE UNCHANGED <<pc[q], down[q], up[q]>>
  BY <1>0, <1>1 DEF Jammed
<1>2. CASE UNCHANGED vars
  BY <1>1, <1>2 DEF vars, threadVars
<1>3. ASSUME NEW p \in Peer, PeerStep(p) \/ ThreadStep(p)
      PROVE  \/ Jammed(q)' /\ Len(up'[q]) >= Len(up[q])
             \/ peerAt[q] = "closed" /\ ended'
  <2>1. CASE p # q
    BY <1>1, <1>3, <2>1, OthersKept
  <2>2. CASE p = q /\ SendRequest(p)
    <3> DEFINE r == <<q, asked'[q]>>
    <3>1. UNCHANGED <<pc, down>> /\ up' = [up EXCEPT ![q] = @ \o Request(r)]
      BY <2>2 DEF SendRequest, threadVars
    <3>2. up'[q] = up[q] \o Request(r)
      BY <1>0, <3>1
    <3>3. Len(up[q] \o Request(r)) = Len(up[q]) + 3
      BY <1>0 DEF Request
    <3> QED
      BY <1>0, <3>1, <3>2, <3>3 DEF Jammed
  <2>3. CASE p = q /\ (ReceiveAnswer(p) \/ GiveUp(p))
    BY <1>0, <2>3 DEF ReceiveAnswer, GiveUp
  <2>4. CASE p = q /\ Close(p)
    BY <1>1, <2>4 DEF Close, threadVars
  <2>5. CASE p = q /\ ThreadStep(p)
    <3>1. SendAnswer(q)
      BY <1>0, <2>5 DEF ThreadStep, ReceiveRequest, TakeCommand, TakeAddress, HandleRequest,
         DropRequest, RefuseAddress
    <3>2. Len(down[q]) \in Nat /\ WindowTo(q) \in Nat
      BY WindowsAreNat DEF TypeOK
    <3>3. ~(Len(down[q]) + 2 <= WindowTo(q))
      BY <1>0, <3>2
    <3>4. peerAt[q] = "closed" /\ ended' = TRUE
      BY <3>1, <3>3 DEF SendAnswer
    <3> QED
      BY <3>4
  <2> QED
    BY <1>3, <2>1, <2>2, <2>3, <2>4, <2>5 DEF PeerStep
<1> QED
  BY <1>2, <1>3 DEF Next

(* Once the answers to the listener (FinalProjectServerListener.c:211, which *)
(* never reads them) fill their connection, its thread in the NAT reads      *)
(* nothing any more and the BANs behind pile up, until the process ends.     *)
THEOREM JamsStay == Spec => JamIsForGood
<1>1. Init => ListenersNeverWait
  BY DEF Init, ListenersNeverWait, Peer
<1>2. TypeOK /\ ListenersNeverWait /\ [Next]_vars =>
        [\A p \in Peer :
           Jammed(p) => \/ Jammed(p)' /\ Len(up'[p]) >= Len(up[p])
                        \/ peerAt[p] = "closed" /\ ended']_vars
  BY JamStays
<1> QED
  BY <1>1, <1>2, ListenersKeepOn, TypeCorrect, PTL DEF Spec, JamIsForGood
-----------------------------------------------------------------------------
(* The other connections.  A filter reads one answer for each wait it does   *)
(* not give up, so no more answers can be on their way to it than the waits  *)
(* it gave up, and the one of the wait it is in.  The reads do not keep to    *)
(* the ends of the messages, so the account is in parts: those on the way    *)
(* back, two for the message the thread has, and two for every further       *)
(* message it can read out of what is under way to it.                       *)
Reads(n) == (n + 2) \div 3
UnderWay(p) == IF pc[p] = "recv" THEN 0 ELSE 1
Owed(p) == Len(down[p]) + 2 * (UnderWay(p) + Reads(Len(up[p])))
Waits(p) == late[p] + (IF peerAt[p] = "idle" THEN 0 ELSE 1)
OwedForWaits == \A p \in Filter : Owed(p) <= 2 * Waits(p)

(* The NAT's thread for a filter has room for its answer in a way back that   *)
(* holds one answer more than the waits the filter gave up: unlike the       *)
(* listener, a filter does not jam its connection.                           *)
RoomToAnswer ==
  \A p \in Filter : pc[p] = "answer" => Len(down[p]) + 2 <= 2 * (late[p] + 1)

(* Reading four parts at a time takes no more reads than there are requests. *)
LEMMA ReadsCount ==
  ASSUME NEW n \in Nat
  PROVE  /\ Reads(n) \in Nat
         /\ Reads(n + 3) = Reads(n) + 1
         /\ n > 4 => Reads(n - 4) + 1 <= Reads(n)
         /\ n > 0 => 1 <= Reads(n)
         /\ Reads(0) = 0
BY DEF Reads

LEMMA OwedStep ==
  ASSUME TypeOK, OwedForWaits, [Next]_vars, NEW q \in Filter
  PROVE  Owed(q)' <= 2 * Waits(q)'
<1> DEFINE u == Len(up[q])
           d == Len(down[q])
           l == late[q]
<1>0. /\ q \in Peer /\ up[q] \in Seq(Parts) /\ down[q] \in Seq(Parts)
      /\ u \in Nat /\ d \in Nat /\ l \in Nat
      /\ Owed(q) <= 2 * Waits(q)
      /\ Reads(u) \in Nat
  <2>1. q \in Peer /\ up[q] \in Seq(Parts) /\ down[q] \in Seq(Parts)
    BY DEF TypeOK, Peer
  <2>2. u \in Nat /\ d \in Nat
    BY <2>1
  <2>3. l \in Nat
    BY <2>1, SizesAreNat DEF TypeOK
  <2>4. Reads(u) \in Nat
    BY <2>2, ReadsCount
  <2> QED
    BY <2>1, <2>2, <2>3, <2>4 DEF OwedForWaits
<1>1. CASE UNCHANGED <<pc[q], up[q], down[q], late[q], peerAt[q]>>
  BY <1>0, <1>1 DEF Owed, Waits, UnderWay
<1>2. ASSUME NEW p \in Peer, PeerStep(p) \/ ThreadStep(p), p # q
      PROVE  Owed(q)' <= 2 * Waits(q)'
  BY <1>0, <1>1, <1>2, OthersKept
<1>3. CASE SendRequest(q)
  <2>1. /\ peerAt[q] = "idle" /\ peerAt'[q] = "waiting"
        /\ pc' = pc /\ down' = down /\ late' = late
        /\ up' = [up EXCEPT ![q] = @ \o Request(<<q, asked'[q]>>)]
    BY <1>0, <1>3 DEF SendRequest, TypeOK, threadVars
  <2>2. Len(up'[q]) = u + 3
    <3>1. up'[q] = up[q] \o Request(<<q, asked'[q]>>)
      BY <1>0, <2>1 DEF TypeOK
    <3> QED
      BY <1>0, <3>1 DEF Request
  <2>3. Reads(u + 3) = Reads(u) + 1
    BY <1>0, ReadsCount
  <2> HIDE DEF u, d, l
  <2>4. UnderWay(q)' = UnderWay(q) /\ UnderWay(q) \in Nat
    BY <2>1 DEF UnderWay
  <2>5. Owed(q)' = Len(down'[q]) + 2 * (UnderWay(q)' + Reads(Len(up'[q])))
    BY DEF Owed
  <2>6. Owed(q)' = d + 2 * (UnderWay(q) + (Reads(u) + 1))
    BY <2>1, <2>2, <2>3, <2>4, <2>5 DEF d
  <2>7. Owed(q) = d + 2 * (UnderWay(q) + Reads(u))
    BY DEF Owed, u, d
  <2>8. Waits(q)' = l + 1 /\ Waits(q) = l
    BY <1>0, <2>1 DEF Waits, l
  <2> QED
    BY <1>0, <2>4, <2>6, <2>7, <2>8
<1>4. CASE ReceiveAnswer(q)
  <2> DEFINE s == Rest(down[q], ANSWERPARTS)
  <2>1. /\ peerAt[q] = "waiting" /\ peerAt'[q] = "idle" /\ down[q] # << >>
        /\ UNCHANGED <<pc, up, late>>
        /\ down'[q] = s
    BY <1>0, <1>4 DEF ReceiveAnswer, TypeOK, threadVars
  <2>2. Len(s) = IF d > 3 THEN d - 3 ELSE 0
    <3>1. /\ Len(Readable(down[q], ANSWERPARTS)) = IF d > 3 THEN 3 ELSE d
          /\ Len(s) = d - Len(Readable(down[q], ANSWERPARTS))
      BY <1>0, ReadLengths, SizesAreNat
    <3> QED
      BY <1>0, <3>1
  <2>3. d > 0
    BY <1>0, <2>1
  <2> HIDE DEF u, d, l, s
  <2>4. UnderWay(q)' = UnderWay(q) /\ UnderWay(q) \in Nat
    BY <2>1 DEF UnderWay
  <2>5. /\ Owed(q)' = Len(s) + 2 * (UnderWay(q) + Reads(u))
        /\ Owed(q) = d + 2 * (UnderWay(q) + Reads(u))
    BY <2>1, <2>4 DEF Owed, u, d
  <2>6. Waits(q)' = l /\ Waits(q) = l + 1
    BY <1>0, <2>1 DEF Waits, l
  <2> QED
    BY <1>0, <2>2, <2>3, <2>4, <2>5, <2>6
<1>5. CASE GiveUp(q)
  <2>1. /\ peerAt[q] = "waiting" /\ peerAt'[q] = "idle" /\ late'[q] = late[q] + 1
        /\ UNCHANGED <<pc, up, down>>
    BY <1>0, <1>5 DEF GiveUp, TypeOK, threadVars
  <2>2. Owed(q)' = Owed(q) /\ Waits(q)' = Waits(q)
    BY <1>0, <2>1 DEF Owed, Waits, UnderWay
  <2> QED
    BY <1>0, <2>2
<1>6. CASE Close(q)
  <2>1. peerAt'[q] = "closed" /\ UNCHANGED <<pc, up, down, late>>
    BY <1>0, <1>6 DEF Close, TypeOK, threadVars
  <2>2. Owed(q)' = Owed(q) /\ Waits(q)' = l + 1 /\ Waits(q) \in {l, l + 1}
    BY <1>0, <2>1 DEF Owed, Waits, UnderWay
  <2>3. Owed(q) \in Nat
    BY <1>0 DEF Owed, UnderWay
  <2> HIDE DEF l
  <2> QED
    BY <1>0, <2>2, <2>3
<1>7. CASE ReceiveRequest(q)
  <2> DEFINE s == Rest(up[q], REQUESTPARTS)
  <2>1. /\ pc[q] = "recv" /\ pc'[q] = "command" /\ up[q] # << >>
        /\ UNCHANGED <<peerAt, late, down>>
        /\ up'[q] = s
    BY <1>0, <1>7 DEF ReceiveRequest, TypeOK, peerVars
  <2>2. Len(s) = IF u > 4 THEN u - 4 ELSE 0
    <3>1. /\ Len(Readable(up[q], REQUESTPARTS)) = IF u > 4 THEN 4 ELSE u
          /\ Len(s) = u - Len(Readable(up[q], REQUESTPARTS))
      BY <1>0, ReadLengths, SizesAreNat
    <3> QED
      BY <1>0, <3>1
  <2>3. u > 0
    BY <1>0, <2>1
  <2> HIDE DEF u, d, l, s
  <2>4. Reads(Len(s)) \in Nat /\ Reads(Len(s)) + 1 <= Reads(u)
    <3>1. CASE u > 4
      <4>1. Len(s) = u - 4 /\ u - 4 \in Nat
        BY <1>0, <2>2, <3>1
      <4>2. Reads(u - 4) \in Nat /\ Reads(u - 4) + 1 <= Reads(u)
        BY <1>0, <3>1, <4>1, ReadsCount
      <4> QED
        BY <4>1, <4>2
    <3>2. CASE ~(u > 4)
      <4>1. Len(s) = 0 /\ Reads(0) = 0
        BY <2>2, <3>2, ReadsCount
      <4>2. 1 <= Reads(u)
        BY <1>0, <2>3, ReadsCount
      <4> QED
        BY <4>1, <4>2
    <3> QED
      BY <3>1, <3>2
  <2>5. /\ Owed(q)' = d + 2 * (1 + Reads(Len(s)))
        /\ Owed(q) = d + 2 * (0 + Reads(u))
    BY <2>1 DEF Owed, UnderWay, u, d
  <2>6. Waits(q)' = Waits(q) /\ Waits(q) \in Nat
    BY <1>0, <2>1 DEF Waits, l
  <2> QED
    BY <1>0, <2>4, <2>5, <2>6
<1>8. CASE \/ TakeCommand(q) \/ TakeAddress(q) \/ HandleRequest(q) \/ DropRequest(q)
           \/ RefuseAddress(q)
  <2>1. /\ UNCHANGED <<peerAt, late, up, down>> /\ pc[q] # "recv"
    BY <1>8 DEF TakeCommand, TakeAddress, HandleRequest, DropRequest, RefuseAddress, peerVars
  <2>2. UnderWay(q)' <= UnderWay(q) /\ UnderWay(q)' \in Nat /\ UnderWay(q) \in Nat
    BY <2>1 DEF UnderWay
  <2>3. /\ Owed(q)' = d + 2 * (UnderWay(q)' + Reads(u))
        /\ Owed(q) = d + 2 * (UnderWay(q) + Reads(u))
        /\ Waits(q)' = Waits(q) /\ Waits(q) \in Nat
    BY <1>0, <2>1 DEF Owed, Waits
  <2> HIDE DEF u, d, l
  <2> QED
    BY <1>0, <2>2, <2>3
<1>9. CASE SendAnswer(q)
  <2>1. /\ UNCHANGED <<peerAt, late, up>> /\ pc[q] = "answer" /\ pc'[q] = "recv"
        /\ \/ down'[q] = down[q] \o AnswerFor(address[q])
           \/ down'[q] = down[q]
    BY <1>0, <1>9 DEF SendAnswer, TypeOK, peerVars
  <2>2. Len(down'[q]) \in {d, d + 2}
    <3>1. AnswerFor(address[q]) \in Seq(Parts) /\ Len(AnswerFor(address[q])) = 2
      BY <1>0, AnswersHaveTwoParts DEF TypeOK
    <3>2. Len(down[q] \o AnswerFor(address[q])) = d + Len(AnswerFor(address[q]))
      BY <1>0, <3>1, ConcatProperties
    <3> QED
      BY <1>0, <2>1, <3>1, <3>2
  <2> HIDE DEF u, d, l
  <2>3. /\ Owed(q)' = Len(down'[q]) + 2 * (0 + Reads(u))
        /\ Owed(q) = d + 2 * (1 + Reads(u))
        /\ Waits(q)' = Waits(q) /\ Waits(q) \in Nat
    BY <1>0, <2>1 DEF Owed, Waits, UnderWay, u, d, l
  <2> QED
    BY <1>0, <2>2, <2>3
<1>10. CASE UNCHANGED vars
  BY <1>1, <1>10 DEF vars, peerVars, threadVars
<1> QED
  BY <1>2, <1>3, <1>4, <1>5, <1>6, <1>7, <1>8, <1>9, <1>10 DEF Next, PeerStep, ThreadStep

(* Whatever is cut, run together, refused or answered late, and whatever     *)
(* strtok returns, the answers that wait for the filter (DNSFilter.py:18) are *)
(* no more than the waits it gave up.                                        *)
THEOREM FiltersNeverJam == Spec => []RoomToAnswer
<1>1. Init => OwedForWaits
  <2> SUFFICES ASSUME Init, NEW p \in Filter PROVE Owed(p) <= 2 * Waits(p)
    BY DEF OwedForWaits
  <2>1. Len(up[p]) = 0 /\ Len(down[p]) = 0 /\ pc[p] = "recv" /\ late[p] = 0 /\ peerAt[p] = "idle"
    BY DEF Init, Peer
  <2>2. Reads(0) = 0
    BY ReadsCount
  <2> QED
    BY <2>1, <2>2 DEF Owed, Waits, UnderWay
<1>2. TypeOK /\ OwedForWaits /\ [Next]_vars => OwedForWaits'
  BY OwedStep DEF OwedForWaits
<1>3. TypeOK /\ OwedForWaits => RoomToAnswer
  <2> SUFFICES ASSUME TypeOK, OwedForWaits, NEW p \in Filter, pc[p] = "answer"
               PROVE  Len(down[p]) + 2 <= 2 * (late[p] + 1)
    BY DEF RoomToAnswer
  <2>0. Len(down[p]) \in Nat /\ Len(up[p]) \in Nat /\ late[p] \in Nat
    <3>1. p \in Peer /\ up[p] \in Seq(Parts) /\ down[p] \in Seq(Parts)
      BY DEF TypeOK, Peer
    <3> QED
      BY <3>1, SizesAreNat DEF TypeOK
  <2>1. /\ Len(down[p]) \in Nat /\ Len(up[p]) \in Nat /\ late[p] \in Nat
        /\ Reads(Len(up[p])) \in Nat
    BY <2>0, ReadsCount
  <2>2. UnderWay(p) = 1 /\ Waits(p) \in Nat /\ Waits(p) <= late[p] + 1
    BY <2>1 DEF UnderWay, Waits
  <2>3. Len(down[p]) + 2 * (1 + Reads(Len(up[p]))) <= 2 * Waits(p)
    BY <2>2 DEF OwedForWaits, Owed
  <2> QED
    BY <2>1, <2>2, <2>3
<1> QED
  BY <1>1, <1>2, <1>3, TypeCorrect, PTL DEF Spec
=============================================================================
