--------------------------- MODULE RequestChannel ---------------------------
(***************************************************************************)
(* The TCP connections between the NAT and its peers: the DNS filter sends  *)
(* a request and waits for its answer, for 40 seconds at most; the listener *)
(* of the protected server sends one BAN after another and never reads.     *)
(* Neither side frames its messages or numbers them: a read returns what is *)
(* there up to the size of its buffer.  On the NAT each connection has a    *)
(* thread, which takes a request apart with strtok.                         *)
(*                                                                          *)
(* A message is the parts a read can cut it into.  A request of 11..19      *)
(* bytes is its command with the separator and the two halves of an         *)
(* address; the NAT's 20 bytes hold one and the command of the next, or     *)
(* some letters of it (CutCommand).  An answer of 14..18 bytes is ACK; and  *)
(* the rest; the filter's 25 bytes hold one and the ACK; of the next.       *)
(***************************************************************************)
EXTENDS Integers, Sequences

CONSTANTS
  Filter,        \* peers that wait for the answer (DNSFilter.py)
  Listener,      \* peers that do not (FinalProjectServerListener.c)
  MaxRequests,   \* bound on the requests a peer sends
  MaxTimeouts,   \* bound on the waits that are given up
  LongAddress,   \* the requests whose address has 13 to 15 characters
  MayClose,      \* whether a peer may close its connection
  Window,        \* parts a connection holds that the NAT has not read
  WindowBack,    \* parts it holds that a filter has not read
  WindowUnread   \* parts it holds of the answers no listener reads

ASSUME PeersDiffer == Filter \cap Listener = {}
ASSUME NobodyIsNoPeer == "nobody" \notin Filter \cup Listener
ASSUME BoundsAreNat == MaxRequests \in Nat /\ MaxTimeouts \in Nat
ASSUME MayCloseIsBoolean == MayClose \in BOOLEAN
ASSUME WindowsHoldAMessage ==
  /\ Window \in Nat /\ Window >= 3
  /\ WindowBack \in Nat /\ WindowBack >= 2
  /\ WindowUnread \in Nat /\ WindowUnread >= 2

VARIABLES
  \* a peer p, and what is under way on its connection
  peerAt,     \* "idle", "waiting" or "closed"
  asked,      \* asked[p]: how many requests p has sent
  taken,      \* taken[p]: the request whose answer p used last
  late,       \* history: waits p has given up
  up, down,   \* the parts under way to the NAT, and back
  \* the NAT's thread for p
  pc,
  buffer,     \* message
  command,    \* the first token
  address,    \* the second token
  \* the NAT
  saved,      \* strtok's static pointer: what is left after the last token
  ended       \* the process has ended

peerVars == <<peerAt, asked, taken, late>>
threadVars == <<pc, buffer, command, address>>
vars == <<peerVars, up, down, threadVars, saved, ended>>
-----------------------------------------------------------------------------
Peer == Filter \cup Listener

WindowTo(p) == IF p \in Listener THEN WindowUnread ELSE WindowBack

(* A request is the peer that sent it and its number among that peer's.      *)
Requests == Peer \X (1..MaxRequests)
NoRequest == <<"nobody", 0>>

ASSUME LongAddressesAreRequested == LongAddress \subseteq Requests

Part(r, k) == [of |-> r, part |-> k]
Request(r) == <<Part(r, 1), Part(r, 2), Part(r, 3)>>
Answer(r) == <<Part(r, 1), Part(r, 2)>>

REQUESTPARTS == 4
ANSWERPARTS == 3

(* read and recv return what has arrived, up to the buffer's size.           *)
Readable(stream, size) ==
  IF Len(stream) > size THEN SubSeq(stream, 1, size) ELSE stream
Rest(stream, size) ==
  IF Len(stream) > size THEN SubSeq(stream, size + 1, Len(stream)) ELSE << >>

(* The separator is in part 1 of a request, after the command.  A token      *)
(* takes everything up to the first separator.                              *)
IsEnd(s, i) == s[i].part = 1 \/ i = Len(s)
TokenEnd(s) == CHOOSE i \in 1..Len(s) : IsEnd(s, i) /\ \A j \in 1..(i-1) : ~IsEnd(s, j)
FirstToken(s) == IF s = << >> THEN << >> ELSE SubSeq(s, 1, TokenEnd(s))
AfterToken(s) == IF s = << >> THEN << >> ELSE SubSeq(s, TokenEnd(s) + 1, Len(s))

IsCommand(token) == Len(token) = 1 /\ token[1].part = 1
IsAddress(token) == \E r \in Requests : token = <<Part(r, 2), Part(r, 3)>>
-----------------------------------------------------------------------------
(* NAT_update up to recv, and the send of got_packet                         *)
SendRequestWhileWaiting(p) ==
  /\ ~ended
  /\ peerAt[p] # "closed"
  /\ asked[p] < MaxRequests
  /\ Len(up[p]) + 3 <= Window
  /\ asked' = [asked EXCEPT ![p] = @ + 1]
  /\ up' = [up EXCEPT ![p] = @ \o Request(<<p, asked'[p]>>)]
  /\ peerAt' = [peerAt EXCEPT ![p] = IF p \in Filter THEN "waiting" ELSE "idle"]
  /\ UNCHANGED <<taken, late, down, threadVars, saved, ended>>
SendRequest(p) ==
  /\ ~ended
  /\ peerAt[p] = "idle"
  /\ asked[p] < MaxRequests
  /\ Len(up[p]) + 3 <= Window          \* or send blocks
  /\ asked' = [asked EXCEPT ![p] = @ + 1]
  /\ up' = [up EXCEPT ![p] = @ \o Request(<<p, asked'[p]>>)]
  /\ peerAt' = [peerAt EXCEPT ![p] = IF p \in Filter THEN "waiting" ELSE "idle"]
  /\ UNCHANGED <<taken, late, down, threadVars, saved, ended>>

(* recv and the split of what it returned.  Anything but one whole answer    *)
(* makes the split fail: the exception ends the handling of the packet, but *)
(* not the filter.                                                          *)
UsesAnswer(p, s) ==
  \/ \E r \in Requests : s = Answer(r) /\ taken' = [taken EXCEPT ![p] = r]
  \/ (\A r \in Requests : s # Answer(r)) /\ UNCHANGED taken

ReceiveAnswer(p) ==
  /\ ~ended
  /\ peerAt[p] = "waiting"
  /\ down[p] # << >>
  /\ UsesAnswer(p, Readable(down[p], ANSWERPARTS))
  /\ down' = [down EXCEPT ![p] = Rest(@, ANSWERPARTS)]
  /\ peerAt' = [peerAt EXCEPT ![p] = "idle"]
  /\ UNCHANGED <<asked, late, up, threadVars, saved, ended>>

(* settimeout(40): recv raises, the packet is given up, the answer is not    *)
GiveUp(p) ==
  /\ ~ended
  /\ peerAt[p] = "waiting"
  /\ down[p] = << >>
  /\ late[p] < MaxTimeouts
  /\ late' = [late EXCEPT ![p] = @ + 1]
  /\ peerAt' = [peerAt EXCEPT ![p] = "idle"]
  /\ UNCHANGED <<asked, taken, up, down, threadVars, saved, ended>>

Close(p) ==
  /\ ~ended
  /\ MayClose
  /\ peerAt[p] # "closed"
  /\ peerAt' = [peerAt EXCEPT ![p] = "closed"]
  /\ UNCHANGED <<asked, taken, late, up, down, threadVars, saved, ended>>
-----------------------------------------------------------------------------
(* recv_all.  At the end of the stream the message is empty and the thread   *)
(* reads again: no change of state.                                         *)
ReceiveRequest(p) ==
  /\ ~ended
  /\ pc[p] = "recv"
  /\ up[p] # << >>
  /\ buffer' = [buffer EXCEPT ![p] = Readable(up[p], REQUESTPARTS)]
  /\ up' = [up EXCEPT ![p] = Rest(@, REQUESTPARTS)]
  /\ pc' = [pc EXCEPT ![p] = "command"]
  /\ UNCHANGED <<peerVars, down, command, address, saved, ended>>

(* command = strtok(message, ";"): from now on strtok is in this message     *)
TakeCommand(p) ==
  /\ ~ended
  /\ pc[p] = "command"
  /\ command' = [command EXCEPT ![p] = FirstToken(buffer[p])]
  /\ saved' = AfterToken(buffer[p])
  /\ pc' = [pc EXCEPT ![p] = "address"]
  /\ UNCHANGED <<peerVars, up, down, buffer, address, ended>>

(* ip = strtok(NULL, ";"): the next token of whatever message strtok is in   *)
TakeAddress(p) ==
  /\ ~ended
  /\ pc[p] = "address"
  /\ address' = [address EXCEPT ![p] = FirstToken(saved)]
  /\ saved' = AfterToken(saved)
  /\ pc' = [pc EXCEPT ![p] = "check"]
  /\ UNCHANGED <<peerVars, up, down, buffer, command, ended>>

(* The first test lets 7 to 12 characters pass.  A whole address has 7 to    *)
(* 15; one that the next command has run into, or half of one, may have any  *)
(* number; NULL does not pass.                                              *)
TooLong(token) ==
  /\ Len(token) >= 2 /\ IsAddress(SubSeq(token, 1, 2))
  /\ token[1].of \in LongAddress
MayPass(token) == token # << >> /\ ~TooLong(token)
MayFail(token) == ~IsAddress(token) \/ TooLong(token)

(* A read that ends in a command may leave some letters of it, which are     *)
(* then a token in front of the address.                                     *)
CutCommand(token) == token # << >> /\ token[1].part = 2

(* The request is carried out (MappingTable, BanTable) and answered.         *)
HandleRequest(p) ==
  /\ ~ended
  /\ pc[p] = "check"
  /\ MayPass(address[p])
  /\ IsCommand(command[p])
  /\ pc' = [pc EXCEPT ![p] = "answer"]
  /\ UNCHANGED <<peerVars, up, down, buffer, command, address, saved, ended>>

(* The second test: a command that is not three characters long is dropped   *)
MayDrop(first, second) ==
  /\ ~IsCommand(first)
  /\ MayPass(second) \/ (second = << >> /\ CutCommand(first))
DropRequestAndStop(p) ==
  /\ ~ended
  /\ pc[p] = "check"
  /\ MayDrop(command[p], address[p])
  /\ pc' = [pc EXCEPT ![p] = "stopped"]
  /\ UNCHANGED <<peerVars, up, down, buffer, command, address, saved, ended>>
DropRequest(p) ==
  /\ ~ended
  /\ pc[p] = "check"
  /\ MayDrop(command[p], address[p])
  /\ pc' = [pc EXCEPT ![p] = "recv"]
  /\ UNCHANGED <<peerVars, up, down, buffer, command, address, saved, ended>>

(* The first test frees the request and does not return: the handler goes on *)
(* with freed memory and frees it again.  The process ends, or answers       *)
(* something that names no request.                                         *)
RefuseAddress(p) ==
  /\ ~ended
  /\ pc[p] = "check"
  /\ MayFail(address[p])
  /\ \/ /\ ended' = TRUE
        /\ UNCHANGED <<pc, address>>
     \/ /\ pc' = [pc EXCEPT ![p] = "answer"]
        /\ address' = [address EXCEPT ![p] = << >>]
        /\ UNCHANGED ended
  /\ UNCHANGED <<peerVars, up, down, buffer, command, saved>>

(* An address is recognised by its start, whatever comes behind it.          *)
AnswerFor(token) ==
  IF Len(token) >= 2 /\ IsAddress(SubSeq(token, 1, 2)) THEN Answer(token[1].of)
  ELSE Answer(NoRequest)

(* send_all: when the peer is gone, send may fail, and the process exits.    *)
SendAnswerAgain(p) ==
  /\ ~ended
  /\ pc[p] = "answer"
  /\ Len(down[p]) + 2 <= WindowTo(p)
  /\ down' = [down EXCEPT ![p] = @ \o AnswerFor(address[p])]
  /\ UNCHANGED <<peerVars, up, pc, buffer, command, address, saved, ended>>
SendAnswerDropped(p) ==
  /\ ~ended
  /\ pc[p] = "answer"
  /\ down' = IF Len(down[p]) + 2 <= WindowTo(p)
             THEN [down EXCEPT ![p] = @ \o AnswerFor(address[p])] ELSE down
  /\ pc' = [pc EXCEPT ![p] = "recv"]
  /\ UNCHANGED <<peerVars, up, buffer, command, address, saved, ended>>
SendAnswer(p) ==
  /\ ~ended
  /\ pc[p] = "answer"
  /\ \/ /\ Len(down[p]) + 2 <= WindowTo(p)    \* or send blocks
        /\ down' = [down EXCEPT ![p] = @ \o AnswerFor(address[p])]
        /\ UNCHANGED ended
     \/ /\ peerAt[p] = "closed"
        /\ ended' = TRUE
        /\ UNCHANGED down
  /\ pc' = [pc EXCEPT ![p] = "recv"]
  /\ UNCHANGED <<peerVars, up, buffer, command, address, saved>>
-----------------------------------------------------------------------------
Init ==
  /\ peerAt = [p \in Peer |-> "idle"]
  /\ asked = [p \in Peer |-> 0]
  /\ taken = [p \in Peer |-> NoRequest]
  /\ late = [p \in Peer |-> 0]
  /\ up = [p \in Peer |-> << >>]
  /\ down = [p \in Peer |-> << >>]
  /\ pc = [p \in Peer |-> "recv"]
  /\ buffer = [p \in Peer |-> << >>]
  /\ command = [p \in Peer |-> << >>]
  /\ address = [p \in Peer |-> << >>]
  /\ saved = << >>
  /\ ended = FALSE

PeerStep(p) == SendRequest(p) \/ ReceiveAnswer(p) \/ GiveUp(p) \/ Close(p)

ThreadStep(p) ==
  \/ ReceiveRequest(p)
  \/ TakeCommand(p)
  \/ TakeAddress(p)
  \/ HandleRequest(p)
  \/ DropRequest(p)
  \/ RefuseAddress(p)
  \/ SendAnswer(p)

Next == \E p \in Peer : PeerStep(p) \/ ThreadStep(p)

Spec == Init /\ [][Next]_vars

(* A thread that has something to do does it.                                *)
FairSpec == /\ Spec
            /\ \A p \in Peer : WF_vars(ThreadStep(p))
            /\ \A p \in Filter : WF_vars(ReceiveAnswer(p))
-----------------------------------------------------------------------------
(* No two threads are between their two calls of strtok at the same time:    *)
(* what the two sides of a connection may rely on as far as strtok goes.     *)
NoTokenRace == \A p, q \in Peer : pc[p] = "address" /\ pc[q] = "address" => p = q

Parts == [of: Requests \cup {NoRequest}, part: 1..3]

TypeOK ==
  /\ peerAt \in [Peer -> {"idle", "waiting", "closed"}]
  /\ asked \in [Peer -> 0..MaxRequests]
  /\ taken \in [Peer -> Requests \cup {NoRequest}]
  /\ late \in [Peer -> 0..MaxTimeouts]
  /\ up \in [Peer -> Seq(Parts)] /\ \A p \in Peer : Len(up[p]) <= Window
  /\ down \in [Peer -> Seq(Parts)] /\ \A p \in Peer : Len(down[p]) <= WindowTo(p)
  /\ pc \in [Peer -> {"recv", "command", "address", "check", "answer"}]
  /\ buffer \in [Peer -> Seq(Parts)]
  /\ command \in [Peer -> Seq(Parts)]
  /\ address \in [Peer -> Seq(Parts)]
  /\ saved \in Seq(Parts)
  /\ ended \in BOOLEAN

(* A wait that was given up leaves its answer in the connection: what the    *)
(* filter takes for its answer is then one for an earlier request, but of no *)
(* more requests ago than it gave up waits; while it gave up none, the       *)
(* address a DNS answer is made of is the one given for that very answer.    *)
LagBounded ==
  [][\A p \in Filter :
       taken'[p] # taken[p] =>
         taken'[p][1] = p /\ asked[p] - taken'[p][2] \in 0..late[p]]_vars

(* However the two sides get out of step, no answer is used twice and none   *)
(* after a later one: every answer the filter uses is newer than the last.  *)
AnswersInOrder ==
  [][\A p \in Filter : \A r \in Requests :
       ReceiveAnswer(p) /\ Readable(down[p], ANSWERPARTS) = Answer(r)
         => r[1] = p /\ r[2] > taken[p][2]]_vars

(* The process, and with it every mapping and ban, ends only when a peer     *)
(* has closed its connection, has given up a wait, has sent a second request *)
(* without waiting for any answer, or when its last request names an address *)
(* of more than 12 characters: while a filter waits for each answer, no      *)
(* request is cut or run together with the next, and no other is refused.   *)
EndedForACause ==
  ended => \E p \in Peer : \/ peerAt[p] = "closed"
                           \/ late[p] > 0
                           \/ p \in Listener /\ asked[p] > 1
                           \/ <<p, asked[p]>> \in LongAddress

(* The thread has an answer for a listener that there is no room for.        *)
Jammed(p) == p \in Listener /\ pc[p] = "answer" /\ Len(down[p]) + 2 > WindowTo(p)

(* The listener of the protected server sends BANs and never reads what the  *)
(* NAT answers.  Once the way back is full the NAT's thread stands in        *)
(* send_all for good: no later BAN is read, those of one connection pile up  *)
(* until the listener's own send blocks, and the only way out is the end of *)
(* the NAT's process after the listener has gone.                           *)
JamIsForGood ==
  [][\A p \in Peer :
       Jammed(p) => \/ Jammed(p)' /\ Len(up'[p]) >= Len(up[p])
                    \/ peerAt[p] = "closed" /\ ended']_vars

(* Nothing a peer sent stays unread, unless the process ends or the way back *)
(* to the peer is jammed.                                                   *)
EveryRequestRead ==
  \A p \in Peer : up[p] # << >> ~> up[p] = << >> \/ ended \/ Jammed(p)
-----------------------------------------------------------------------------
(* "Retrive the Command and the IP from the request" (NATServer.c:438): both *)
(* tokens come from the thread's own request.                               *)
TokensOfOwnRequest ==
  \A p \in Peer :
    pc[p] = "check" /\ (\E r \in Requests : buffer[p] = Request(r)) =>
      address[p] = Tail(buffer[p])
=============================================================================
