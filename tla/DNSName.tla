------------------------------ MODULE DNSName ------------------------------
(***************************************************************************)
(* How the resolver (client/dnsutils.c) writes a host name into a query and *)
(* reads the answer: a name travels as labels, each behind its length, and  *)
(* an answer may end a name with a pointer to labels that came before it.   *)
(* A message is a sequence of bytes; its first byte has offset 0.           *)
(***************************************************************************)
EXTENDS Naturals, Sequences, SequencesExt

CONSTANT Names    \* the host names to try, as sequences of labels

DOT == 46
HEADER == 12      \* sizeof(struct DNS_HEADER)
QUESTION == 4     \* sizeof(struct QUESTION)
RDATA == 10       \* sizeof(struct R_DATA), packed
IPV4 == 1         \* the type of an answer that holds an address
CNAME == 5        \* and of one that holds a name

Byte(message, offset) == message[offset + 1]
-----------------------------------------------------------------------------
(* fill_dns_from_host: each label's length goes to the slot kept before it.  *)
WriteByte(w, c) ==
  IF c \in {DOT, 0}
  THEN [dns |-> Append([w.dns EXCEPT ![w.slot] = w.counter], 0),
        slot |-> Len(w.dns) + 1, counter |-> 0]
  ELSE [dns |-> Append(w.dns, c), slot |-> w.slot, counter |-> w.counter + 1]

FillDnsFromHost(host) ==
  FoldLeft(WriteByte, [dns |-> <<0>>, slot |-> 1, counter |-> 0], Append(host, 0)).dns

(* The loop of ReadName: the bytes of the name, and how far to move on in    *)
(* the message.                                                             *)
RECURSIVE ScanName(_, _)
ScanName(message, reader) ==
  LET byte == Byte(message, reader)
      offset == byte * 256 + Byte(message, reader + 1) - 49152
      rest == ScanName(message, reader + 1)
  IN  IF byte = 0 THEN [name |-> << >>, count |-> 1]
      ELSE IF byte >= 192 THEN [name |-> ScanName(message, offset).name, count |-> 2]
      ELSE [name |-> <<byte>> \o rest.name, count |-> rest.count + 1]

(* The conversion after it: the lengths become dots                          *)
RECURSIVE Dotted(_)
Dotted(name) ==
  IF name = << >> THEN << >>
  ELSE SubSeq(name, 2, name[1] + 1) \o <<DOT>>
         \o Dotted(SubSeq(name, name[1] + 2, Len(name)))

ReadNameKeepsDot(message, reader) ==
  LET scan == ScanName(message, reader)
  IN  [name |-> Dotted(scan.name), count |-> scan.count]
ReadName(message, reader) ==
  LET scan == ScanName(message, reader)
  IN  [name |-> IF scan.name = << >> THEN << >> ELSE Front(Dotted(scan.name)),
       count |-> scan.count]

(* malloc(ntohs(data_len + 1)): 1 is added before the bytes are swapped, on  *)
(* a little-endian host.                                                    *)
Swapped(n) == (n % 256) * 256 + n \div 256
Allocated(length) == Swapped((Swapped(length) + 1) % 65536)

(* query_dns from the answer on: the name, the fixed fields, and behind them *)
(* the address, or in an answer of another type a name.                      *)
(* The question is as long as the first zero byte says.                     *)
QuestionName(message) ==
  SelectInSeq(SubSeq(message, HEADER + 1, Len(message)), LAMBDA b : b = 0)
AnswerStart(message) == HEADER + QuestionName(message) + QUESTION
Uint(bytes) == FoldLeft(LAMBDA n, b : 256 * n + b, 0, bytes)
ParseAnswer(message) ==
  LET read == ReadName(message, AnswerStart(message))
      data == AnswerStart(message) + read.count
      length == Uint(SubSeq(message, data + 9, data + 10))
      isAddress == Uint(SubSeq(message, data + 1, data + 2)) = IPV4
  IN  [name |-> read.name,
       ttl |-> Uint(SubSeq(message, data + 5, data + 8)),
       rdata |-> IF isAddress
                 THEN SubSeq(message, data + RDATA + 1, data + RDATA + length)
                 ELSE ReadName(message, data + RDATA).name,
       fits |-> isAddress => length < Allocated(length)]
-----------------------------------------------------------------------------
(* What a name is on the wire, and an answer for it that spells out the      *)
(* first k labels and points to the rest in the question.                   *)
Joined(labels) == Tail(FlattenSeq([i \in DOMAIN labels |-> <<DOT>> \o labels[i]]))
Wire(labels) == FlattenSeq([i \in DOMAIN labels |-> <<Len(labels[i])>> \o labels[i]])

Query(labels) ==
  [i \in 1..HEADER |-> 0] \o FillDnsFromHost(Joined(labels)) \o <<0, 1, 0, 1>>

AnswerName(labels, k) ==
  LET spelt == Wire(SubSeq(labels, 1, k))
  IN  spelt \o IF k = Len(labels) THEN <<0>> ELSE <<192, HEADER + Len(spelt)>>

AnswerTo(labels, k, type, ttl, data) ==
  Query(labels) \o AnswerName(labels, k)
    \o <<0, type, 0, 1, 0, 0, 0, ttl, 0, Len(data)>> \o data

(* Whatever the name and however far the answer compresses it, the resolver  *)
(* finds the name it wrote, the seconds to live and what is behind them: an  *)
(* address, with room for it and the zero it puts behind it, or a name,      *)
(* compressed or not.                                                       *)
EveryAnswerIsRead ==
  \A labels \in Names : \A k \in 0..Len(labels) :
    LET Read(data) == [name |-> Joined(labels), ttl |-> 5, rdata |-> data, fits |-> TRUE]
        address == <<10, 4, 11, 195>>
    IN  /\ ParseAnswer(AnswerTo(labels, k, IPV4, 5, address)) = Read(address)
        /\ \A i \in 0..Len(labels) :
             ParseAnswer(AnswerTo(labels, k, CNAME, 5, AnswerName(labels, i)))
               = Read(Joined(labels))
=============================================================================
