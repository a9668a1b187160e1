------------------------------ MODULE DnsReply -------------------------------
(***************************************************************************)
(* How dns_server_task makes a reply: it copies the packet to tx_buffer,   *)
(* looks for the zero byte that ends the name of the question, and writes  *)
(* an address record behind the question.                                  *)
(*                                                                         *)
(* tx_buffer keeps what earlier packets left behind the received bytes,    *)
(* and the scan looks at one byte past the last one received, which is     *)
(* past the buffer when the packet fills it.  So tx_buffer is arbitrary    *)
(* here, and one byte longer than the array of the code.                   *)
(***************************************************************************)
EXTENDS Integers

CONSTANTS
  Bytes,        \* the values of a byte, as far as they matter
  HeaderSize,   \* sizeof(dns_header_t)
  AnswerSize,   \* the 16 bytes of the answer
  MaxPayload    \* DNS_MAX_PAYLOAD

ASSUME SizesAssumption ==
  HeaderSize \in Nat /\ AnswerSize \in Nat /\ MaxPayload \in Nat
  /\ HeaderSize < MaxPayload
ASSUME BytesAssumption == Bytes \subseteq 0 .. 255

VARIABLES
  tx_buffer,   \* from the end of the header on
  len,         \* bytes received
  reply        \* what is sent back

dnsvars == <<tx_buffer, len, reply>>

Positions == HeaderSize .. MaxPayload
NoReply == [kind |-> "none", size |-> 0]

\* The scan of the name: it stops at a zero byte, or one byte past the packet.
QueryEnd ==
  CHOOSE e \in Positions :
    /\ tx_buffer[e] = 0 \/ e >= len
    /\ \A k \in Positions : k < e => tx_buffer[k] # 0 /\ k < len

\* Mutant of HasQuestion: QTYPE and QCLASS are not asked for.
EndsInZero(e) == tx_buffer[e] = 0 /\ e <= len /\ e + 4 <= MaxPayload

\* The zero byte, QTYPE and QCLASS were received.
HasQuestion(e) == tx_buffer[e] = 0 /\ e + 5 <= len

\* TYPE A or ANY, in two bytes.
QType(e) == tx_buffer[e + 1] * 256 + tx_buffer[e + 2]
WantsAddress(e) == QType(e) \in {1, 255}

HasRoom(e) == e + 5 + AnswerSize <= MaxPayload

\* An address reply is the question with one answer behind it and drops what
\* followed the question; any other reply is the packet with no answer.
AddressReply(e) == [kind |-> "address", size |-> e + 5 + AnswerSize]
EmptyReply == [kind |-> "empty", size |-> len]

Reply ==
  IF len < HeaderSize \/ ~HasQuestion(QueryEnd) THEN NoReply
  ELSE IF ~WantsAddress(QueryEnd) THEN EmptyReply
  ELSE IF HasRoom(QueryEnd) THEN AddressReply(QueryEnd) ELSE NoReply

Unanswered == [kind |-> "pending", size |-> 0]

DnsInit ==
  /\ tx_buffer \in [Positions -> Bytes]
  /\ len \in 0 .. MaxPayload
  /\ reply = Unanswered

Answer ==
  /\ reply = Unanswered
  /\ reply' = Reply
  /\ UNCHANGED <<tx_buffer, len>>

DnsSpec == DnsInit /\ [][Answer]_dnsvars

-----------------------------------------------------------------------------
\* The end of the name as RFC 1035 has it: labels, each behind its length, up to
\* the empty one.  len if the labels go past the received bytes.
NameEnd ==
  LET walk[k \in HeaderSize .. len - 1] ==
        LET next == k + 1 + tx_buffer[k]
        IN IF tx_buffer[k] = 0 THEN k ELSE IF next < len THEN walk[next] ELSE len
  IN IF HeaderSize < len THEN walk[HeaderSize] ELSE len

\* No label has a zero byte in it; no host name does.
PlainName == \A k \in HeaderSize .. len - 1 : k < NameEnd => tx_buffer[k] # 0

\* The reply depends on the received bytes alone, and to the name that a resolver
\* would read in them: a complete question for an address is answered if there
\* is room, any other complete question gets an empty reply, and nothing else
\* gets one.  (dns_server.c: "This tells the OS the record does not exist and
\* prevents timeouts".)
AnswersQuestion ==
  reply # Unanswered /\ len >= HeaderSize /\ PlainName =>
    LET end == NameEnd + 5
        complete == end <= len
        address == /\ complete
                   /\ tx_buffer[end - 4] = 0 /\ tx_buffer[end - 3] \in {1, 255}
    IN /\ reply.kind = "address" <=> address /\ end + AnswerSize <= MaxPayload
       /\ reply.kind = "empty" <=> complete /\ ~address
       /\ reply.kind = "address" => reply.size = end + AnswerSize
=============================================================================
