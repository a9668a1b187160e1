--------------------------- MODULE RequestsProofs ---------------------------
(***************************************************************************)
(* Requests are read as they were sent: the DNS server answers the         *)
(* question that is in a packet, whatever its buffer held before, and the  *)
(* name and the password of a form are kept apart.  For packets, texts     *)
(* and buffers of every size.                                              *)
(***************************************************************************)
EXTENDS DnsReply, ConnectForm, SequenceTheorems, WellFoundedInduction, TLAPS

-----------------------------------------------------------------------------
(***************************************************************************)
(* Induction, stated for a set of numbers.                                 *)
(***************************************************************************)
LEMMA LeastNumber ==
  ASSUME NEW T \in SUBSET Nat, T # {}
  PROVE  \E m \in T : \A n \in T : m <= n
<1>1. PICK m \in T : \A n \in T : ~(<<n, m>> \in OpToRel(<, Nat))
  BY NatLessThanWellFounded, WFMin
<1>2. \A n \in T : ~(n < m)
  BY <1>1 DEF OpToRel
<1> QED
  BY <1>2

LEMMA Counting ==
  ASSUME NEW S \in SUBSET Nat, 0 \in S, \A n \in S : n + 1 \in S
  PROVE  S = Nat
<1> SUFFICES ASSUME Nat \ S # {} PROVE FALSE
  OBVIOUS
<1>1. PICK m \in Nat \ S : \A n \in Nat \ S : m <= n
  BY LeastNumber
<1>2. m - 1 \in Nat /\ m - 1 \in S
  BY <1>1
<1> QED
  BY <1>1, <1>2

-----------------------------------------------------------------------------
(***************************************************************************)
(* The name in a packet.                                                   *)
(***************************************************************************)
\* The walk over the labels from position p on: where each position leads to.
Walks(w, p) ==
  w = [k \in p .. len - 1 |->
         IF tx_buffer[k] = 0 THEN k
         ELSE IF k + 1 + tx_buffer[k] < len THEN w[k + 1 + tx_buffer[k]] ELSE len]

\* It leads behind the received bytes, or to a zero byte among them.
Ends(w, p) ==
  \A k \in p .. len - 1 : w[k] = len \/ (w[k] \in k .. len - 1 /\ tx_buffer[w[k]] = 0)

DnsTyped == tx_buffer \in [Positions -> Bytes] /\ len \in 0 .. MaxPayload

\* A received byte is a number.
LEMMA ReceivedByte ==
  ASSUME DnsTyped, NEW k \in HeaderSize .. len
  PROVE  k \in Positions /\ k \in Nat /\ tx_buffer[k] \in 0 .. 255
<1>1. HeaderSize \in Nat /\ MaxPayload \in Nat /\ len \in Nat /\ len <= MaxPayload
  BY SizesAssumption DEF DnsTyped
<1>2. k \in Positions /\ k \in Nat
  BY <1>1 DEF Positions
<1> QED
  BY <1>2, BytesAssumption DEF DnsTyped

\* There is such a walk: a label leads on to later ones.
LEMMA WalkExists ==
  ASSUME DnsTyped, HeaderSize < len
  PROVE  \E w : Walks(w, HeaderSize)
<1>1. HeaderSize \in Nat /\ len \in Nat
  BY SizesAssumption DEF DnsTyped
<1>2. PICK S : S = {n \in Nat : n <= len - HeaderSize => \E w : Walks(w, len - n)}
  OBVIOUS
<1>3. 0 \in S
  <2>1. Walks([k \in len .. len - 1 |-> len], len)
    BY <1>1 DEF Walks
  <2> QED
    BY <1>1, <1>2, <2>1
<1>4. ASSUME NEW n \in S PROVE n + 1 \in S
  <2> SUFFICES ASSUME n + 1 <= len - HeaderSize
               PROVE  \E w : Walks(w, len - (n + 1))
    BY <1>1, <1>2
  <2>1. PICK w : Walks(w, len - n)
    BY <1>1, <1>2
  <2>2. PICK p : p = len - (n + 1)
    OBVIOUS
  <2>3. /\ p \in HeaderSize .. len - 1 /\ p \in Nat /\ len - n = p + 1 /\ n \in Nat
        /\ \A k \in p .. len - 1 : k = p \/ k \in p + 1 .. len - 1
        /\ p + 1 .. len - 1 \subseteq p .. len - 1
    BY <1>1, <1>2, <2>2
  <2>4. \A k \in p .. len - 1 : tx_buffer[k] \in Nat
    <3> SUFFICES ASSUME NEW k \in p .. len - 1 PROVE tx_buffer[k] \in Nat
      OBVIOUS
    <3>1. k \in HeaderSize .. len
      BY <1>1, <2>3
    <3>2. tx_buffer[k] \in 0 .. 255
      BY <3>1, ReceivedByte
    <3> QED
      BY <3>2
  <2> DEFINE f(v, k) == IF tx_buffer[k] = 0 THEN k
                        ELSE IF k + 1 + tx_buffer[k] < len
                             THEN v[k + 1 + tx_buffer[k]] ELSE len
             v == [k \in p .. len - 1 |-> IF k = p THEN f(w, p) ELSE w[k]]
  <2>5. \A k \in p + 1 .. len - 1 : v[k] = w[k] /\ w[k] = f(w, k)
    BY <2>1, <2>3 DEF Walks
  <2>6. \A k \in p .. len - 1 : f(v, k) = f(w, k)
    <3> SUFFICES ASSUME NEW k \in p .. len - 1, k + 1 + tx_buffer[k] < len
                 PROVE  v[k + 1 + tx_buffer[k]] = w[k + 1 + tx_buffer[k]]
      OBVIOUS
    <3>1. k + 1 + tx_buffer[k] \in p + 1 .. len - 1
      BY <1>1, <2>3, <2>4
    <3> HIDE DEF v
    <3> QED
      BY <2>5, <3>1
  <2>7. \A k \in p .. len - 1 : v[k] = f(v, k)
    <3>1. v[p] = f(w, p)
      BY <2>3
    <3> HIDE DEF v, f
    <3> QED
      BY <2>3, <2>5, <2>6, <3>1
  <2>8. v = [k \in p .. len - 1 |-> f(v, k)]
    <3>1. v = [k \in p .. len - 1 |-> v[k]]
      OBVIOUS
    <3> HIDE DEF v, f
    <3> QED
      BY <2>7, <3>1
  <2>9. Walks(v, p)
    <3> HIDE DEF v
    <3> QED
      BY <2>8 DEF Walks
  <2> QED
    BY <2>2, <2>9
<1>5. S = Nat
  BY <1>2, <1>3, <1>4, Counting
<1>6. len - HeaderSize \in S /\ len - (len - HeaderSize) = HeaderSize
  BY <1>1, <1>5
<1> QED
  BY <1>1, <1>2, <1>6

\* And it ends.
LEMMA WalkEnds ==
  ASSUME DnsTyped, NEW w, Walks(w, HeaderSize)
  PROVE  Ends(w, HeaderSize)
<1>1. HeaderSize \in Nat /\ len \in Nat
  BY SizesAssumption DEF DnsTyped
<1>2. PICK S : S = {n \in Nat : n <= len - HeaderSize => Ends(w, len - n)}
  OBVIOUS
<1>3. 0 \in S
  BY <1>1, <1>2 DEF Ends
<1>4. ASSUME NEW n \in S PROVE n + 1 \in S
  <2> SUFFICES ASSUME n + 1 <= len - HeaderSize
               PROVE  Ends(w, len - (n + 1))
    BY <1>1, <1>2
  <2>1. Ends(w, len - n)
    BY <1>1, <1>2
  <2>2. PICK p : p = len - (n + 1)
    OBVIOUS
  <2>3. /\ p \in HeaderSize .. len - 1 /\ p \in Nat /\ len - n = p + 1
        /\ \A k \in p .. len - 1 : k = p \/ k \in p + 1 .. len - 1
    BY <1>1, <1>2, <2>2
  <2>4. tx_buffer[p] \in Nat
    <3>1. p \in HeaderSize .. len
      BY <1>1, <2>3
    <3>2. tx_buffer[p] \in 0 .. 255
      BY <3>1, ReceivedByte
    <3> QED
      BY <3>2
  <2>5. w[p] = IF tx_buffer[p] = 0 THEN p
               ELSE IF p + 1 + tx_buffer[p] < len THEN w[p + 1 + tx_buffer[p]] ELSE len
    BY <2>3 DEF Walks
  <2>6. w[p] = len \/ (w[p] \in p .. len - 1 /\ tx_buffer[w[p]] = 0)
    <3>1. CASE tx_buffer[p] = 0
      BY <1>1, <2>3, <2>5, <3>1
    <3>2. CASE tx_buffer[p] # 0 /\ p + 1 + tx_buffer[p] < len
      <4>1. PICK q : q = p + 1 + tx_buffer[p]
        OBVIOUS
      <4>2. q \in p + 1 .. len - 1 /\ q > p /\ w[p] = w[q]
        BY <1>1, <2>3, <2>4, <2>5, <3>2, <4>1
      <4>3. w[q] = len \/ (w[q] \in q .. len - 1 /\ tx_buffer[w[q]] = 0)
        BY <2>1, <2>3, <4>2 DEF Ends
      <4> QED
        BY <1>1, <2>3, <4>2, <4>3
    <3>3. CASE tx_buffer[p] # 0 /\ ~(p + 1 + tx_buffer[p] < len)
      BY <2>5, <3>3
    <3> QED
      BY <3>1, <3>2, <3>3
  <2>7. \A k \in p + 1 .. len - 1 : w[k] = len \/ (w[k] \in k .. len - 1 /\ tx_buffer[w[k]] = 0)
    BY <2>1, <2>3 DEF Ends
  <2> QED
    BY <2>2, <2>3, <2>6, <2>7 DEF Ends
<1>5. S = Nat
  BY <1>2, <1>3, <1>4, Counting
<1>6. CASE HeaderSize <= len
  <2>1. len - HeaderSize \in S /\ len - (len - HeaderSize) = HeaderSize
    BY <1>1, <1>5, <1>6
  <2> QED
    BY <1>1, <1>2, <2>1
<1>7. CASE ~(HeaderSize <= len)
  BY <1>1, <1>7 DEF Ends
<1> QED
  BY <1>6, <1>7

\* So a name ends in a zero byte, or not within the received bytes.
LEMMA NameEndIs ==
  ASSUME DnsTyped, len >= HeaderSize
  PROVE  \/ NameEnd = len
         \/ NameEnd \in HeaderSize .. len - 1 /\ tx_buffer[NameEnd] = 0
<1>1. HeaderSize \in Nat /\ len \in Nat
  BY SizesAssumption DEF DnsTyped
<1>2. CASE HeaderSize < len
  <2>1. PICK w : Walks(w, HeaderSize) /\ NameEnd = w[HeaderSize]
    <3>1. \E w : w = [k \in HeaderSize .. len - 1 |->
                        IF tx_buffer[k] = 0 THEN k
                        ELSE IF k + 1 + tx_buffer[k] < len
                             THEN w[k + 1 + tx_buffer[k]] ELSE len]
      BY <1>2, WalkExists DEF Walks
    <3> QED
      BY <1>2, <3>1 DEF NameEnd, Walks
  <2>2. Ends(w, HeaderSize)
    BY <2>1, WalkEnds
  <2>3. HeaderSize \in HeaderSize .. len - 1
    BY <1>1, <1>2
  <2> QED
    BY <2>1, <2>2, <2>3 DEF Ends
<1>3. CASE ~(HeaderSize < len)
  BY <1>1, <1>3 DEF NameEnd
<1> QED
  BY <1>2, <1>3

\* The scan of the code gets there.
LEMMA ScanFindsName ==
  ASSUME DnsTyped, len >= HeaderSize, PlainName
  PROVE  QueryEnd = NameEnd
<1>1. HeaderSize \in Nat /\ len \in Nat /\ MaxPayload \in Nat /\ len <= MaxPayload
  BY SizesAssumption DEF DnsTyped
<1>2. PICK e : e = NameEnd
  OBVIOUS
<1>3. e = len \/ (e \in HeaderSize .. len - 1 /\ tx_buffer[e] = 0)
  BY <1>2, NameEndIs
<1>4. e \in Positions /\ e <= len /\ (tx_buffer[e] = 0 \/ e >= len)
  BY <1>1, <1>3 DEF Positions
<1>5. \A k \in Positions : k < e => tx_buffer[k] # 0 /\ k < len
  <2> SUFFICES ASSUME NEW k \in Positions, k < e
               PROVE  tx_buffer[k] # 0 /\ k < len
    OBVIOUS
  <2>1. k < len /\ k \in HeaderSize .. len - 1
    BY <1>1, <1>4 DEF Positions
  <2> QED
    BY <1>2, <2>1 DEF PlainName
<1>6. \A d \in Positions :
        (tx_buffer[d] = 0 \/ d >= len)
          /\ (\A k \in Positions : k < d => tx_buffer[k] # 0 /\ k < len) => d = e
  BY <1>1, <1>4, <1>5 DEF Positions
<1> QED
  BY <1>2, <1>4, <1>5, <1>6 DEF QueryEnd

\* The two bytes of a type are those of an address, or of any, record.
LEMMA TypeBytes ==
  ASSUME NEW a \in 0 .. 255, NEW b \in 0 .. 255
  PROVE  a * 256 + b \in {1, 255} <=> a = 0 /\ b \in {1, 255}
OBVIOUS

\* What the code makes of a packet is what AnswersQuestion asks for.
LEMMA ReplyAnswers ==
  ASSUME DnsTyped, reply = Reply
  PROVE  AnswersQuestion
<1> SUFFICES ASSUME len >= HeaderSize, PlainName PROVE AnswersQuestion
  BY DEF AnswersQuestion
<1>1. /\ HeaderSize \in Nat /\ len \in Nat /\ MaxPayload \in Nat /\ AnswerSize \in Nat
      /\ len <= MaxPayload
  BY SizesAssumption DEF DnsTyped
<1>2. PICK e : e = NameEnd
  OBVIOUS
<1>3. QueryEnd = e
  BY <1>2, ScanFindsName
<1>4. e = len \/ (e \in HeaderSize .. len - 1 /\ tx_buffer[e] = 0)
  BY <1>2, NameEndIs
<1>5. e \in Nat /\ e >= HeaderSize
  BY <1>1, <1>4
<1>6. PICK complete \in BOOLEAN : complete <=> e + 5 <= len
  OBVIOUS
<1>7. HasQuestion(e) <=> complete
  BY <1>1, <1>4, <1>5, <1>6 DEF HasQuestion
<1>8. complete => (WantsAddress(e) <=>
                    tx_buffer[e + 5 - 4] = 0 /\ tx_buffer[e + 5 - 3] \in {1, 255})
  <2> SUFFICES ASSUME complete
               PROVE  WantsAddress(e) <=>
                        tx_buffer[e + 5 - 4] = 0 /\ tx_buffer[e + 5 - 3] \in {1, 255}
    OBVIOUS
  <2>1. e + 1 \in HeaderSize .. len /\ e + 2 \in HeaderSize .. len
    BY <1>1, <1>5, <1>6
  <2>2. tx_buffer[e + 1] \in 0 .. 255 /\ tx_buffer[e + 2] \in 0 .. 255
    BY <2>1, ReceivedByte
  <2>3. e + 5 - 4 = e + 1 /\ e + 5 - 3 = e + 2
    BY <1>5
  <2>4. WantsAddress(e) <=> tx_buffer[e + 1] = 0 /\ tx_buffer[e + 2] \in {1, 255}
    <3>1. PICK a \in 0 .. 255, b \in 0 .. 255 : a = tx_buffer[e + 1] /\ b = tx_buffer[e + 2]
      BY <2>2
    <3>2. WantsAddress(e) <=> a * 256 + b \in {1, 255}
      BY <3>1 DEF WantsAddress, QType
    <3>3. a * 256 + b \in {1, 255} <=> a = 0 /\ b \in {1, 255}
      BY TypeBytes
    <3> QED
      BY <3>1, <3>2, <3>3, Zenon
  <2> QED
    BY <2>3, <2>4
<1>9. PICK address \in BOOLEAN :
        address <=> complete /\ tx_buffer[e + 5 - 4] = 0 /\ tx_buffer[e + 5 - 3] \in {1, 255}
  OBVIOUS
<1>10. reply = IF ~complete THEN NoReply
               ELSE IF ~address THEN EmptyReply
               ELSE IF HasRoom(e) THEN AddressReply(e) ELSE NoReply
  BY <1>1, <1>3, <1>7, <1>8, <1>9 DEF Reply
<1>11. /\ reply.kind = "address" <=> address /\ e + 5 + AnswerSize <= MaxPayload
       /\ reply.kind = "empty" <=> complete /\ ~address
       /\ reply.kind = "address" => reply.size = e + 5 + AnswerSize
  BY <1>9, <1>10 DEF HasRoom, NoReply, EmptyReply, AddressReply
<1>12. /\ reply.kind = "address" <=>
            /\ e + 5 <= len /\ tx_buffer[e + 5 - 4] = 0 /\ tx_buffer[e + 5 - 3] \in {1, 255}
            /\ e + 5 + AnswerSize <= MaxPayload
       /\ reply.kind = "empty" <=>
            /\ e + 5 <= len
            /\ ~(e + 5 <= len /\ tx_buffer[e + 5 - 4] = 0 /\ tx_buffer[e + 5 - 3] \in {1, 255})
  <2>1. address <=> e + 5 <= len /\ tx_buffer[e + 5 - 4] = 0 /\ tx_buffer[e + 5 - 3] \in {1, 255}
    BY <1>6, <1>9
  <2> QED
    BY <1>6, <1>11, <2>1
<1>13. LET end == e + 5
           full == end <= len
           wanted == full /\ tx_buffer[end - 4] = 0 /\ tx_buffer[end - 3] \in {1, 255}
       IN /\ reply.kind = "address" <=> wanted /\ end + AnswerSize <= MaxPayload
          /\ reply.kind = "empty" <=> full /\ ~wanted
          /\ reply.kind = "address" => reply.size = end + AnswerSize
  BY <1>5, <1>11, <1>12
<1> QED
  BY <1>2, <1>13, Zenon DEF AnswersQuestion

\* A packet stays as it was received, and is answered once.
DnsInv == DnsTyped /\ reply \in {Unanswered, Reply}

\* It does, since nothing touches the received bytes.
LEMMA DnsInvariant == DnsSpec => []DnsInv
<1>1. DnsInit => DnsInv
  BY DEF DnsInit, DnsInv, DnsTyped
<1>2. DnsInv /\ [Answer]_dnsvars => DnsInv'
  <2> SUFFICES ASSUME DnsInv, [Answer]_dnsvars PROVE DnsInv'
    OBVIOUS
  <2>1. tx_buffer' = tx_buffer /\ len' = len /\ (reply' = reply \/ reply' = Reply)
    BY DEF Answer, dnsvars
  <2>2. Reply' = Reply
    BY <2>1 DEF Reply, QueryEnd, HasQuestion, WantsAddress, QType, HasRoom,
                AddressReply, EmptyReply, NoReply
  <2> QED
    BY <2>1, <2>2 DEF DnsInv, DnsTyped
<1> QED
  BY <1>1, <1>2, PTL DEF DnsSpec

\* dns_server.c, the branches of dns_server_task behind its scan for the zero byte:
\* the question of a packet, as a resolver reads it, is answered whatever earlier
\* packets left in tx_buffer, and nothing else is.
THEOREM QuestionsAnswered == DnsSpec => []AnswersQuestion
<1>1. DnsInv => AnswersQuestion
  BY ReplyAnswers DEF DnsInv, AnswersQuestion
<1> QED
  BY <1>1, DnsInvariant, PTL
-----------------------------------------------------------------------------
(***************************************************************************)
(* The encoding of a text.                                                 *)
(***************************************************************************)
\* The characters of an encoded text, and the tokens of a form.
Characters == {"plain", "+", "%", "X"}
Tokens == Characters \cup {"ssid=", "&", "password="}

\* The prefixes of a sequence of sequences, each flattened.
Joined(s, t) == s \o t
Flattens(w, seqs, n) ==
  w = [i \in 1 .. n |-> IF i = 1 THEN seqs[i] ELSE Joined(w[i - 1], seqs[i])]

\* Each of them is the one before it and an element more.
LEMMA FlattensAt ==
  ASSUME NEW w, NEW seqs, NEW m, Flattens(w, seqs, m), NEW i \in 1 .. m
  PROVE  w[i] = IF i = 1 THEN seqs[i] ELSE Joined(w[i - 1], seqs[i])
BY DEF Flattens

LEMMA FlattensNext ==
  ASSUME NEW w, NEW seqs, NEW m \in Nat, Flattens(w, seqs, m),
         NEW n \in Nat, n + 1 \in 1 .. m
  PROVE  /\ n = 0 => w[n + 1] = seqs[n + 1]
         /\ n # 0 => n \in 1 .. m /\ w[n + 1] = Joined(w[n], seqs[n + 1])
<1>1. PICK i \in 1 .. m : i = n + 1
  OBVIOUS
<1>2. i - 1 = n /\ (i = 1 <=> n = 0) /\ (n # 0 => n \in 1 .. m)
  BY <1>1
<1>3. w[i] = IF i = 1 THEN seqs[i] ELSE Joined(w[i - 1], seqs[i])
  BY FlattensAt
<1>4. w[i] = IF n = 0 THEN seqs[i] ELSE Joined(w[n], seqs[i])
  BY <1>2, <1>3
<1> QED
  BY <1>1, <1>2, <1>4

\* There are such.
LEMMA FlattensExists ==
  ASSUME NEW seqs, NEW m \in Nat
  PROVE  \E w : Flattens(w, seqs, m)
<1>1. PICK S : S = {n \in Nat : \E w : Flattens(w, seqs, n)}
  OBVIOUS
<1>2. 0 \in S
  <2>1. Flattens([i \in 1 .. 0 |-> seqs], seqs, 0)
    BY DEF Flattens
  <2> QED
    BY <1>1, <2>1
<1>3. ASSUME NEW n \in S PROVE n + 1 \in S
  <2>1. PICK w : Flattens(w, seqs, n)
    BY <1>1
  <2>2. n \in Nat /\ \A i \in 1 .. n + 1 : i = n + 1 \/ (i \in 1 .. n /\ i # n + 1)
    BY <1>1
  <2> DEFINE f(u, i) == IF i = 1 THEN seqs[i] ELSE Joined(u[i - 1], seqs[i])
             v == [i \in 1 .. n + 1 |-> IF i = n + 1 THEN f(w, n + 1) ELSE w[i]]
  <2>3. \A i \in 1 .. n : v[i] = w[i] /\ w[i] = f(w, i)
    BY <2>1, <2>2 DEF Flattens
  <2>4. v[n + 1] = f(w, n + 1)
    BY <2>2
  <2>5. \A i \in 1 .. n + 1 : f(v, i) = f(w, i)
    <3> SUFFICES ASSUME NEW i \in 1 .. n + 1, i # 1 PROVE v[i - 1] = w[i - 1]
      <4> HIDE DEF v
      <4> QED
        OBVIOUS
    <3>1. i - 1 \in 1 .. n
      BY <2>2
    <3> HIDE DEF v, f
    <3> QED
      BY <2>3, <3>1
  <2>6. v = [i \in 1 .. n + 1 |-> f(v, i)]
    <3>1. v = [i \in 1 .. n + 1 |-> v[i]]
      OBVIOUS
    <3>2. \A i \in 1 .. n + 1 : v[i] = f(v, i)
      <4> HIDE DEF v, f
      <4> QED
        BY <2>2, <2>3, <2>4, <2>5
    <3> HIDE DEF v, f
    <3> QED
      BY <3>1, <3>2
  <2>7. Flattens(v, seqs, n + 1)
    <3> HIDE DEF v
    <3> QED
      BY <2>6 DEF Flattens
  <2> QED
    BY <1>1, <2>2, <2>7
<1>4. S = Nat
  BY <1>1, <1>2, <1>3, Counting
<1> QED
  BY <1>1, <1>4

\* The flattened sequence is the last of them.
LEMMA FlattenSeqIs ==
  ASSUME NEW seqs, Len(seqs) \in Nat \ {0}
  PROVE  \E w : Flattens(w, seqs, Len(seqs)) /\ FlattenSeq(seqs) = w[Len(seqs)]
<1>1. \E w : w = [i \in 1 .. Len(seqs) |-> IF i = 1 THEN seqs[i] ELSE w[i - 1] \o seqs[i]]
  BY FlattensExists DEF Flattens, Joined
<1> QED
  BY <1>1 DEF FlattenSeq, Flattens, Joined

\* A flattened sequence of sequences over T is one over T.
LEMMA FlattenSeqType ==
  ASSUME NEW T, NEW seqs \in Seq(Seq(T))
  PROVE  FlattenSeq(seqs) \in Seq(T)
<1>1. Len(seqs) \in Nat /\ \A i \in 1 .. Len(seqs) : seqs[i] \in Seq(T)
  BY LenProperties, ElementOfSeq
<1>2. CASE Len(seqs) = 0
  BY <1>2, EmptySeq DEF FlattenSeq
<1>3. CASE Len(seqs) # 0
  <2>1. PICK w : Flattens(w, seqs, Len(seqs)) /\ FlattenSeq(seqs) = w[Len(seqs)]
    BY <1>1, <1>3, FlattenSeqIs
  <2>2. PICK S : S = {n \in Nat : n \in 1 .. Len(seqs) => w[n] \in Seq(T)}
    OBVIOUS
  <2>3. 0 \in S
    BY <2>2
  <2>4. ASSUME NEW n \in S PROVE n + 1 \in S
    <3> SUFFICES ASSUME n + 1 \in 1 .. Len(seqs) PROVE w[n + 1] \in Seq(T)
      BY <2>2
    <3>1. /\ n \in Nat
          /\ n = 0 => w[n + 1] = seqs[n + 1]
          /\ n # 0 => n \in 1 .. Len(seqs) /\ w[n + 1] = Joined(w[n], seqs[n + 1])
      <4>1. n \in Nat /\ Len(seqs) \in Nat
        BY <1>1, <2>2
      <4> QED
        BY <2>1, <4>1, FlattensNext
    <3>2. seqs[n + 1] \in Seq(T)
      BY <1>1
    <3>3. CASE n = 0
      BY <3>1, <3>2, <3>3
    <3>4. CASE n # 0
      <4>1. w[n] \in Seq(T)
        BY <2>2, <3>1, <3>4
      <4> QED
        BY <3>1, <3>2, <3>4, <4>1, ConcatProperties DEF Joined
    <3> QED
      BY <3>3, <3>4
  <2>5. S = Nat
    BY <2>2, <2>3, <2>4, Counting
  <2>6. Len(seqs) \in S /\ Len(seqs) \in 1 .. Len(seqs)
    BY <1>1, <1>3, <2>5
  <2>7. w[Len(seqs)] \in Seq(T)
    BY <2>2, <2>6, Zenon
  <2> QED
    BY <2>1, <2>7
<1> QED
  BY <1>2, <1>3

\* A text cut into single characters, flattened, is the text.
LEMMA FlattenSingles ==
  ASSUME NEW T, NEW text \in Seq(T), NEW seqs, Len(seqs) = Len(text),
         \A i \in 1 .. Len(text) : seqs[i] = <<text[i]>>,
         Len(text) # 0
  PROVE  FlattenSeq(seqs) = text
<1>1. Len(text) \in Nat
  BY LenProperties
<1>2. PICK w : Flattens(w, seqs, Len(text)) /\ FlattenSeq(seqs) = w[Len(text)]
  BY <1>1, FlattenSeqIs
<1>3. PICK S : S = {n \in Nat : n \in 1 .. Len(text) => w[n] = SubSeq(text, 1, n)}
  OBVIOUS
<1>4. 0 \in S
  BY <1>3
<1>5. ASSUME NEW n \in S PROVE n + 1 \in S
  <2> SUFFICES ASSUME n + 1 \in 1 .. Len(text)
               PROVE  w[n + 1] = SubSeq(text, 1, n + 1)
    BY <1>3
  <2>1. /\ n = 0 => w[n + 1] = seqs[n + 1]
        /\ n # 0 => n \in 1 .. Len(text) /\ w[n + 1] = Joined(w[n], seqs[n + 1])
    BY <1>1, <1>2, <1>3, FlattensNext
  <2>2. n \in Nat /\ 1 \in 1 .. Len(text) /\ n + 1 \in 1 .. Len(text)
        /\ n + 1 - 1 = n /\ seqs[n + 1] = <<text[n + 1]>>
    BY <1>1, <1>3
  <2>3. SubSeq(text, 1, n + 1) = SubSeq(text, 1, n) \o <<text[n + 1]>>
    BY <2>2, SubSeqRecursiveSecond
  <2>4. CASE n = 0
    <3>1. SubSeq(text, 1, 0) = <<>>
      BY SubSeqEmpty
    <3>2. <<text[n + 1]>> \in Seq(T)
      BY <2>2, ElementOfSeq
    <3>3. <<>> \o <<text[n + 1]>> = <<text[n + 1]>>
      BY <3>2, ConcatEmptySeq
    <3> QED
      BY <2>1, <2>2, <2>3, <2>4, <3>1, <3>3
  <2>5. CASE n # 0
    <3>1. w[n] = SubSeq(text, 1, n)
      BY <1>3, <2>1, <2>5
    <3> QED
      BY <2>1, <2>2, <2>3, <2>5, <3>1 DEF Joined
  <2> QED
    BY <2>4, <2>5
<1>6. S = Nat
  BY <1>3, <1>4, <1>5, Counting
<1>7. w[Len(text)] = SubSeq(text, 1, Len(text))
  BY <1>1, <1>3, <1>6
<1> QED
  BY <1>2, <1>7, SubSeqFull

Texts == Seq({"plain", "space", "special"})

\* An encoded text has only those characters, so none of the keys and no '&'.
LEMMA EncodedType ==
  ASSUME NEW text \in Texts
  PROVE  Encoded(text) \in Seq(Characters)
<1>1. /\ Len(text) \in Nat /\ DOMAIN text = 1 .. Len(text)
      /\ \A k \in 1 .. Len(text) : text[k] \in {"plain", "space", "special"}
  BY LenProperties, ElementOfSeq DEF Texts
<1>2. \A c \in {"plain", "space", "special"} : Escaped(c) \in Seq(Characters)
  <2>1. /\ "plain" \in Characters /\ "+" \in Characters
        /\ "%" \in Characters /\ "X" \in Characters
    BY DEF Characters
  <2>2. /\ <<"plain">> \in Seq(Characters) /\ <<"+">> \in Seq(Characters)
        /\ <<"%", "X", "X">> \in Seq(Characters)
    BY <2>1
  <2> QED
    BY <2>2 DEF Escaped
<1>3. [k \in 1 .. Len(text) |-> Escaped(text[k])] \in Seq(Seq(Characters))
  BY <1>1, <1>2, SeqDef
<1> QED
  BY <1>1, <1>3, FlattenSeqType DEF Encoded

\* A plain text is sent as it is.
LEMMA EncodedPlain ==
  ASSUME NEW text \in Texts, IsPlain(text)
  PROVE  Encoded(text) = text
<1>1. /\ Len(text) \in Nat /\ DOMAIN text = 1 .. Len(text)
      /\ \A k \in 1 .. Len(text) : text[k] = "plain"
  BY LenProperties DEF Texts, IsPlain
<1>2. PICK seqs : seqs = [k \in 1 .. Len(text) |-> Escaped(text[k])]
  OBVIOUS
<1>3. \A k \in 1 .. Len(text) : seqs[k] = <<text[k]>>
  BY <1>1, <1>2 DEF Escaped
<1>4. Len(seqs) = Len(text)
  BY <1>1, <1>2
<1>5. Encoded(text) = FlattenSeq(seqs)
  BY <1>1, <1>2 DEF Encoded
<1>6. CASE Len(text) = 0
  <2>1. text = <<>>
    BY <1>6, EmptySeq DEF Texts
  <2>2. seqs = <<>>
    BY <1>2, <1>6
  <2> QED
    BY <1>4, <1>5, <1>6, <2>1, <2>2 DEF FlattenSeq
<1>7. CASE Len(text) # 0
  BY <1>3, <1>4, <1>5, <1>7, FlattenSingles DEF Texts
<1> QED
  BY <1>6, <1>7
-----------------------------------------------------------------------------
(***************************************************************************)
(* The fields of a form.                                                   *)
(***************************************************************************)
At(b, key) == SelectInSeq(b, LAMBDA x : x = key)

\* strstr and strchr: the first place of a token, if it has one.
LEMMA AtIs ==
  ASSUME NEW b, NEW key, Len(b) \in Nat
  PROVE  \/ At(b, key) = 0 /\ \A i \in 1 .. Len(b) : b[i] # key
         \/ /\ At(b, key) \in 1 .. Len(b) /\ b[At(b, key)] = key
            /\ \A i \in 1 .. Len(b) : i < At(b, key) => b[i] # key
<1>1. PICK P : P = {i \in 1 .. Len(b) : b[i] = key}
  OBVIOUS
<1>2. At(b, key) = IF P # {} THEN Min(P) ELSE 0
  BY <1>1 DEF At, SelectInSeq
<1>3. CASE P = {}
  BY <1>1, <1>2, <1>3
<1>4. CASE P # {}
  <2>1. P \in SUBSET Nat
    BY <1>1
  <2>2. \E m \in P : \A n \in P : m <= n
    BY <1>4, <2>1, LeastNumber
  <2>3. At(b, key) \in P /\ \A n \in P : At(b, key) <= n
    BY <1>2, <1>4, <2>2 DEF Min
  <2> QED
    BY <1>1, <2>1, <2>3
<1> QED
  BY <1>3, <1>4

\* A token that is at place a and at none before it is found there.
LEMMA FoundAt ==
  ASSUME NEW b, NEW key, Len(b) \in Nat, NEW a \in 1 .. Len(b), b[a] = key,
         \A i \in 1 .. Len(b) : i < a => b[i] # key
  PROVE  At(b, key) = a
<1>1. PICK p : p = At(b, key)
  OBVIOUS
<1>2. \/ p = 0 /\ \A i \in 1 .. Len(b) : b[i] # key
      \/ /\ p \in 1 .. Len(b) /\ b[p] = key
         /\ \A i \in 1 .. Len(b) : i < p => b[i] # key
  BY <1>1, AtIs
<1> QED
  BY <1>1, <1>2

\* The key is at place a first, and its value is m long: it goes to the next '&',
\* or to the end of what was received.
ValueAt(b, key, a, m) ==
  /\ a \in 1 .. Len(b) /\ b[a] = key /\ \A i \in 1 .. Len(b) : i < a => b[i] # key
  /\ m \in Nat /\ a + m <= Len(b) /\ \A j \in 1 .. m : b[a + j] # "&"
  /\ a + m = Len(b) \/ b[a + m + 1] = "&"

LEMMA FieldIs ==
  ASSUME NEW T, NEW b \in Seq(T), NEW key, NEW size, NEW a, NEW m, ValueAt(b, key, a, m)
  PROVE  Field(b, key, size) = SubSeq(SubSeq(b, a + 1, Len(b)), 1, Smaller(m, size - 1))
<1>1. /\ Len(b) \in Nat /\ \A i \in 1 .. Len(b) : b[i] \in T
      /\ a \in Nat /\ m \in Nat /\ a + m <= Len(b)
  <2>1. Len(b) \in Nat /\ \A i \in 1 .. Len(b) : b[i] \in T
    BY LenProperties, ElementOfSeq
  <2> QED
    BY <2>1 DEF ValueAt
<1>2. At(b, key) = a
  BY <1>1, FoundAt DEF ValueAt
<1>3. PICK v : v = SubSeq(b, a + 1, Len(b))
  OBVIOUS
<1>4. Len(v) = Len(b) - a /\ \A j \in 1 .. Len(b) - a : v[j] = b[a + j]
  <2>1. a + 1 \in Int /\ Len(b) \in Int /\ \A i \in a + 1 .. Len(b) : b[i] \in T
    BY <1>1
  <2>2. /\ Len(v) = IF a + 1 <= Len(b) THEN Len(b) - (a + 1) + 1 ELSE 0
        /\ \A j \in 1 .. Len(b) - (a + 1) + 1 : v[j] = b[a + 1 + j - 1]
    BY <1>3, <2>1, SubSeqProperties
  <2> QED
    BY <1>1, <2>2
<1>5. (IF At(v, "&") = 0 THEN Len(v) ELSE At(v, "&") - 1) = m
  <2>1. /\ Len(b) \in Nat /\ a \in Nat /\ m \in Nat /\ a + m <= Len(b)
        /\ Len(v) = Len(b) - a
    BY <1>1, <1>4
  <2>2. Len(v) \in Nat
    BY <2>1
  <2>3. CASE a + m = Len(b)
    <3>1. Len(v) = m /\ m = Len(b) - a
      BY <2>1, <2>3
    <3>2. \A j \in 1 .. Len(v) : v[j] # "&"
      <4> SUFFICES ASSUME NEW j \in 1 .. m PROVE v[j] # "&"
        BY <3>1
      <4> QED
        BY <1>4, <3>1 DEF ValueAt
    <3>3. At(v, "&") = 0
      BY <2>2, <3>2, AtIs
    <3> QED
      BY <3>1, <3>3
  <2>4. CASE a + m # Len(b)
    <3>1. m + 1 \in 1 .. Len(v) /\ a + (m + 1) = a + m + 1
      BY <2>1, <2>4
    <3>2. v[m + 1] = "&" /\ \A j \in 1 .. Len(v) : j < m + 1 => v[j] # "&"
      <4>1. b[a + m + 1] = "&"
        BY <2>4 DEF ValueAt
      <4>2. v[m + 1] = "&"
        BY <1>4, <2>1, <3>1, <4>1
      <4> SUFFICES ASSUME NEW j \in 1 .. Len(v), j < m + 1 PROVE v[j] # "&"
        BY <4>2
      <4>3. j \in 1 .. m /\ j \in 1 .. Len(b) - a
        BY <2>1
      <4> QED
        BY <1>4, <4>3 DEF ValueAt
    <3>3. At(v, "&") = m + 1
      BY <2>2, <3>1, <3>2, FoundAt
    <3> QED
      BY <2>1, <3>3
  <2> QED
    BY <2>3, <2>4
<1>6. Field(b, key, size) =
        IF At(b, key) = 0 THEN <<>>
        ELSE SubSeq(SubSeq(b, At(b, key) + 1, Len(b)), 1,
                    Smaller(IF At(SubSeq(b, At(b, key) + 1, Len(b)), "&") = 0
                            THEN Len(SubSeq(b, At(b, key) + 1, Len(b)))
                            ELSE At(SubSeq(b, At(b, key) + 1, Len(b)), "&") - 1,
                            size - 1))
  BY DEF Field, At
<1>7. a # 0
  BY DEF ValueAt
<1> QED
  BY <1>2, <1>3, <1>5, <1>6, <1>7, Zenon

\* The first k elements of a sequence that begins as e does.
LEMMA Beginning ==
  ASSUME NEW T, NEW e \in Seq(T), NEW v, NEW k \in 0 .. Len(e),
         \A j \in 1 .. k : v[j] = e[j]
  PROVE  /\ IsPrefix(SubSeq(v, 1, k), e) /\ Len(SubSeq(v, 1, k)) = k
         /\ k = Len(e) => SubSeq(v, 1, k) = e
<1>1. Len(e) \in Nat /\ k \in Int /\ 1 \in Int /\ \A i \in 1 .. Len(e) : e[i] \in T
  BY LenProperties, ElementOfSeq
<1>2. \A i \in 1 .. k : e[i] \in T /\ v[i] \in T
  BY <1>1
<1>3. PICK s : s = SubSeq(v, 1, k)
  OBVIOUS
<1>4. PICK t : t = SubSeq(e, 1, k)
  OBVIOUS
<1>5. /\ s \in Seq(T) /\ Len(s) = (IF 1 <= k THEN k - 1 + 1 ELSE 0)
      /\ \A i \in 1 .. k - 1 + 1 : s[i] = v[1 + i - 1]
  BY <1>1, <1>2, <1>3, SubSeqProperties
<1>6. /\ t \in Seq(T) /\ Len(t) = (IF 1 <= k THEN k - 1 + 1 ELSE 0)
      /\ \A i \in 1 .. k - 1 + 1 : t[i] = e[1 + i - 1]
  BY <1>1, <1>2, <1>4, SubSeqProperties
<1>7. Len(s) = k /\ Len(t) = k /\ \A i \in 1 .. k : s[i] = v[i] /\ t[i] = e[i]
  BY <1>1, <1>5, <1>6
<1>8. s = t
  BY <1>5, <1>6, <1>7, SeqEqual
<1>9. SubSeq(s, 1, k) = s
  BY <1>5, <1>7, SubSeqFull
<1>10. IsPrefix(s, e)
  BY <1>1, <1>4, <1>7, <1>8, <1>9 DEF IsPrefix
<1>11. k = Len(e) => s = e
  BY <1>4, <1>8, SubSeqFull
<1> QED
  BY <1>3, <1>7, <1>10, <1>11
\* A form has its keys and values one behind the other.
Layout(w, e1, e2) ==
  /\ Len(e1) \in Nat /\ Len(e2) \in Nat
  /\ \A j \in 1 .. Len(e1) : e1[j] \in Characters
  /\ \A j \in 1 .. Len(e2) : e2[j] \in Characters
  /\ w \in Seq(Tokens) /\ Len(w) = Len(e1) + Len(e2) + 3
  /\ w[1] = "ssid="
  /\ \A j \in 1 .. Len(e1) : w[1 + j] = e1[j]
  /\ w[Len(e1) + 2] = "&" /\ w[Len(e1) + 3] = "password="
  /\ \A j \in 1 .. Len(e2) : w[Len(e1) + 3 + j] = e2[j]

LEMMA EncodedFormIs ==
  ASSUME NEW f, f.ssid \in Texts, f.password \in Texts
  PROVE  Layout(EncodedForm(f), Encoded(f.ssid), Encoded(f.password))
<1>0. PICK e1, e2 : e1 = Encoded(f.ssid) /\ e2 = Encoded(f.password)
  OBVIOUS
<1>1. e1 \in Seq(Characters) /\ e2 \in Seq(Characters)
  BY <1>0, EncodedType
<1>2. /\ Len(e1) \in Nat /\ Len(e2) \in Nat
      /\ \A j \in 1 .. Len(e1) : e1[j] \in Characters
      /\ \A j \in 1 .. Len(e2) : e2[j] \in Characters
  BY <1>1, LenProperties, ElementOfSeq
<1>3. Characters \subseteq Tokens
  BY DEF Tokens
<1>4. e1 \in Seq(Tokens) /\ e2 \in Seq(Tokens)
  BY <1>1, <1>3, SeqMonotonic
<1>5. PICK k1 : k1 = <<"ssid=">>
  OBVIOUS
<1>6. PICK k2 : k2 = <<"&", "password=">>
  OBVIOUS
<1>7. /\ k1 \in Seq(Tokens) /\ Len(k1) = 1 /\ k1[1] = "ssid="
      /\ k2 \in Seq(Tokens) /\ Len(k2) = 2 /\ k2[1] = "&" /\ k2[2] = "password="
  <2>1. "ssid=" \in Tokens /\ "&" \in Tokens /\ "password=" \in Tokens
    BY DEF Tokens
  <2> QED
    BY <1>5, <1>6, <2>1
<1>8. PICK b1 : b1 = k1 \o e1
  OBVIOUS
<1>9. /\ b1 \in Seq(Tokens) /\ Len(b1) = 1 + Len(e1) /\ b1[1] = "ssid="
      /\ \A j \in 1 .. Len(e1) : b1[1 + j] = e1[j]
  <2>1. /\ b1 \in Seq(Tokens) /\ Len(b1) = Len(k1) + Len(e1)
        /\ \A i \in 1 .. Len(k1) + Len(e1) :
             b1[i] = IF i <= Len(k1) THEN k1[i] ELSE e1[i - Len(k1)]
    BY <1>4, <1>7, <1>8, ConcatProperties
  <2> QED
    BY <1>2, <1>7, <2>1
<1>10. PICK b2 : b2 = b1 \o k2
  OBVIOUS
<1>11. /\ b2 \in Seq(Tokens) /\ Len(b2) = 3 + Len(e1) /\ b2[1] = "ssid="
       /\ \A j \in 1 .. Len(e1) : b2[1 + j] = e1[j]
       /\ b2[Len(e1) + 2] = "&" /\ b2[Len(e1) + 3] = "password="
  <2>1. /\ b2 \in Seq(Tokens) /\ Len(b2) = Len(b1) + Len(k2)
        /\ \A i \in 1 .. Len(b1) + Len(k2) :
             b2[i] = IF i <= Len(b1) THEN b1[i] ELSE k2[i - Len(b1)]
    <3>1. b1 \in Seq(Tokens) /\ k2 \in Seq(Tokens)
      BY <1>7, <1>9
    <3> QED
      BY <3>1, <1>10, ConcatProperties
  <2>2. PICK l1 \in Nat : l1 = Len(e1)
    BY <1>2
  <2>3. /\ b2 \in Seq(Tokens) /\ Len(b2) = 3 + l1
        /\ \A i \in 1 .. 3 + l1 :
             b2[i] = IF i <= 1 + l1 THEN b1[i] ELSE k2[i - (1 + l1)]
    <3>1. Len(b1) = 1 + l1 /\ Len(k2) = 2 /\ 1 + l1 + 2 = 3 + l1
      BY <1>7, <1>9, <2>2
    <3> QED
      BY <2>1, <3>1
  <2>4. b2[1] = "ssid=" /\ \A j \in 1 .. l1 : b2[1 + j] = b1[1 + j]
    BY <1>9, <2>3
  <2>5. b2[l1 + 2] = k2[1] /\ b2[l1 + 3] = k2[2]
    BY <2>3
  <2> QED
    BY <1>7, <1>9, <2>2, <2>3, <2>4, <2>5
<1>12. PICK b3 : b3 = b2 \o e2
  OBVIOUS
<1>13. /\ b3 \in Seq(Tokens) /\ Len(b3) = Len(e1) + Len(e2) + 3 /\ b3[1] = "ssid="
       /\ \A j \in 1 .. Len(e1) : b3[1 + j] = e1[j]
       /\ b3[Len(e1) + 2] = "&" /\ b3[Len(e1) + 3] = "password="
       /\ \A j \in 1 .. Len(e2) : b3[Len(e1) + 3 + j] = e2[j]
  <2>1. /\ b3 \in Seq(Tokens) /\ Len(b3) = Len(b2) + Len(e2)
        /\ \A i \in 1 .. Len(b2) + Len(e2) :
             b3[i] = IF i <= Len(b2) THEN b2[i] ELSE e2[i - Len(b2)]
    <3>1. b2 \in Seq(Tokens) /\ e2 \in Seq(Tokens)
      BY <1>4, <1>11
    <3> QED
      BY <3>1, <1>12, ConcatProperties
  <2> QED
    BY <1>2, <1>11, <2>1
<1>14. EncodedForm(f) = b3
  BY <1>0, <1>5, <1>6, <1>8, <1>10, <1>12, Zenon DEF EncodedForm
<1>15. Layout(b3, e1, e2)
  BY <1>2, <1>13 DEF Layout
<1> QED
  BY <1>0, <1>14, <1>15, Zenon

\* What is taken of a value fits the array, and is a beginning of the text that
\* was encoded; all of it if it came and fits.
Taken(value, e, size, whole) ==
  /\ IsPrefix(value, e) /\ Len(value) < size
  /\ whole /\ Len(e) < size => value = e

LEMMA FieldOf ==
  ASSUME NEW b \in Seq(Tokens), NEW key, NEW size \in Nat \ {0}, NEW e \in Seq(Characters),
         NEW a, NEW m \in 0 .. Len(e), ValueAt(b, key, a, m),
         \A j \in 1 .. m : b[a + j] = e[j]
  PROVE  Taken(Field(b, key, size), e, size, m = Len(e))
<1>1. Len(e) \in Nat /\ Len(b) \in Nat /\ \A i \in 1 .. Len(b) : b[i] \in Tokens
  BY LenProperties, ElementOfSeq
<1>2. m \in Nat /\ m <= Len(e) /\ a \in Nat \ {0} /\ a + m <= Len(b)
  BY <1>1 DEF ValueAt
<1>3. PICK v : v = SubSeq(b, a + 1, Len(b))
  OBVIOUS
<1>4. PICK k : k = Smaller(m, size - 1)
  OBVIOUS
<1>5. k \in 0 .. Len(e) /\ k <= m /\ k < size /\ (m < size => k = m)
  BY <1>1, <1>2, <1>4 DEF Smaller
<1>6. Field(b, key, size) = SubSeq(v, 1, k)
  BY <1>3, <1>4, FieldIs
<1>7. \A j \in 1 .. m : v[j] = e[j]
  <2>1. a + 1 \in Int /\ Len(b) \in Int /\ \A i \in a + 1 .. Len(b) : b[i] \in Tokens
    BY <1>1, <1>2
  <2>2. \A j \in 1 .. Len(b) - (a + 1) + 1 : v[j] = b[a + 1 + j - 1]
    BY <1>3, <2>1, SubSeqProperties
  <2> SUFFICES ASSUME NEW j \in 1 .. m PROVE v[j] = e[j]
    OBVIOUS
  <2>3. j \in 1 .. Len(b) - (a + 1) + 1 /\ a + 1 + j - 1 = a + j
    BY <1>1, <1>2
  <2>4. v[j] = b[a + j]
    BY <2>2, <2>3
  <2> QED
    BY <2>4
<1>8. \A j \in 1 .. k : v[j] = e[j]
  BY <1>2, <1>5, <1>7
<1>9. /\ IsPrefix(SubSeq(v, 1, k), e) /\ Len(SubSeq(v, 1, k)) = k
      /\ k = Len(e) => SubSeq(v, 1, k) = e
  BY <1>5, <1>8, Beginning
<1>10. m = Len(e) /\ Len(e) < size => k = Len(e)
  BY <1>5
<1>11. Len(SubSeq(v, 1, k)) < size
  BY <1>5, <1>9
<1> QED
  BY <1>6, <1>9, <1>10, <1>11 DEF Taken

\* Nothing is taken of a value whose key has not come.
LEMMA FieldAbsent ==
  ASSUME NEW b, Len(b) \in Nat, NEW key, NEW size, \A i \in 1 .. Len(b) : b[i] # key,
         NEW e \in Seq(Characters)
  PROVE  Field(b, key, size) = <<>> /\ IsPrefix(<<>>, e)
<1>1. At(b, key) = 0
  BY AtIs
<1>2. Field(b, key, size) = <<>>
  BY <1>1 DEF Field, At
<1>3. Len(e) \in Nat /\ Len(<<>>) = 0
  BY LenProperties
<1>4. SubSeq(<<>>, 1, 0) = <<>> /\ SubSeq(e, 1, 0) = <<>>
  BY SubSeqEmpty
<1> QED
  BY <1>2, <1>3, <1>4 DEF IsPrefix

\* What the handler takes out of the beginning of a form.
LEMMA FieldsOf ==
  ASSUME NEW e1 \in Seq(Characters), NEW e2 \in Seq(Characters),
         NEW w, Layout(w, e1, e2), NEW n \in 1 .. Len(w),
         NEW b, b = SubSeq(w, 1, n)
  PROVE  /\ Taken(Field(b, "ssid=", SsidSize), e1, SsidSize, n = Len(w))
         /\ Taken(Field(b, "password=", PasswordSize), e2, PasswordSize, n = Len(w))
<1>1. PICK l1, l2 : l1 = Len(e1) /\ l2 = Len(e2)
  OBVIOUS
<1>2. /\ l1 \in Nat /\ l2 \in Nat
      /\ \A j \in 1 .. l1 : e1[j] \in Characters
      /\ \A j \in 1 .. l2 : e2[j] \in Characters
      /\ w \in Seq(Tokens) /\ Len(w) = l1 + l2 + 3
      /\ w[1] = "ssid=" /\ \A j \in 1 .. l1 : w[1 + j] = e1[j]
      /\ w[l1 + 2] = "&" /\ w[l1 + 3] = "password="
      /\ \A j \in 1 .. l2 : w[l1 + 3 + j] = e2[j]
  BY <1>1 DEF Layout
<1>3. SsidSize \in Nat \ {0} /\ PasswordSize \in Nat \ {0}
  BY FieldSizesAssumption
<1>4. n \in Nat /\ 1 <= n /\ n <= l1 + l2 + 3 /\ l1 \in Nat /\ l2 \in Nat
  BY <1>2
<1>5. b \in Seq(Tokens) /\ Len(b) = n /\ \A i \in 1 .. n : b[i] = w[i]
  <2>1. \A i \in 1 .. n : w[i] \in Tokens
    BY <1>2, <1>4, ElementOfSeq
  <2>2. /\ b \in Seq(Tokens) /\ Len(b) = IF 1 <= n THEN n - 1 + 1 ELSE 0
        /\ \A i \in 1 .. n - 1 + 1 : b[i] = w[1 + i - 1]
    BY <1>4, <2>1, SubSeqProperties
  <2> QED
    BY <1>4, <2>2
<1>6. /\ "&" \notin Characters /\ "ssid=" \notin Characters /\ "password=" \notin Characters
  BY DEF Characters
<1>7. PICK m \in Nat : m <= l1 /\ 1 + m <= n /\ (m = l1 \/ 1 + m = n)
  <2>1. CASE n <= l1
    BY <1>4, <2>1
  <2>2. CASE ~(n <= l1)
    BY <1>4, <2>2
  <2> QED
    BY <2>1, <2>2
<1>8. \A j \in 1 .. m : b[1 + j] = e1[j] /\ e1[j] \in Characters
  <2> SUFFICES ASSUME NEW j \in 1 .. m PROVE b[1 + j] = e1[j] /\ e1[j] \in Characters
    OBVIOUS
  <2>1. j \in 1 .. l1 /\ 1 + j \in 1 .. n
    BY <1>4, <1>7
  <2> QED
    BY <1>2, <1>5, <2>1
<1>9. ValueAt(b, "ssid=", 1, m)
  <2>1. 1 \in 1 .. n /\ m \in Nat /\ 1 + m <= n
    BY <1>4, <1>7
  <2>2. b[1] = "ssid=" /\ \A i \in 1 .. n : i < 1 => b[i] # "ssid="
    BY <1>2, <1>5, <2>1
  <2>3. \A j \in 1 .. m : b[1 + j] # "&"
    BY <1>6, <1>8
  <2>4. 1 + m = n \/ b[1 + m + 1] = "&"
    <3> SUFFICES ASSUME 1 + m # n PROVE b[1 + m + 1] = "&"
      OBVIOUS
    <3>1. 1 + m + 1 = l1 + 2 /\ l1 + 2 \in 1 .. n
      BY <1>4, <1>7
    <3> QED
      BY <1>2, <1>5, <3>1
  <2> QED
    BY <1>5, <2>1, <2>2, <2>3, <2>4 DEF ValueAt
<1>10. Taken(Field(b, "ssid=", SsidSize), e1, SsidSize, n = Len(w))
  <2>1. m \in 0 .. Len(e1) /\ \A j \in 1 .. m : b[1 + j] = e1[j]
    BY <1>1, <1>4, <1>7, <1>8
  <2>2. Taken(Field(b, "ssid=", SsidSize), e1, SsidSize, m = Len(e1))
    BY <1>3, <1>5, <1>9, <2>1, FieldOf
  <2>3. n = Len(w) => m = Len(e1)
    <3>1. n = l1 + l2 + 3 => m = l1
      BY <1>4, <1>7
    <3> QED
      BY <1>1, <1>2, <3>1
  <2> QED
    BY <2>2, <2>3 DEF Taken
<1>11. \A i \in 1 .. n : i < l1 + 3 => b[i] # "password="
  <2> SUFFICES ASSUME NEW i \in 1 .. n, i < l1 + 3 PROVE b[i] # "password="
    OBVIOUS
  <2>1. b[i] = w[i]
    BY <1>5
  <2>2. CASE i = 1 \/ i = l1 + 2
    BY <1>2, <2>1, <2>2
  <2>3. CASE i # 1 /\ i # l1 + 2
    <3>1. PICK j \in 1 .. l1 : i = 1 + j
      BY <1>4, <2>3
    <3> QED
      BY <1>2, <1>6, <2>1, <3>1
  <2> QED
    BY <2>2, <2>3
<1>12. CASE n < l1 + 3
  <2>1. Len(b) \in Nat /\ \A i \in 1 .. Len(b) : b[i] # "password="
    BY <1>4, <1>5, <1>11, <1>12
  <2>2. Field(b, "password=", PasswordSize) = <<>> /\ IsPrefix(<<>>, e2)
    BY <2>1, FieldAbsent
  <2>3. n # Len(w)
    <3>1. n # l1 + l2 + 3
      BY <1>4, <1>12
    <3> QED
      BY <1>2, <3>1
  <2>4. Len(<<>>) < PasswordSize
    BY <1>3
  <2> QED
    BY <1>10, <2>2, <2>3, <2>4 DEF Taken
<1>13. CASE ~(n < l1 + 3)
  <2>1. PICK a : a = l1 + 3
    OBVIOUS
  <2>2. PICK k : k = n - a
    OBVIOUS
  <2>3. a \in 1 .. n /\ k \in Nat /\ k <= l2 /\ a + k = n
    BY <1>4, <1>13, <2>1, <2>2
  <2>4. \A j \in 1 .. k : b[a + j] = e2[j] /\ e2[j] \in Characters
    <3> SUFFICES ASSUME NEW j \in 1 .. k PROVE b[a + j] = e2[j] /\ e2[j] \in Characters
      OBVIOUS
    <3>1. j \in 1 .. l2 /\ a + j \in 1 .. n
      BY <1>4, <2>3
    <3> QED
      BY <1>2, <1>5, <2>1, <3>1
  <2>5. ValueAt(b, "password=", a, k)
    <3>1. b[a] = "password="
      BY <1>2, <1>5, <2>1, <2>3
    <3>2. \A i \in 1 .. n : i < a => b[i] # "password="
      BY <1>11, <2>1
    <3>3. \A j \in 1 .. k : b[a + j] # "&"
      BY <1>6, <2>4
    <3>4. a + k <= n
      BY <1>4, <2>3
    <3>5. Len(b) = n
      BY <1>5
    <3> QED
      BY <2>3, <3>1, <3>2, <3>3, <3>4, <3>5, Zenon DEF ValueAt
  <2>6. Taken(Field(b, "password=", PasswordSize), e2, PasswordSize, k = Len(e2))
    <3>1. k \in 0 .. Len(e2) /\ \A j \in 1 .. k : b[a + j] = e2[j]
      BY <1>1, <1>4, <2>3, <2>4
    <3> QED
      BY <1>3, <1>5, <2>5, <3>1, FieldOf
  <2>7. n = Len(w) => k = Len(e2)
    <3>1. n = l1 + l2 + 3 => k = l2
      BY <1>4, <2>1, <2>2
    <3> QED
      BY <1>1, <1>2, <3>1
  <2> QED
    BY <1>10, <2>6, <2>7 DEF Taken
<1> QED
  BY <1>12, <1>13

-----------------------------------------------------------------------------
\* Of a form that was sent, what the handler received is a beginning, and what
\* it saves are the fields of that.
FormInv ==
  /\ result # "unsent" =>
       /\ form \in [ssid : Names, password : Passwords]
       /\ body = EncodedForm(form)
  /\ result = "saved" =>
       /\ \E n \in 1 .. Len(body) : buf = SubSeq(body, 1, n)
       /\ creds = [ssid |-> Field(buf, "ssid=", SsidSize),
                   password |-> Field(buf, "password=", PasswordSize)]

\* The handler receives at most once, and what it saves is of that.
LEMMA FormInvariant == FormSpec => []FormInv
<1>1. FormInit => FormInv
  BY DEF FormInit, FormInv
<1>2. FormInv /\ [FormNext]_formvars => FormInv'
  <2> SUFFICES ASSUME FormInv, [FormNext]_formvars PROVE FormInv'
    OBVIOUS
  <2>1. CASE Submit
    BY <2>1 DEF Submit, FormInv
  <2>2. CASE Refuse
    BY <2>2 DEF Refuse, FormInv
  <2>3. CASE Receive
    BY <2>3 DEF Receive, FormInv
  <2>4. CASE ReceiveFails
    BY <2>4 DEF ReceiveFails, FormInv
  <2>5. CASE UNCHANGED formvars
    BY <2>5 DEF formvars, FormInv
  <2> QED
    BY <2>1, <2>2, <2>3, <2>4, <2>5 DEF FormNext
<1> QED
  BY <1>1, <1>2, PTL DEF FormSpec

\* FieldsOf for what was saved.
LEMMA SavedFields ==
  ASSUME FormInv, result = "saved"
  PROVE  /\ form \in [ssid : Names, password : Passwords]
         /\ form.ssid \in Texts /\ form.password \in Texts
         /\ creds = [ssid |-> creds.ssid, password |-> creds.password]
         /\ IsPrefix(creds.ssid, Encoded(form.ssid)) /\ Len(creds.ssid) < SsidSize
         /\ IsPrefix(creds.password, Encoded(form.password))
         /\ Len(creds.password) < PasswordSize
         /\ buf = body =>
              /\ Len(Encoded(form.ssid)) < SsidSize => creds.ssid = Encoded(form.ssid)
              /\ Len(Encoded(form.password)) < PasswordSize
                   => creds.password = Encoded(form.password)
<1>1. form \in [ssid : Names, password : Passwords] /\ body = EncodedForm(form)
  BY DEF FormInv
<1>2. form.ssid \in Texts /\ form.password \in Texts
  BY <1>1, TextsAssumption DEF Texts
<1>3. PICK n \in 1 .. Len(EncodedForm(form)) : buf = SubSeq(EncodedForm(form), 1, n)
  BY <1>1 DEF FormInv
<1>4. /\ creds = [ssid |-> creds.ssid, password |-> creds.password]
      /\ creds.ssid = Field(buf, "ssid=", SsidSize)
      /\ creds.password = Field(buf, "password=", PasswordSize)
  BY DEF FormInv
<1>5. buf = body => n = Len(EncodedForm(form))
  <2>1. EncodedForm(form) \in Seq(Tokens)
    BY <1>2, EncodedFormIs DEF Layout
  <2>2. Len(EncodedForm(form)) \in Nat /\ n \in Int
        /\ \A i \in 1 .. n : EncodedForm(form)[i] \in Tokens
    BY <2>1, LenProperties, ElementOfSeq
  <2>3. Len(buf) = IF 1 <= n THEN n - 1 + 1 ELSE 0
    BY <1>3, <2>2, SubSeqProperties
  <2> QED
    BY <1>1, <2>2, <2>3
<1>6. /\ Taken(creds.ssid, Encoded(form.ssid), SsidSize, n = Len(EncodedForm(form)))
      /\ Taken(creds.password, Encoded(form.password), PasswordSize,
               n = Len(EncodedForm(form)))
  <2>1. Layout(EncodedForm(form), Encoded(form.ssid), Encoded(form.password))
    BY <1>2, EncodedFormIs
  <2>2. /\ Encoded(form.ssid) \in Seq(Characters)
        /\ Encoded(form.password) \in Seq(Characters)
    BY <1>2, EncodedType
  <2>3. /\ Taken(Field(buf, "ssid=", SsidSize), Encoded(form.ssid), SsidSize,
                 n = Len(EncodedForm(form)))
        /\ Taken(Field(buf, "password=", PasswordSize), Encoded(form.password),
                 PasswordSize, n = Len(EncodedForm(form)))
    BY <1>3, <2>1, <2>2, FieldsOf
  <2> QED
    BY <1>4, <2>3
<1> QED
  BY <1>1, <1>2, <1>4, <1>5, <1>6 DEF Taken

\* web_server.c, connect_post_handler, the two strstr and strncpy: the user's name
\* and password do not run into each other, nor over the end of their arrays,
\* however little of the body httpd_req_recv returned.
THEOREM FieldsKeptApart == FormSpec => []FieldsApart
<1>1. FormInv => FieldsApart
  BY SavedFields DEF FieldsApart
<1> QED
  BY <1>1, FormInvariant, PTL

\* The same handler: a name and a password that need no encoding, and fit their
\* arrays, reach the station's configuration as the user typed them.
THEOREM PlainFormsSaved == FormSpec => []PlainFormSaved
<1>1. FormInv => PlainFormSaved
  <2> SUFFICES ASSUME FormInv, result = "saved", buf = body,
                      IsPlain(form.ssid), IsPlain(form.password),
                      Len(form.ssid) < SsidSize, Len(form.password) < PasswordSize
               PROVE  creds = form
    BY DEF PlainFormSaved
  <2>1. /\ form \in [ssid : Names, password : Passwords]
        /\ form.ssid \in Texts /\ form.password \in Texts
        /\ creds = [ssid |-> creds.ssid, password |-> creds.password]
    BY SavedFields
  <2>2. Encoded(form.ssid) = form.ssid /\ Encoded(form.password) = form.password
    BY <2>1, EncodedPlain
  <2>3. creds.ssid = form.ssid /\ creds.password = form.password
    BY <2>2, SavedFields
  <2>4. form = [ssid |-> form.ssid, password |-> form.password]
    BY <2>1
  <2> QED
    BY <2>1, <2>3, <2>4
<1> QED
  BY <1>1, FormInvariant, PTL
=============================================================================
