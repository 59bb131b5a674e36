----------------------------- MODULE WireProofs -----------------------------
(***************************************************************************)
(* Proofs about Wire for any number of senders, of calls and of types of   *)
(* message.                                                                *)
(*                                                                         *)
(* As long as no two calls have overlapped, the messages lie one after the *)
(* other on a tape.  A witness off says where: message i takes the         *)
(* positions off[i] + 1 to off[i + 1].  What has been received, what is in *)
(* the stream and what is still to be sent are consecutive pieces of it.   *)
(***************************************************************************)
EXTENDS Wire, TLAPS

Fields == [val : Nat, call : Nat]

(* Types, as far as the steps need them. *)
Typed ==
  /\ sent \in Seq(Types) /\ Len(sent) <= MaxCalls
  /\ out \in [Senders -> Seq(Seq(Fields))] /\ \A s \in Senders : Len(out[s]) <= 2
  /\ stream \in Seq(Fields) /\ got \in Seq(Fields) /\ delivered \in Seq(Seq(Fields))
  /\ up \in BOOLEAN /\ mixed \in BOOLEAN
  /\ rpc \in {"header", "payload", "failed"}
  /\ rpc = "payload" => Len(got) >= 4 /\ got[4].val \in 0..MaxLength

\* A message as a whole.
Message(type, call) == Header(type, call) \o Payload(type, call)
Size(type) == 4 + PayloadLength[type]

\* Where the messages lie.
Laid(off) ==
  /\ off \in [1..(Len(sent) + 1) -> Nat]
  /\ \A i \in 1..Len(sent) : off[i + 1] = off[i] + Size(sent[i])
  /\ \A i, j \in 1..(Len(sent) + 1) : i <= j => off[i] <= off[j]

\* How far the receiver and the senders have come.
ReadTo(off) == off[Len(delivered) + 1] + Len(got)
WrittenTo(off) == ReadTo(off) + Len(stream)

\* What was returned, and what the receiver has of the next message.
Received ==
  /\ Len(delivered) <= Len(sent)
  /\ \A i \in 1..Len(delivered) : delivered[i] = Message(sent[i], i)
  /\ Len(delivered) < Len(sent) =>
       /\ Len(got) <= Size(sent[Len(delivered) + 1])
       /\ \A k \in 1..Len(got) : got[k] = Message(sent[Len(delivered) + 1], Len(delivered) + 1)[k]
  /\ rpc = "header" => Len(got) <= 4
  /\ rpc = "failed" => ~up

\* What is on its way.
InStream(off) ==
  /\ WrittenTo(off) <= off[Len(sent) + 1]
  /\ \A j \in 1..Len(stream), i \in 1..Len(sent) : \A k \in 1..Size(sent[i]) :
       off[i] + k = ReadTo(off) + j => stream[j] = Message(sent[i], i)[k]

\* What sender s has still to send, w fields of the last message being sent.
Owes(s, type, call, w) ==
  /\ w \in Nat /\ Len(out[s]) >= 1 /\ Len(out[s][1]) >= 1
  /\ \A x \in 1..Len(out[s][1]) : out[s][1][x] = Message(type, call)[w + x]
  /\ \/ Len(out[s]) = 1 /\ w + Len(out[s][1]) = Size(type)
     \/ /\ Len(out[s]) = 2 /\ w + Len(out[s][1]) = 4
        /\ PayloadLength[type] > 0 /\ out[s][2] = Payload(type, call)

Pending(off) ==
  up => \/ /\ \A s \in Senders : out[s] = <<>>
           /\ WrittenTo(off) = off[Len(sent) + 1]
        \/ /\ Len(sent) >= 1
           /\ \E s \in Senders :
                /\ \A u \in Senders : u # s => out[u] = <<>>
                /\ Owes(s, sent[Len(sent)], Len(sent), WrittenTo(off) - off[Len(sent)])

Intact == \E off : Laid(off) /\ InStream(off) /\ Pending(off)

WInv == Typed /\ (~mixed => Received /\ Intact)

-----------------------------------------------------------------------------
(* Sequences. *)

(* The two parts of a sequence cut after n elements. *)
LEMMA Cut ==
  ASSUME NEW S, NEW s \in Seq(S), NEW n \in 0..Len(s)
  PROVE  /\ First(s, n) \in Seq(S) /\ Len(First(s, n)) = n
         /\ \A k \in 1..n : First(s, n)[k] = s[k]
         /\ Rest(s, n) \in Seq(S) /\ Len(Rest(s, n)) = Len(s) - n
         /\ \A k \in 1..(Len(s) - n) : Rest(s, n)[k] = s[n + k]
<1>1. /\ First(s, n) \in Seq(S) /\ Len(First(s, n)) = n
      /\ \A k \in 1..n : First(s, n)[k] = s[k]
  BY DEF First
<1>2. /\ Rest(s, n) \in Seq(S) /\ Len(Rest(s, n)) = Len(s) - n
      /\ \A k \in 1..(Len(s) - n) : Rest(s, n)[k] = s[n + k]
  BY DEF Rest
<1> QED
  BY <1>1, <1>2

(* An element of a sequence. *)
LEMMA Element ==
  ASSUME NEW S, NEW s \in Seq(S), NEW k \in 1..Len(s)
  PROVE  s[k] \in S
OBVIOUS

(* The sequence of no elements. *)
LEMMA Empty ==
  ASSUME NEW S, NEW s \in Seq(S), Len(s) = 0
  PROVE  s = <<>>
OBVIOUS

(* Two sequences one after the other. *)
LEMMA Joined ==
  ASSUME NEW S, NEW s \in Seq(S), NEW r \in Seq(S)
  PROVE  /\ s \o r \in Seq(S) /\ Len(s \o r) = Len(s) + Len(r)
         /\ \A k \in 1..Len(s) : (s \o r)[k] = s[k]
         /\ \A k \in 1..Len(r) : (s \o r)[Len(s) + k] = r[k]
OBVIOUS

(* The size of a payload. *)
LEMMA Sizes == \A type \in 1..16 : PayloadLength[type] \in 0..41 /\ Size(type) \in 4..45
<1>1. \A type \in 1..16 : PayloadLength[type] \in 0..41
  BY DEF PayloadLength, EmptyTypes
<1> QED
  BY <1>1 DEF Size

(* The fields of a message. *)
LEMMA Messages ==
  ASSUME NEW type \in 1..16, NEW call \in Nat
  PROVE  /\ Header(type, call) \in Seq(Fields) /\ Len(Header(type, call)) = 4
         /\ Payload(type, call) \in Seq(Fields)
         /\ Len(Payload(type, call)) = PayloadLength[type]
         /\ Message(type, call) \in Seq(Fields) /\ Len(Message(type, call)) = Size(type)
         /\ \A k \in 1..4 : Message(type, call)[k] = Header(type, call)[k]
         /\ \A k \in 1..PayloadLength[type] : Message(type, call)[4 + k] = Payload(type, call)[k]
         /\ Message(type, call)[1].val = PROTOCOL_MAGIC
         /\ Message(type, call)[2].val = PROTOCOL_VERSION
         /\ Message(type, call)[3].val = type
         /\ Message(type, call)[4].val = PayloadLength[type]
<1>1. PayloadLength[type] \in Nat
  BY Sizes
<1>2. \A v \in Nat : Field(v, call) \in Fields /\ Field(v, call).val = v
  BY DEF Field, Fields
<1>3. PROTOCOL_MAGIC \in Nat /\ PROTOCOL_VERSION \in Nat
  BY DEF PROTOCOL_MAGIC, PROTOCOL_VERSION
<1> HIDE DEF PROTOCOL_MAGIC, PROTOCOL_VERSION
<1>4. /\ Header(type, call) \in Seq(Fields) /\ Len(Header(type, call)) = 4
      /\ Header(type, call)[1] = Field(PROTOCOL_MAGIC, call)
      /\ Header(type, call)[2] = Field(PROTOCOL_VERSION, call)
      /\ Header(type, call)[3] = Field(type, call)
      /\ Header(type, call)[4] = Field(PayloadLength[type], call)
  BY <1>1, <1>2, <1>3 DEF Header
<1>5. Payload(type, call) \in Seq(Fields) /\ Len(Payload(type, call)) = PayloadLength[type]
  BY <1>1, <1>2 DEF Payload
<1>6. /\ Message(type, call) \in Seq(Fields) /\ Len(Message(type, call)) = Size(type)
      /\ \A k \in 1..4 : Message(type, call)[k] = Header(type, call)[k]
      /\ \A k \in 1..PayloadLength[type] : Message(type, call)[4 + k] = Payload(type, call)[k]
  <2>1. PICK h, q : h = Header(type, call) /\ q = Payload(type, call)
    OBVIOUS
  <2>2. h \in Seq(Fields) /\ q \in Seq(Fields)
    BY <1>4, <1>5, <2>1
  <2>3. /\ h \o q \in Seq(Fields) /\ Len(h \o q) = Len(h) + Len(q)
        /\ \A k \in 1..Len(h) : (h \o q)[k] = h[k]
        /\ \A k \in 1..Len(q) : (h \o q)[Len(h) + k] = q[k]
    BY <2>2, Joined
  <2>4. Len(h) = 4 /\ Len(q) = PayloadLength[type] /\ Message(type, call) = h \o q
    BY <1>4, <1>5, <2>1 DEF Message
  <2> QED
    BY <1>1, <2>1, <2>3, <2>4 DEF Size
<1>7. Message(type, call)[1].val = PROTOCOL_MAGIC /\ Message(type, call)[2].val = PROTOCOL_VERSION
  BY <1>2, <1>3, <1>4, <1>6
<1>8. Message(type, call)[3].val = type /\ Message(type, call)[4].val = PayloadLength[type]
  BY <1>1, <1>2, <1>4, <1>6
<1> QED
  BY <1>4, <1>5, <1>6, <1>7, <1>8

-----------------------------------------------------------------------------
(* Every step keeps the values in their types. *)
LEMMA TypedStep == Typed /\ [WireNext]_wvars => Typed'
<1> SUFFICES ASSUME Typed, [WireNext]_wvars
             PROVE  Typed'
  OBVIOUS
<1> USE DEF Typed
<1>1. ASSUME NEW s \in Senders, send_message(s)
      PROVE  Typed'
  <2>1. PICK type \in Types :
          /\ sent' = Append(sent, type)
          /\ out' = [out EXCEPT ![s] =
                       IF PayloadLength[type] > 0
                       THEN <<Header(type, Len(sent) + 1), Payload(type, Len(sent) + 1)>>
                       ELSE <<Header(type, Len(sent) + 1)>>]
    BY <1>1 DEF send_message
  <2>2. type \in 1..16 /\ Len(sent) + 1 \in Nat
    BY WireAssumption
  <2> DEFINE h == Header(type, Len(sent) + 1)
             q == Payload(type, Len(sent) + 1)
             b == IF PayloadLength[type] > 0 THEN <<h, q>> ELSE <<h>>
  <2>3. h \in Seq(Fields) /\ q \in Seq(Fields)
    BY <2>2, Messages
  <2>4. out' = [out EXCEPT ![s] = b]
    BY <2>1
  <2> HIDE DEF h, q
  <2>5. b \in Seq(Seq(Fields)) /\ Len(b) <= 2
    BY <2>3
  <2> HIDE DEF b
  <2>6. out' \in [Senders -> Seq(Seq(Fields))] /\ \A u \in Senders : Len(out'[u]) <= 2
    BY <2>4, <2>5
  <2>7. sent' \in Seq(Types) /\ Len(sent') <= MaxCalls
    BY <1>1, <2>1, WireAssumption DEF send_message
  <2>8. mixed' \in BOOLEAN /\ UNCHANGED <<stream, up, got, rpc, delivered>>
    BY <1>1 DEF send_message
  <2> QED
    BY <2>6, <2>7, <2>8
<1>2. ASSUME NEW s \in Senders, send(s)
      PROVE  Typed'
  <2>1. out[s] # <<>> /\ UNCHANGED <<sent, up, mixed, got, rpc, delivered>>
    BY <1>2 DEF send
  <2>2. PICK n \in 1..Len(out[s][1]) :
          /\ stream' = stream \o First(out[s][1], n)
          /\ out' = [out EXCEPT ![s] = IF n = Len(out[s][1]) THEN Tail(out[s])
                                       ELSE [out[s] EXCEPT ![1] = Rest(out[s][1], n)]]
    BY <1>2 DEF send
  <2>3. out[s] \in Seq(Seq(Fields)) /\ out[s][1] \in Seq(Fields) /\ Len(out[s]) >= 1
    BY <2>1
  <2>4. n \in 0..Len(out[s][1])
    BY <2>3
  <2>5. First(out[s][1], n) \in Seq(Fields) /\ Rest(out[s][1], n) \in Seq(Fields)
    BY <2>3, <2>4, Cut
  <2>6. stream' \in Seq(Fields)
    BY <2>2, <2>5
  <2>7. Tail(out[s]) \in Seq(Seq(Fields)) /\ Len(Tail(out[s])) <= 2
    BY <2>1, <2>3
  <2>8. /\ [out[s] EXCEPT ![1] = Rest(out[s][1], n)] \in Seq(Seq(Fields))
        /\ Len([out[s] EXCEPT ![1] = Rest(out[s][1], n)]) <= 2
    BY <2>3, <2>5
  <2>9. out' \in [Senders -> Seq(Seq(Fields))] /\ \A u \in Senders : Len(out'[u]) <= 2
    BY <2>2, <2>7, <2>8
  <2> QED
    BY <2>1, <2>6, <2>9
<1>3. ASSUME NEW s \in Senders, send_fails(s)
      PROVE  Typed'
  <2>1. <<>> \in Seq(Seq(Fields)) /\ Len(<<>>) <= 2
    OBVIOUS
  <2> QED
    BY <1>3, <2>1 DEF send_fails
<1>4. CASE Break
  <2>1. PICK n \in 0..Len(stream) : stream' = First(stream, n)
    BY <1>4 DEF Break
  <2>2. stream' \in Seq(Fields)
    BY <2>1, Cut
  <2> QED
    BY <1>4, <2>2 DEF Break
<1>5. CASE recv
  <2>1. PICK n \in 1..Missing :
          n <= Len(stream) /\ got' = got \o First(stream, n) /\ stream' = Rest(stream, n)
    BY <1>5 DEF recv
  <2>2. Missing \in Int
    BY <1>5 DEF recv, Reading, Missing
  <2>3. n \in 0..Len(stream)
    BY <2>1, <2>2
  <2>4. First(stream, n) \in Seq(Fields) /\ stream' \in Seq(Fields)
    BY <2>1, <2>3, Cut
  <2>5. /\ got' \in Seq(Fields) /\ Len(got') = Len(got) + Len(First(stream, n))
        /\ \A k \in 1..Len(got) : got'[k] = got[k]
    BY <2>1, <2>4, Joined
  <2>6. rpc = "payload" => Len(got') >= 4 /\ got'[4].val \in 0..MaxLength
    BY <2>4, <2>5
  <2> QED
    BY <1>5, <2>4, <2>5, <2>6 DEF recv
<1>6. CASE recv_fails
  BY <1>6 DEF recv_fails
<1>7. CASE check_header
  <2>1. Len(got) = 4
    BY <1>7 DEF check_header, Missing
  <2>2. got[4].val \in Nat
    <3>1. got \in Seq(Fields) /\ 4 \in 1..Len(got)
      BY <2>1
    <3>2. got[4] \in Fields
      BY <3>1, Element
    <3> QED
      BY <3>2 DEF Fields
  <2>3. /\ rpc' \in {"payload", "failed"}
        /\ rpc' = "payload" => got[4].val <= MaxLength
        /\ UNCHANGED <<sent, out, stream, up, mixed, got, delivered>>
    BY <1>7 DEF check_header
  <2>4. PICK v : v = got[4].val
    OBVIOUS
  <2>5. rpc' = "payload" => v \in 0..MaxLength
    <3>1. v \in Nat /\ (rpc' = "payload" => v <= MaxLength)
      BY <2>2, <2>3, <2>4
    <3> QED
      BY <3>1 DEF MaxLength
  <2>6. got' = got /\ got'[4].val = v /\ Len(got') >= 4
    <3>1. got' = got
      BY <2>3
    <3>2. Len(got) >= 4
      BY <2>1
    <3>3. got'[4].val = v /\ Len(got') >= 4
      BY <2>4, <3>1, <3>2, Zenon
    <3> QED
      BY <3>1, <3>3
  <2>7. rpc' = "payload" => Len(got') >= 4 /\ got'[4].val \in 0..MaxLength
    BY <2>5, <2>6
  <2> QED
    BY <2>3, <2>7
<1>8. CASE deserialize
  <2>1. UNCHANGED <<sent, out, stream, up, mixed>>
    BY <1>8 DEF deserialize
  <2>2. \/ delivered' = Append(delivered, got) /\ got' = <<>> /\ rpc' = "header"
        \/ rpc' = "failed" /\ UNCHANGED <<got, delivered>>
    BY <1>8 DEF deserialize
  <2>3. Append(delivered, got) \in Seq(Seq(Fields)) /\ <<>> \in Seq(Fields)
    OBVIOUS
  <2>4. /\ delivered' \in Seq(Seq(Fields)) /\ got' \in Seq(Fields) /\ rpc' \in {"header", "failed"}
    BY <2>2, <2>3
  <2> QED
    BY <2>1, <2>4
<1>9. CASE UNCHANGED wvars
  BY <1>9 DEF wvars
<1> QED
  BY <1>1, <1>2, <1>3, <1>4, <1>5, <1>6, <1>7, <1>8, <1>9 DEF WireNext, receive_message

-----------------------------------------------------------------------------
(* The tape. *)

(* What the positions on the tape are worth to the steps. *)
LEMMA Basics ==
  ASSUME Typed, Received, NEW off, Laid(off), InStream(off)
  PROVE  /\ Len(sent) \in Nat /\ Len(delivered) \in 0..Len(sent) /\ Len(got) \in Nat
         /\ Len(stream) \in Nat
         /\ \A i \in 1..Len(sent) : sent[i] \in 1..16 /\ Size(sent[i]) \in 4..45
         /\ \A i \in 1..(Len(sent) + 1) : off[i] \in Nat
         /\ off[Len(delivered) + 1] \in Nat /\ off[Len(sent) + 1] \in Nat
         /\ ReadTo(off) = off[Len(delivered) + 1] + Len(got)
         /\ WrittenTo(off) = off[Len(delivered) + 1] + Len(got) + Len(stream)
         /\ WrittenTo(off) <= off[Len(sent) + 1]
         /\ Len(got) + Len(stream) > 0 => Len(delivered) < Len(sent)
         /\ Len(delivered) < Len(sent) => Len(delivered) + 1 \in 1..Len(sent)
<1>1. /\ Len(sent) \in Nat /\ Len(delivered) \in 0..Len(sent) /\ Len(got) \in Nat
      /\ Len(stream) \in Nat
  BY DEF Typed, Received
<1>2. \A i \in 1..Len(sent) : sent[i] \in 1..16
  <2>1. sent \in Seq(Types)
    BY DEF Typed
  <2>2. \A i \in 1..Len(sent) : sent[i] \in Types
    BY <2>1, Element
  <2> QED
    BY <2>2, WireAssumption
<1>3. \A i \in 1..Len(sent) : Size(sent[i]) \in 4..45
  BY <1>2, Sizes
<1>4. \A i \in 1..(Len(sent) + 1) : off[i] \in Nat
  BY DEF Laid
<1>5. Len(delivered) + 1 \in 1..(Len(sent) + 1) /\ Len(sent) + 1 \in 1..(Len(sent) + 1)
  BY <1>1
<1>6. off[Len(delivered) + 1] \in Nat /\ off[Len(sent) + 1] \in Nat
  BY <1>4, <1>5
<1>7. /\ ReadTo(off) = off[Len(delivered) + 1] + Len(got)
      /\ WrittenTo(off) = off[Len(delivered) + 1] + Len(got) + Len(stream)
      /\ WrittenTo(off) <= off[Len(sent) + 1]
  BY DEF ReadTo, WrittenTo, InStream
<1>8. Len(got) + Len(stream) > 0 => Len(delivered) < Len(sent)
  <2>1. Len(delivered) = Len(sent) => off[Len(delivered) + 1] = off[Len(sent) + 1]
    OBVIOUS
  <2>2. ASSUME NEW a \in Nat, NEW b \in Nat, NEW x \in Nat, NEW y \in Nat, a + x + y <= b, a = b
        PROVE  ~(x + y > 0)
    BY <2>2
  <2>3. off[Len(delivered) + 1] + Len(got) + Len(stream) <= off[Len(sent) + 1]
    BY <1>7
  <2>4. Len(delivered) = Len(sent) => ~(Len(got) + Len(stream) > 0)
    BY <1>1, <1>6, <2>1, <2>2, <2>3
  <2> QED
    BY <1>1, <2>4
<1> QED
  BY <1>1, <1>2, <1>3, <1>4, <1>6, <1>7, <1>8

(* The part of a message that has been received, and the kind of message it is of. *)
LEMMA NextMessage ==
  ASSUME Typed, Received, NEW off, Laid(off), InStream(off), Len(got) >= 4
  PROVE  /\ Len(delivered) + 1 \in 1..Len(sent)
         /\ got[1].val = PROTOCOL_MAGIC /\ got[2].val = PROTOCOL_VERSION
         /\ got[3].val = sent[Len(delivered) + 1]
         /\ got[4].val = PayloadLength[sent[Len(delivered) + 1]]
<1>1. Len(delivered) < Len(sent) /\ Len(delivered) + 1 \in 1..Len(sent)
  BY Basics
<1>2. PICK d, type : d = Len(delivered) + 1 /\ type = sent[d]
  OBVIOUS
<1>3. d \in Nat /\ type \in 1..16
  BY <1>1, <1>2, Basics
<1>4. \A k \in 1..Len(got) : got[k] = Message(type, d)[k]
  BY <1>1, <1>2 DEF Received
<1>5. \A k \in 1..4 : got[k] = Message(type, d)[k]
  BY <1>4 DEF Typed
<1>6. got[1] = Message(type, d)[1] /\ got[2] = Message(type, d)[2] /\ got[3] = Message(type, d)[3]
      /\ got[4] = Message(type, d)[4]
  BY <1>5
<1> QED
  <2>1. /\ Message(type, d)[1].val = PROTOCOL_MAGIC
        /\ Message(type, d)[2].val = PROTOCOL_VERSION
        /\ Message(type, d)[3].val = type
        /\ Message(type, d)[4].val = PayloadLength[type]
    BY <1>3, Messages
  <2> QED
    BY <1>1, <1>2, <1>6, <2>1

(* A step that changes none of the values Laid, InStream and Pending speak of. *)
LEMMA TapeStays ==
  ASSUME NEW off, UNCHANGED <<sent, out, stream, up, got, delivered>>
  PROVE  /\ Laid(off)' <=> Laid(off)
         /\ InStream(off)' <=> InStream(off)
         /\ Pending(off)' <=> Pending(off)
BY DEF Laid, InStream, Pending, Owes, ReadTo, WrittenTo

(* The receiver's steps that fail or look at the header. *)
LEMMA ReceiverLooks ==
  ASSUME Typed, Received, NEW off, Laid(off), InStream(off), Pending(off),
         recv_fails \/ check_header
  PROVE  Received' /\ Laid(off)' /\ InStream(off)' /\ Pending(off)'
<1>1. UNCHANGED <<sent, out, stream, up, got, delivered>>
  BY DEF recv_fails, check_header
<1>2. Laid(off)' /\ InStream(off)' /\ Pending(off)'
  BY <1>1, TapeStays
<1>3. CASE recv_fails
  BY <1>1, <1>2, <1>3 DEF recv_fails, Received
<1>4. CASE check_header
  <2>1. Len(got) = 4
    BY <1>4 DEF check_header, Missing, Typed
  <2>2. /\ got[1].val = PROTOCOL_MAGIC /\ got[2].val = PROTOCOL_VERSION
        /\ got[4].val = PayloadLength[sent[Len(delivered) + 1]]
        /\ Len(delivered) + 1 \in 1..Len(sent)
    BY <2>1, NextMessage
  <2>3. sent[Len(delivered) + 1] \in 1..16
    BY <2>2, Basics
  <2>4. got[4].val \in 0..41
    BY <2>2, <2>3, Sizes
  <2>5. got[4].val <= MaxLength
    BY <2>4 DEF MaxLength
  <2>6. rpc' = "payload"
    BY <1>4, <2>2, <2>5, Zenon DEF check_header
  <2> QED
    BY <1>1, <1>2, <2>6 DEF Received
<1> QED
  BY <1>2, <1>3, <1>4

(* One recv() moves fields from the stream to the message they belong to. *)
LEMMA ReceiverReads ==
  ASSUME Typed, Received, NEW off, Laid(off), InStream(off), Pending(off), recv
  PROVE  Received' /\ Laid(off)' /\ InStream(off)' /\ Pending(off)'
<1>1. /\ UNCHANGED <<sent, out, up, mixed, rpc, delivered>> /\ Reading
  BY DEF recv
<1>2. PICK n \in 1..Missing :
        n <= Len(stream) /\ got' = got \o First(stream, n) /\ stream' = Rest(stream, n)
  BY DEF recv
<1>3. /\ Len(sent) \in Nat /\ Len(delivered) \in 0..Len(sent) /\ Len(got) \in Nat
      /\ Len(stream) \in Nat /\ off[Len(delivered) + 1] \in Nat
      /\ ReadTo(off) = off[Len(delivered) + 1] + Len(got)
      /\ WrittenTo(off) = off[Len(delivered) + 1] + Len(got) + Len(stream)
  BY Basics
<1>0. PICK a \in Nat, g \in Nat, l \in Nat :
        a = off[Len(delivered) + 1] /\ g = Len(got) /\ l = Len(stream)
  BY <1>3
<1>4. Missing \in Int /\ n \in Nat /\ n >= 1 /\ n <= Missing
  BY <1>1, <1>2 DEF Missing, Reading, Typed
<1>5. Len(delivered) < Len(sent) /\ Len(delivered) + 1 \in 1..Len(sent)
  <2>1. Len(got) + Len(stream) > 0
    BY <1>2, <1>3, <1>4
  <2> QED
    BY <2>1, Basics
<1>6. PICK d \in 1..Len(sent), type \in 1..16 : d = Len(delivered) + 1 /\ type = sent[d]
  BY <1>5, Basics
<1>7. PICK z \in 4..45 : z = Size(type)
  BY Sizes
<1>8. n \in 0..Len(stream) /\ stream \in Seq(Fields) /\ got \in Seq(Fields)
  BY <1>2, <1>3, <1>4 DEF Typed
<1>9. /\ First(stream, n) \in Seq(Fields) /\ Len(First(stream, n)) = n
      /\ \A k \in 1..n : First(stream, n)[k] = stream[k]
      /\ Len(stream') = Len(stream) - n
      /\ \A k \in 1..(Len(stream) - n) : stream'[k] = stream[n + k]
  BY <1>2, <1>8, Cut
<1>10. /\ Len(got') = Len(got) + n
       /\ \A k \in 1..Len(got) : got'[k] = got[k]
       /\ \A k \in 1..n : got'[Len(got) + k] = stream[k]
  BY <1>2, <1>8, <1>9, Joined
<1>11. Len(got) + n <= Size(type) /\ (rpc = "header" => Len(got) + n <= 4)
  <2>1. CASE rpc = "header"
    <3>1. Missing = 4 - Len(got)
      BY <2>1 DEF Missing
    <3>2. g + n <= 4
      BY <1>0, <1>4, <3>1
    <3>3. g + n <= z
      BY <1>4, <3>2
    <3> QED
      BY <1>0, <1>7, <3>2, <3>3
  <2>2. CASE rpc = "payload"
    <3>1. got[4].val = PayloadLength[type]
      BY <1>6, <2>2, NextMessage DEF Typed
    <3>2. Missing = 4 + PayloadLength[type] - Len(got)
      BY <2>2, <3>1 DEF Missing
    <3>3. PICK v \in 0..41 : v = PayloadLength[type]
      BY Sizes
    <3>4. Size(type) = 4 + v /\ Missing = 4 + v - Len(got)
      BY <3>2, <3>3 DEF Size
    <3> QED
      BY <1>3, <1>4, <2>2, <3>4
  <2> QED
    BY <1>1, <2>1, <2>2 DEF Reading
<1>12. /\ Len(got) <= Size(type) /\ \A k \in 1..Len(got) : got[k] = Message(type, d)[k]
  BY <1>5, <1>6 DEF Received
<1>13. \A i \in 1..Len(sent) : \A k \in 1..Size(sent[i]) : \A j \in 1..Len(stream) :
         off[i] + k = off[Len(delivered) + 1] + Len(got) + j => stream[j] = Message(sent[i], i)[k]
  BY <1>3 DEF InStream
<1>14. ASSUME NEW k \in 1..n
       PROVE  stream[k] = Message(type, d)[Len(got) + k]
  <2>1. Len(got) + k \in 1..z /\ k \in 1..Len(stream)
    BY <1>2, <1>3, <1>4, <1>7, <1>11, SMTT(40)
  <2>2. off[d] + (Len(got) + k) = off[Len(delivered) + 1] + Len(got) + k
    BY <1>3, <1>4, <1>6
  <2>3. Len(got) + k \in 1..Size(sent[d])
    BY <1>6, <1>7, <2>1
  <2> QED
    BY <1>6, <1>13, <2>1, <2>2, <2>3
<1>15. \A k \in 1..(Len(got) + n) : got'[k] = Message(type, d)[k]
  <2>1. ASSUME NEW k \in 1..(Len(got) + n)
        PROVE  got'[k] = Message(type, d)[k]
    <3>1. CASE k <= Len(got)
      <4>1. k \in 1..Len(got)
        BY <1>3, <1>4, <3>1
      <4> QED
        BY <1>10, <1>12, <4>1
    <3>2. CASE k > Len(got)
      <4>1. k - Len(got) \in 1..n /\ Len(got) + (k - Len(got)) = k
        BY <1>3, <1>4, <3>2
      <4> QED
        BY <1>10, <1>14, <4>1
    <3> QED
      BY <1>3, <1>4, <3>1, <3>2
  <2> QED
    BY <2>1
<1>16. Received'
  <2>1. /\ Len(got') <= Size(type) /\ \A k \in 1..Len(got') : got'[k] = Message(type, d)[k]
        /\ rpc' = "header" => Len(got') <= 4
    BY <1>1, <1>10, <1>11, <1>15
  <2> QED
    BY <1>1, <1>6, <2>1 DEF Received
<1>17. /\ ReadTo(off)' = off[Len(delivered) + 1] + Len(got) + n
       /\ WrittenTo(off)' = WrittenTo(off)
  <2>1. ReadTo(off)' = a + Len(got') /\ WrittenTo(off)' = a + Len(got') + Len(stream')
    BY <1>0, <1>1 DEF ReadTo, WrittenTo
  <2>2. Len(got') = g + n /\ Len(stream') = l - n
    BY <1>0, <1>9, <1>10
  <2>3. ReadTo(off)' = a + g + n /\ WrittenTo(off)' = a + g + l
    BY <1>4, <2>1, <2>2
  <2>4. WrittenTo(off) = a + g + l
    BY <1>0, <1>3
  <2> QED
    BY <1>0, <2>3, <2>4
<1>18. Laid(off)'
  BY <1>1 DEF Laid
<1>19. InStream(off)'
  <2>1. WrittenTo(off)' <= off[Len(sent') + 1]
    BY <1>1, <1>17 DEF InStream
  <2>2. ASSUME NEW j \in 1..Len(stream'), NEW i \in 1..Len(sent), NEW k \in 1..Size(sent[i]),
               off[i] + k = off[Len(delivered) + 1] + Len(got) + n + j
        PROVE  stream'[j] = Message(sent[i], i)[k]
    <3>1. n + j \in 1..Len(stream) /\ j \in 1..(Len(stream) - n)
      <4>1. j \in 1..(l - n)
        BY <1>0, <1>9
      <4>2. n + j \in 1..l
        BY <1>4, <4>1
      <4> QED
        BY <1>0, <4>1, <4>2
    <3>2. off[i] + k = off[Len(delivered) + 1] + Len(got) + (n + j)
      BY <1>3, <1>4, <2>2, <3>1
    <3> QED
      BY <1>9, <1>13, <3>1, <3>2
  <2> QED
    BY <1>1, <1>17, <2>1, <2>2 DEF InStream
<1>20. Pending(off)'
  BY <1>1, <1>17 DEF Pending, Owes
<1> QED
  BY <1>16, <1>18, <1>19, <1>20

(* A message is handed on when all of it is there, and only then. *)
LEMMA ReceiverReturns ==
  ASSUME Typed, Received, NEW off, Laid(off), InStream(off), Pending(off), deserialize
  PROVE  Received' /\ Laid(off)' /\ InStream(off)' /\ Pending(off)'
<1>1. rpc = "payload" /\ Missing = 0 /\ UNCHANGED <<sent, out, stream, up, mixed>>
  BY DEF deserialize
<1>2. Len(got) >= 4
  BY <1>1 DEF Typed
<1>3. PICK d \in 1..Len(sent), type \in 1..16 : d = Len(delivered) + 1 /\ type = sent[d]
  BY <1>2, NextMessage, Basics
<1>4. d \in 1..Len(sent) /\ got[3].val = type /\ got[4].val = PayloadLength[type]
  BY <1>2, <1>3, NextMessage
<1>5. /\ Len(sent) \in Nat /\ Len(delivered) \in 0..Len(sent) /\ Len(got) \in Nat
      /\ Len(stream) \in Nat /\ off[d] \in Nat
      /\ ReadTo(off) = off[d] + Len(got)
      /\ type \in 1..16
  BY <1>3, <1>4, Basics
<1>6. delivered' = Append(delivered, got) /\ got' = <<>> /\ rpc' = "header"
  BY <1>4, <1>5, Zenon DEF deserialize
<1>7. Len(got) = Size(type)
  <2>1. PICK v \in 0..41 : v = PayloadLength[type]
    BY Sizes
  <2>2. Missing = 4 + v - Len(got) /\ Size(type) = 4 + v
    BY <1>1, <1>4, <2>1 DEF Missing, Size
  <2> QED
    BY <1>1, <1>5, <2>2
<1>8. got = Message(type, d)
  <2>1. Message(type, d) \in Seq(Fields) /\ Len(Message(type, d)) = Size(type)
    <3>1. d \in Nat
      BY <1>5
    <3> QED
      BY <3>1, Messages
  <2>2. \A k \in 1..Len(got) : got[k] = Message(type, d)[k]
    BY <1>3, <1>4, <1>5 DEF Received
  <2>3. got \in Seq(Fields)
    BY DEF Typed
  <2> QED
    BY <1>7, <2>1, <2>2, <2>3
<1>9. /\ Len(delivered') = d /\ delivered'[d] = got /\ Len(got') = 0
      /\ \A i \in 1..Len(delivered) : delivered'[i] = delivered[i]
  BY <1>3, <1>6 DEF Typed
<1>10. \A i \in 1..d : delivered'[i] = Message(sent[i], i)
  <2>1. ASSUME NEW i \in 1..d
        PROVE  i = d \/ i \in 1..Len(delivered)
    BY <1>3, <1>5
  <2>2. \A i \in 1..Len(delivered) : delivered'[i] = Message(sent[i], i)
    BY <1>9 DEF Received
  <2>3. delivered'[d] = Message(sent[d], d)
    BY <1>3, <1>8, <1>9
  <2> QED
    BY <2>1, <2>2, <2>3
<1>11. Received'
  <2>1. d < Len(sent) => d + 1 \in 1..Len(sent)
    BY <1>5
  <2>2. d < Len(sent) => 0 <= Size(sent[d + 1])
    <3>1. \A z \in 4..45 : 0 <= z
      OBVIOUS
    <3>2. d < Len(sent) => Size(sent[d + 1]) \in 4..45
      BY <2>1, Basics
    <3> QED
      BY <3>1, <3>2, Zenon
  <2> QED
    BY <1>1, <1>4, <1>5, <1>6, <1>9, <1>10, <2>2 DEF Received
<1>12. off[d + 1] = off[d] + Size(type)
  BY <1>3, <1>4 DEF Laid
<1>13. ReadTo(off)' = ReadTo(off) /\ WrittenTo(off)' = WrittenTo(off)
  <2>1. ReadTo(off)' = ReadTo(off)
    BY <1>5, <1>7, <1>9, <1>12 DEF ReadTo
  <2> QED
    BY <1>1, <2>1 DEF WrittenTo
<1>14. Laid(off)' /\ InStream(off)' /\ Pending(off)'
  BY <1>1, <1>13 DEF Laid, InStream, Pending, Owes
<1> QED
  BY <1>11, <1>14

(* A call of send_message that overlaps no other lays a message at the end of the tape. *)
LEMMA SenderCalls ==
  ASSUME Typed, Received, NEW off, Laid(off), InStream(off), Pending(off),
         NEW s \in Senders, send_message(s), ~mixed'
  PROVE  Received' /\ Intact'
<1>1. /\ UNCHANGED <<stream, up, got, rpc, delivered>> /\ \A u \in Senders : out[u] = <<>>
  BY DEF send_message
<1>2. PICK n \in Nat : n = Len(sent)
  BY DEF Typed
<1>3. PICK type \in Types :
        /\ sent' = Append(sent, type)
        /\ out' = [out EXCEPT ![s] =
                     IF PayloadLength[type] > 0
                     THEN <<Header(type, n + 1), Payload(type, n + 1)>>
                     ELSE <<Header(type, n + 1)>>]
  BY <1>2 DEF send_message
<1>4. type \in 1..16 /\ n + 1 \in Nat
  BY WireAssumption
<1>5. Len(sent') = n + 1 /\ sent'[n + 1] = type /\ \A i \in 1..n : sent'[i] = sent[i]
  BY <1>2, <1>3 DEF Typed
<1>6. PICK z \in 4..45, v \in 0..41 : z = Size(type) /\ v = PayloadLength[type] /\ z = 4 + v
  BY <1>4, Sizes DEF Size
<1>7. /\ Len(delivered) \in 0..n /\ off \in [1..(n + 1) -> Nat]
      /\ ReadTo(off) = off[Len(delivered) + 1] + Len(got)
      /\ WrittenTo(off) = off[Len(delivered) + 1] + Len(got) + Len(stream)
      /\ WrittenTo(off) <= off[n + 1]
      /\ Len(got) + Len(stream) > 0 => Len(delivered) < n
      /\ off[Len(delivered) + 1] \in Nat /\ off[n + 1] \in Nat /\ Len(got) \in Nat
      /\ Len(stream) \in Nat
  BY <1>2, Basics DEF Laid
<1> DEFINE far == [i \in 1..(n + 2) |-> IF i = n + 2 THEN off[n + 1] + z ELSE off[i]]
<1>8. /\ far \in [1..(n + 2) -> Nat] /\ far[n + 2] = off[n + 1] + z
      /\ \A i \in 1..(n + 1) : far[i] = off[i] /\ i \in 1..(n + 2)
  BY <1>7, SMTT(40)
<1> HIDE DEF far
<1>9. far[Len(delivered) + 1] = off[Len(delivered) + 1] /\ far[n + 1] = off[n + 1]
  BY <1>7, <1>8
<1>10. ReadTo(far)' = ReadTo(off) /\ WrittenTo(far)' = WrittenTo(off)
  BY <1>1, <1>9 DEF ReadTo, WrittenTo
<1>11. Received'
  <2>1. \A i \in 1..Len(delivered) : delivered[i] = Message(sent'[i], i)
    BY <1>2, <1>5, <1>7 DEF Received
  <2>2. CASE Len(delivered) < n
    <3>1. sent'[Len(delivered) + 1] = sent[Len(delivered) + 1]
      BY <1>5, <1>7, <2>2
    <3> QED
      BY <1>1, <1>2, <1>5, <1>7, <2>1, <2>2, <3>1 DEF Received
  <2>3. CASE Len(delivered) = n
    <3>1. Len(got) = 0
      BY <1>7, <2>3
    <3>2. sent'[Len(delivered) + 1] = type /\ Len(got) <= Size(type)
      <4>1. sent'[Len(delivered) + 1] = type
        BY <1>5, <2>3
      <4>2. Len(got) <= z
        BY <3>1
      <4> QED
        BY <1>6, <4>1, <4>2
    <3> QED
      BY <1>1, <1>2, <1>5, <1>7, <2>1, <2>3, <3>1, <3>2 DEF Received
  <2> QED
    BY <1>7, <2>2, <2>3
<1>12. Laid(far)'
  <2>1. \A i \in 1..n : off[i + 1] = off[i] + Size(sent[i])
    BY <1>2 DEF Laid
  <2>2. \A i \in 1..(n + 1) : far[i + 1] = far[i] + Size(sent'[i])
    <3>1. ASSUME NEW i \in 1..n
          PROVE  far[i + 1] = far[i] + Size(sent'[i])
      <4>1. i \in 1..(n + 1) /\ i + 1 \in 1..(n + 1)
        OBVIOUS
      <4> QED
        BY <1>5, <1>8, <2>1, <4>1
    <3>2. far[(n + 1) + 1] = far[n + 1] + Size(sent'[n + 1])
      BY <1>5, <1>6, <1>8, <1>9
    <3> QED
      BY <3>1, <3>2
  <2>3. \A i, j \in 1..(n + 2) : i <= j => far[i] <= far[j]
    <3>1. \A i, j \in 1..(n + 1) : i <= j => off[i] <= off[j]
      BY <1>2 DEF Laid
    <3>2. \A i \in 1..(n + 1) : off[i] <= off[n + 1] /\ off[i] \in Nat
      BY <1>7, <3>1
    <3>3. \A i \in 1..(n + 1) : far[i] <= far[n + 2]
      <4>1. ASSUME NEW i \in 1..(n + 1)
            PROVE  far[i] <= far[n + 2]
        <5>1. PICK a \in Nat, b \in Nat : a = off[i] /\ b = off[n + 1]
          BY <1>7, <3>2
        <5>2. a <= b + z
          BY <3>2, <5>1
        <5> QED
          BY <1>8, <5>1, <5>2
      <4> QED
        BY <4>1
    <3>4. ASSUME NEW i \in 1..(n + 2), NEW j \in 1..(n + 2), i <= j
          PROVE  far[i] <= far[j]
      <4>1. CASE j = n + 2
        <5>1. i = n + 2 \/ i \in 1..(n + 1)
          OBVIOUS
        <5> QED
          BY <1>7, <1>8, <3>3, <4>1, <5>1
      <4>2. CASE j # n + 2
        <5>1. i \in 1..(n + 1) /\ j \in 1..(n + 1)
          BY <3>4, <4>2
        <5> QED
          BY <1>8, <3>1, <3>4, <5>1
      <4> QED
        BY <4>1, <4>2
    <3> QED
      BY <3>4
  <2>4. Len(sent') + 1 = n + 2
    BY <1>5
  <2> QED
    BY <1>5, <1>8, <2>2, <2>3, <2>4 DEF Laid
<1>13. InStream(far)'
  <2>1. WrittenTo(far)' <= far[Len(sent') + 1]
    <3>1. PICK a \in Nat, b \in Nat : a = WrittenTo(off) /\ b = off[n + 1]
      BY <1>7
    <3>2. a <= b + z
      <4>1. a <= b
        BY <1>7, <3>1
      <4> QED
        BY <4>1
    <3>3. Len(sent') + 1 = n + 2
      BY <1>5
    <3> QED
      BY <1>8, <1>10, <3>1, <3>2, <3>3
  <2>2. ASSUME NEW j \in 1..Len(stream), NEW i \in 1..(n + 1), NEW k \in 1..Size(sent'[i]),
               far[i] + k = ReadTo(off) + j
        PROVE  stream[j] = Message(sent'[i], i)[k]
    <3>1. CASE i \in 1..n
      <4>1. far[i] = off[i] /\ sent'[i] = sent[i]
        BY <1>5, <1>8, <3>1
      <4> QED
        BY <1>2, <2>2, <3>1, <4>1 DEF InStream
    <3>2. CASE i = n + 1
      <4>1. far[i] = off[n + 1] /\ Size(sent'[i]) = z
        BY <1>5, <1>6, <1>9, <3>2
      <4>2. k >= 1 /\ k \in Nat
        BY <4>1
      <4>3. ReadTo(off) + j <= off[n + 1] /\ ReadTo(off) \in Nat
        BY <1>7
      <4> QED
        BY <1>7, <2>2, <4>1, <4>2, <4>3, SMTT(40)
    <3> QED
      BY <3>1, <3>2
  <2> QED
    BY <1>1, <1>5, <1>10, <2>1, <2>2 DEF InStream
<1>14. Pending(far)'
  <2> SUFFICES ASSUME up
               PROVE  /\ Len(sent') >= 1
                      /\ \A u \in Senders : u # s => out'[u] = <<>>
                      /\ Owes(s, type, n + 1, 0)'
    <3>1. up => WrittenTo(off) = off[n + 1]
      BY <1>1, <1>2 DEF Pending, Owes
    <3>2. up => WrittenTo(far)' - far[Len(sent')] = 0
      BY <1>5, <1>7, <1>9, <1>10, <3>1
    <3> QED
      BY <1>1, <1>5, <3>2 DEF Pending
  <2>1. PICK h, q : h = Header(type, n + 1) /\ q = Payload(type, n + 1)
    OBVIOUS
  <2>2. /\ h \in Seq(Fields) /\ Len(h) = 4 /\ q \in Seq(Fields) /\ Len(q) = v
        /\ \A k \in 1..4 : Message(type, n + 1)[k] = h[k]
    BY <1>4, <1>6, <2>1, Messages, ZenonT(60)
  <2>3. out'[s] = IF v > 0 THEN <<h, q>> ELSE <<h>>
    BY <1>3, <1>6, <2>1 DEF Typed
  <2>4. out'[s][1] = h /\ Len(out'[s]) = IF v > 0 THEN 2 ELSE 1
    BY <2>3
  <2>5. v > 0 => out'[s][2] = Payload(type, n + 1)
    BY <2>1, <2>3
  <2>6. \A x \in 1..Len(out'[s][1]) : out'[s][1][x] = Message(type, n + 1)[0 + x]
    <3>1. \A x \in 1..4 : 0 + x = x
      OBVIOUS
    <3> QED
      BY <2>2, <2>4, <3>1
  <2>7. v = 0 => 0 + Len(out'[s][1]) = Size(type)
    BY <1>6, <2>2, <2>4
  <2>8. Owes(s, type, n + 1, 0)'
    <3>1. Len(out'[s]) >= 1 /\ Len(out'[s][1]) = 4
      BY <2>2, <2>4
    <3>2. \/ Len(out'[s]) = 1 /\ 0 + Len(out'[s][1]) = Size(type)
          \/ /\ Len(out'[s]) = 2 /\ 0 + Len(out'[s][1]) = 4
             /\ PayloadLength[type] > 0 /\ out'[s][2] = Payload(type, n + 1)
      <4>1. CASE v > 0
        BY <1>6, <2>4, <2>5, <3>1, <4>1
      <4>2. CASE v = 0
        BY <2>4, <2>7, <4>2
      <4> QED
        BY <4>1, <4>2
    <3> QED
      BY <2>6, <3>1, <3>2 DEF Owes
  <2>9. \A u \in Senders : u # s => out'[u] = <<>>
    BY <1>1, <1>3 DEF Typed
  <2> QED
    BY <1>5, <2>8, <2>9
<1> QED
  BY <1>11, <1>12, <1>13, <1>14 DEF Intact

(* One send() moves fields to where they belong on the tape. *)
LEMMA SenderSends ==
  ASSUME Typed, Received, NEW off, Laid(off), InStream(off), Pending(off),
         NEW s \in Senders, send(s)
  PROVE  Received' /\ Laid(off)' /\ InStream(off)' /\ Pending(off)'
<1>1. out[s] # <<>> /\ up /\ UNCHANGED <<sent, up, mixed, got, rpc, delivered>>
  BY DEF send
<1>2. PICK m \in 1..Len(out[s][1]) :
        /\ stream' = stream \o First(out[s][1], m)
        /\ out' = [out EXCEPT ![s] = IF m = Len(out[s][1]) THEN Tail(out[s])
                                     ELSE [out[s] EXCEPT ![1] = Rest(out[s][1], m)]]
  BY DEF send
<1>3. /\ out[s] \in Seq(Seq(Fields)) /\ out[s][1] \in Seq(Fields) /\ stream \in Seq(Fields)
      /\ Len(out[s]) >= 1
  BY <1>1 DEF Typed
<1>4. PICK n \in Nat, b \in Nat, l \in Nat, r \in Nat, w \in Nat, a \in Nat :
        /\ n = Len(sent) /\ b = Len(out[s][1]) /\ l = Len(stream) /\ n >= 1
        /\ r = ReadTo(off) /\ a = off[n] /\ r + l = a + w
        /\ WrittenTo(off) = r + l /\ WrittenTo(off) - off[Len(sent)] = w
  <2>1. PICK n \in Nat, b \in Nat, l \in Nat, r \in Nat :
          n = Len(sent) /\ b = Len(out[s][1]) /\ l = Len(stream) /\ r = ReadTo(off)
    <3>1. /\ Len(sent) \in Nat /\ Len(stream) \in Nat /\ Len(got) \in Nat
          /\ off[Len(delivered) + 1] \in Nat /\ ReadTo(off) = off[Len(delivered) + 1] + Len(got)
      BY Basics
    <3>2. ReadTo(off) \in Nat
      BY <3>1
    <3>3. Len(out[s][1]) \in Nat
      BY <1>3
    <3> QED
      BY <3>1, <3>2, <3>3
  <2>2. n >= 1 /\ WrittenTo(off) - off[n] \in Nat
    BY <1>1, <2>1 DEF Pending, Owes
  <2>3. PICK a \in Nat : a = off[n]
    BY <2>1, <2>2 DEF Laid
  <2>4. WrittenTo(off) = r + l
    BY <2>1 DEF WrittenTo
  <2>5. PICK w \in Nat : w = r + l - a
    BY <2>1, <2>2, <2>3, <2>4
  <2>6. r + l = a + w /\ (r + l) - a = w
    BY <2>5
  <2>7. WrittenTo(off) - off[Len(sent)] = w
    BY <2>1, <2>3, <2>4, <2>6
  <2> QED
    BY <2>1, <2>2, <2>3, <2>4, <2>6, <2>7
<1>5. PICK type \in 1..16, z \in 4..45, v \in 0..41 :
        type = sent[n] /\ z = Size(type) /\ v = PayloadLength[type] /\ z = 4 + v
  <2>1. sent[n] \in 1..16
    <3>1. n \in 1..Len(sent)
      BY <1>4
    <3> QED
      BY <3>1, Basics
  <2> QED
    BY <2>1, Sizes DEF Size
<1>6. Owes(s, type, n, w) /\ \A u \in Senders : u # s => out[u] = <<>>
  BY <1>1, <1>4, <1>5 DEF Pending
<1>7. /\ \A x \in 1..b : out[s][1][x] = Message(type, n)[w + x]
      /\ \/ Len(out[s]) = 1 /\ w + b = z
         \/ Len(out[s]) = 2 /\ w + b = 4 /\ v > 0 /\ out[s][2] = Payload(type, n)
  BY <1>4, <1>5, <1>6 DEF Owes
<1>8. m \in 0..Len(out[s][1]) /\ m \in Nat /\ m >= 1 /\ m <= b
  BY <1>2, <1>4
<1>9. /\ First(out[s][1], m) \in Seq(Fields) /\ Len(First(out[s][1], m)) = m
      /\ \A k \in 1..m : First(out[s][1], m)[k] = out[s][1][k]
      /\ Rest(out[s][1], m) \in Seq(Fields) /\ Len(Rest(out[s][1], m)) = b - m
      /\ \A k \in 1..(b - m) : Rest(out[s][1], m)[k] = out[s][1][m + k]
  BY <1>3, <1>4, <1>8, Cut, ZenonT(60)
<1>10. /\ Len(stream') = l + m
       /\ \A k \in 1..l : stream'[k] = stream[k]
       /\ \A k \in 1..m : stream'[l + k] = out[s][1][k]
  <2>1. PICK f \in Seq(Fields) :
          f = First(out[s][1], m) /\ Len(f) = m /\ \A k \in 1..m : f[k] = out[s][1][k]
    BY <1>9
  <2>2. /\ Len(stream \o f) = Len(stream) + Len(f)
        /\ \A k \in 1..Len(stream) : (stream \o f)[k] = stream[k]
        /\ \A k \in 1..Len(f) : (stream \o f)[Len(stream) + k] = f[k]
    BY <1>3, Joined
  <2>3. stream' = stream \o f /\ Len(stream) = l
    BY <1>2, <1>4, <2>1
  <2> QED
    BY <2>1, <2>2, <2>3
<1>11. ReadTo(off)' = r /\ WrittenTo(off)' = r + l + m
  <2>1. ReadTo(off)' = r
    BY <1>1, <1>4, Zenon DEF ReadTo
  <2>2. WrittenTo(off)' = r + (l + m)
    BY <1>10, <2>1, Zenon DEF WrittenTo
  <2> QED
    BY <1>4, <1>8, <2>1, <2>2
<1>12. Received' /\ Laid(off)'
  BY <1>1 DEF Received, Laid
<1>13. off[n + 1] = a + z /\ n \in 1..n
  <2>1. n \in 1..Len(sent) /\ n \in 1..n
    BY <1>4
  <2>2. off[n + 1] = off[n] + Size(sent[n])
    BY <2>1 DEF Laid
  <2> QED
    BY <1>4, <1>5, <2>1, <2>2
<1>14. w + b <= z
  <2>1. w + b = z \/ w + b = 4
    BY <1>7
  <2> QED
    BY <2>1
<1>15. InStream(off)'
  <2>1. r + l + m <= off[n + 1]
    <3>1. r + l = a + w
      BY <1>4
    <3>2. r + l + m <= a + z
      BY <1>8, <1>14, <3>1
    <3> QED
      BY <1>13, <3>2
  <2>2. ASSUME NEW j \in 1..(l + m), NEW i \in 1..n, NEW k \in 1..Size(sent[i]),
               off[i] + k = r + j
        PROVE  stream'[j] = Message(sent[i], i)[k]
    <3>1. CASE j <= l
      <4>1. j \in 1..l /\ j \in 1..Len(stream)
        BY <1>4, <3>1
      <4>2. stream[j] = Message(sent[i], i)[k]
        BY <1>4, <2>2, <4>1 DEF InStream
      <4> QED
        BY <1>10, <4>1, <4>2
    <3>2. CASE j > l
      <4>1. PICK x \in 1..m : j = l + x
        <5>1. j - l \in 1..m /\ j = l + (j - l)
          BY <1>8, <3>2
        <5> QED
          BY <5>1
      <4>2. PICK c \in Nat, y \in 4..45 : c = off[i] /\ y = Size(sent[i])
        <5>1. i \in 1..Len(sent) /\ i \in 1..(Len(sent) + 1)
          BY <1>4
        <5> QED
          BY <5>1, Basics
      <4>3. c + k = a + w + x /\ k \in 1..y
        BY <1>4, <2>2, <4>1, <4>2, SMTT(40)
      <4>4. i = n
        <5>1. SUFFICES ASSUME i # n
                       PROVE  FALSE
          OBVIOUS
        <5>2. i + 1 \in 1..(n + 1) /\ i + 1 <= n /\ n \in 1..(n + 1)
          BY <5>1
        <5>3. off[i + 1] = c + y /\ off[i + 1] <= off[n]
          BY <1>4, <4>2, <5>2 DEF Laid
        <5>4. c + y <= a
          BY <1>4, <5>3
        <5> QED
          BY <4>3, <5>4
      <4>5. k = w + x
        <5>1. c = a
          BY <1>4, <4>2, <4>4
        <5> QED
          BY <4>3, <5>1
      <4>6. x \in 1..b
        BY <1>8
      <4> QED
        BY <1>5, <1>7, <1>10, <4>1, <4>4, <4>5, <4>6
    <3> QED
      BY <3>1, <3>2
  <2> QED
    BY <1>1, <1>4, <1>10, <1>11, <2>1, <2>2 DEF InStream
<1>16. Pending(off)'
  <2>1. WrittenTo(off)' - off[Len(sent')] = w + m /\ WrittenTo(off)' = a + (w + m)
    BY <1>1, <1>4, <1>8, <1>11
  <2>2. \A u \in Senders : u # s => out'[u] = <<>>
    BY <1>2, <1>6 DEF Typed
  <2>3. CASE m = b /\ Len(out[s]) = 1
    <3>1. out'[s] = <<>>
      <4>1. out'[s] = Tail(out[s])
        BY <1>2, <1>4, <2>3 DEF Typed
      <4>2. Tail(out[s]) \in Seq(Seq(Fields)) /\ Len(Tail(out[s])) = 0
        BY <1>1, <1>3, <2>3
      <4> QED
        BY <4>1, <4>2, Empty
    <3>2. WrittenTo(off)' = off[Len(sent') + 1]
      BY <1>1, <1>4, <1>7, <1>13, <2>1, <2>3
    <3> QED
      BY <2>2, <3>1, <3>2 DEF Pending
  <2>4. SUFFICES ASSUME ~(m = b /\ Len(out[s]) = 1)
                 PROVE  Owes(s, type, n, w + m)'
    BY <1>1, <1>4, <1>5, <2>1, <2>2, <2>3 DEF Pending
  <2>5. CASE m = b
    <3>1. Len(out[s]) = 2 /\ w + b = 4 /\ v > 0 /\ out[s][2] = Payload(type, n)
      BY <1>7, <2>4, <2>5
    <3>2. out'[s] = Tail(out[s])
      BY <1>2, <1>4, <2>5 DEF Typed
    <3>3. Len(out'[s]) = 1 /\ out'[s][1] = Payload(type, n)
      BY <1>3, <3>1, <3>2
    <3>4. /\ Len(Payload(type, n)) = v
          /\ \A k \in 1..v : Message(type, n)[4 + k] = Payload(type, n)[k]
      BY <1>5, Messages, ZenonT(60)
    <3>5. w + m = 4
      BY <2>5, <3>1
    <3>6. \A x \in 1..Len(out'[s][1]) : out'[s][1][x] = Message(type, n)[(w + m) + x]
      BY <3>3, <3>4, <3>5
    <3>7. Len(out'[s][1]) = v /\ (w + m) + Len(out'[s][1]) = Size(type) /\ w + m \in Nat
      BY <1>5, <3>3, <3>4, <3>5
    <3>8. Len(out'[s]) >= 1 /\ Len(out'[s][1]) >= 1
      BY <3>1, <3>3, <3>7
    <3> QED
      BY <3>3, <3>6, <3>7, <3>8 DEF Owes
  <2>6. CASE m # b
    <3>1. out'[s] = [out[s] EXCEPT ![1] = Rest(out[s][1], m)]
      BY <1>2, <1>4, <2>6 DEF Typed
    <3>2. /\ Len(out'[s]) = Len(out[s]) /\ out'[s][1] = Rest(out[s][1], m)
          /\ Len(out[s]) = 2 => out'[s][2] = out[s][2]
      BY <1>3, <3>1
    <3>3. Len(out'[s][1]) = b - m /\ b - m >= 1 /\ w + m \in Nat
      BY <1>8, <1>9, <2>6, <3>2
    <3>4. ASSUME NEW x \in 1..(b - m)
          PROVE  out'[s][1][x] = Message(type, n)[(w + m) + x]
      <4>1. m + x \in 1..b /\ w + (m + x) = (w + m) + x
        BY <1>8
      <4>2. out'[s][1][x] = out[s][1][m + x]
        BY <1>9, <3>2
      <4> QED
        BY <1>7, <4>1, <4>2
    <3>5. (w + m) + (b - m) = w + b
      BY <1>8
    <3>6. \/ Len(out'[s]) = 1 /\ (w + m) + (b - m) = Size(type)
          \/ /\ Len(out'[s]) = 2 /\ (w + m) + (b - m) = 4
             /\ PayloadLength[type] > 0 /\ out'[s][2] = Payload(type, n)
      BY <1>5, <1>7, <3>2, <3>5
    <3>7. Len(out'[s]) >= 1
      BY <1>3, <3>2
    <3> QED
      BY <3>3, <3>4, <3>6, <3>7 DEF Owes
  <2> QED
    BY <2>5, <2>6
<1> QED
  BY <1>12, <1>15, <1>16

(* A broken connection loses the end of the tape. *)
LEMMA ConnectionBreaks ==
  ASSUME Typed, Received, NEW off, Laid(off), InStream(off), Pending(off),
         Break \/ \E s \in Senders : send_fails(s)
  PROVE  Received' /\ Laid(off)' /\ InStream(off)' /\ Pending(off)'
<1>1. CASE Break
  <2>1. ~up' /\ UNCHANGED <<sent, out, mixed, got, rpc, delivered>>
    BY <1>1 DEF Break
  <2>2. PICK n \in 0..Len(stream) : stream' = First(stream, n)
    BY <1>1 DEF Break
  <2>3. Len(stream') = n /\ \A k \in 1..n : stream'[k] = stream[k]
    BY <2>2, Cut DEF Typed
  <2>4. Received' /\ Laid(off)' /\ Pending(off)'
    BY <2>1 DEF Received, Laid, Pending
  <2>5. PICK r \in Nat, l \in Nat, c \in Nat : r = ReadTo(off) /\ l = Len(stream) /\ c = off[Len(sent) + 1]
    BY Basics
  <2>6. r + l <= c /\ n \in 0..l
    BY <2>5 DEF InStream, WrittenTo
  <2>7. ReadTo(off)' = r /\ WrittenTo(off)' = r + n
    BY <2>1, <2>3, <2>5 DEF ReadTo, WrittenTo
  <2>8. r + n <= c
    BY <2>6
  <2>9. ASSUME NEW j \in 1..n, NEW i \in 1..Len(sent), NEW k \in 1..Size(sent[i]),
               off[i] + k = r + j
        PROVE  stream'[j] = Message(sent[i], i)[k]
    <3>1. j \in 1..Len(stream)
      BY <2>5, <2>6
    <3> QED
      BY <2>3, <2>5, <2>9, <3>1 DEF InStream
  <2>10. InStream(off)'
    BY <2>1, <2>3, <2>5, <2>7, <2>8, <2>9 DEF InStream
  <2> QED
    BY <2>4, <2>10
<1>2. CASE \E s \in Senders : send_fails(s)
  <2>1. ~up /\ UNCHANGED <<sent, stream, up, mixed, got, rpc, delivered>>
    BY <1>2 DEF send_fails
  <2>2. ReadTo(off)' = ReadTo(off) /\ WrittenTo(off)' = WrittenTo(off)
    BY <2>1 DEF ReadTo, WrittenTo
  <2> QED
    BY <2>1, <2>2 DEF Received, Laid, Pending, InStream
<1> QED
  BY <1>1, <1>2

-----------------------------------------------------------------------------
(* The invariant as a whole. *)

(* Every step keeps it. *)
LEMMA WInvStep == WInv /\ [WireNext]_wvars => WInv'
<1> SUFFICES ASSUME WInv, [WireNext]_wvars
             PROVE  WInv'
  OBVIOUS
<1>1. Typed /\ Typed'
  BY TypedStep DEF WInv
<1>2. ~mixed' => ~mixed
  BY DEF WireNext, send_message, send, send_fails, receive_message, recv, recv_fails,
         check_header, deserialize, Break, wvars
<1>3. SUFFICES ASSUME ~mixed', ~mixed
               PROVE  Received' /\ Intact'
  BY <1>1, <1>2 DEF WInv
<1>4. Received
  BY <1>3 DEF WInv
<1>5. PICK off : Laid(off) /\ InStream(off) /\ Pending(off)
  BY <1>3 DEF WInv, Intact
<1>6. ASSUME NEW s \in Senders, send_message(s)
      PROVE  Received' /\ Intact'
  BY <1>1, <1>3, <1>4, <1>5, <1>6, SenderCalls
<1>7. SUFFICES ASSUME \A s \in Senders : ~send_message(s)
               PROVE  Received' /\ Laid(off)' /\ InStream(off)' /\ Pending(off)'
  BY <1>6 DEF Intact
<1>8. ASSUME NEW s \in Senders, send(s)
      PROVE  Received' /\ Laid(off)' /\ InStream(off)' /\ Pending(off)'
  BY <1>1, <1>4, <1>5, <1>8, SenderSends
<1>9. CASE Break \/ \E s \in Senders : send_fails(s)
  BY <1>1, <1>4, <1>5, <1>9, ConnectionBreaks
<1>10. CASE recv
  BY <1>1, <1>4, <1>5, <1>10, ReceiverReads
<1>11. CASE recv_fails \/ check_header
  BY <1>1, <1>4, <1>5, <1>11, ReceiverLooks
<1>12. CASE deserialize
  BY <1>1, <1>4, <1>5, <1>12, ReceiverReturns
<1>13. CASE UNCHANGED wvars
  <2>1. UNCHANGED <<sent, out, stream, up, got, delivered>> /\ UNCHANGED rpc
    BY <1>13 DEF wvars
  <2>2. Laid(off)' /\ InStream(off)' /\ Pending(off)'
    BY <1>5, <2>1, TapeStays
  <2> QED
    BY <1>4, <2>1, <2>2 DEF Received
<1> QED
  BY <1>7, <1>8, <1>9, <1>10, <1>11, <1>12, <1>13 DEF WireNext, receive_message

(* The invariant of the connection: what was received, what is in the stream and what is *)
(* still to be sent are consecutive pieces of the messages in the order of the calls.    *)
THEOREM WireInvariance == WireSpec => []WInv
<1>1. WireInit => WInv
  <2> SUFFICES ASSUME WireInit
               PROVE  WInv
    OBVIOUS
  <2>1. Typed
    <3>1. <<>> \in Seq(Types) /\ <<>> \in Seq(Fields) /\ <<>> \in Seq(Seq(Fields)) /\ Len(<<>>) = 0
      OBVIOUS
    <3> QED
      <4>1. /\ sent = <<>> /\ stream = <<>> /\ got = <<>> /\ delivered = <<>>
            /\ out = [s \in Senders |-> <<>>]
        BY DEF WireInit
      <4>2. /\ sent \in Seq(Types) /\ Len(sent) <= MaxCalls /\ stream \in Seq(Fields)
            /\ got \in Seq(Fields) /\ delivered \in Seq(Seq(Fields))
        BY <3>1, <4>1, WireAssumption
      <4>3. out \in [Senders -> Seq(Seq(Fields))] /\ \A s \in Senders : Len(out[s]) <= 2
        BY <3>1, <4>1
      <4>4. /\ up \in BOOLEAN /\ mixed \in BOOLEAN /\ rpc = "header"
        BY DEF WireInit
      <4> QED
        BY <4>2, <4>3, <4>4 DEF Typed
  <2>2. Received
    BY DEF WireInit, Received
  <2> DEFINE off == [i \in 1..1 |-> 0]
  <2>3. /\ Len(sent) = 0 /\ Len(got) = 0 /\ Len(stream) = 0 /\ Len(delivered) = 0
        /\ \A s \in Senders : out[s] = <<>>
    BY DEF WireInit
  <2>4. off \in [1..1 -> Nat] /\ off[1] = 0
    OBVIOUS
  <2> HIDE DEF off
  <2>5. Laid(off)
    BY <2>3, <2>4 DEF Laid
  <2>6. ReadTo(off) = 0 /\ WrittenTo(off) = 0
    BY <2>3, <2>4 DEF ReadTo, WrittenTo
  <2>7. InStream(off) /\ Pending(off)
    BY <2>3, <2>4, <2>6 DEF InStream, Pending
  <2> QED
    BY <2>1, <2>2, <2>5, <2>7 DEF WInv, Intact
<1>2. WInv /\ [WireNext]_wvars => WInv'
  BY WInvStep
<1> QED
  BY <1>1, <1>2, PTL DEF WireSpec

(* Type correctness; a length the receiver acts on fits the buffer even when the stream *)
(* holds the fields of overlapping calls.                                               *)
THEOREM WireTypeCorrect == WireSpec => []WireTypeOK
<1>1. WInv => WireTypeOK
  BY DEF WInv, Typed, WireTypeOK
<1> QED
  BY <1>1, WireInvariance, PTL

(* Messages arrive whole and in order, and the receiver gives up only on a broken        *)
(* connection, as long as no two calls of send_message overlap.                          *)
THEOREM WireIntact == WireSpec => []IntactUnlessMixed
<1>1. WInv => IntactUnlessMixed
  <2> SUFFICES ASSUME WInv, ~mixed
               PROVE  /\ Len(delivered) <= Len(sent)
                      /\ \A i \in DOMAIN delivered :
                           delivered[i] = Header(sent[i], i) \o Payload(sent[i], i)
                      /\ rpc = "failed" => ~up
    BY DEF IntactUnlessMixed
  <2>1. Received /\ delivered \in Seq(Seq(Fields))
    BY DEF WInv, Typed
  <2>2. DOMAIN delivered = 1..Len(delivered)
    BY <2>1
  <2> QED
    BY <2>1, <2>2 DEF Received, Message
<1> QED
  BY <1>1, WireInvariance, PTL

(* When the sent messages have been read to their end, the receiver is between two messages  *)
(* or holds a whole one.                                                                     *)
LEMMA ReadToEnd ==
  ASSUME Typed, Received, NEW off, Laid(off), InStream(off), Len(stream) = 0,
         WrittenTo(off) = off[Len(sent) + 1]
  PROVE  Missing = 0 \/ (got = <<>> /\ Len(delivered) = Len(sent))
<1>1. PICK d, n, g : d = Len(delivered) /\ n = Len(sent) /\ g = Len(got)
  OBVIOUS
<1>2. n \in Nat /\ d \in 0..n /\ g \in Nat
  BY <1>1, Basics
<1>3. off[d + 1] \in Nat /\ off[n + 1] \in Nat /\ off[d + 1] + g = off[n + 1]
  BY <1>1, Basics
<1>4. CASE d < n
  <2>1. PICK type : type = sent[d + 1]
    OBVIOUS
  <2>2. PICK z, p : z = Size(type) /\ p = PayloadLength[type] /\ z \in Nat /\ p \in Nat /\ z = 4 + p
    <3>1. type \in 1..16
      BY <1>1, <1>4, <2>1, Basics
    <3>2. Size(type) = 4 + PayloadLength[type]
      BY DEF Size
    <3>3. PayloadLength[type] \in 0..41 /\ Size(type) \in 4..45
      BY <3>1, Sizes, Zenon
    <3>4. (\A k \in 0..41 : k \in Nat) /\ (\A k \in 4..45 : k \in Nat)
      OBVIOUS
    <3> QED
      BY <3>2, <3>3, <3>4, Zenon
  <2>3. g <= Size(type) /\ (rpc = "header" => g <= 4)
    BY <1>1, <1>4, <2>1 DEF Received
  <2>4. off[d + 2] = off[d + 1] + Size(type) /\ off[d + 2] <= off[n + 1]
    <3>1. d + 1 \in 1..Len(sent) /\ d + 2 \in 1..(Len(sent) + 1) /\ n + 1 \in 1..(Len(sent) + 1)
          /\ d + 2 <= n + 1 /\ (d + 1) + 1 = d + 2
      BY <1>1, <1>2, <1>4
    <3> QED
      BY <2>1, <3>1 DEF Laid
  <2>5. g = z
    <3>1. ASSUME NEW a \in Nat, NEW b \in Nat, NEW e, a + g = b, e = a + z, e <= b, g <= z
          PROVE  g = z
      BY <1>2, <2>2, <3>1
    <3> QED
      BY <1>3, <2>2, <2>3, <2>4, <3>1, Zenon
  <2>6. got[4].val = p
    <3>1. Len(got) >= 4
      BY <1>1, <2>2, <2>5
    <3> QED
      BY <1>1, <2>1, <2>2, <3>1, NextMessage, Zenon
  <2>7. rpc = "header" => 4 - Len(got) = 0
    BY <1>1, <2>2, <2>3, <2>5
  <2>8. 4 + got[4].val - Len(got) = 0
    BY <1>1, <2>2, <2>5, <2>6
  <2> QED
    BY <2>7, <2>8, Zenon DEF Missing
<1>5. CASE d = n
  <2>1. g = 0
    BY <1>2, <1>3, <1>5
  <2> QED
    BY <1>1, <1>5, <2>1, Empty DEF Typed
<1> QED
  BY <1>2, <1>4, <1>5

(* A receiver that waits on an idle connection has everything that was sent: it never waits  *)
(* for the rest of a message.  This is what EveryMessageArrives needs besides fairness, for  *)
(* any number of senders and calls and all types of message.                                 *)
THEOREM WaitsOnlyForSendersProved == WireSpec => []WaitsOnlyForSenders
<1>1. WInv => WaitsOnlyForSenders
  <2> SUFFICES ASSUME WInv, ~mixed, up, Reading, stream = <<>>, \A s \in Senders : out[s] = <<>>
               PROVE  got = <<>> /\ Len(delivered) = Len(sent)
    BY DEF WaitsOnlyForSenders
  <2>1. Typed /\ Received
    BY DEF WInv
  <2>2. PICK off : Laid(off) /\ InStream(off) /\ Pending(off)
    BY DEF WInv, Intact
  <2>3. Len(<<>>) = 0 /\ ~(0 >= 1) /\ ~(0 > 0)
    OBVIOUS
  <2>4. \A s \in Senders : ~(Len(out[s]) >= 1)
    BY <2>3, Zenon
  <2>5. WrittenTo(off) = off[Len(sent) + 1]
    BY <2>2, <2>4 DEF Pending, Owes
  <2>6. Missing = 0 \/ (got = <<>> /\ Len(delivered) = Len(sent))
    BY <2>1, <2>2, <2>3, <2>5, ReadToEnd, Zenon
  <2> QED
    BY <2>3, <2>6, Zenon DEF Reading
<1> QED
  BY <1>1, WireInvariance, PTL
=============================================================================
