-------------------------------- MODULE Wire --------------------------------
(***************************************************************************)
(* One direction of a connection: send_message and receive_message of      *)
(* common/src/protocol.c over the stream of a TCP socket.                  *)
(*                                                                         *)
(* The unit of the stream, and of all lengths, is the field: a word of the *)
(* header or a field of a payload.  send() and recv() take any number of   *)
(* fields at a time.  Several threads may send on one socket, which has no *)
(* lock; the client has one sender, the server any number.  Of the payload *)
(* only the call it comes from is kept.                                    *)
(***************************************************************************)
EXTENDS Integers, Sequences

CONSTANTS
  Senders,  \* the threads that send on the socket
  Types,    \* the types of the messages they send
  MaxCalls  \* bound on the calls of send_message

PROTOCOL_MAGIC == 1414678867
PROTOCOL_VERSION == 1
MaxLength == 1024

\* MessageType: 2 is MSG_JOIN_GAME, 16 is MSG_ERROR.  The types without payload:
EmptyTypes == {1, 4, 5}

\* Fields written by serialize_* and demanded by deserialize_*.
PayloadLength ==
  [type \in 1..16 |->
     CASE type \in EmptyTypes      -> 0
       [] type \in {15, 16}        -> 1   \* user name; error text
       [] type \in {11, 14}        -> 2   \* game and answer
       [] type \in {2, 3, 8, 9, 10, 13} -> 3
       [] type = 6                 -> 16  \* game, board, five scalars, text
       [] type = 7                 -> 21  \* ten games, their number, ten states
       [] type = 12                -> 41] \* the number of games, ten games of four fields

ASSUME WireAssumption == Types \subseteq 1..16 /\ MaxCalls \in Nat

VARIABLES
  sent,       \* the types of the calls of send_message so far
  out,        \* sender -> the buffers it still has to send
  stream,     \* fields sent and not received
  up,         \* the connection stands
  mixed,      \* two calls have been under way at the same time
  got,        \* fields of the message being received
  rpc,        \* where the receiver is
  delivered   \* messages returned by receive_message

wvars == <<sent, out, stream, up, mixed, got, rpc, delivered>>

WireInit ==
  /\ sent = <<>> /\ out = [s \in Senders |-> <<>>] /\ stream = <<>>
  /\ up = TRUE /\ mixed = FALSE
  /\ got = <<>> /\ rpc = "header" /\ delivered = <<>>

Field(val, call) == [val |-> val, call |-> call]

\* Mutant: the length counts the header's last word.
HeaderTooLong(type, call) ==
  <<Field(PROTOCOL_MAGIC, call), Field(PROTOCOL_VERSION, call), Field(type, call),
    Field(PayloadLength[type] + 1, call)>>

Header(type, call) ==
  <<Field(PROTOCOL_MAGIC, call), Field(PROTOCOL_VERSION, call), Field(type, call),
    Field(PayloadLength[type], call)>>
Payload(type, call) == [i \in 1..PayloadLength[type] |-> Field(0, call)]

\* The first n fields of s, and the others.
First(s, n) == SubSeq(s, 1, n)
Rest(s, n) == SubSeq(s, n + 1, Len(s))

-----------------------------------------------------------------------------
\* send_message is called: header and payload are buffers of their own.
send_message(s) ==
  /\ out[s] = <<>> /\ Len(sent) < MaxCalls
  /\ \E type \in Types :
       LET call == Len(sent) + 1 IN
       /\ sent' = Append(sent, type)
       /\ out' = [out EXCEPT ![s] =
                    IF PayloadLength[type] > 0 THEN <<Header(type, call), Payload(type, call)>>
                                               ELSE <<Header(type, call)>>]
  /\ mixed' = (mixed \/ \E u \in Senders : out[u] # <<>>)
  /\ UNCHANGED <<stream, up, got, rpc, delivered>>

\* Mutant: what a short send() left over is not sent.
SendOnce(s) ==
  /\ out[s] # <<>> /\ up
  /\ \E n \in 1..Len(out[s][1]) : stream' = stream \o First(out[s][1], n)
  /\ out' = [out EXCEPT ![s] = Tail(@)]
  /\ UNCHANGED <<sent, up, mixed, got, rpc, delivered>>

\* One send(), which may be short.
send(s) ==
  /\ out[s] # <<>> /\ up
  /\ \E n \in 1..Len(out[s][1]) :
       /\ stream' = stream \o First(out[s][1], n)
       /\ out' = [out EXCEPT ![s] = IF n = Len(@[1]) THEN Tail(@)
                                    ELSE [out[s] EXCEPT ![1] = Rest(out[s][1], n)]]
  /\ UNCHANGED <<sent, up, mixed, got, rpc, delivered>>

\* send() fails: the message is given up, wherever it was.
send_fails(s) ==
  /\ out[s] # <<>> /\ ~up
  /\ out' = [out EXCEPT ![s] = <<>>]
  /\ UNCHANGED <<sent, stream, up, mixed, got, rpc, delivered>>

\* The connection breaks: what was sent may still arrive, or part of it.
Break ==
  /\ up /\ up' = FALSE
  /\ \E n \in 0..Len(stream) : stream' = First(stream, n)
  /\ UNCHANGED <<sent, out, mixed, got, rpc, delivered>>

-----------------------------------------------------------------------------
\* Fields of the part being read that are still missing.
Missing == IF rpc = "header" THEN 4 - Len(got) ELSE 4 + got[4].val - Len(got)
Reading == rpc \in {"header", "payload"} /\ Missing > 0

\* One recv(), which may be short.
recv ==
  /\ Reading
  /\ \E n \in 1..Missing :
       /\ n <= Len(stream)
       /\ got' = got \o First(stream, n)
       /\ stream' = Rest(stream, n)
  /\ UNCHANGED <<sent, out, up, mixed, rpc, delivered>>

recv_fails ==
  /\ Reading /\ stream = <<>> /\ ~up
  /\ rpc' = "failed"
  /\ UNCHANGED <<sent, out, stream, up, mixed, got, delivered>>

\* Mutant: the length is believed.
CheckHeaderAnyLength ==
  /\ rpc = "header" /\ Missing = 0
  /\ rpc' = IF got[1].val = PROTOCOL_MAGIC /\ got[2].val = PROTOCOL_VERSION
            THEN "payload" ELSE "failed"
  /\ UNCHANGED <<sent, out, stream, up, mixed, got, delivered>>

check_header ==
  /\ rpc = "header" /\ Missing = 0
  /\ rpc' = IF got[1].val = PROTOCOL_MAGIC /\ got[2].val = PROTOCOL_VERSION /\ got[4].val <= MaxLength
            THEN "payload" ELSE "failed"
  /\ UNCHANGED <<sent, out, stream, up, mixed, got, delivered>>

\* The type and the length decide; the next call starts with a new header.
deserialize ==
  /\ rpc = "payload" /\ Missing = 0
  /\ IF got[3].val \in 1..16 /\ got[4].val = PayloadLength[got[3].val]
     THEN /\ delivered' = Append(delivered, got)
          /\ got' = <<>> /\ rpc' = "header"
     ELSE rpc' = "failed" /\ UNCHANGED <<got, delivered>>
  /\ UNCHANGED <<sent, out, stream, up, mixed>>

receive_message == recv \/ recv_fails \/ check_header \/ deserialize

WireNext ==
  \/ \E s \in Senders : send_message(s) \/ send(s) \/ send_fails(s)
  \/ receive_message \/ Break

WireSpec == WireInit /\ [][WireNext]_wvars

\* Calls on the socket return as long as there is room or data; the receiver reads on.
FairWireSpec ==
  /\ WireSpec
  /\ WF_wvars(receive_message)
  /\ \A s \in Senders : WF_wvars(send(s))

-----------------------------------------------------------------------------
(* Type correctness; in particular a length the receiver relies on fits the *)
(* buffer of 1024 (protocol.c:548, 554).                                    *)
WireTypeOK ==
  /\ sent \in Seq(Types) /\ Len(sent) <= MaxCalls
  /\ \A s \in Senders : Len(out[s]) <= 2
  /\ rpc \in {"header", "payload", "failed"}
  /\ rpc = "payload" => got[4].val \in 0..MaxLength

(* However send() and recv() cut the stream (protocol.c:478-503, 516-571),  *)
(* and whenever the connection breaks, the receiver returns the messages    *)
(* that were sent, whole and in order, and nothing else, and gives up only  *)
(* when the connection has broken.  This is so as long as no two threads    *)
(* are inside send_message for the same socket at the same time: always     *)
(* for what a client sends, not for what the server sends.                  *)
IntactUnlessMixed ==
  ~mixed =>
    /\ Len(delivered) <= Len(sent)
    /\ \A i \in DOMAIN delivered :
         delivered[i] = Header(sent[i], i) \o Payload(sent[i], i)
    /\ rpc = "failed" => ~up

(* A receiver that waits on a standing connection with nothing in it waits  *)
(* for a sender that is still sending, or has received every message and no *)
(* part of another: header and payload lengths never leave it in the middle *)
(* of a message that is complete (protocol.c:518-570).                      *)
WaitsOnlyForSenders ==
  ~mixed /\ up /\ Reading /\ stream = <<>> =>
    \/ \E s \in Senders : out[s] # <<>>
    \/ got = <<>> /\ Len(delivered) = Len(sent)

(* Every message is received in the end, under the same condition.          *)
EveryMessageArrives ==
  \A i \in 1..MaxCalls : Len(sent) >= i ~> (Len(delivered) >= i \/ ~up \/ mixed)
=============================================================================
