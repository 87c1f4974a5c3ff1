------------------------- MODULE ActivationTransfer -------------------------
(***************************************************************************)
(* Activation transfer (activation_router.py): a tensor is sent as a header*)
(* and the chunks it is cut into, and put together again by the one router *)
(* of its pipeline group, or by another router.  The transport is whatever *)
(* was registered ("WebSocket, TCP, HTTP, or any async transport"): it may *)
(* lose, repeat and reorder, and a send may raise.  Sending awaits after   *)
(* every message, receiving does not.                                      *)
(*                                                                         *)
(* Sizes are in units of half of MAX_MESSAGE_BYTES.  The checksum is left  *)
(* out, a mismatch is logged and nothing else; and so is the address:      *)
(* send_activation replaces the metadata it is given by that of the        *)
(* serializer, whose target_miner_id is empty, so where a message goes is  *)
(* the transport's affair.                                                 *)
(***************************************************************************)
EXTENDS Integers, FiniteSetsExt

CONSTANTS
  Transfers,       \* transfer ids
  MessageSize,     \* MAX_MESSAGE_BYTES
  Sizes,           \* bound: sizes of a serialized tensor
  MaxHeaders       \* bound: deliveries of the header of one transfer

ASSUME TransferAssumption ==
  /\ MessageSize \in Nat \ {0}
  /\ Sizes \subseteq Nat /\ IsFiniteSet(Sizes)
  /\ MaxHeaders \in Nat

VARIABLES
  sends,           \* what each transfer sends and how far it has come; {} before
  flight,          \* messages on their way
  headers,         \* pending_transfers of the receiver: transfers it has the metadata of
  buffers,         \* chunk_buffers of the receiver; {} and no entry are the same
  completed,       \* transfers completed, counted
  headersSeen,     \* headers delivered, counted
  seen,            \* messages delivered at least once
  spoilt           \* transfers that lost a message, or whose header came after a chunk

receiverVars == <<headers, buffers, completed, headersSeen, seen>>
transferVars == <<sends, flight, receiverVars, spoilt>>
-----------------------------------------------------------------------------
DTypes == {"float32", "float16", "bfloat16"}
Compressions == {"none", "int8", "zlib", "int8_zlib", "top_k"}

\* Bytes of one element: serialize widens a bfloat16, and deserialize takes what
\* is not called 32 for half that.
WrittenWidth(dtype) == IF dtype = "float16" THEN 2 ELSE 4
ReadWidth(dtype) == IF dtype = "float32" THEN 4 ELSE 2

\* deserialize raises when the elements do not fill the shape; the forms that keep
\* one value or index per element do not depend on the width.
Deserializes(dtype, compression) ==
  compression \in {"none", "zlib"} => WrittenWidth(dtype) = ReadWidth(dtype)

\* choose_compression of a tensor that is small, large, or over 100 MB; "backward
\* pass: always at least INT8" holds from the threshold on.
ChooseCompression(class) ==
  CASE class = "small" -> "none"
    [] class = "large" -> "int8"
    [] class = "huge"  -> "int8_zlib"

NumChunks(size) == Max({1, (size + MessageSize - 1) \div MessageSize})

\* The units of the data that chunk i holds.
Slice(size, i) ==
  {k \in 0..(size - 1) : i * MessageSize <= k /\ k < (i + 1) * MessageSize}
-----------------------------------------------------------------------------
\* own: the router that receives it is the one that sends it.
Send == [size : Sizes, readable : BOOLEAN, own : BOOLEAN, next : Nat,
         at : {"sending", "raised", "sent"}]
MaxChunks == Max({NumChunks(size) : size \in Sizes})

\* Message 0 of a transfer is its header, message i its i-th chunk.
Message == Transfers \X (0..MaxChunks)

TransferTypeOK ==
  /\ \A t \in Transfers : sends[t] \subseteq Send /\ Cardinality(sends[t]) <= 1
  /\ flight \subseteq Message
  /\ headers \subseteq Transfers
  /\ buffers \in [Transfers -> SUBSET (0..(MaxChunks - 1))]
  /\ completed \in [Transfers -> 0..(MaxHeaders + 1)]
  /\ headersSeen \in [Transfers -> 0..MaxHeaders]
  /\ seen \subseteq Message
  /\ spoilt \subseteq Transfers

TransferInit ==
  /\ sends = [t \in Transfers |-> {}]
  /\ flight = {}
  /\ headers = {}
  /\ buffers = [t \in Transfers |-> {}]
  /\ completed = [t \in Transfers |-> 0]
  /\ headersSeen = [t \in Transfers |-> 0]
  /\ seen = {}
  /\ spoilt = {}

Begun(t) == sends[t] # {}
Sent(t) == CHOOSE s \in sends[t] : TRUE
Sending(t) == Begun(t) /\ Sent(t).at = "sending"
Ended(t) == Begun(t) /\ Sent(t).at = "sent"
AllHandedOver(t) == Sent(t).next > NumChunks(Sent(t).size)

\* send_activation: the tensor is serialized under the compression asked for, or
\* under one chosen by its size.  Whether the router sends to itself is for the transport
\* to decide.
SendActivation(t, size, dtype) ==
  /\ ~Begun(t)
  /\ \E compression \in Compressions \cup
          {ChooseCompression(class) : class \in {"small", "large", "huge"}},
        own \in BOOLEAN :
       sends' = [sends EXCEPT ![t] =
         {[size |-> size, readable |-> Deserializes(dtype, compression), own |-> own,
           next |-> 0, at |-> "sending"]}]
  /\ UNCHANGED <<flight, receiverVars, spoilt>>

\* The next message is handed to the transport, in whose hands it may be lost ...
SendNext(t) ==
  /\ Sending(t) /\ ~AllHandedOver(t)
  /\ sends' = [sends EXCEPT ![t] = {[s EXCEPT !.next = @ + 1] : s \in @}]
  /\ \/ flight' = flight \cup {<<t, Sent(t).next>>} /\ UNCHANGED spoilt
     \/ UNCHANGED flight /\ spoilt' = spoilt \cup {t}
  /\ UNCHANGED receiverVars

\* ... or which raises, before it takes a message or after: nothing more is sent.
SendRaises(t) ==
  /\ Sending(t)
  /\ sends' = [sends EXCEPT ![t] = {[s EXCEPT !.at = "raised"] : s \in @}]
  /\ UNCHANGED <<flight, receiverVars, spoilt>>

\* The last await returns, and the metadata is put in pending_transfers, where a
\* router that also receives the transfer looks for that of a header.
SendEnds(t) ==
  /\ Sending(t) /\ AllHandedOver(t)
  /\ sends' = [sends EXCEPT ![t] = {[s EXCEPT !.at = "sent"] : s \in @}]
  /\ headers' = IF Sent(t).own THEN headers \cup {t} ELSE headers
  /\ UNCHANGED <<flight, buffers, completed, headersSeen, seen, spoilt>>
-----------------------------------------------------------------------------
\* A message is delivered, for the last time or not.
Deliver(t, k) ==
  /\ <<t, k>> \in flight
  /\ flight' \in {flight, flight \ {<<t, k>>}}
  /\ seen' = seen \cup {<<t, k>>}
  /\ UNCHANGED sends

\* receive_header: the buffer begins anew, whatever chunks came before.
ReceiveHeader(t) ==
  /\ Deliver(t, 0)
  /\ headersSeen[t] < MaxHeaders
  /\ headersSeen' = [headersSeen EXCEPT ![t] = @ + 1]
  /\ headers' = headers \cup {t}
  /\ buffers' = [buffers EXCEPT ![t] = {}]
  /\ spoilt' = IF \E k \in 1..MaxChunks : <<t, k>> \in seen THEN spoilt \cup {t} ELSE spoilt
  /\ UNCHANGED completed

\* Mistake: chunks are counted from one.
WholeFromOne(t, chunks) == Cardinality(chunks) > NumChunks(Sent(t).size)

Whole(t, chunks) == Cardinality(chunks) >= NumChunks(Sent(t).size)

\* receive_chunk: kept, and the tensor put together once the metadata and all
\* chunks are there.  If that raises, everything stays as it is.
ReceiveChunk(t, i) ==
  /\ Deliver(t, i + 1)
  /\ LET chunks == buffers[t] \cup {i}
     IN  IF t \in headers /\ Whole(t, chunks) /\ Sent(t).readable
         THEN /\ completed' = [completed EXCEPT ![t] = @ + 1]
              /\ headers' = headers \ {t}
              /\ buffers' = [buffers EXCEPT ![t] = {}]
         ELSE /\ buffers' = [buffers EXCEPT ![t] = chunks]
              /\ UNCHANGED <<completed, headers>>
  /\ UNCHANGED <<headersSeen, spoilt>>

TransferNext ==
  \E t \in Transfers :
    \/ \E size \in Sizes, dtype \in DTypes : SendActivation(t, size, dtype)
    \/ SendNext(t)
    \/ SendRaises(t)
    \/ SendEnds(t)
    \/ ReceiveHeader(t)
    \/ \E i \in 0..(MaxChunks - 1) : ReceiveChunk(t, i)
-----------------------------------------------------------------------------
\* A tensor all of whose messages were delivered, none lost and the header first,
\* has been put together, unless its form cannot be read back; and its chunks are all
\* of it.  However often the transport repeats itself, it is put together at most once
\* for every header delivered, and on a router that sends to itself once more: there
\* the end of the send puts back the metadata that a completion removed, and a chunk
\* that is repeated then completes the transfer again.
Delivered(t) == Begun(t) /\ \A k \in 0..NumChunks(Sent(t).size) : <<t, k>> \in seen
Announced(t) == headersSeen[t] + (IF Ended(t) /\ Sent(t).own THEN 1 ELSE 0)

ArrivesAsAnnounced ==
  \A t \in Transfers :
    /\ completed[t] <= Announced(t)
    /\ Delivered(t) /\ t \notin spoilt /\ Sent(t).readable => completed[t] > 0
    /\ completed[t] > 0 =>
         UNION {Slice(Sent(t).size, i) : i \in 0..(NumChunks(Sent(t).size) - 1)}
           = 0..(Sent(t).size - 1)
=============================================================================
