------------------------------ MODULE Framing ------------------------------
(***************************************************************************)
(* SwiftConnectProtocol.data_received (src/utmremote/swiftconnect.py): how *)
(* chunks of the byte stream become frames.  A frame is a header, the      *)
(* length of the body as a big-endian number, and the body.  The loop of   *)
(* data_received is modelled one iteration per step; a chunk arrives when  *)
(* the loop is through with the one before.                                *)
(*                                                                         *)
(* A byte is a number below Base and a header has HeaderLen bytes; the     *)
(* code has 256 and 8.                                                     *)
(***************************************************************************)
EXTENDS Digits, SequencesExt

CONSTANTS HeaderLen,  \* bytes in a header
          Base,       \* values of a byte
          Bodies,     \* bodies of frames the sender may send
          MaxFrames   \* bound on the frames sent

Byte == 0..(Base - 1)

ASSUME SizesArePositive == HeaderLen \in Nat \ {0} /\ Base \in Nat \ {0, 1}
ASSUME MaxFramesIsNat == MaxFrames \in Nat

-----------------------------------------------------------------------------
(* Headers.                                                                *)

\* struct.unpack('>Q', bytes)
BigEndian(bytes) == Number(bytes, Base)

\* struct.pack('>Q', n)
Header(n) ==
    CHOOSE h \in [1..HeaderLen -> Byte] : BigEndian(h) = n

\* Bodies are not empty and not too long for their headers.
ASSUME BodiesFit ==
    \A b \in Bodies :
        /\ b \in Seq(Byte) \ {<<>>}
        /\ \E h \in [1..HeaderLen -> Byte] : BigEndian(h) = Len(b)

-----------------------------------------------------------------------------

VARIABLES
    sent,       \* the bodies sent, in order
    stream,     \* the bytes sent, in order
    starts,     \* history: where frames start in the stream, or will start
    received,   \* how much of the stream data_received was called with
    chunk,      \* "data", what is left of the chunk in data_received
    header,     \* self.header, <<>> for None
    body,       \* self.data, <<>> for None
    inBody,     \* self.data is not None
    delivered,  \* the messages given to serviceReply, in order
    cut         \* history: a chunk has ended inside a header or a body

wire == <<sent, stream, starts, received>>

vars == <<wire, chunk, header, body, inBody, delivered, cut>>

Init ==
    /\ sent = <<>>
    /\ stream = <<>>
    /\ starts = <<0>>
    /\ received = 0
    /\ chunk = <<>>
    /\ header = <<>>
    /\ body = <<>>
    /\ inBody = FALSE
    /\ delivered = <<>>
    /\ cut = FALSE

-----------------------------------------------------------------------------

\* s[:n] and s[n:]
Upto(s, n) == SubSeq(s, 1, IF n < Len(s) THEN n ELSE Len(s))
From(s, n) == SubSeq(s, n + 1, Len(s))

\* What send_data writes: struct.pack('>Q', msglen) and the parts.
Frame(b) == Header(Len(b)) \o b

Send(b) ==
    /\ Len(sent) < MaxFrames
    /\ sent' = Append(sent, b)
    /\ stream' = stream \o Frame(b)
    /\ starts' = Append(starts, Len(stream'))
    /\ UNCHANGED <<received, chunk, header, body, inBody, delivered, cut>>

\* Where in the stream a header or a body ends.
Ends ==
    {starts[i] : i \in DOMAIN starts}
        \cup {starts[i] + HeaderLen : i \in DOMAIN sent}

\* The transport calls data_received with the next bytes, up to the nth.
Receive(n) ==
    /\ chunk = <<>>
    /\ received' = n
    /\ chunk' = SubSeq(stream, received + 1, n)
    /\ cut' = (cut \/ n \notin Ends)
    /\ UNCHANGED <<sent, stream, starts, header, body, inBody, delivered>>

-----------------------------------------------------------------------------
(* The branches of the loop.                                               *)

StartHeader ==
    /\ chunk # <<>>
    /\ header = <<>>
    /\ header' = Upto(chunk, HeaderLen)
    /\ chunk' = From(chunk, HeaderLen)
    /\ UNCHANGED <<wire, body, inBody, delivered, cut>>

\* Mutant: as many bytes as a whole header has.
ContinueHeaderAnew ==
    /\ chunk # <<>>
    /\ Len(header) \in 1..(HeaderLen - 1)
    /\ header' = header \o Upto(chunk, HeaderLen)
    /\ chunk' = From(chunk, HeaderLen)
    /\ UNCHANGED <<wire, body, inBody, delivered, cut>>

\* The rest of the chunk is cut by what is missing after the header grew.
ContinueHeader ==
    /\ chunk # <<>>
    /\ Len(header) \in 1..(HeaderLen - 1)
    /\ header' = header \o Upto(chunk, HeaderLen - Len(header))
    /\ chunk' = From(chunk, HeaderLen - Len(header'))
    /\ UNCHANGED <<wire, body, inBody, delivered, cut>>

\* A body is complete when it is as long as its header says; then it is
\* handed to a new task and the next header is awaited.
Keep(b, msglen) ==
    IF Len(b) = msglen
    THEN /\ delivered' = Append(delivered, b)
         /\ header' = <<>>
         /\ body' = <<>>
         /\ inBody' = FALSE
    ELSE /\ body' = b
         /\ inBody' = TRUE
         /\ UNCHANGED <<delivered, header>>

\* Mutant: the chunk is not cut.
StartBodyUncut ==
    /\ chunk # <<>>
    /\ Len(header) = HeaderLen
    /\ ~inBody
    /\ Keep(Upto(chunk, BigEndian(header)), BigEndian(header))
    /\ chunk' = chunk
    /\ UNCHANGED <<wire, cut>>

\* Mutant: the loop spins until the chunk holds a whole body.
StartBodyWhole ==
    /\ chunk # <<>>
    /\ Len(header) = HeaderLen
    /\ ~inBody
    /\ Len(chunk) >= BigEndian(header)
    /\ Keep(Upto(chunk, BigEndian(header)), BigEndian(header))
    /\ chunk' = From(chunk, BigEndian(header))
    /\ UNCHANGED <<wire, cut>>

StartBody ==
    /\ chunk # <<>>
    /\ Len(header) = HeaderLen
    /\ ~inBody
    /\ Keep(Upto(chunk, BigEndian(header)), BigEndian(header))
    /\ chunk' = From(chunk, BigEndian(header))
    /\ UNCHANGED <<wire, cut>>

\* As in ContinueHeader, what is missing is counted after the body grew.
ContinueBody ==
    /\ chunk # <<>>
    /\ Len(header) = HeaderLen
    /\ inBody
    /\ LET msglen == BigEndian(header)
           grown == body \o Upto(chunk, msglen - Len(body))
       IN  /\ Keep(grown, msglen)
           /\ chunk' = From(chunk, msglen - Len(grown))
    /\ UNCHANGED <<wire, cut>>

Loop == StartHeader \/ ContinueHeader \/ StartBody \/ ContinueBody

Next ==
    \/ \E b \in Bodies : Send(b)
    \/ \E n \in (received + 1)..Len(stream) : Receive(n)
    \/ Loop

Spec == Init /\ [][Next]_vars

\* A running call of data_received goes on.
FairSpec == Spec /\ WF_vars(Loop)

-----------------------------------------------------------------------------
(* Properties.                                                             *)

TypeOK ==
    /\ sent \in Seq(Bodies)
    /\ stream \in Seq(Byte) /\ chunk \in Seq(Byte)
    /\ header \in Seq(Byte) /\ body \in Seq(Byte)
    /\ starts \in Seq(Nat)
    /\ received \in 0..Len(stream)
    /\ Len(header) <= HeaderLen
    /\ inBody \in BOOLEAN
    /\ delivered \in Seq(Seq(Byte))
    /\ cut \in BOOLEAN

\* As long as chunks end where a header or a body ends, the frames reach
\* serviceReply whole, unaltered and in the order sent, and none is left
\* behind when the stream is used up.
FramesArrive ==
    ~cut => /\ IsPrefix(delivered, sent)
            /\ received = Len(stream) /\ chunk = <<>> => delivered = sent

\* However the stream is cut, data_received returns: the loop always uses
\* up its chunk, although some iterations take nothing from it.
LoopEnds == chunk # <<>> ~> chunk = <<>>

\* A chunk that ends inside a header or a body changes nothing about what
\* arrives: the messages handed over are the messages sent.
CutsAreInvisible == IsPrefix(delivered, sent)
=============================================================================
