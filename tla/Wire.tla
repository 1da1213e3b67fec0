-------------------------------- MODULE Wire --------------------------------
(***************************************************************************)
(* The framing of wire_protocol.h and wire.rs over a TCP stream, one       *)
(* direction of a connection: a writer that encodes frames, a stream that  *)
(* is cut into pieces at any byte and may break at any byte, and a reader. *)
(* Bytes, byte order and header sizes are those of the code.               *)
(***************************************************************************)
EXTENDS Integers, Sequences

CONSTANTS
    Frames,         \* the frames that the writer may write: [type, payload]
    MaxFrames       \* bound: frames written

VARIABLES
    side,           \* the program that reads, "server" or "client"
    sent,           \* history: the frames given to the writer
    out,            \* the bytes that the writer has still to send
    net,            \* the bytes on their way
    buf,            \* the bytes of the frame that is being read
    got,            \* the frames that read_frame returned
    closed,         \* the connection is broken
    failed          \* read_frame has reported that

vars == <<side, sent, out, net, buf, got, closed, failed>>

MSG_RAW_DATA == 254
FRAME_HEADER_SIZE == 5
RAW_HEADER_SIZE == 13
RAW_DATA_SENTINEL == <<255, 255, 255, 255>>

\* n without its last k bytes, for each k.
Shifted(n, width) ==
    LET shifted[k \in 0 .. width] == IF k = 0 THEN n ELSE shifted[k - 1] \div 256
    IN  shifted

\* htobe32 and htobe64: n as width bytes, the most significant one first.
BigEndian(n, width) == [i \in 1 .. width |-> Shifted(n, width)[width - i] % 256]

\* be32toh and be64toh.
Value(bytes) ==
    LET value[i \in 0 .. Len(bytes)] == IF i = 0 THEN 0 ELSE value[i - 1] * 256 + bytes[i]
    IN  value[Len(bytes)]

encode_frame(f) == BigEndian(Len(f.payload), 4) \o <<f.type>> \o f.payload

encode_raw_data_header(length) ==
    RAW_DATA_SENTINEL \o <<MSG_RAW_DATA>> \o BigEndian(length, 8)

\* A frame on the wire: raw data has a header of its own and follows it.
Encoded(f) ==
    IF f.type = MSG_RAW_DATA THEN encode_raw_data_header(Len(f.payload)) \o f.payload
    ELSE encode_frame(f)

Bytes == Seq(0 .. 255)

Fits(n, width) == Shifted(n, width)[width] = 0

\* A payload's length fits in the field of its header, and a standard frame's
\* does not look like the sentinel; protobuf messages are below 2^31 bytes.
ASSUME WireAssumption ==
    /\ MaxFrames \in Nat
    /\ \A f \in Frames :
         /\ f \in [type : 0 .. 255, payload : Bytes]
         /\ f.type = MSG_RAW_DATA => Fits(Len(f.payload), 8)
         /\ f.type # MSG_RAW_DATA => /\ Fits(Len(f.payload), 4)
                                    /\ BigEndian(Len(f.payload), 4) # RAW_DATA_SENTINEL

\* What the first read_exact of read_frame asks for: the server reads length
\* and type at once, the client the length alone.
FirstRead == IF side = "server" THEN FRAME_HEADER_SIZE ELSE 4

IsRaw(bytes) == SubSeq(bytes, 1, 4) = RAW_DATA_SENTINEL

\* Mutant: the rest of a raw header is taken to be a whole one.
WantedTwice(bytes) ==
    IF Len(bytes) < FirstRead THEN FirstRead
    ELSE IF IsRaw(bytes)
    THEN IF Len(bytes) < FirstRead + 9 THEN FirstRead + 9
         ELSE RAW_HEADER_SIZE + Value(SubSeq(bytes, 6, RAW_HEADER_SIZE))
    ELSE IF Len(bytes) < FRAME_HEADER_SIZE THEN FRAME_HEADER_SIZE
         ELSE FRAME_HEADER_SIZE + Value(SubSeq(bytes, 1, 4))

\* With these bytes of the frame read, where the current read_exact ends.
Wanted(bytes) ==
    IF Len(bytes) < FirstRead THEN FirstRead
    ELSE IF IsRaw(bytes)
    THEN IF Len(bytes) < RAW_HEADER_SIZE THEN RAW_HEADER_SIZE
         ELSE RAW_HEADER_SIZE + Value(SubSeq(bytes, 6, RAW_HEADER_SIZE))
    ELSE IF Len(bytes) < FRAME_HEADER_SIZE THEN FRAME_HEADER_SIZE
         ELSE FRAME_HEADER_SIZE + Value(SubSeq(bytes, 1, 4))

\* Mutant: the payload of raw data starts after a standard header.
DecodedAfterType(bytes) ==
    [type |-> bytes[5], payload |-> SubSeq(bytes, FRAME_HEADER_SIZE + 1, Len(bytes))]

\* The frame that read_frame returns.
Decoded(bytes) ==
    LET header == IF IsRaw(bytes) THEN RAW_HEADER_SIZE ELSE FRAME_HEADER_SIZE
    IN  [type |-> IF IsRaw(bytes) /\ side = "server" THEN MSG_RAW_DATA ELSE bytes[5],
         payload |-> SubSeq(bytes, header + 1, Len(bytes))]

TypeOK ==
    /\ side \in {"server", "client"}
    /\ sent \in Seq(Frames) /\ Len(sent) <= MaxFrames
    /\ {out, net, buf} \subseteq Bytes
    /\ got \in Seq(Frames)
    /\ closed \in BOOLEAN /\ failed \in BOOLEAN

Init ==
    /\ side \in {"server", "client"}
    /\ sent = <<>> /\ got = <<>>
    /\ out = <<>> /\ net = <<>> /\ buf = <<>>
    /\ closed = FALSE /\ failed = FALSE
-----------------------------------------------------------------------------
\* write_frame, or a raw header with the bytes that follow it.
Write ==
    /\ out = <<>> /\ ~closed /\ Len(sent) < MaxFrames
    /\ \E f \in Frames :
         /\ sent' = Append(sent, f)
         /\ out' = Encoded(f)
    /\ UNCHANGED <<side, net, buf, got, closed, failed>>

\* write_exact: one send() takes one byte or more.
Send ==
    /\ \E n \in 1 .. Len(out) :
         /\ net' = net \o SubSeq(out, 1, n)
         /\ out' = SubSeq(out, n + 1, Len(out))
    /\ UNCHANGED <<side, sent, buf, got, closed, failed>>

Smaller(m, n) == IF m < n THEN m ELSE n

\* Mutant: recv() may return more than is missing, and the rest is dropped.
RecvSurplus ==
    /\ ~failed /\ Len(buf) < Wanted(buf)
    /\ \E n \in 1 .. Len(net) :
         /\ buf' = buf \o SubSeq(net, 1, Smaller(n, Wanted(buf) - Len(buf)))
         /\ net' = SubSeq(net, n + 1, Len(net))
    /\ UNCHANGED <<side, sent, out, got, closed, failed>>

\* read_exact: one recv() returns one byte or more, and no more than asked for.
Recv ==
    /\ ~failed
    /\ \E n \in 1 .. Len(net) :
         /\ Len(buf) + n <= Wanted(buf)
         /\ buf' = buf \o SubSeq(net, 1, n)
         /\ net' = SubSeq(net, n + 1, Len(net))
    /\ UNCHANGED <<side, sent, out, got, closed, failed>>

\* read_frame has all it asked for and returns the frame.
FrameRead ==
    /\ Len(buf) = Wanted(buf)
    /\ got' = Append(got, Decoded(buf))
    /\ buf' = <<>>
    /\ UNCHANGED <<side, sent, out, net, closed, failed>>

\* The connection breaks: bytes not sent, and some of those on their way, are
\* lost.
Break ==
    /\ ~closed
    /\ closed' = TRUE
    /\ out' = <<>>
    /\ \E n \in 0 .. Len(net) : net' = SubSeq(net, 1, n)
    /\ UNCHANGED <<side, sent, buf, got, failed>>

\* Mutant: the bytes of a read that came up short are used as a frame.
ReadShortFrame ==
    /\ closed /\ net = <<>> /\ ~failed /\ Len(buf) < Wanted(buf)
    /\ failed' = TRUE
    /\ got' = IF Len(buf) >= RAW_HEADER_SIZE THEN Append(got, Decoded(buf)) ELSE got
    /\ buf' = <<>>
    /\ UNCHANGED <<side, sent, out, net, closed>>

\* recv() reports the end in the middle of a read: read_frame returns false
\* (an error in wire.rs) and its caller gives the connection up.
ReadFails ==
    /\ closed /\ net = <<>> /\ ~failed /\ Len(buf) < Wanted(buf)
    /\ failed' = TRUE
    /\ UNCHANGED <<side, sent, out, net, buf, got, closed>>

Next == Write \/ Send \/ Recv \/ FrameRead \/ Break \/ ReadFails

Spec == Init /\ [][Next]_vars

\* Both programs go on while their socket lets them.
Fairness == WF_vars(Send) /\ WF_vars(Recv) /\ WF_vars(FrameRead) /\ WF_vars(ReadFails)

FairSpec == Spec /\ Fairness
-----------------------------------------------------------------------------
\* The bytes that some frames are on the wire.
OnWire(fs) ==
    LET bytes[i \in 0 .. Len(fs)] ==
          IF i = 0 THEN <<>> ELSE bytes[i - 1] \o Encoded(fs[i])
    IN  bytes[Len(fs)]

\* The reader never loses its place: what it has decoded, what it is reading and
\* what is on the way are together the encoding of what was written, wherever
\* the stream was cut (read_frame and read_exact against encode_frame and
\* encode_raw_data_header).
InStep ==
    LET read == OnWire(got) \o buf \o net
    IN  IF closed THEN SubSeq(OnWire(sent), 1, Len(read)) = read
        ELSE read \o out = OnWire(sent)

Queue == INSTANCE FrameQueue

\* The stream behaves as a queue of whole frames: no frame is split, merged,
\* repeated or made up, also when the connection breaks within one (read_frame
\* of both programs).
ImplementsFrameQueue == Queue!Spec

\* Every frame that was written is read, or the reader learns that the
\* connection broke: a read_frame does not wait for bytes that it has counted
\* wrong.
FramesArrive ==
    \A n \in 1 .. MaxFrames : Len(sent) >= n ~> Len(got) >= n \/ failed
=============================================================================
