----------------------------- MODULE FrameCodec -----------------------------
(***************************************************************************)
(* From bytes to frames: the transport readers (transport.rs) hand over    *)
(* chunks of the peer's byte stream, the read loop of mux/reader.rs        *)
(* collects them in frame_buf, and SpdyCodec (codec.rs) takes frames off   *)
(* its front.                                                              *)
(*                                                                         *)
(* The bytes of the peer are numbered from 0.  Each frame records where it *)
(* begins, and frame_buf is the interval head .. tail - 1: what a header   *)
(* says is known when a frame begins at `head`.  When none does, the       *)
(* decoder takes payload for a header, which may then say anything.        *)
(***************************************************************************)
EXTENDS Integers, Sequences, FiniteSets

CONSTANTS PeerFrames,              \* frames a peer may send
          ConfiguredMaxFrameSize,  \* MuxConfig::max_frame_size
          MAX_CONTROL_FRAME_SIZE,
          ChunkSizes,              \* bound: bytes of one message of the transport
          MaxFrames                \* bound: frames of the peer

HeaderLen == 8
Kinds == {"Data", "SynStream", "SynReply", "RstStream", "Settings", "Ping", "GoAway",
          "WindowUpdate", "Unknown"}

\* A frame: len is the length of its payload, block whether its header block is well formed.
\* Of SETTINGS, entries are the whole ones its payload holds and count what it says they are.
FrameType == [kind : Kinds, stream : Nat, len : Nat, count : Nat,
              entries : Seq([id : Nat, value : Nat]), block : BOOLEAN]

ASSUME CodecAssumption ==
  /\ PeerFrames \subseteq FrameType
  /\ {ConfiguredMaxFrameSize, MAX_CONTROL_FRAME_SIZE, MaxFrames} \subseteq Nat
  /\ ChunkSizes \subseteq Nat \ {0}

VARIABLES
  wire,            \* what the peer sends: frames and where they begin
  head, tail,      \* frame_buf
  pc,              \* "read", in the "decode" loop, or "ended"
  max_frame_size,
  inflated,        \* frames whose header block the decompressor has taken, 0: not a frame
  misread,         \* what the payload at `head` says, taken for a header
  cut,             \* a frame was dropped before all of it had arrived
  routed,          \* frames handed to route_frame and
  resets           \* stream ids of the CloseStream commands sent, as long as ~cut

vars == <<wire, head, tail, pc, max_frame_size, inflated, misread, routed, resets, cut>>

TotalLen(f) == HeaderLen + f.len
EndOf(w) == w.at + TotalLen(w.frame)
Sent == IF wire = <<>> THEN 0 ELSE EndOf(wire[Len(wire)])
Nothing == [at |-> -1]

Init ==
  /\ wire = <<>>
  /\ head = 0 /\ tail = 0
  /\ pc = "read"
  /\ max_frame_size = ConfiguredMaxFrameSize
  /\ inflated = {}
  /\ misread = Nothing
  /\ routed = <<>> /\ resets = {}
  /\ cut = FALSE

\* Nothing the reader does reaches the peer here, so all it sends is settled first, and
\* ReadMessage decides how much of it has come.
PeerSends ==
  /\ tail = 0 /\ pc = "read" /\ Len(wire) < MaxFrames
  /\ \E f \in PeerFrames : wire' = Append(wire, [frame |-> f, at |-> Sent])
  /\ UNCHANGED <<head, tail, pc, max_frame_size, inflated, misread, routed, resets, cut>>

\* read_message returns a chunk: frames and chunks need not begin together.
ReadMessage ==
  /\ pc = "read"
  /\ \E n \in ChunkSizes : tail + n <= Sent /\ tail' = tail + n
  /\ pc' = "decode"
  /\ UNCHANGED <<wire, head, max_frame_size, inflated, misread, routed, resets, cut>>

\* The transport is closed, or fails.
TransportEnds ==
  /\ pc = "read"
  /\ pc' = "ended"
  /\ UNCHANGED <<wire, head, tail, max_frame_size, inflated, misread, routed, resets, cut>>

-----------------------------------------------------------------------------
(* decode_frame *)

Buffered == tail - head

\* i is the frame that begins at `head`, or 0, and f is what the header there says.
HeaderSays(i, f) ==
  \/ i \in DOMAIN wire /\ wire[i].at = head /\ f = wire[i].frame
  \/ /\ i = 0 /\ \A j \in DOMAIN wire : wire[j].at # head
     /\ f \in PeerFrames
     /\ misread \in {Nothing, [at |-> head, frame |-> f]}

\* Variant: only control frames are compared with a limit.
OverLimitControlOnly(f, max) == f.kind # "Data" /\ f.len > MAX_CONTROL_FRAME_SIZE

\* payload_len > limit.
OverLimit(f, max) == f.len > IF f.kind = "Data" THEN max ELSE MAX_CONTROL_FRAME_SIZE

\* Variant: a frame without payload is not a frame yet.
HasHeaderAndMore == Buffered > HeaderLen

HasHeader == Buffered >= HeaderLen

\* The smallest payload of a control frame.
MinLen == [k \in Kinds |-> CASE k = "SynStream" -> 10
                             [] k \in {"RstStream", "GoAway", "WindowUpdate"} -> 8
                             [] k \in {"SynReply", "Ping"} -> 4
                             [] OTHER -> 0]

HasBlock(f) == f.kind \in {"SynStream", "SynReply"} /\ f.len > MinLen[f.kind]

\* What the peer's compressor had taken when it wrote the block of frame i, and what the
\* decompressor has taken.
InContext(i) ==
  i > 0 /\ inflated = {j \in 1 .. i-1 : HasBlock(wire[j].frame)}

\* Variant: the headers of a stream that will be refused are not inflated.
InflateReplies(i, f) == IF f.kind = "SynReply" THEN inflated \cup {i} ELSE inflated

\* decompress_headers advances the decompressor; an empty block does not.
Inflate(i, f) == IF HasBlock(f) THEN inflated \cup {i} ELSE inflated

\* decode_control_frame fails: a short payload, a block that is too large or does not
\* parse, or, out of context, one that does not inflate.
MustFail(i, f) == f.len < MinLen[f.kind] \/ (HasBlock(f) /\ InContext(i) /\ ~f.block)
MayFail(i, f) == MustFail(i, f) \/ (HasBlock(f) /\ ~InContext(i))

\* SETTINGS: as many entries as the payload holds and the count says; the last one with
\* id 5 gives max_frame_size.
MaxFrameSizeOf(f, max) ==
  LET n == IF f.count < Len(f.entries) THEN f.count ELSE Len(f.entries)
      given == {k \in 1 .. n : f.entries[k].id = 5}
  IN IF f.kind # "Settings" \/ given = {} THEN max
     ELSE f.entries[CHOOSE k \in given : \A l \in given : l <= k].value

\* The stream id of FrameTooLarge: the first word of the header, without its first bit.
TypeCode == [k \in Kinds |-> CASE k = "SynStream" -> 1 [] k = "SynReply" -> 2
                               [] k = "RstStream" -> 3 [] k = "Settings" -> 4
                               [] k = "Ping" -> 6 [] k = "GoAway" -> 7
                               [] k = "WindowUpdate" -> 9 [] OTHER -> 15]
FirstWord(f) == IF f.kind = "Data" THEN f.stream ELSE 3 * 65536 + TypeCode[f.kind]

-----------------------------------------------------------------------------
(* The loop of run_reader over frame_buf *)

\* decode_frame returns None: the loop ends until there is more.
NeedsMore ==
  /\ pc = "decode"
  /\ \/ ~HasHeader /\ UNCHANGED misread
     \/ /\ HasHeader
        /\ \E i \in 0 .. Len(wire), f \in PeerFrames :
             /\ HeaderSays(i, f) /\ ~OverLimit(f, max_frame_size)
             /\ Buffered < TotalLen(f)
             /\ misread' = IF i = 0 THEN [at |-> head, frame |-> f] ELSE Nothing
  /\ pc' = "read"
  /\ UNCHANGED <<wire, head, tail, max_frame_size, inflated, routed, resets, cut>>

\* Variant: the frame is skipped although its end has not arrived.
RejectFrameBlindly ==
  /\ pc = "decode" /\ HasHeader
  /\ \E i \in 0 .. Len(wire), f \in PeerFrames :
       /\ HeaderSays(i, f) /\ OverLimit(f, max_frame_size)
       /\ head' = head + TotalLen(f)
       /\ resets' = resets \cup {FirstWord(f)}
  /\ UNCHANGED <<wire, tail, pc, max_frame_size, inflated, misread, routed, cut>>

\* Variant: the buffer is cleared although the frame is there as a whole.
RejectFrameClears ==
  /\ pc = "decode" /\ HasHeader
  /\ \E i \in 0 .. Len(wire), f \in PeerFrames :
       /\ HeaderSays(i, f) /\ OverLimit(f, max_frame_size)
       /\ cut' = (cut \/ Buffered < TotalLen(f))
  /\ head' = tail /\ pc' = "read" /\ misread' = Nothing
  /\ UNCHANGED <<wire, tail, max_frame_size, inflated, routed, resets>>

\* FrameTooLarge: CloseStream, unless control_tx is full, and the frame is skipped when
\* it is there as a whole; otherwise the buffer is cleared.
RejectFrame ==
  /\ pc = "decode" /\ HasHeader
  /\ \E i \in 0 .. Len(wire), f \in PeerFrames :
       /\ HeaderSays(i, f) /\ OverLimit(f, max_frame_size)
       /\ \/ /\ Buffered >= TotalLen(f)
             /\ head' = head + TotalLen(f)
             /\ resets' \in {resets, resets \cup (IF cut THEN {} ELSE {FirstWord(f)})}
             /\ UNCHANGED <<pc, cut, routed>>
          \/ /\ Buffered < TotalLen(f)
             /\ head' = tail
             /\ cut' = TRUE /\ routed' = <<>> /\ resets' = {}
             /\ pc' = "read"
  /\ misread' = Nothing
  /\ UNCHANGED <<wire, tail, max_frame_size, inflated>>

\* A frame is decoded and routed; SETTINGS changes the limit of the next ones.
RouteFrame ==
  /\ pc = "decode" /\ HasHeader
  /\ \E i \in 0 .. Len(wire), f \in PeerFrames :
       /\ HeaderSays(i, f) /\ ~OverLimit(f, max_frame_size)
       /\ Buffered >= TotalLen(f)
       /\ ~MustFail(i, f)
       /\ head' = head + TotalLen(f)
       /\ inflated' = Inflate(i, f)
       /\ routed' = IF cut THEN routed
                    ELSE Append(routed, [frame |-> f, clean |-> HasBlock(f) => InContext(i)])
       /\ max_frame_size' = MaxFrameSizeOf(f, max_frame_size)
  /\ misread' = Nothing
  /\ UNCHANGED <<wire, tail, pc, resets, cut>>

\* Any other error ends the reader.
DecodeFails ==
  /\ pc = "decode" /\ HasHeader
  /\ \E i \in 0 .. Len(wire), f \in PeerFrames :
       /\ HeaderSays(i, f) /\ ~OverLimit(f, max_frame_size)
       /\ Buffered >= TotalLen(f)
       /\ MayFail(i, f)
       /\ head' = head + TotalLen(f)
  /\ pc' = "ended"
  /\ misread' = Nothing
  /\ UNCHANGED <<wire, tail, max_frame_size, inflated, routed, resets, cut>>

Next ==
  \/ PeerSends \/ ReadMessage \/ TransportEnds
  \/ NeedsMore \/ RejectFrame \/ RouteFrame \/ DecodeFails

Spec == Init /\ [][Next]_vars

-----------------------------------------------------------------------------
\* Types.  In particular nothing is taken off frame_buf that is not in it: split_to would
\* panic (reader.rs:198, codec.rs:295, 303).
TypeOK ==
  /\ wire \in Seq([frame : PeerFrames, at : Nat])
  /\ head \in Nat /\ tail \in Nat /\ head <= tail /\ tail <= Sent
  /\ pc \in {"read", "decode", "ended"}
  /\ max_frame_size \in Nat
  /\ inflated \subseteq 0 .. MaxFrames
  /\ misread = Nothing \/ misread \in [at : {head}, frame : PeerFrames]
  /\ routed \in Seq([frame : PeerFrames, clean : BOOLEAN])
  /\ resets \subseteq Nat /\ cut \in BOOLEAN

\* The frames that make it out of the first n of a byte stream, without regard to chunks:
\* all but those above the limit in force, which the accepted ones before them decide.
Accept(acc, f) ==
  IF OverLimit(f, acc.max)
  THEN [frames |-> acc.frames, max |-> acc.max, rejected |-> acc.rejected \cup {FirstWord(f)}]
  ELSE [frames |-> Append(acc.frames, f), max |-> MaxFrameSizeOf(f, acc.max),
        rejected |-> acc.rejected]

Accepted(ws) ==
  LET after[n \in 0 .. Len(ws)] ==
        IF n = 0 THEN [frames |-> <<>>, rejected |-> {}, max |-> ConfiguredMaxFrameSize]
        ELSE Accept(after[n - 1], ws[n].frame)
  IN after

Arrived == Cardinality({i \in DOMAIN wire : EndOf(wire[i]) <= tail})

\* transport.rs:371-374, "chunk boundaries need not align with frame boundaries": whenever
\* the reader waits for the transport it has routed exactly the frames that have arrived,
\* in order, and reset only the streams of those above the limit, however the bytes were
\* cut into chunks.  An oversized frame that arrives in parts is the exception: the buffer
\* is cleared, and the rest of the frame is read as new frames.
DecodesWhatArrived ==
  pc = "read" /\ ~cut =>
    LET ref == Accepted(wire)[Arrived]
    IN /\ [k \in DOMAIN routed |-> routed[k].frame] = ref.frames
       /\ resets \subseteq ref.rejected
       /\ max_frame_size = ref.max

\* The decoder never takes payload for a header: until a frame is cut, what it looks at
\* begins with a frame of the peer (decode_frame takes whole frames off the buffer, and the
\* FrameTooLarge arm of reader.rs:191-204 skips whole frames).
Aligned ==
  ~cut => head = Sent \/ \E i \in DOMAIN wire : wire[i].at = head

\* codec.rs:82-83, "The compressor and decompressor keep state across frames": every
\* header block is inflated after all the blocks before it, those of frames that nobody
\* wants included, unless an oversized frame was skipped with its block.
HeadersInContext ==
  \/ \A k \in DOMAIN routed : routed[k].clean
  \/ \E i \in DOMAIN wire : HasBlock(wire[i].frame) /\ OverLimit(wire[i].frame, 0)

\* The reader never waits with more than one frame in its buffer, even when it reads
\* payload as headers: what is buffered is bounded by the limits (the check of payload_len
\* at codec.rs:279 comes before the wait for the whole frame).
BufferBounded ==
  pc = "read" =>
    \/ Buffered < HeaderLen + max_frame_size
    \/ Buffered < HeaderLen + MAX_CONTROL_FRAME_SIZE
=============================================================================
