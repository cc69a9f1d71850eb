-------------------------- MODULE FrameCodecProofs --------------------------
(***************************************************************************)
(* The reader and its decoder, for any frames of the peer, any limits and  *)
(* any chunks: nothing is taken off the buffer that is not there, it is    *)
(* bounded, until a frame is cut it begins with a frame, the frames routed *)
(* are those that arrived, and header blocks are inflated in their order.  *)
(*                                                                         *)
(* The first properties need to know that the frames of the peer follow    *)
(* each other without gaps: taking a whole frame off the buffer then leads *)
(* to the beginning of the next, or to the end of all.  The others are     *)
(* about how many frames the reader is done with: InStep says what it has  *)
(* made of them, in the middle of its loop too.                            *)
(***************************************************************************)
EXTENDS FrameCodec, FiniteSetTheorems, WellFoundedInduction, TLAPS

\* The frames of the peer follow each other without gaps.
Contiguous ==
  /\ Len(wire) <= MaxFrames
  /\ wire # <<>> => wire[1].at = 0
  /\ \A i \in 1 .. Len(wire) - 1 : wire[i+1].at = EndOf(wire[i])
  /\ \A i, j \in 1 .. Len(wire) : i < j => EndOf(wire[i]) <= wire[j].at

\* Where the first k frames end.
Border(k) == IF k = Len(wire) THEN Sent ELSE wire[k+1].at

\* An oversized frame has a header block, which is skipped with it.
Unusual == \E i \in DOMAIN wire : HasBlock(wire[i].frame) /\ OverLimit(wire[i].frame, 0)

\* The reader has taken the first k frames off its buffer: it has done with them what
\* Accepted says, and the next one has not arrived when it waits.
InStepWith(k) ==
  /\ head = Border(k)
  /\ [n \in DOMAIN routed |-> routed[n].frame] = Accepted(wire)[k].frames
  /\ resets \subseteq Accepted(wire)[k].rejected
  /\ max_frame_size = Accepted(wire)[k].max
  /\ pc = "read" /\ k < Len(wire) => tail < EndOf(wire[k+1])
  /\ Unusual \/ inflated = {j \in 1 .. k : HasBlock(wire[j].frame)}

InStep == ~cut /\ pc # "ended" => \E k \in 0 .. Len(wire) : InStepWith(k)

\* What is in the buffer, and what the reader has done so far.
BufferInv == TypeOK /\ Contiguous /\ Aligned /\ BufferBounded
CodecInv == BufferInv /\ InStep /\ HeadersInContext
-----------------------------------------------------------------------------

\* The last of several entries exists.
LEMMA LastExists ==
  ASSUME NEW n \in Nat, NEW T \in SUBSET (1 .. n), T # {}
  PROVE  \E k \in T : \A l \in T : l <= k
<1> DEFINE U == {m \in 0 .. n : n - m \in T}
<1>t. ASSUME NEW l \in T  PROVE l \in Int /\ l >= 1 /\ l <= n
  OBVIOUS
<1>1. ASSUME NEW l \in T  PROVE n - l \in U
  <2>1. n - l \in 0 .. n /\ n - (n - l) = l
    BY <1>t
  <2>. QED  BY <2>1
<1>2. U \subseteq Nat /\ U # {}
  <2>1. U \subseteq Nat
    OBVIOUS
  <2>2. PICK l : l \in T
    OBVIOUS
  <2>. QED  BY <1>1, <2>1, <2>2
<1>3. PICK x \in U : \A y \in U : ~ (<<y, x>> \in OpToRel(<, Nat))
  BY <1>2, NatLessThanWellFounded, WFMin, Zenon
<1>4. \A y \in U : ~ (y < x)
  BY <1>2, <1>3 DEF OpToRel
<1>5. n - x \in T /\ x \in Int
  BY <1>2
<1>6. ASSUME NEW l \in T  PROVE l <= n - x
  <2>1. ~ (n - l < x)
    BY <1>1, <1>4
  <2>. QED  BY <2>1, <1>5, <1>t
<1>. QED  BY <1>5, <1>6

\* SETTINGS gives a limit again (the last MAX_FRAME_SIZE entry, codec.rs:373-427).
LEMMA LimitType ==
  ASSUME NEW f \in PeerFrames, NEW max \in Nat
  PROVE  MaxFrameSizeOf(f, max) \in Nat
<1> DEFINE n == IF f.count < Len(f.entries) THEN f.count ELSE Len(f.entries)
           given == {k \in 1 .. n : f.entries[k].id = 5}
           last == CHOOSE k \in given : \A l \in given : l <= k
<1>1. f \in FrameType
  BY CodecAssumption
<1>2. f.entries \in Seq([id : Nat, value : Nat]) /\ f.count \in Nat
  BY <1>1 DEF FrameType
<1>3. n \in Nat /\ n <= Len(f.entries) /\ Len(f.entries) \in Nat
  BY <1>2
<1>4. given \in SUBSET (1 .. n)
  OBVIOUS
<1>5. CASE f.kind # "Settings" \/ given = {}
  BY <1>5 DEF MaxFrameSizeOf
<1>6. CASE ~(f.kind # "Settings" \/ given = {})
  <2>1. \E k \in given : \A l \in given : l <= k
    BY <1>3, <1>4, <1>6, LastExists
  <2>2. last \in given
    BY <2>1
  <2>3. last \in 1 .. Len(f.entries)
    BY <2>2, <1>3
  <2> DEFINE E == [id : Nat, value : Nat]
  <2>4. f.entries[last] \in E
    <3> HIDE DEF E, last
    <3>1. f.entries \in Seq(E)
      BY <1>2 DEF E
    <3>. QED  BY <2>3, <3>1
  <2>5. f.entries[last].value \in Nat
    BY <2>4
  <2>. QED  BY <1>6, <2>5 DEF MaxFrameSizeOf
<1>. QED  BY <1>5, <1>6

\* What the decoder reads off a frame.
LEMMA FrameFacts ==
  ASSUME NEW f \in PeerFrames
  PROVE  f.len \in Nat /\ FirstWord(f) \in Nat /\ TotalLen(f) \in Nat /\ TotalLen(f) >= 8
<1>1. f \in FrameType
  BY CodecAssumption
<1>2. f.len \in Nat /\ f.stream \in Nat /\ f.kind \in Kinds
  BY <1>1 DEF FrameType
<1>3. TypeCode[f.kind] \in Nat
  BY <1>2 DEF TypeCode, Kinds
<1>. QED  BY <1>2, <1>3 DEF FirstWord, TotalLen, HeaderLen

\* The frames of the peer and their places.
LEMMA WireFacts ==
  ASSUME TypeOK, NEW i \in DOMAIN wire
  PROVE  /\ wire[i].frame \in PeerFrames /\ wire[i].at \in Nat
         /\ EndOf(wire[i]) \in Nat /\ Sent \in Nat /\ Len(wire) \in Nat
         /\ i \in 1 .. Len(wire)
<1>1. wire \in Seq([frame : PeerFrames, at : Nat])
  BY DEF TypeOK
<1>2. \A j \in 1 .. Len(wire) : wire[j] \in [frame : PeerFrames, at : Nat]
  <2> DEFINE E == [frame : PeerFrames, at : Nat]
  <2> HIDE DEF E
  <2>1. wire \in Seq(E)
    BY <1>1 DEF E
  <2>2. \A j \in 1 .. Len(wire) : wire[j] \in E
    BY <2>1
  <2>. QED  BY <2>2 DEF E
<1>d. DOMAIN wire = 1 .. Len(wire)
  BY <1>1
<1>3. \A j \in DOMAIN wire : wire[j].frame \in PeerFrames /\ wire[j].at \in Nat
  BY <1>2, <1>d
<1>4. \A j \in DOMAIN wire : EndOf(wire[j]) \in Nat
  BY <1>3, FrameFacts DEF EndOf
<1>5. Len(wire) \in DOMAIN wire /\ Len(wire) \in Nat /\ i \in 1 .. Len(wire) /\ wire # <<>>
  BY <1>1
<1>6. Sent \in Nat
  BY <1>4, <1>5 DEF Sent
<1>. QED  BY <1>3, <1>4, <1>5, <1>6

\* The byte stream sent so far has a length.
LEMMA SentType == TypeOK => Sent \in Nat
<1> SUFFICES ASSUME TypeOK PROVE Sent \in Nat
  OBVIOUS
<1>1. CASE wire = <<>>
  BY <1>1 DEF Sent
<1>2. CASE wire # <<>>
  <2>1. Len(wire) \in DOMAIN wire
    BY <1>2 DEF TypeOK
  <2>. QED  BY <2>1, WireFacts
<1>. QED  BY <1>1, <1>2

\* Every frame ends within what was sent.
LEMMA BeforeSent ==
  ASSUME TypeOK, Contiguous, NEW i \in 1 .. Len(wire)
  PROVE  EndOf(wire[i]) <= Sent
<1>1. DOMAIN wire = 1 .. Len(wire) /\ Len(wire) \in Nat /\ Len(wire) \in 1 .. Len(wire)
      /\ wire # <<>>
  BY DEF TypeOK
<1>2. Sent = EndOf(wire[Len(wire)])
  BY <1>1, Zenon DEF Sent
<1>3. EndOf(wire[i]) \in Nat /\ wire[Len(wire)].at \in Nat /\ wire[Len(wire)].frame \in PeerFrames
  BY <1>1, WireFacts
<1>4. CASE i = Len(wire)
  BY <1>2, <1>3, <1>4
<1>5. CASE i < Len(wire)
  <2>1. EndOf(wire[i]) <= wire[Len(wire)].at
    BY <1>1, <1>5, Zenon DEF Contiguous
  <2>2. Sent = wire[Len(wire)].at + TotalLen(wire[Len(wire)].frame)
    BY <1>2, Zenon DEF EndOf
  <2>3. TotalLen(wire[Len(wire)].frame) \in Nat
    BY <1>3, FrameFacts
  <2>. QED  BY <1>3, <2>1, <2>2, <2>3
<1>6. i = Len(wire) \/ i < Len(wire)
  <2>1. Len(wire) \in Nat
    BY <1>1, Zenon
  <2>. QED  BY <2>1
<1>. QED  BY <1>4, <1>5, <1>6

\* Whatever is at the front of an uncut buffer is a frame, and after it comes the next one
\* or nothing: what decode_frame and the FrameTooLarge arm rely on when they skip it.
LEMMA NextFrame ==
  ASSUME BufferInv, HasHeader, ~cut, NEW i \in 0 .. Len(wire), NEW f \in PeerFrames,
         HeaderSays(i, f)
  PROVE  \/ head + TotalLen(f) = Sent
         \/ \E j \in DOMAIN wire : wire[j].at = head + TotalLen(f)
<1>t. TypeOK /\ Contiguous /\ Aligned
  BY DEF BufferInv
<1>w. DOMAIN wire = 1 .. Len(wire) /\ Len(wire) \in Nat
  BY <1>t DEF TypeOK
<1>1. head # Sent
  BY <1>t, SentType DEF HasHeader, Buffered, HeaderLen, TypeOK
<1>2. \E j \in DOMAIN wire : wire[j].at = head
  BY <1>t, <1>1 DEF Aligned
<1>3. i \in DOMAIN wire /\ wire[i].at = head /\ f = wire[i].frame
  BY <1>2 DEF HeaderSays
<1>4. head + TotalLen(f) = EndOf(wire[i])
  BY <1>3 DEF EndOf
<1>5. CASE i = Len(wire)
  <2>1. wire # <<>>
    BY <1>3, <1>w, <1>5
  <2>. QED  BY <1>4, <1>5, <2>1 DEF Sent
<1>6. CASE i # Len(wire)
  <2>1. i \in 1 .. Len(wire) - 1 /\ i + 1 \in DOMAIN wire
    BY <1>3, <1>w, <1>6
  <2>2. wire[i+1].at = EndOf(wire[i])
    BY <2>1, <1>t DEF Contiguous
  <2>. QED  BY <1>4, <2>1, <2>2
<1>. QED  BY <1>5, <1>6
-----------------------------------------------------------------------------

\* The invariant holds before anything is sent.
LEMMA InitInv == Init => BufferInv
<1> SUFFICES ASSUME Init PROVE BufferInv
  OBVIOUS
<1>1. wire = <<>> /\ Sent = 0 /\ Len(wire) = 0
  BY DEF Init, Sent
<1>2. TypeOK
  <2>1. /\ wire \in Seq([frame : PeerFrames, at : Nat])
        /\ routed \in Seq([frame : PeerFrames, clean : BOOLEAN])
    BY DEF Init
  <2>2. /\ head \in Nat /\ tail \in Nat /\ head <= tail /\ tail <= Sent
        /\ max_frame_size \in Nat
    BY <1>1, CodecAssumption DEF Init
  <2>3. /\ pc \in {"read", "decode", "ended"} /\ inflated \subseteq 0 .. MaxFrames
        /\ resets \subseteq Nat /\ misread = Nothing
    BY DEF Init
  <2>4. cut \in BOOLEAN
    BY DEF Init
  <2>. QED  BY <2>1, <2>2, <2>3, <2>4, Zenon DEF TypeOK
<1>3. Contiguous /\ Aligned /\ BufferBounded
  BY <1>1, <1>2, CodecAssumption DEF Init, Contiguous, Aligned, BufferBounded, Buffered, HeaderLen
<1>. QED  BY <1>2, <1>3 DEF BufferInv

\* A frame sent is put after the others.
LEMMA PeerSendsInv == BufferInv /\ PeerSends => BufferInv'
<1> SUFFICES ASSUME BufferInv, PeerSends PROVE BufferInv'
  OBVIOUS
<1>t. TypeOK /\ Contiguous /\ Aligned /\ BufferBounded
  BY DEF BufferInv
<1>s. Sent \in Nat
  BY <1>t, SentType
<1> DEFINE S == [frame : PeerFrames, at : Nat]
<1>w. wire \in Seq(S) /\ Len(wire) \in Nat /\ DOMAIN wire = 1 .. Len(wire)
  BY <1>t DEF TypeOK
<1>1. PICK f \in PeerFrames : wire' = Append(wire, [frame |-> f, at |-> Sent])
  BY DEF PeerSends
<1> DEFINE w == [frame |-> f, at |-> Sent]
<1>2. w \in S /\ w.frame = f /\ w.at = Sent
  BY <1>s
<1>3. /\ wire' \in Seq(S) /\ Len(wire') = Len(wire) + 1
      /\ \A i \in 1 .. Len(wire) : wire'[i] = wire[i]
      /\ wire'[Len(wire) + 1] = w
      /\ DOMAIN wire' = 1 .. Len(wire) + 1 /\ wire' # <<>>
  <2> HIDE DEF S, w
  <2>1. wire' = Append(wire, w)
    BY <1>1 DEF w
  <2>. QED  BY <1>w, <1>2, <2>1
<1>4. Sent' = Sent + TotalLen(f) /\ Sent' >= Sent /\ Sent' \in Nat
  <2>1. Sent' = EndOf(wire'[Len(wire')])
    BY <1>3 DEF Sent
  <2>2. EndOf(wire'[Len(wire')]) = Sent + TotalLen(f)
    BY <1>2, <1>3 DEF EndOf
  <2>. QED  BY <2>1, <2>2, <1>s, FrameFacts
<1>5. TypeOK'
  BY <1>t, <1>3, <1>4, <1>s DEF PeerSends, TypeOK
<1>6. Contiguous'
  <2>1. Len(wire') <= MaxFrames
    BY <1>3, <1>w, CodecAssumption DEF PeerSends
  <2>2. wire'[1].at = 0
    <3>1. CASE wire = <<>>
      BY <3>1, <1>2, <1>3 DEF Sent
    <3>2. CASE wire # <<>>
      <4>1. 1 \in 1 .. Len(wire)
        BY <3>2, <1>w
      <4>. QED  BY <3>2, <4>1, <1>3, <1>t DEF Contiguous
    <3>. QED  BY <3>1, <3>2
  <2>3. ASSUME NEW i \in 1 .. Len(wire') - 1
        PROVE  wire'[i+1].at = EndOf(wire'[i])
    <3>1. i \in 1 .. Len(wire) /\ wire'[i] = wire[i]
      BY <1>3, <1>w
    <3>2. CASE i = Len(wire)
      <4>1. wire # <<>> /\ wire'[i+1].at = Sent
        BY <3>1, <3>2, <1>2, <1>3, <1>w
      <4>2. Sent = EndOf(wire[i])
        BY <4>1, <3>2 DEF Sent
      <4>. QED  BY <3>1, <4>1, <4>2
    <3>3. CASE i # Len(wire)
      <4>1. i \in 1 .. Len(wire) - 1 /\ i + 1 \in 1 .. Len(wire)
        BY <3>1, <3>3, <1>w
      <4>2. wire'[i+1] = wire[i+1] /\ wire[i+1].at = EndOf(wire[i])
        BY <4>1, <1>3, <1>t DEF Contiguous
      <4>. QED  BY <3>1, <4>2
    <3>. QED  BY <3>2, <3>3
  <2>4. \A i \in 1 .. Len(wire') - 1 : wire'[i+1].at = EndOf(wire'[i])
    BY <2>3
  <2>5. ASSUME NEW i \in 1 .. Len(wire'), NEW j \in 1 .. Len(wire'), i < j
        PROVE  EndOf(wire'[i]) <= wire'[j].at
    <3>1. i \in 1 .. Len(wire) /\ wire'[i] = wire[i]
      BY <1>3, <1>w, <2>5
    <3>2. CASE j = Len(wire) + 1
      <4>1. wire'[j].at = Sent
        BY <1>2, <1>3, <3>2
      <4>. QED  BY <1>t, <3>1, <4>1, BeforeSent, <1>w
    <3>3. CASE j # Len(wire) + 1
      <4>1. j \in 1 .. Len(wire) /\ wire'[j] = wire[j]
        BY <1>3, <1>w, <3>3
      <4>. QED  BY <1>t, <2>5, <3>1, <4>1, Zenon DEF Contiguous
    <3>. QED  BY <3>2, <3>3
  <2>. QED  BY <2>1, <2>2, <2>4, <2>5 DEF Contiguous, EndOf, TotalLen
<1>7. Aligned'
  <2>1. CASE cut
    BY <2>1 DEF PeerSends, Aligned
  <2>2. CASE ~cut /\ head = Sent
    <3>1. Len(wire) + 1 \in DOMAIN wire' /\ wire'[Len(wire) + 1].at = head'
      BY <2>2, <1>2, <1>3, <1>w DEF PeerSends
    <3>. QED  BY <3>1 DEF Aligned
  <2>3. CASE ~cut /\ \E i \in DOMAIN wire : wire[i].at = head
    BY <2>3, <1>3, <1>w DEF PeerSends, Aligned
  <2>. QED  BY <2>1, <2>2, <2>3, <1>t DEF Aligned
<1>8. BufferBounded'
  BY <1>t DEF PeerSends, BufferBounded, Buffered
<1>. QED  BY <1>5, <1>6, <1>7, <1>8 DEF BufferInv

\* A chunk is read: the buffer grows, and decoding begins.
LEMMA ReadInv == BufferInv /\ (ReadMessage \/ TransportEnds \/ UNCHANGED vars) => BufferInv'
<1> SUFFICES ASSUME BufferInv, ReadMessage \/ TransportEnds \/ UNCHANGED vars PROVE BufferInv'
  OBVIOUS
<1>t. TypeOK /\ Contiguous /\ Aligned /\ BufferBounded
  BY DEF BufferInv
<1>w. wire' = wire /\ head' = head /\ cut' = cut /\ Sent' = Sent
  BY DEF ReadMessage, TransportEnds, vars, Sent
<1>1. tail' \in Nat /\ head' <= tail' /\ tail' <= Sent'
  <2>1. CASE ReadMessage
    <3>1. PICK n \in ChunkSizes : tail + n <= Sent /\ tail' = tail + n
      BY <2>1 DEF ReadMessage
    <3>2. n \in Nat
      BY CodecAssumption
    <3>. QED  BY <3>1, <3>2, <1>w, <1>t, SentType DEF TypeOK
  <2>2. CASE ~ReadMessage
    BY <2>2, <1>w, <1>t DEF TransportEnds, vars, TypeOK
  <2>. QED  BY <2>1, <2>2
<1>2. TypeOK'
  <2>1. pc' \in {"read", "decode", "ended"}
    BY <1>t DEF ReadMessage, TransportEnds, vars, TypeOK
  <2>2. /\ max_frame_size' = max_frame_size /\ inflated' = inflated /\ misread' = misread
        /\ routed' = routed /\ resets' = resets
    BY DEF ReadMessage, TransportEnds, vars
  <2>. QED  BY <1>1, <1>w, <1>t, <2>1, <2>2 DEF TypeOK
<1>3. Contiguous' /\ Aligned'
  BY <1>t, <1>w DEF Contiguous, Aligned
<1>4. BufferBounded'
  BY <1>t DEF ReadMessage, TransportEnds, vars, BufferBounded, Buffered
<1>. QED  BY <1>2, <1>3, <1>4 DEF BufferInv

\* The loop waits only for the rest of a header, or of a frame within its limit.
LEMMA NeedsMoreInv == BufferInv /\ NeedsMore => BufferInv'
<1> SUFFICES ASSUME BufferInv, NeedsMore PROVE BufferInv'
  OBVIOUS
<1>t. TypeOK /\ Contiguous /\ Aligned
  BY DEF BufferInv
<1>w. /\ wire' = wire /\ head' = head /\ tail' = tail /\ cut' = cut /\ Sent' = Sent
      /\ max_frame_size' = max_frame_size /\ pc' = "read" /\ inflated' = inflated
      /\ routed' = routed /\ resets' = resets
  BY DEF NeedsMore, Sent
<1>1. misread' = Nothing \/ misread' \in [at : {head}, frame : PeerFrames]
  BY <1>t DEF NeedsMore, TypeOK
<1>2. TypeOK' /\ Contiguous' /\ Aligned'
  BY <1>t, <1>w, <1>1 DEF TypeOK, Contiguous, Aligned
<1>3. BufferBounded'
  <2>1. head \in Nat /\ tail \in Nat /\ max_frame_size \in Nat
        /\ MAX_CONTROL_FRAME_SIZE \in Nat
    BY <1>t, CodecAssumption DEF TypeOK
  <2>2. CASE ~HasHeader
    BY <2>1, <2>2, <1>w DEF HasHeader, BufferBounded, Buffered, HeaderLen
  <2>3. CASE HasHeader
    <3>1. PICK f \in PeerFrames : ~OverLimit(f, max_frame_size) /\ Buffered < TotalLen(f)
      BY <2>3 DEF NeedsMore
    <3>. QED
      BY <2>1, <3>1, <1>w, FrameFacts DEF OverLimit, TotalLen, BufferBounded, Buffered, HeaderLen
  <2>. QED  BY <2>2, <2>3
<1>. QED  BY <1>2, <1>3 DEF BufferInv

\* An oversized frame is skipped as a whole, or the buffer is cleared and the frame is cut.
LEMMA RejectInv == BufferInv /\ RejectFrame => BufferInv'
<1> SUFFICES ASSUME BufferInv, RejectFrame PROVE BufferInv'
  OBVIOUS
<1>t. TypeOK /\ Contiguous
  BY DEF BufferInv
<1>h. HasHeader /\ head \in Nat /\ tail \in Nat /\ head <= tail
  BY <1>t DEF RejectFrame, TypeOK
<1>w. /\ wire' = wire /\ tail' = tail /\ Sent' = Sent /\ misread' = Nothing
      /\ max_frame_size' = max_frame_size /\ inflated' = inflated
  BY DEF RejectFrame, Sent
<1>1. PICK i \in 0 .. Len(wire), f \in PeerFrames :
        /\ HeaderSays(i, f)
        /\ \/ /\ Buffered >= TotalLen(f)
              /\ head' = head + TotalLen(f)
              /\ resets' \in {resets, resets \cup (IF cut THEN {} ELSE {FirstWord(f)})}
              /\ UNCHANGED <<pc, cut, routed>>
           \/ /\ head' = tail
              /\ cut' = TRUE /\ routed' = <<>> /\ resets' = {}
              /\ pc' = "read"
  BY DEF RejectFrame
<1>2. CASE cut' = TRUE /\ head' = tail /\ routed' = <<>> /\ resets' = {} /\ pc' = "read"
  <2>1. TypeOK'
    <3>1. routed' \in Seq([frame : PeerFrames, clean : BOOLEAN])
      BY <1>2
    <3>2. cut' \in BOOLEAN
      BY <1>2
    <3>3. /\ pc' \in {"read", "decode", "ended"} /\ resets' \subseteq Nat
          /\ head' \in Nat /\ head' <= tail'
      BY <1>2, <1>h, <1>w
    <3>. QED  BY <3>1, <3>2, <3>3, <1>t, <1>w, Zenon DEF TypeOK
  <2>2. Contiguous' /\ Aligned'
    BY <1>2, <1>t, <1>w DEF Contiguous, Aligned
  <2>3. BufferBounded'
    BY <1>2, <1>h, <1>w, <1>t, CodecAssumption DEF BufferBounded, Buffered, HeaderLen, TypeOK
  <2>. QED  BY <2>1, <2>2, <2>3 DEF BufferInv
<1>3. CASE /\ Buffered >= TotalLen(f)
           /\ head' = head + TotalLen(f)
           /\ resets' \in {resets, resets \cup (IF cut THEN {} ELSE {FirstWord(f)})}
           /\ UNCHANGED <<pc, cut, routed>>
  <2>1. TypeOK'
    <3>1. resets' \subseteq Nat
      BY <1>3, <1>t, FrameFacts DEF TypeOK
    <3>2. head' \in Nat /\ head' <= tail'
      BY <1>3, <1>h, <1>w, FrameFacts DEF Buffered
    <3>. QED  BY <1>3, <3>1, <3>2, <1>t, <1>w, Zenon DEF TypeOK
  <2>2. Contiguous'
    BY <1>t, <1>w DEF Contiguous
  <2>3. Aligned'
    BY <1>1, <1>3, <1>h, <1>w, NextFrame DEF Aligned
  <2>4. BufferBounded'
    BY <1>3 DEF RejectFrame, BufferBounded
  <2>. QED  BY <2>1, <2>2, <2>3, <2>4 DEF BufferInv
<1>. QED  BY <1>1, <1>2, <1>3

\* A whole frame is taken off the buffer, whether it decodes or not.
LEMMA TakeInv == BufferInv /\ (RouteFrame \/ DecodeFails) => BufferInv'
<1> SUFFICES ASSUME BufferInv, RouteFrame \/ DecodeFails PROVE BufferInv'
  OBVIOUS
<1>t. TypeOK /\ Contiguous
  BY DEF BufferInv
<1>h. HasHeader /\ head \in Nat /\ tail \in Nat
  BY <1>t DEF RouteFrame, DecodeFails, TypeOK
<1>w. /\ wire' = wire /\ tail' = tail /\ Sent' = Sent /\ misread' = Nothing
      /\ cut' = cut /\ resets' = resets /\ pc' \in {"decode", "ended"}
  BY DEF RouteFrame, DecodeFails, Sent
<1>1. PICK i \in 0 .. Len(wire), f \in PeerFrames :
        /\ HeaderSays(i, f)
        /\ Buffered >= TotalLen(f)
        /\ head' = head + TotalLen(f)
        /\ inflated' \in {inflated, Inflate(i, f)}
        /\ max_frame_size' \in {max_frame_size, MaxFrameSizeOf(f, max_frame_size)}
        /\ routed' \in {routed, Append(routed, [frame |-> f,
                                                clean |-> HasBlock(f) => InContext(i)])}
  BY DEF RouteFrame, DecodeFails
<1>2. head' \in Nat /\ head' <= tail'
  BY <1>1, <1>h, <1>w, FrameFacts DEF Buffered
<1>3. inflated' \subseteq 0 .. MaxFrames
  <2>1. i \in 0 .. MaxFrames
    BY <1>t, CodecAssumption DEF Contiguous, TypeOK
  <2>. QED  BY <1>1, <2>1, <1>t DEF Inflate, TypeOK
<1>4. max_frame_size' \in Nat
  BY <1>1, <1>t, LimitType DEF TypeOK
<1>5. routed' \in Seq([frame : PeerFrames, clean : BOOLEAN])
  <2> DEFINE S == [frame : PeerFrames, clean : BOOLEAN]
             x == [frame |-> f, clean |-> HasBlock(f) => InContext(i)]
  <2>1. (HasBlock(f) => InContext(i)) \in BOOLEAN
    OBVIOUS
  <2>2. x \in S
    BY <2>1
  <2>3. routed' \in {routed, Append(routed, x)} /\ routed \in Seq(S)
    BY <1>1, <1>t DEF TypeOK
  <2> HIDE DEF x, S
  <2>4. routed' \in Seq(S)
    BY <2>2, <2>3
  <2>. QED  BY <2>4 DEF S
<1>6. TypeOK'
  <2>1. pc' \in {"read", "decode", "ended"}
    BY <1>w
  <2>. QED  BY <1>2, <1>3, <1>4, <1>5, <2>1, <1>t, <1>w, Zenon DEF TypeOK
<1>7. Contiguous'
  BY <1>t, <1>w DEF Contiguous
<1>8. Aligned'
  BY <1>1, <1>h, <1>w, NextFrame DEF Aligned
<1>9. BufferBounded'
  BY <1>w DEF BufferBounded
<1>. QED  BY <1>6, <1>7, <1>8, <1>9 DEF BufferInv

-----------------------------------------------------------------------------
(* What the reader has done with the frames that arrived *)

\* Induction along an interval.
LEMMA UpTo ==
  ASSUME NEW n \in Nat, NEW T, 0 \in T, \A i \in 0 .. n-1 : i \in T => i+1 \in T
  PROVE  \A i \in 0 .. n : i \in T
<1> DEFINE U == {i \in 0 .. n : i \notin T}
<1> SUFFICES ASSUME U # {} PROVE FALSE
  OBVIOUS
<1>1. U \subseteq Nat
  OBVIOUS
<1>2. PICK x \in U : \A y \in U : ~ (<<y, x>> \in OpToRel(<, Nat))
  BY <1>1, NatLessThanWellFounded, WFMin, Zenon
<1>3. \A y \in U : ~ (y < x)
  BY <1>1, <1>2 DEF OpToRel
<1>4. x \in 1 .. n /\ x \notin T
  OBVIOUS
<1>5. x - 1 \in 0 .. n-1 /\ x - 1 \notin U
  BY <1>3, <1>4
<1>. QED  BY <1>4, <1>5

\* What is made of the frames is made of them one by one.
LEMMA AcceptedSteps ==
  ASSUME NEW S, NEW ws \in Seq(S)
  PROVE  /\ Accepted(ws)[0] =
              [frames |-> <<>>, rejected |-> {}, max |-> ConfiguredMaxFrameSize]
         /\ \A n \in 1 .. Len(ws) :
              Accepted(ws)[n] = Accept(Accepted(ws)[n - 1], ws[n].frame)
<1> DEFINE start == [frames |-> <<>>, rejected |-> {}, max |-> ConfiguredMaxFrameSize]
           Steps(f, n) ==
             f = [i \in 0 .. n |-> IF i = 0 THEN start ELSE Accept(f[i - 1], ws[i].frame)]
           T == {n \in 0 .. Len(ws) : \E f : Steps(f, n)}
<1>n. Len(ws) \in Nat
  OBVIOUS
<1>s. Accepted(ws) = CHOOSE f : Steps(f, Len(ws))
  BY Zenon DEF Accepted
<1> HIDE DEF start
<1>1. 0 \in T
  <2>1. Steps([i \in 0 .. 0 |-> start], 0)
    <3>1. \A i \in 0 .. 0 : i = 0
      OBVIOUS
    <3>. QED  BY <3>1, Zenon
  <2> HIDE DEF Steps
  <2>. QED  BY <2>1, <1>n
<1>2. ASSUME NEW n \in 0 .. Len(ws) - 1, n \in T  PROVE n + 1 \in T
  <2>1. PICK f : Steps(f, n)
    BY <1>2
  <2>2. \A i \in 0 .. n : f[i] = IF i = 0 THEN start ELSE Accept(f[i - 1], ws[i].frame)
    BY <2>1, Zenon
  <2> DEFINE g == [i \in 0 .. n + 1 |-> IF i <= n THEN f[i]
                                        ELSE Accept(f[n], ws[n + 1].frame)]
  <2>3. /\ \A i \in 0 .. n : i <= n /\ i \in 0 .. n + 1
        /\ ~(n + 1 <= n) /\ n + 1 \in 0 .. n + 1 /\ (n + 1) - 1 = n /\ n + 1 # 0 /\ n \in 0 .. n
    BY <1>n
  <2>4. (\A i \in 0 .. n : g[i] = f[i]) /\ g[n + 1] = Accept(f[n], ws[n + 1].frame)
    BY <2>3, Zenon
  <2>5. ASSUME NEW i \in 0 .. n + 1
        PROVE  g[i] = IF i = 0 THEN start ELSE Accept(g[i - 1], ws[i].frame)
    <3>1. CASE i = 0
      <4>1. 0 \in 0 .. n
        BY <1>n
      <4>. QED  BY <2>2, <2>4, <3>1, <4>1, Zenon
    <3>2. CASE i \in 1 .. n
      <4>1. i \in 0 .. n /\ i - 1 \in 0 .. n /\ i # 0
        BY <1>n, <3>2
      <4>. QED  BY <2>2, <2>4, <4>1, Zenon
    <3>3. CASE i = n + 1
      BY <2>3, <2>4, <3>3, Zenon
    <3>4. i = 0 \/ i \in 1 .. n \/ i = n + 1
      BY <1>n
    <3>. QED  BY <3>1, <3>2, <3>3, <3>4, Zenon
  <2>6. Steps(g, n + 1)
    <3>1. g = [i \in 0 .. n + 1 |-> g[i]]
      BY Zenon
    <3> HIDE DEF g
    <3>. QED  BY <2>5, <3>1, Zenon
  <2> HIDE DEF Steps, g
  <2>7. n + 1 \in 0 .. Len(ws)
    BY <1>n
  <2>. QED  BY <2>6, <2>7, Zenon
<1>3. Len(ws) \in T
  <2> HIDE DEF T
  <2>1. \A i \in 0 .. Len(ws) : i \in T
    BY <1>1, <1>2, <1>n, UpTo, Zenon
  <2>2. Len(ws) \in 0 .. Len(ws)
    BY <1>n
  <2>. QED  BY <2>1, <2>2, Zenon
<1>4. Steps(Accepted(ws), Len(ws))
  <2>1. \E f : Steps(f, Len(ws))
    BY <1>3, Zenon
  <2> HIDE DEF Steps
  <2>. QED  BY <1>s, <2>1, Zenon
<1>5. \A i \in 0 .. Len(ws) :
        Accepted(ws)[i] = IF i = 0 THEN start ELSE Accept(Accepted(ws)[i - 1], ws[i].frame)
  <2> DEFINE a == Accepted(ws)
  <2>1. a = [i \in 0 .. Len(ws) |-> IF i = 0 THEN start ELSE Accept(a[i - 1], ws[i].frame)]
    BY <1>4, Zenon
  <2> HIDE DEF a
  <2>2. \A i \in 0 .. Len(ws) : a[i] = IF i = 0 THEN start ELSE Accept(a[i - 1], ws[i].frame)
    BY <2>1, Zenon
  <2>. QED  BY <2>2, Zenon DEF a
<1>6. /\ 0 \in 0 .. Len(ws)
      /\ \A n \in 1 .. Len(ws) : n \in 0 .. Len(ws) /\ n # 0
  BY <1>n
<1>. QED  BY <1>5, <1>6, Zenon DEF start

\* Places of the frames: a frame begins before it ends, and they do not overlap.
LEMMA Places ==
  ASSUME BufferInv
  PROVE  /\ wire \in Seq([frame : PeerFrames, at : Nat]) /\ Len(wire) \in Nat
         /\ DOMAIN wire = 1 .. Len(wire) /\ Sent \in Nat
         /\ \A i \in 1 .. Len(wire) :
              /\ wire[i].frame \in PeerFrames /\ wire[i].at \in Nat /\ EndOf(wire[i]) \in Nat
              /\ wire[i].at + 8 <= EndOf(wire[i]) /\ EndOf(wire[i]) <= Sent
         /\ \A i, j \in 1 .. Len(wire) : i < j => EndOf(wire[i]) <= wire[j].at
<1>1. TypeOK /\ Contiguous
  BY Zenon DEF BufferInv
<1>2. /\ wire \in Seq([frame : PeerFrames, at : Nat]) /\ Len(wire) \in Nat
      /\ DOMAIN wire = 1 .. Len(wire)
  BY <1>1 DEF TypeOK
<1>3. Sent \in Nat
  BY <1>1, SentType, Zenon
<1>4. ASSUME NEW i \in 1 .. Len(wire)
      PROVE  /\ wire[i].frame \in PeerFrames /\ wire[i].at \in Nat /\ EndOf(wire[i]) \in Nat
             /\ wire[i].at + 8 <= EndOf(wire[i]) /\ EndOf(wire[i]) <= Sent
  <2>1. wire[i].frame \in PeerFrames /\ wire[i].at \in Nat /\ EndOf(wire[i]) \in Nat
    BY <1>1, <1>2, WireFacts, Zenon
  <2>2. EndOf(wire[i]) <= Sent
    BY <1>1, BeforeSent, Zenon
  <2>3. wire[i].at + 8 <= EndOf(wire[i])
    <3>1. TotalLen(wire[i].frame) \in Nat /\ TotalLen(wire[i].frame) >= 8
      BY <2>1, FrameFacts, Zenon
    <3>2. EndOf(wire[i]) = wire[i].at + TotalLen(wire[i].frame)
      BY Zenon DEF EndOf
    <3>. QED  BY <2>1, <3>1, <3>2
  <2>. QED  BY <2>1, <2>2, <2>3, Zenon
<1>5. \A i, j \in 1 .. Len(wire) : i < j => EndOf(wire[i]) <= wire[j].at
  BY <1>1, Zenon DEF Contiguous
<1>. QED  BY <1>2, <1>3, <1>4, <1>5, Zenon

\* What stands at the front of the buffer once k frames are done with: the next one, whose
\* end is where k + 1 frames end.
LEMMA Front ==
  ASSUME BufferInv, HasHeader, NEW k \in 0 .. Len(wire), head = Border(k),
         NEW i \in 0 .. Len(wire), NEW f \in PeerFrames, HeaderSays(i, f)
  PROVE  /\ i = k + 1 /\ k + 1 \in 1 .. Len(wire) /\ k < Len(wire) /\ f = wire[k+1].frame
         /\ head + TotalLen(f) = EndOf(wire[k+1]) /\ head + TotalLen(f) = Border(k+1)
<1>p. /\ Len(wire) \in Nat /\ DOMAIN wire = 1 .. Len(wire) /\ Sent \in Nat
      /\ \A j \in 1 .. Len(wire) :
           /\ wire[j].frame \in PeerFrames /\ wire[j].at \in Nat /\ EndOf(wire[j]) \in Nat
           /\ wire[j].at + 8 <= EndOf(wire[j]) /\ EndOf(wire[j]) <= Sent
      /\ \A l, j \in 1 .. Len(wire) : l < j => EndOf(wire[l]) <= wire[j].at
  BY Places, Zenon
<1>h. head \in Nat /\ head < Sent
  <2>1. head \in Nat /\ tail \in Nat /\ tail <= Sent
    BY Zenon DEF BufferInv, TypeOK
  <2>2. tail - head >= 8
    BY Zenon DEF HasHeader, Buffered, HeaderLen
  <2>. QED  BY <1>p, <2>1, <2>2
<1>1. k # Len(wire)
  BY <1>h DEF Border
<1>l. Len(wire) \in Nat
  BY <1>p, Zenon
<1>2. k + 1 \in 1 .. Len(wire) /\ k < Len(wire)
  BY <1>1, <1>l
<1>3. wire[k+1].at = head
  BY <1>1, Zenon DEF Border
<1>4. i \in 1 .. Len(wire) /\ wire[i].at = head /\ f = wire[i].frame
  BY <1>2, <1>3, <1>p, Zenon DEF HeaderSays
<1>5. i = k + 1
  <2>1. ~(i < k + 1)
    <3>1. i < k + 1 => EndOf(wire[i]) <= wire[k+1].at
      BY <1>2, <1>4, <1>p, Zenon
    <3>2. wire[i].at + 8 <= EndOf(wire[i]) /\ EndOf(wire[i]) \in Nat
      BY <1>4, <1>p, Zenon
    <3>. QED  BY <1>h, <1>3, <1>4, <3>1, <3>2
  <2>2. ~(k + 1 < i)
    <3>1. k + 1 < i => EndOf(wire[k+1]) <= wire[i].at
      BY <1>2, <1>4, <1>p, Zenon
    <3>2. wire[k+1].at + 8 <= EndOf(wire[k+1]) /\ EndOf(wire[k+1]) \in Nat
      BY <1>2, <1>p, Zenon
    <3>. QED  BY <1>h, <1>3, <1>4, <3>1, <3>2
  <2>. QED  BY <2>1, <2>2
<1>6. f = wire[k+1].frame /\ head + TotalLen(f) = EndOf(wire[k+1])
  BY <1>3, <1>4, <1>5, Zenon DEF EndOf
<1>7. EndOf(wire[k+1]) = Border(k+1)
  <2>1. CASE k + 1 = Len(wire)
    <3>1. wire # <<>>
      BY <1>2, <2>1
    <3>. QED  BY <2>1, <3>1, Zenon DEF Border, Sent
  <2>2. CASE k + 1 # Len(wire)
    <3>1. k + 1 \in 1 .. Len(wire) - 1
      BY <1>2, <2>2, <1>l
    <3>2. wire[(k+1)+1].at = EndOf(wire[k+1])
      BY <3>1, Zenon DEF BufferInv, Contiguous
    <3>. QED  BY <2>2, <3>2, Zenon DEF Border
  <2>. QED  BY <2>1, <2>2
<1>. QED  BY <1>2, <1>5, <1>6, <1>7, Zenon

\* The blocks among one frame more.
LEMMA Blocks ==
  ASSUME NEW k \in Nat
  PROVE  {j \in 1 .. k + 1 : HasBlock(wire[j].frame)} =
           IF HasBlock(wire[k+1].frame)
           THEN {j \in 1 .. k : HasBlock(wire[j].frame)} \cup {k + 1}
           ELSE {j \in 1 .. k : HasBlock(wire[j].frame)}
<1>1. \A j : j \in 1 .. k + 1 <=> j \in 1 .. k \/ j = k + 1
  OBVIOUS
<1>. QED  BY <1>1, Zenon

\* The frames of a log one entry longer.
LEMMA OneMore ==
  ASSUME NEW q \in Seq([frame : PeerFrames, clean : BOOLEAN]),
         NEW x \in [frame : PeerFrames, clean : BOOLEAN]
  PROVE  [n \in DOMAIN Append(q, x) |-> Append(q, x)[n].frame] =
           Append([n \in DOMAIN q |-> q[n].frame], x.frame)
<1> DEFINE E == [frame : PeerFrames, clean : BOOLEAN]
           l == Len(q)
           r == Append(q, x)
           names == [n \in DOMAIN q |-> q[n].frame]
<1>1. l \in Nat /\ DOMAIN q = 1 .. l
  OBVIOUS
<1>2. /\ DOMAIN r = 1 .. l + 1 /\ r[l + 1] = x
      /\ \A n \in 1 .. l : r[n] = q[n]
  <2> HIDE DEF E
  <2>1. q \in Seq(E) /\ x \in E
    BY DEF E
  <2>. QED  BY <2>1
<1>3. \A n \in 1 .. l : q[n].frame \in PeerFrames
  <2>1. \A n \in 1 .. l : q[n] \in E
    <3> HIDE DEF E
    <3>1. q \in Seq(E)
      BY DEF E
    <3>. QED  BY <3>1
  <2>. QED  BY <2>1
<1>4. names \in Seq(PeerFrames) /\ Len(names) = l /\ \A n \in 1 .. l : names[n] = q[n].frame
  <2>1. names = [n \in 1 .. l |-> q[n].frame]
    BY <1>1, Zenon
  <2> HIDE DEF l, names
  <2>. QED  BY <1>1, <1>3, <2>1
<1>5. /\ Append(names, x.frame) = [n \in 1 .. l + 1 |-> IF n <= l THEN q[n].frame ELSE x.frame]
  <2>1. x.frame \in PeerFrames
    OBVIOUS
  <2> HIDE DEF l, names
  <2>. QED  BY <1>1, <1>4, <2>1
<1>6. [n \in DOMAIN r |-> r[n].frame] =
        [n \in 1 .. l + 1 |-> IF n <= l THEN q[n].frame ELSE x.frame]
  <2> HIDE DEF l, r
  <2>1. ASSUME NEW n \in 1 .. l + 1
        PROVE  r[n].frame = IF n <= l THEN q[n].frame ELSE x.frame
    <3>1. CASE n <= l
      <4>1. n \in 1 .. l
        BY <1>1, <3>1
      <4>. QED  BY <1>2, <3>1, <4>1, Zenon
    <3>2. CASE ~(n <= l)
      <4>1. n = l + 1
        BY <1>1, <3>2
      <4>. QED  BY <1>2, <3>2, <4>1, Zenon
    <3>. QED  BY <3>1, <3>2
  <2>. QED  BY <1>2, <2>1, Zenon
<1>. QED  BY <1>5, <1>6, Zenon

\* What makes the reader stand after m frames, in the middle of its loop.
LEMMA StandsAfter ==
  ASSUME NEW m \in 0 .. Len(wire), wire' = wire, head' = Border(m), pc' = "decode",
         [n \in DOMAIN routed' |-> routed'[n].frame] = Accepted(wire)[m].frames,
         resets' \subseteq Accepted(wire)[m].rejected,
         max_frame_size' = Accepted(wire)[m].max,
         Unusual \/ inflated' = {j \in 1 .. m : HasBlock(wire[j].frame)}
  PROVE  InStep'
<1>0. Unusual' <=> Unusual
  BY Zenon DEF Unusual
<1>1. Border(m)' = Border(m)
  BY Zenon DEF Border, Sent
<1>2. "decode" # "read"
  OBVIOUS
<1>3. InStepWith(m)'
  BY <1>0, <1>1, <1>2, Zenon DEF InStepWith
<1>. QED  BY <1>3, Zenon DEF InStep

\* How the reader stands at the front of a frame within its loop, unless one was cut.
LEMMA AtFrame ==
  ASSUME BufferInv, InStep, ~cut, pc = "decode", HasHeader,
         NEW i \in 0 .. Len(wire), NEW f \in PeerFrames, HeaderSays(i, f)
  PROVE  \E k \in 0 .. Len(wire) :
           /\ InStepWith(k) /\ i = k + 1 /\ i \in 1 .. Len(wire) /\ f = wire[i].frame
           /\ k \in Nat /\ head + TotalLen(f) = Border(i)
           /\ Accepted(wire)[i] = Accept(Accepted(wire)[k], f)
<1>1. "decode" # "ended"
  OBVIOUS
<1>2. PICK k \in 0 .. Len(wire) : InStepWith(k)
  BY <1>1, Zenon DEF InStep
<1>3. head = Border(k)
  BY <1>2, Zenon DEF InStepWith
<1>4. /\ i = k + 1 /\ k + 1 \in 1 .. Len(wire) /\ f = wire[k+1].frame
      /\ head + TotalLen(f) = Border(k+1)
  BY <1>3, Front, Zenon
<1>5. wire \in Seq([frame : PeerFrames, at : Nat])
  BY Places, Zenon
<1>6. \A n \in 1 .. Len(wire) : Accepted(wire)[n] = Accept(Accepted(wire)[n - 1], wire[n].frame)
  BY <1>5, AcceptedSteps, Zenon
<1>7. (k + 1) - 1 = k /\ k \in Nat
  OBVIOUS
<1>8. Accepted(wire)[k+1] = Accept(Accepted(wire)[k], wire[k+1].frame)
  BY <1>4, <1>6, <1>7, Zenon
<1>. QED  BY <1>2, <1>4, <1>7, <1>8, Zenon

\* A frame that is routed is one that Accepted accepts, and its block is the next one
\* (reader.rs:161-178).
LEMMA RouteInStep ==
  ASSUME BufferInv, InStep, HeadersInContext, RouteFrame
  PROVE  InStep' /\ HeadersInContext'
<1>w. wire' = wire /\ cut' = cut /\ pc = "decode" /\ pc' = "decode" /\ resets' = resets
      /\ HasHeader
  BY Zenon DEF RouteFrame
<1>u. Unusual' <=> Unusual
  BY <1>w, Zenon DEF Unusual
<1>1. PICK i \in 0 .. Len(wire), f \in PeerFrames :
        /\ HeaderSays(i, f) /\ ~OverLimit(f, max_frame_size)
        /\ head' = head + TotalLen(f)
        /\ inflated' = Inflate(i, f)
        /\ routed' = IF cut THEN routed
                     ELSE Append(routed, [frame |-> f, clean |-> HasBlock(f) => InContext(i)])
        /\ max_frame_size' = MaxFrameSizeOf(f, max_frame_size)
  BY Zenon DEF RouteFrame
<1>2. CASE cut
  <2>1. InStep'
    BY <1>w, <1>2, Zenon DEF InStep
  <2>2. routed' = routed
    BY <1>1, <1>2, Zenon
  <2>3. HeadersInContext'
    BY <1>w, <2>2, Zenon DEF HeadersInContext
  <2>. QED  BY <2>1, <2>3
<1>3. CASE ~cut
  <2> DEFINE c == HasBlock(f) => InContext(i)
             x == [frame |-> f, clean |-> c]
             E == [frame : PeerFrames, clean : BOOLEAN]
  <2>0. routed' = Append(routed, x)
    BY <1>1, <1>3, Zenon
  <2>1. PICK k \in 0 .. Len(wire) :
          /\ InStepWith(k) /\ i = k + 1 /\ i \in 1 .. Len(wire) /\ f = wire[i].frame
          /\ k \in Nat /\ head + TotalLen(f) = Border(i)
          /\ Accepted(wire)[i] = Accept(Accepted(wire)[k], f)
    BY <1>w, <1>1, <1>3, AtFrame, Zenon
  <2>2. /\ [n \in DOMAIN routed |-> routed[n].frame] = Accepted(wire)[k].frames
        /\ resets \subseteq Accepted(wire)[k].rejected
        /\ max_frame_size = Accepted(wire)[k].max
        /\ Unusual \/ inflated = {j \in 1 .. k : HasBlock(wire[j].frame)}
    BY <2>1, Zenon DEF InStepWith
  <2>3. Accepted(wire)[i] = [frames |-> Append(Accepted(wire)[k].frames, f),
                             max |-> MaxFrameSizeOf(f, max_frame_size),
                             rejected |-> Accepted(wire)[k].rejected]
    BY <1>1, <2>1, <2>2, Zenon DEF Accept
  <2>4. /\ Accepted(wire)[i].frames = Append(Accepted(wire)[k].frames, f)
        /\ Accepted(wire)[i].max = MaxFrameSizeOf(f, max_frame_size)
        /\ Accepted(wire)[i].rejected = Accepted(wire)[k].rejected
    BY <2>3
  <2>5. routed \in Seq(E)
    BY Zenon DEF BufferInv, TypeOK
  <2>6. c \in BOOLEAN
    OBVIOUS
  <2>7. x \in E /\ x.frame = f /\ x.clean = c
    <3> HIDE DEF c
    <3>. QED  BY <2>6
  <2>8. [n \in DOMAIN routed' |-> routed'[n].frame] = Accepted(wire)[i].frames
    <3> HIDE DEF x
    <3>1. [n \in DOMAIN Append(routed, x) |-> Append(routed, x)[n].frame] =
            Append([n \in DOMAIN routed |-> routed[n].frame], x.frame)
      <4>1. routed \in Seq(E) /\ x \in E
        BY <2>5, <2>7, Zenon
      <4>. QED  BY <4>1, OneMore, Zenon
    <3>. QED  BY <2>0, <2>2, <2>4, <2>7, <3>1, Zenon
  <2>9. Unusual \/ inflated' = {j \in 1 .. i : HasBlock(wire[j].frame)}
    <3>1. inflated' = IF HasBlock(f) THEN inflated \cup {i} ELSE inflated
      BY <1>1, Zenon DEF Inflate
    <3>. QED  BY <2>1, <2>2, <3>1, Blocks, Zenon
  <2>10. i \in 0 .. Len(wire) /\ head' = Border(i)
    BY <1>1, <2>1, Zenon
  <2>11. InStep'
    BY <1>w, <1>1, <2>2, <2>4, <2>8, <2>9, <2>10, StandsAfter, Zenon
  <2>12. Unusual \/ c
    <3>1. i > 0 /\ i - 1 = k
      BY <2>1
    <3>. QED  BY <2>2, <3>1, Zenon DEF InContext
  <2>13. HeadersInContext'
    <3>1. CASE Unusual
      BY <1>u, <3>1, Zenon DEF HeadersInContext, Unusual
    <3>2. CASE ~Unusual
      <4>1. \A n \in DOMAIN routed : routed[n].clean
        BY <3>2, Zenon DEF HeadersInContext, Unusual
      <4>2. x.clean
        BY <2>7, <2>12, <3>2, Zenon
      <4>3. \A n \in DOMAIN routed' :
              routed'[n] = x \/ (n \in DOMAIN routed /\ routed'[n] = routed[n])
        <5> HIDE DEF x, E
        <5>. QED  BY <2>0, <2>5, <2>7
      <4>. QED  BY <4>1, <4>2, <4>3, Zenon DEF HeadersInContext
    <3>. QED  BY <3>1, <3>2
  <2>. QED  BY <2>11, <2>13
<1>. QED  BY <1>2, <1>3

\* An oversized frame that is there as a whole is skipped, as Accepted does, and one that is
\* not ends what is said of the reader (reader.rs:179-204).
LEMMA RejectInStep ==
  ASSUME BufferInv, InStep, HeadersInContext, RejectFrame
  PROVE  InStep' /\ HeadersInContext'
<1>w. wire' = wire /\ pc = "decode" /\ max_frame_size' = max_frame_size
      /\ inflated' = inflated /\ HasHeader
  BY Zenon DEF RejectFrame
<1>1. PICK i \in 0 .. Len(wire), f \in PeerFrames :
        /\ HeaderSays(i, f) /\ OverLimit(f, max_frame_size)
        /\ \/ /\ head' = head + TotalLen(f)
              /\ resets' \in {resets, resets \cup (IF cut THEN {} ELSE {FirstWord(f)})}
              /\ UNCHANGED <<pc, cut, routed>>
           \/ cut' = TRUE /\ routed' = <<>>
  BY Zenon DEF RejectFrame
<1>2. CASE cut' = TRUE /\ routed' = <<>>
  <2>1. InStep'
    BY <1>2, Zenon DEF InStep
  <2>2. DOMAIN routed' = {}
    BY <1>2
  <2>3. HeadersInContext'
    BY <2>2, Zenon DEF HeadersInContext
  <2>. QED  BY <2>1, <2>3
<1>3. CASE /\ head' = head + TotalLen(f)
           /\ resets' \in {resets, resets \cup (IF cut THEN {} ELSE {FirstWord(f)})}
           /\ UNCHANGED <<pc, cut, routed>>
  <2>0. pc' = pc /\ cut' = cut /\ routed' = routed
    BY <1>3
  <2>1. HeadersInContext'
    BY <1>w, <2>0, Zenon DEF HeadersInContext
  <2>2. CASE cut
    BY <2>0, <2>1, <2>2, Zenon DEF InStep
  <2>3. CASE ~cut
    <3>1. PICK k \in 0 .. Len(wire) :
            /\ InStepWith(k) /\ i = k + 1 /\ i \in 1 .. Len(wire) /\ f = wire[i].frame
            /\ k \in Nat /\ head + TotalLen(f) = Border(i)
            /\ Accepted(wire)[i] = Accept(Accepted(wire)[k], f)
      BY <1>w, <1>1, <2>3, AtFrame, Zenon
    <3>2. /\ [n \in DOMAIN routed |-> routed[n].frame] = Accepted(wire)[k].frames
          /\ resets \subseteq Accepted(wire)[k].rejected
          /\ max_frame_size = Accepted(wire)[k].max
          /\ Unusual \/ inflated = {j \in 1 .. k : HasBlock(wire[j].frame)}
      BY <3>1, Zenon DEF InStepWith
    <3>3. Accepted(wire)[i] = [frames |-> Accepted(wire)[k].frames, max |-> Accepted(wire)[k].max,
                               rejected |-> Accepted(wire)[k].rejected \cup {FirstWord(f)}]
      BY <1>1, <3>1, <3>2, Zenon DEF Accept
    <3>4. /\ Accepted(wire)[i].frames = Accepted(wire)[k].frames
          /\ Accepted(wire)[i].max = Accepted(wire)[k].max
          /\ Accepted(wire)[i].rejected = Accepted(wire)[k].rejected \cup {FirstWord(f)}
      BY <3>3
    <3>5. resets' \subseteq Accepted(wire)[i].rejected
      BY <1>3, <2>3, <3>2, <3>4, Zenon
    <3>6. Unusual \/ inflated' = {j \in 1 .. i : HasBlock(wire[j].frame)}
      <4>1. CASE HasBlock(f)
        <5>1. OverLimit(f, 0)
          BY <1>1, <4>1 DEF OverLimit, HasBlock
        <5>2. i \in DOMAIN wire
          BY <3>1, Places, Zenon
        <5>. QED  BY <3>1, <4>1, <5>1, <5>2, Zenon DEF Unusual
      <4>2. CASE ~HasBlock(f)
        BY <1>w, <3>1, <3>2, <4>2, Blocks, Zenon
      <4>. QED  BY <4>1, <4>2
    <3>7. i \in 0 .. Len(wire) /\ head' = Border(i) /\ pc' = "decode"
      BY <1>w, <1>3, <2>0, <3>1, Zenon
    <3>8. /\ [n \in DOMAIN routed' |-> routed'[n].frame] = Accepted(wire)[i].frames
          /\ max_frame_size' = Accepted(wire)[i].max
      BY <1>w, <2>0, <3>2, <3>4, Zenon
    <3>9. InStep'
      BY <1>w, <3>5, <3>6, <3>7, <3>8, StandsAfter, Zenon
    <3>. QED  BY <2>1, <3>9
  <2>. QED  BY <2>2, <2>3
<1>. QED  BY <1>1, <1>2, <1>3

\* When the loop ends for lack of bytes, the frame after those done with is not there yet
\* (codec.rs:260, 288).
LEMMA WaitInStep ==
  ASSUME BufferInv, InStep, HeadersInContext, NeedsMore
  PROVE  InStep' /\ HeadersInContext'
<1>w. /\ wire' = wire /\ head' = head /\ tail' = tail /\ cut' = cut /\ pc = "decode"
      /\ max_frame_size' = max_frame_size /\ pc' = "read" /\ inflated' = inflated
      /\ routed' = routed /\ resets' = resets
  BY Zenon DEF NeedsMore
<1>1. HeadersInContext'
  BY <1>w, Zenon DEF HeadersInContext
<1>2. InStep'
  <2> SUFFICES ASSUME ~cut PROVE InStep'
    BY <1>w, Zenon DEF InStep
  <2>0. "decode" # "ended"
    OBVIOUS
  <2>1. PICK k \in 0 .. Len(wire) : InStepWith(k)
    BY <1>w, <2>0, Zenon DEF InStep
  <2>h. head = Border(k)
    BY <2>1, Zenon DEF InStepWith
  <2>t. head \in Nat /\ tail \in Nat
    BY Zenon DEF BufferInv, TypeOK
  <2>2. ASSUME k < Len(wire) PROVE tail < EndOf(wire[k+1])
    <3>1. k # Len(wire) /\ k + 1 \in 1 .. Len(wire)
      <4>1. Len(wire) \in Nat
        BY Places, Zenon
      <4>. QED  BY <2>2, <4>1
    <3>2. head = wire[k+1].at
      BY <2>h, <3>1, Zenon DEF Border
    <3>3. CASE ~HasHeader
      <4>1. ~(tail - head >= 8)
        BY <3>3, Zenon DEF HasHeader, Buffered, HeaderLen
      <4>2. wire[k+1].at + 8 <= EndOf(wire[k+1]) /\ EndOf(wire[k+1]) \in Nat
        BY <3>1, Places, Zenon
      <4>. QED  BY <2>t, <3>2, <4>1, <4>2
    <3>4. CASE HasHeader
      <4>1. PICK i \in 0 .. Len(wire), f \in PeerFrames :
              HeaderSays(i, f) /\ Buffered < TotalLen(f)
        BY <3>4, Zenon DEF NeedsMore
      <4>2. head + TotalLen(f) = EndOf(wire[k+1])
        BY <2>h, <3>4, <4>1, Front, Zenon
      <4>3. tail - head < TotalLen(f) /\ TotalLen(f) \in Nat
        BY <4>1, FrameFacts, Zenon DEF Buffered
      <4>. QED  BY <2>t, <4>2, <4>3
    <3>. QED  BY <3>3, <3>4
  <2>3. InStepWith(k)'
    <3>1. Border(k)' = Border(k) /\ (Unusual' <=> Unusual)
      BY <1>w, Zenon DEF Border, Sent, Unusual
    <3>2. /\ [n \in DOMAIN routed |-> routed[n].frame] = Accepted(wire)[k].frames
          /\ resets \subseteq Accepted(wire)[k].rejected
          /\ max_frame_size = Accepted(wire)[k].max
          /\ Unusual \/ inflated = {j \in 1 .. k : HasBlock(wire[j].frame)}
      BY <2>1, Zenon DEF InStepWith
    <3>3. k < Len(wire) => tail' < EndOf(wire'[k+1])
      BY <1>w, <2>2, Zenon
    <3>. QED  BY <1>w, <2>h, <3>1, <3>2, <3>3, Zenon DEF InStepWith, EndOf
  <2>. QED  BY <1>w, <2>3, Zenon DEF InStep
<1>. QED  BY <1>1, <1>2

\* More bytes, the end of the transport and a frame that does not decode leave what the
\* reader has done as it is.
LEMMA ReadInStep ==
  ASSUME BufferInv, InStep, HeadersInContext,
         ReadMessage \/ TransportEnds \/ DecodeFails \/ UNCHANGED vars
  PROVE  InStep' /\ HeadersInContext'
<1>w. wire' = wire /\ routed' = routed
  BY Zenon DEF ReadMessage, TransportEnds, DecodeFails, vars
<1>1. HeadersInContext'
  BY <1>w, Zenon DEF HeadersInContext
<1>2. CASE UNCHANGED vars
  <2>1. /\ head' = head /\ tail' = tail /\ cut' = cut /\ pc' = pc /\ resets' = resets
        /\ max_frame_size' = max_frame_size /\ inflated' = inflated
    BY <1>2, Zenon DEF vars
  <2>2. InStep'
    BY <1>w, <2>1, Zenon DEF InStep, InStepWith, Border, Sent, EndOf, Unusual
  <2>. QED  BY <1>1, <2>2
<1>3. CASE TransportEnds \/ DecodeFails
  <2>1. pc' = "ended"
    BY <1>3, Zenon DEF TransportEnds, DecodeFails
  <2>. QED  BY <1>1, <2>1, Zenon DEF InStep
<1>4. CASE ReadMessage
  <2>w. /\ head' = head /\ cut' = cut /\ pc = "read" /\ pc' = "decode" /\ resets' = resets
        /\ max_frame_size' = max_frame_size /\ inflated' = inflated
    BY <1>4, Zenon DEF ReadMessage
  <2> SUFFICES ASSUME ~cut PROVE InStep'
    BY <1>1, <2>w, Zenon DEF InStep
  <2>0. "read" # "ended"
    OBVIOUS
  <2>1. PICK k \in 0 .. Len(wire) : InStepWith(k)
    BY <2>w, <2>0, Zenon DEF InStep
  <2>2. /\ head = Border(k)
        /\ [n \in DOMAIN routed |-> routed[n].frame] = Accepted(wire)[k].frames
        /\ resets \subseteq Accepted(wire)[k].rejected
        /\ max_frame_size = Accepted(wire)[k].max
        /\ Unusual \/ inflated = {j \in 1 .. k : HasBlock(wire[j].frame)}
    BY <2>1, Zenon DEF InStepWith
  <2>3. /\ [n \in DOMAIN routed' |-> routed'[n].frame] = Accepted(wire)[k].frames
        /\ head' = Border(k)
    BY <1>w, <2>w, <2>2, Zenon
  <2>. QED  BY <1>w, <2>w, <2>2, <2>3, StandsAfter, Zenon
<1>. QED  BY <1>2, <1>3, <1>4

\* While nothing has come, whatever the peer sends has yet to be read.
LEMMA PeerInStep ==
  ASSUME BufferInv, BufferInv', InStep, HeadersInContext, PeerSends
  PROVE  InStep' /\ HeadersInContext'
<1>w. /\ head' = head /\ tail' = tail /\ cut' = cut /\ pc = "read" /\ pc' = pc
      /\ tail = 0 /\ resets' = resets /\ routed' = routed
      /\ max_frame_size' = max_frame_size /\ inflated' = inflated
  BY Zenon DEF PeerSends
<1>h. head = 0
  <2>1. head \in Nat /\ head <= tail
    BY Zenon DEF BufferInv, TypeOK
  <2>. QED  BY <1>w, <2>1
<1> DEFINE S == [frame : PeerFrames, at : Nat]
<1>1. PICK w : wire' = Append(wire, w)
  BY Zenon DEF PeerSends
<1>2. wire \in Seq(S) /\ wire' \in Seq(S)
  BY Zenon DEF BufferInv, TypeOK
<1>3. /\ Len(wire) \in Nat /\ Len(wire') = Len(wire) + 1
      /\ DOMAIN wire = 1 .. Len(wire) /\ DOMAIN wire' = 1 .. Len(wire) + 1
      /\ \A i \in 1 .. Len(wire) : wire'[i] = wire[i]
  <2> HIDE DEF S
  <2>. QED  BY <1>1, <1>2
<1>4. HeadersInContext'
  <2>1. Unusual => Unusual'
    <3>1. \A i \in DOMAIN wire : i \in DOMAIN wire' /\ wire'[i] = wire[i]
      BY <1>3
    <3>. QED  BY <3>1, Zenon DEF Unusual
  <2>. QED  BY <1>w, <2>1, Zenon DEF HeadersInContext, Unusual
<1>5. InStep'
  <2> SUFFICES ASSUME ~cut PROVE InStep'
    BY <1>w, Zenon DEF InStep
  <2>0. "read" # "ended"
    OBVIOUS
  <2>1. PICK k \in 0 .. Len(wire) : InStepWith(k)
    BY <1>w, <2>0, Zenon DEF InStep
  <2>2. k = 0
    <3> SUFFICES ASSUME k # 0 PROVE FALSE
      OBVIOUS
    <3>1. k \in 1 .. Len(wire) /\ Len(wire) \in 1 .. Len(wire)
      BY <1>3
    <3>2. /\ wire[k].at + 8 <= EndOf(wire[k]) /\ EndOf(wire[k]) \in Nat /\ wire[k].at \in Nat
      BY <3>1, Places, Zenon
    <3>3. CASE k = Len(wire)
      <4>1. head = Sent
        BY <2>1, <3>3, Zenon DEF InStepWith, Border
      <4>2. EndOf(wire[k]) <= Sent
        BY <3>1, Places, Zenon
      <4>. QED  BY <1>h, <3>2, <4>1, <4>2
    <3>4. CASE k # Len(wire)
      <4>1. k + 1 \in 1 .. Len(wire) /\ k < k + 1
        <5>1. Len(wire) \in Nat
          BY <1>3, Zenon
        <5>. QED  BY <3>1, <3>4, <5>1
      <4>2. head = wire[k+1].at
        BY <2>1, <3>4, Zenon DEF InStepWith, Border
      <4>3. EndOf(wire[k]) <= wire[k+1].at
        BY <3>1, <4>1, Places, Zenon
      <4>. QED  BY <1>h, <3>2, <4>2, <4>3
    <3>. QED  BY <3>3, <3>4
  <2>3. /\ [n \in DOMAIN routed |-> routed[n].frame] = Accepted(wire)[0].frames
        /\ resets \subseteq Accepted(wire)[0].rejected
        /\ max_frame_size = Accepted(wire)[0].max
        /\ Unusual \/ inflated = {j \in 1 .. 0 : HasBlock(wire[j].frame)}
    BY <2>1, <2>2, Zenon DEF InStepWith
  <2>4. Accepted(wire')[0] = Accepted(wire)[0]
    BY <1>2, AcceptedSteps, Zenon
  <2>5. wire' # <<>> /\ 0 # Len(wire') /\ 0 \in 0 .. Len(wire') /\ 1 \in 1 .. Len(wire')
        /\ 0 + 1 = 1
    BY <1>3
  <2>6. wire'[1].at = 0
    BY <2>5, Zenon DEF BufferInv, Contiguous
  <2>7. Border(0)' = 0
    BY <2>5, <2>6, Zenon DEF Border
  <2>8. 0 < EndOf(wire'[1])
    <3>1. wire'[1] \in S
      <4> HIDE DEF S
      <4>. QED  BY <1>2, <2>5
    <3>2. wire'[1].frame \in PeerFrames
      BY <3>1
    <3>3. TotalLen(wire'[1].frame) \in Nat /\ TotalLen(wire'[1].frame) >= 8
      BY <3>2, FrameFacts, Zenon
    <3>4. EndOf(wire'[1]) = wire'[1].at + TotalLen(wire'[1].frame)
      BY Zenon DEF EndOf
    <3>. QED  BY <2>6, <3>3, <3>4
  <2>9. Unusual => Unusual'
    <3>1. \A i \in DOMAIN wire : i \in DOMAIN wire' /\ wire'[i] = wire[i]
      BY <1>3
    <3>. QED  BY <3>1, Zenon DEF Unusual
  <2>10. \A ws : {j \in 1 .. 0 : HasBlock(ws[j].frame)} = {}
    <3>1. \A j : j \notin 1 .. 0
      OBVIOUS
    <3>. QED  BY <3>1, Zenon
  <2>11. Unusual' \/ inflated' = {j \in 1 .. 0 : HasBlock(wire'[j].frame)}
    BY <1>w, <2>3, <2>9, <2>10, Zenon
  <2>12. tail' < EndOf(wire'[0+1])
    BY <1>w, <2>5, <2>8, Zenon
  <2>13. InStepWith(0)'
    BY <1>w, <1>h, <2>3, <2>4, <2>7, <2>11, <2>12, Zenon DEF InStepWith, EndOf
  <2>. QED  BY <2>5, <2>13, Zenon DEF InStep
<1>. QED  BY <1>4, <1>5

\* Before anything is sent the reader has nothing to do.
LEMMA InitInStep == Init => InStep /\ HeadersInContext
<1> SUFFICES ASSUME Init PROVE InStep /\ HeadersInContext
  OBVIOUS
<1>1. /\ wire = <<>> /\ head = 0 /\ routed = <<>> /\ resets = {} /\ inflated = {}
      /\ max_frame_size = ConfiguredMaxFrameSize
  BY Zenon DEF Init
<1>2. /\ Len(<<>>) = 0 /\ <<>> \in Seq({}) /\ DOMAIN <<>> = {} /\ 0 \in 0 .. 0 /\ ~(0 < 0)
      /\ [n \in {} |-> <<>>[n].frame] = <<>>
  OBVIOUS
<1>3. Accepted(wire)[0] =
        [frames |-> <<>>, rejected |-> {}, max |-> ConfiguredMaxFrameSize]
  BY <1>1, <1>2, AcceptedSteps, Zenon
<1>4. /\ Accepted(wire)[0].frames = <<>> /\ Accepted(wire)[0].max = ConfiguredMaxFrameSize
  BY <1>3
<1>5. {j \in 1 .. 0 : HasBlock(wire[j].frame)} = {}
  <2>1. \A j : j \notin 1 .. 0
    OBVIOUS
  <2>. QED  BY <2>1, Zenon
<1>6. Border(0) = 0
  BY <1>1, <1>2, Zenon DEF Border, Sent
<1>7. [n \in DOMAIN routed |-> routed[n].frame] = <<>>
  BY <1>1, <1>2
<1>8. InStepWith(0)
  BY <1>1, <1>2, <1>4, <1>5, <1>6, <1>7, Zenon DEF InStepWith
<1>9. InStep
  BY <1>1, <1>2, <1>8, Zenon DEF InStep
<1>10. HeadersInContext
  BY <1>1, <1>2, Zenon DEF HeadersInContext
<1>. QED  BY <1>9, <1>10

\* When the reader waits, the frames it is done with are those that have arrived.
LEMMA AllArrived ==
  ASSUME BufferInv, NEW k \in 0 .. Len(wire), InStepWith(k), pc = "read"
  PROVE  Arrived = k
<1>p. /\ Len(wire) \in Nat /\ DOMAIN wire = 1 .. Len(wire) /\ Sent \in Nat
  BY Places, Zenon
<1>t. head \in Nat /\ tail \in Nat /\ head <= tail
  BY Zenon DEF BufferInv, TypeOK
<1>h. head = Border(k) /\ (k < Len(wire) => tail < EndOf(wire[k+1]))
  BY Zenon DEF InStepWith
<1>1. ASSUME NEW i \in 1 .. k PROVE i \in DOMAIN wire /\ EndOf(wire[i]) <= tail
  <2>1. i \in 1 .. Len(wire)
    BY <1>p
  <2>2. EndOf(wire[i]) \in Nat /\ EndOf(wire[i]) <= Sent
    BY <2>1, Places, Zenon
  <2>3. CASE k = Len(wire)
    <3>1. head = Sent
      BY <1>h, <2>3, Zenon DEF Border
    <3>. QED  BY <1>p, <1>t, <2>1, <2>2, <3>1
  <2>4. CASE k # Len(wire)
    <3>1. head = wire[k+1].at
      BY <1>h, <2>4, Zenon DEF Border
    <3>2. k + 1 \in 1 .. Len(wire) /\ i < k + 1
      <4>1. Len(wire) \in Nat
        BY <1>p, Zenon
      <4>. QED  BY <2>4, <4>1
    <3>3. EndOf(wire[i]) <= wire[k+1].at
      BY <2>1, <3>2, Places, Zenon
    <3>. QED  BY <1>p, <1>t, <2>1, <2>2, <3>1, <3>3
  <2>. QED  BY <2>3, <2>4
<1>2. ASSUME NEW i \in DOMAIN wire, EndOf(wire[i]) <= tail PROVE i \in 1 .. k
  <2> SUFFICES ASSUME k < i PROVE FALSE
    BY <1>p
  <2>1. i \in 1 .. Len(wire) /\ k + 1 \in 1 .. Len(wire) /\ k < Len(wire)
    BY <1>p
  <2>2. tail < EndOf(wire[k+1])
    BY <1>h, <2>1, Zenon
  <2>3. /\ EndOf(wire[i]) \in Nat /\ EndOf(wire[k+1]) \in Nat /\ wire[i].at \in Nat
        /\ wire[i].at + 8 <= EndOf(wire[i])
    BY <2>1, Places, Zenon
  <2>4. CASE i = k + 1
    BY <1>t, <1>2, <2>2, <2>3, <2>4
  <2>5. CASE k + 1 < i
    <3>1. EndOf(wire[k+1]) <= wire[i].at
      BY <2>1, <2>5, Places, Zenon
    <3>. QED  BY <1>t, <1>2, <2>2, <2>3, <3>1
  <2>6. i = k + 1 \/ k + 1 < i
    BY <2>1
  <2>. QED  BY <2>4, <2>5, <2>6
<1>3. {i \in DOMAIN wire : EndOf(wire[i]) <= tail} = 1 .. k
  BY <1>1, <1>2, Zenon
<1>4. Cardinality(1 .. k) = k
  <2>1. k \in Nat /\ 1 \in Int /\ k \in Int
    OBVIOUS
  <2>2. Cardinality(1 .. k) = IF 1 > k THEN 0 ELSE k - 1 + 1
    BY <2>1, FS_Interval, Zenon
  <2>. QED  BY <2>1, <2>2
<1>. QED  BY <1>3, <1>4, Zenon DEF Arrived

\* The inductive invariant holds in every reachable state.
LEMMA Invariant == Spec => []CodecInv
<1>1. Init => CodecInv
  BY InitInv, InitInStep, Zenon DEF CodecInv
<1>2. ASSUME CodecInv, [Next]_vars PROVE CodecInv'
  <2>1. BufferInv /\ InStep /\ HeadersInContext
    BY <1>2, Zenon DEF CodecInv
  <2>2. BufferInv'
    BY <1>2, <2>1, PeerSendsInv, ReadInv, NeedsMoreInv, RejectInv, TakeInv, Zenon DEF Next
  <2>3. InStep' /\ HeadersInContext'
    BY <1>2, <2>1, <2>2, PeerInStep, ReadInStep, WaitInStep, RejectInStep, RouteInStep,
       Zenon DEF Next
  <2>. QED  BY <2>2, <2>3, Zenon DEF CodecInv
<1>3. CodecInv /\ [Next]_vars => CodecInv'
  BY <1>2
<1>. QED  BY <1>1, <1>3, PTL DEF Spec

\* transport.rs:371-374: for any frames, limits and chunks, the reader that waits has routed
\* exactly the frames that arrived and are within the limits, has reset no other stream, and
\* goes by the limit that the last SETTINGS among them gave, as long as no frame was cut.
THEOREM ChunksDoNotMatter == Spec => []DecodesWhatArrived
<1>1. CodecInv => DecodesWhatArrived
  <2> SUFFICES ASSUME CodecInv, pc = "read", ~cut PROVE DecodesWhatArrived
    BY Zenon DEF DecodesWhatArrived
  <2>0. "read" # "ended"
    OBVIOUS
  <2>1. BufferInv /\ InStep
    BY Zenon DEF CodecInv
  <2>2. PICK k \in 0 .. Len(wire) : InStepWith(k)
    BY <2>0, <2>1, Zenon DEF InStep
  <2>3. Arrived = k
    BY <2>1, <2>2, AllArrived, Zenon
  <2>4. /\ [n \in DOMAIN routed |-> routed[n].frame] = Accepted(wire)[k].frames
        /\ resets \subseteq Accepted(wire)[k].rejected
        /\ max_frame_size = Accepted(wire)[k].max
    BY <2>2, Zenon DEF InStepWith
  <2>. QED  BY <2>3, <2>4, Zenon DEF DecodesWhatArrived
<1>. QED  BY <1>1, Invariant, PTL

\* codec.rs:82-83: for any frames, limits and chunks the decompressor takes the header blocks
\* in the order of the peer's compressor, without leaving one out, as long as no oversized
\* frame has one.
THEOREM DecompressorInStep == Spec => []HeadersInContext
<1>1. CodecInv => HeadersInContext
  BY Zenon DEF CodecInv
<1>. QED  BY <1>1, Invariant, PTL

\* For any frames, limits and chunks the decoder takes nothing off the buffer that is not
\* in it, and every variable keeps its type.
THEOREM CodecTypeCorrect == Spec => []TypeOK
<1>1. CodecInv => TypeOK
  BY DEF CodecInv, BufferInv
<1>. QED  BY <1>1, Invariant, PTL

\* For any frames, limits and chunks the reader waits with less than a header and the
\* larger of its two limits in its buffer, also when it reads payload as headers.
THEOREM ReaderBufferBounded == Spec => []BufferBounded
<1>1. CodecInv => BufferBounded
  BY DEF CodecInv, BufferInv
<1>. QED  BY <1>1, Invariant, PTL

\* For any frames, limits and chunks the buffer begins with a frame of the peer as long as
\* no oversized frame was cut: skipping whole oversized frames does not desynchronise it.
THEOREM ReaderAligned == Spec => []Aligned
<1>1. CodecInv => Aligned
  BY DEF CodecInv, BufferInv
<1>. QED  BY <1>1, Invariant, PTL
=============================================================================
