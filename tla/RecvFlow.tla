------------------------------ MODULE RecvFlow ------------------------------
(***************************************************************************)
(* What a Stream receives: DATA frames routed by the reader (route_frame,  *)
(* mux/reader.rs) to a frame worker, which puts them in the bounded        *)
(* channel of the stream and returns credit to the peer through the        *)
(* window channel of the writer (mux/worker.rs, mux/writer.rs), and the    *)
(* poll_read that takes them out (stream.rs).                              *)
(*                                                                         *)
(* The bytes a peer sends on a stream are numbered 1, 2, 3, ...; a chunk   *)
(* is an interval of them.  The peer respects the window it was given.     *)
(* All streams here belong to one worker.                                  *)
(***************************************************************************)
EXTENDS Integers, Sequences

CONSTANTS Streams,
          InitialWindow,  \* MuxConfig::initial_window_size
          FrameCap,       \* worker_queue_size
          StreamCap,      \* stream_data_buffer_size
          WindowCap,      \* window_buffer_size
          Session,        \* the stream id 0 of session WINDOW_UPDATEs
          MaxBytes,       \* bound: bytes the peer sends on a stream
          MaxChunk        \* bound: bytes of a DATA frame

ASSUME RecvAssumption ==
  /\ {InitialWindow, FrameCap, StreamCap, WindowCap, MaxChunk} \subseteq Nat \ {0}
  /\ MaxBytes \in Nat
  /\ Session \notin Streams

VARIABLES
  sent,       \* bytes the peer has sent
  window,     \* the peer's view of the stream's window
  fin,        \* the peer has sent FIN
  rst,        \* the stream was reset because the worker queue was full
  frame_tx,   \* queue of the worker
  data_tx,    \* "open", "half" after FIN, "gone" without an entry
  data_rx,    \* channel of the stream: chunks
  consumed,   \* consumed_since_update
  window_tx,  \* window channel: stream and delta
  session_recv_consumed,
  read_buf,   \* what poll_read kept of the last chunk
  got,        \* bytes the application has read
  read_eof,
  cancelled,
  received,   \* bytes the reader has routed, all streams together
  returned,   \* session credit the peer has got back
  lost        \* bytes of the stream dropped on the way

vars == <<sent, window, fin, rst, frame_tx, data_tx, data_rx, consumed, window_tx,
          session_recv_consumed, read_buf, got, read_eof, cancelled, received,
          returned, lost>>

Empty == <<1, 0>>                  \* a chunk is <<first, last>>
Size(c) == c[2] - c[1] + 1
Update(s, d) == [stream |-> s, delta |-> d]

Init ==
  /\ sent = [s \in Streams |-> 0]
  /\ window = [s \in Streams |-> InitialWindow]
  /\ fin = [s \in Streams |-> FALSE]
  /\ rst = [s \in Streams |-> FALSE]
  /\ frame_tx = <<>>
  /\ data_tx = [s \in Streams |-> "open"]
  /\ data_rx = [s \in Streams |-> <<>>]
  /\ consumed = [s \in Streams |-> 0]
  /\ window_tx = <<>>
  /\ session_recv_consumed = 0
  /\ read_buf = [s \in Streams |-> Empty]
  /\ got = [s \in Streams |-> <<>>]
  /\ read_eof = [s \in Streams |-> FALSE]
  /\ cancelled = FALSE
  /\ received = 0 /\ returned = 0
  /\ lost = [s \in Streams |-> 0]

-----------------------------------------------------------------------------
(* The reader *)

\* Variant: the threshold is the whole window.
DueTooLate(n) == n > InitialWindow

\* A counter of received bytes becomes a WINDOW_UPDATE once it reaches half the
\* window; it is reset only when the window channel takes it.
Due(n) == n >= InitialWindow \div 2
Taken(n) == Due(n) /\ Len(window_tx) < WindowCap

\* Variant: the counter is reset whether or not the update was queued.
RestAlwaysZero(n) == IF Due(n) THEN 0 ELSE n

Rest(n) == IF Taken(n) THEN 0 ELSE n
Queued(s, n) == IF Taken(n) THEN Append(window_tx, Update(s, n)) ELSE window_tx

\* route_frame of DATA: session credit, then the queue of the worker.  When that
\* is full the frame is dropped and the stream reset; the try_send of the
\* CloseStream may itself fail.
RouteData(s) ==
  /\ ~cancelled /\ ~fin[s] /\ ~rst[s]
  /\ \E n \in 0 .. MaxChunk, last \in BOOLEAN :
       /\ n <= window[s] /\ sent[s] + n <= MaxBytes
       /\ n = 0 => last
       /\ sent' = [sent EXCEPT ![s] = @ + n]
       /\ window' = [window EXCEPT ![s] = @ - n]
       /\ fin' = [fin EXCEPT ![s] = last]
       /\ received' = received + n
       /\ IF n > 0
          THEN /\ session_recv_consumed' = Rest(session_recv_consumed + n)
               /\ window_tx' = Queued(Session, session_recv_consumed + n)
          ELSE UNCHANGED <<session_recv_consumed, window_tx>>
       /\ \/ /\ Len(frame_tx) < FrameCap
             /\ frame_tx' = Append(frame_tx, [stream |-> s, fin |-> last,
                                              chunk |-> <<sent[s] + 1, sent[s] + n>>])
             /\ UNCHANGED <<rst, lost>>
          \/ /\ Len(frame_tx) = FrameCap
             /\ rst' \in {[rst EXCEPT ![s] = TRUE], rst}
             /\ lost' = [lost EXCEPT ![s] = @ + n]
             /\ UNCHANGED frame_tx
  /\ UNCHANGED <<data_tx, data_rx, consumed, read_buf, got, read_eof, cancelled,
                 returned>>

-----------------------------------------------------------------------------
(* The frame worker *)

\* Variant: a frame that finds the channel full goes to the end of the queue.
DispatchDataLater ==
  /\ ~cancelled /\ frame_tx # <<>>
  /\ LET f == Head(frame_tx)
         s == f.stream
         total == consumed[s] + Size(f.chunk)
     IN IF Len(data_rx[s]) < StreamCap /\ data_tx[s] = "open"
        THEN /\ data_rx' = [data_rx EXCEPT ![s] = Append(@, f.chunk)]
             /\ consumed' = [consumed EXCEPT ![s] = Rest(total)]
             /\ window_tx' = Queued(s, total)
             /\ frame_tx' = Tail(frame_tx)
        ELSE /\ frame_tx' = Append(Tail(frame_tx), f)
             /\ UNCHANGED <<data_rx, consumed, window_tx>>
  /\ UNCHANGED <<sent, window, fin, rst, data_tx, session_recv_consumed, read_buf, got,
                 read_eof, cancelled, received, returned, lost>>

\* dispatch_frame_in_worker of DATA: a full channel drops the chunk, and FIN
\* drops the sender so that the application reads EOF.
DispatchData ==
  /\ ~cancelled /\ frame_tx # <<>>
  /\ LET f == Head(frame_tx)
         s == f.stream
         n == Size(f.chunk)
         total == consumed[s] + n
     IN /\ \/ /\ n > 0 /\ data_tx[s] = "open" /\ Len(data_rx[s]) < StreamCap
              /\ data_rx' = [data_rx EXCEPT ![s] = Append(@, f.chunk)]
              /\ consumed' = [consumed EXCEPT ![s] = Rest(total)]
              /\ window_tx' = Queued(s, total)
              /\ UNCHANGED lost
           \/ /\ n = 0 \/ data_tx[s] # "open" \/ Len(data_rx[s]) = StreamCap
              /\ lost' = [lost EXCEPT ![s] = @ + n]
              /\ UNCHANGED <<data_rx, consumed, window_tx>>
        /\ data_tx' = [data_tx EXCEPT ![s] = IF f.fin /\ @ = "open" THEN "half" ELSE @]
  /\ frame_tx' = Tail(frame_tx)
  /\ UNCHANGED <<sent, window, fin, rst, session_recv_consumed, read_buf, got,
                 read_eof, cancelled, received, returned>>

\* The Close that follows the CloseStream of a reset (pending_closes).
WorkerClose(s) ==
  /\ ~cancelled /\ rst[s] /\ data_tx[s] # "gone"
  /\ data_tx' = [data_tx EXCEPT ![s] = "gone"]
  /\ UNCHANGED <<sent, window, fin, rst, frame_tx, data_rx, consumed, window_tx,
                 session_recv_consumed, read_buf, got, read_eof, cancelled,
                 received, returned, lost>>

\* The writer sends the WINDOW_UPDATE and the peer gets its credit back.
WriteWindowUpdate ==
  /\ ~cancelled /\ window_tx # <<>>
  /\ LET u == Head(window_tx)
     IN IF u.stream = Session
        THEN returned' = returned + u.delta /\ UNCHANGED window
        ELSE window' = [window EXCEPT ![u.stream] = @ + u.delta] /\ UNCHANGED returned
  /\ window_tx' = Tail(window_tx)
  /\ UNCHANGED <<sent, fin, rst, frame_tx, data_tx, data_rx, consumed,
                 session_recv_consumed, read_buf, got, read_eof, cancelled,
                 received, lost>>

\* The transport breaks: the workers drop their entries, senders included.
Cancel ==
  /\ ~cancelled
  /\ cancelled' = TRUE
  /\ data_tx' = [s \in Streams |-> "gone"]
  /\ UNCHANGED <<sent, window, fin, rst, frame_tx, data_rx, consumed, window_tx,
                 session_recv_consumed, read_buf, got, read_eof, received,
                 returned, lost>>

-----------------------------------------------------------------------------
(* The application *)

\* The bytes of a chunk that fit in a read of n bytes, and what is left.
Fits(c, n) == <<c[1], IF Size(c) < n THEN c[2] ELSE c[1] + n - 1>>
Kept(c, n) == IF Size(c) <= n THEN Empty ELSE <<c[1] + n, c[2]>>
Bytes(c) == [i \in 1 .. Size(c) |-> c[1] + i - 1]

\* Variant: a closed channel is EOF before it is empty.
PollReadHasty(s) ==
  /\ ~read_eof[s]
  /\ \/ /\ data_rx[s] # <<>> /\ data_tx[s] = "open"
        /\ got' = [got EXCEPT ![s] = @ \o Bytes(Head(data_rx[s]))]
        /\ data_rx' = [data_rx EXCEPT ![s] = Tail(@)]
        /\ UNCHANGED read_eof
     \/ /\ data_tx[s] # "open"
        /\ read_eof' = [read_eof EXCEPT ![s] = TRUE]
        /\ UNCHANGED <<got, data_rx>>
  /\ UNCHANGED <<sent, window, fin, rst, frame_tx, data_tx, consumed, window_tx,
                 session_recv_consumed, read_buf, cancelled, received, returned, lost>>

\* poll_read_channel: the kept part of a chunk first, then the channel; a
\* closed, empty channel is EOF.
PollRead(s) ==
  /\ ~read_eof[s]
  /\ \/ /\ read_buf[s] # Empty
        /\ \E n \in 1 .. MaxChunk :
             /\ got' = [got EXCEPT ![s] = @ \o Bytes(Fits(read_buf[s], n))]
             /\ read_buf' = [read_buf EXCEPT ![s] = Kept(@, n)]
        /\ UNCHANGED <<data_rx, read_eof>>
     \/ /\ read_buf[s] = Empty /\ data_rx[s] # <<>>
        /\ \E n \in 1 .. MaxChunk :
             /\ got' = [got EXCEPT ![s] = @ \o Bytes(Fits(Head(data_rx[s]), n))]
             /\ read_buf' = [read_buf EXCEPT ![s] = Kept(Head(data_rx[s]), n)]
        /\ data_rx' = [data_rx EXCEPT ![s] = Tail(@)]
        /\ UNCHANGED read_eof
     \/ /\ read_buf[s] = Empty /\ data_rx[s] = <<>> /\ data_tx[s] # "open"
        /\ read_eof' = [read_eof EXCEPT ![s] = TRUE]
        /\ UNCHANGED <<got, read_buf, data_rx>>
  /\ UNCHANGED <<sent, window, fin, rst, frame_tx, data_tx, consumed, window_tx,
                 session_recv_consumed, cancelled, received, returned, lost>>

Next ==
  \/ \E s \in Streams : RouteData(s) \/ WorkerClose(s) \/ PollRead(s)
  \/ DispatchData \/ WriteWindowUpdate \/ Cancel

Spec == Init /\ [][Next]_vars

\* The worker and the writer run; the application keeps reading.
FairSpec ==
  /\ Spec
  /\ WF_vars(DispatchData) /\ WF_vars(WriteWindowUpdate)
  /\ \A s \in Streams : WF_vars(PollRead(s))

-----------------------------------------------------------------------------
\* Types.  The peer is never granted more than the initial window, and no channel holds
\* more than its capacity.
TypeOK ==
  /\ sent \in [Streams -> 0 .. MaxBytes]
  /\ window \in [Streams -> 0 .. InitialWindow]
  /\ fin \in [Streams -> BOOLEAN] /\ rst \in [Streams -> BOOLEAN]
  /\ Len(frame_tx) <= FrameCap /\ Len(window_tx) <= WindowCap
  /\ data_tx \in [Streams -> {"open", "half", "gone"}]
  /\ \A s \in Streams : Len(data_rx[s]) <= StreamCap
  /\ consumed \in [Streams -> Nat] /\ session_recv_consumed \in Nat
  /\ read_eof \in [Streams -> BOOLEAN] /\ cancelled \in BOOLEAN

\* The sum of a sequence of numbers.
Sum(q) == LET sum[i \in 0 .. Len(q)] == IF i = 0 THEN 0 ELSE sum[i-1] + q[i]
          IN sum[Len(q)]

\* What the frames of a queue hold of a stream, and the updates of a queue return to it.
Unseen(q, s) == [i \in DOMAIN q |-> IF q[i].stream = s THEN Size(q[i].chunk) ELSE 0]
Credits(q, s) == [i \in DOMAIN q |-> IF q[i].stream = s THEN q[i].delta ELSE 0]

\* Stream credit is conserved: what the peer may still send, what it has sent
\* and the worker has not seen, what the worker has counted and what is on its
\* way back add up to the initial window, less the bytes of dropped frames.
\* The peer is never granted more than its window, and an update that finds
\* the window channel full is not forgotten (the comment at reader.rs:257-264).
\* Every variable keeps its type meanwhile.
StreamCreditConserved ==
  TypeOK /\ \A s \in Streams :
    window[s] + Sum(Unseen(frame_tx, s)) + consumed[s] + Sum(Credits(window_tx, s)) + lost[s]
      = InitialWindow

\* Session credit is conserved, dropped frames included: the reader counts
\* every DATA byte before it is routed.
SessionCreditConserved ==
  received = returned + session_recv_consumed + Sum(Credits(window_tx, Session))

\* The application reads the bytes of the stream in order and without a gap.
\* mux/config.rs:46-47: "When full, the worker withholds WINDOW_UPDATE for this
\* stream so the peer backs off naturally".
DeliveredPrefix ==
  \A s \in Streams : \A i \in DOMAIN got[s] : got[s][i] = i

\* A peer that has used up its window gets credit back, unless the stream is over,
\* frames of it were dropped, which return no credit, or an update was due and found
\* the window channel full: the worker tries that one again only with the next frame
\* (worker.rs:133-146), which this peer cannot send.
\* writer.rs:252-255: "flow-control frames must never be delayed. A stalled
\* WINDOW_UPDATE causes the peer to stop sending"; reader.rs:260-261: "WINDOW_UPDATE
\* deltas are additive, so accumulating across tries is safe".
CreditComesBack ==
  \A s \in Streams : window[s] = 0 ~> (window[s] > 0 \/ fin[s] \/ rst[s] \/ cancelled
                                         \/ lost[s] > 0 \/ Due(consumed[s]))

-----------------------------------------------------------------------------
\* The sequences of a sequence, one after the other.
Flat(q) == LET flat[i \in 0 .. Len(q)] == IF i = 0 THEN <<>> ELSE flat[i-1] \o q[i]
           IN flat[Len(q)]

\* The bytes of the chunks of a channel, and of the frames of a queue for a stream.
Channelled(q) == [i \in DOMAIN q |-> Bytes(q[i])]
Framed(q, s) == [i \in DOMAIN q |-> IF q[i].stream = s THEN Bytes(q[i].chunk) ELSE <<>>]

\* The bytes of a stream between the peer and the application, the next one first.
InFlight(s) ==
  Bytes(read_buf[s]) \o Flat(Channelled(data_rx[s])) \o Flat(Framed(frame_tx, s))

Pipe == INSTANCE LossyPipe
          WITH written <- sent, closed <- fin, flying <- [s \in Streams |-> InFlight(s)],
               read <- got, eof <- read_eof, missing <- lost,
               aborted <- {s \in Streams : rst[s] \/ cancelled}

\* The queue of the worker, the channel of the stream and the chunk poll_read keeps are
\* together one pipe per stream: it may lose bytes where a queue is full, exactly those
\* that are counted, but neither reorders nor repeats any, and EOF, on a stream that was
\* not aborted, is read only after FIN and after the last byte that was not lost
\* (reader.rs:244-289, worker.rs:104-260, stream.rs:741-798).
ImplementsPipe == Pipe!PSpec
=============================================================================
