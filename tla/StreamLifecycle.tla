-------------------------- MODULE StreamLifecycle --------------------------
(***************************************************************************)
(* A stream pair from realize_stream_pair to the drop of its StreamGuard:  *)
(* the sequencer and the bounded channels of mux/handle.rs, the writer     *)
(* loop of mux/writer.rs, the frame workers of mux/worker.rs and the       *)
(* GOAWAY handling of mux/reader.rs.                                       *)
(*                                                                         *)
(* A pair has two streams, `error_id` and `data_id`.  A message of a       *)
(* channel is a record of a kind and a stream id; the wire is the sequence *)
(* of frames the writer has sent.  The window of a stream is the subject   *)
(* of SendWindow, what it reads the subject of RecvFlow.                   *)
(***************************************************************************)
EXTENDS Integers, Sequences, FiniteSets, Functions

CONSTANTS Pairs,
          FRAME_WORKERS,
          MAX_STREAM_ID,
          FirstIds,     \* where next_stream_id may stand while no stream is open
          CmdCap, ControlCap, RegCap, CloseRegCap,   \* MuxConfig buffer sizes
          MaxWrites,    \* bound: DATA frames a pair writes
          MaxFrames,    \* bound: frames of the peer
          MaxWork       \* bound: two for each pair that got ids, one for each frame

ASSUME LifecycleAssumption ==
  /\ FRAME_WORKERS \in Nat \ {0} /\ MAX_STREAM_ID \in Nat
  /\ {CmdCap, ControlCap, RegCap, CloseRegCap} \subseteq Nat \ {0}
  /\ {MaxWrites, MaxFrames, MaxWork} \subseteq Nat /\ FirstIds \subseteq Nat \ {0}
  /\ IsFiniteSet(Pairs) /\ "none" \notin Pairs

VARIABLES
  pc,             \* "unopened", a step of realize, "opened", "broken", "dropped"
  error_id,       \* of each pair, 0 before the allocation
  permits,        \* how many of its four permits a pair holds
  graceful,       \* StreamGuard::graceful_shutdown
  writes,         \* DATA frames written
  open_seq,       \* holder of the open_seq lock
  next_stream_id,
  cmd, control,   \* the channels to the writer
  reg, close_reg, \* the channels to each worker
  streams,        \* stream ids the workers hold an entry for
  workerAt,       \* where each worker is in its loop
  writerAt,       \* where the writer is in its loop
  taken,          \* the command the writer took before draining control_rx
  pending_closes,
  wire,
  goaway_received,
  cancelled,
  frames          \* frames of the peer so far

callers == <<pc, error_id, permits, graceful, writes, open_seq, next_stream_id>>
channels == <<cmd, control, reg, close_reg>>
writer == <<writerAt, taken, pending_closes, wire>>
workers == <<streams, workerAt>>
peer == <<goaway_received, frames>>
vars == <<callers, channels, writer, workers, peer, cancelled>>

None == "none"
Workers == 0 .. FRAME_WORKERS - 1
WorkerOf(id) == id % FRAME_WORKERS

Msg(kind, id) == [kind |-> kind, id |-> id]

data_id(p) == error_id[p] + 2
IdsOf(p) == IF error_id[p] = 0 THEN {} ELSE {error_id[p], data_id(p)}
Opened == {p \in Pairs : pc[p] = "opened"}

\* The permits a pair holds take room in the channels.  They are reserved in this
\* order: two of control_tx, the close_reg of the error stream, of the data stream.
ControlPermits ==
  Cardinality({pi \in Pairs \X {1, 2} : permits[pi[1]] >= pi[2]})
CloseRegPermits(w) ==
  Cardinality({p \in Pairs : permits[p] >= 3 /\ WorkerOf(error_id[p]) = w})
    + Cardinality({p \in Pairs : permits[p] = 4 /\ WorkerOf(data_id(p)) = w})

\* Variant: try_send counts the messages and not the permits.
TrySendControlGreedy(m) == IF Len(control) < ControlCap THEN Append(control, m) ELSE control

\* try_send: appended, or dropped when the channel has no room left.
ControlRoom == ControlCap - Len(control) - ControlPermits
CloseRegRoom(w) == CloseRegCap - Len(close_reg[w]) - CloseRegPermits(w)
TrySendControl(m) == IF ControlRoom > 0 THEN Append(control, m) ELSE control
SendClose(q, id) == [q EXCEPT ![WorkerOf(id)] = Append(@, Msg("Close", id))]
TrySendClose(q, id) ==
  LET w == WorkerOf(id)
  IN IF ~cancelled /\ CloseRegCap - Len(q[w]) - CloseRegPermits(w) > 0
     THEN SendClose(q, id) ELSE q

Init ==
  /\ pc = [p \in Pairs |-> "unopened"]
  /\ error_id = [p \in Pairs |-> 0]
  /\ permits = [p \in Pairs |-> 0]
  /\ graceful = [p \in Pairs |-> FALSE]
  /\ writes = [p \in Pairs |-> 0]
  /\ open_seq = None
  /\ next_stream_id \in FirstIds
  /\ cmd = <<>> /\ control = <<>>
  /\ reg = [w \in Workers |-> <<>>]
  /\ close_reg = [w \in Workers |-> <<>>]
  /\ streams = {}
  /\ workerAt = [w \in Workers |-> "closes"]
  /\ writerAt = "select"
  /\ taken = Msg(None, 0)
  /\ pending_closes = <<>>
  /\ wire = <<>>
  /\ goaway_received = FALSE
  /\ cancelled = FALSE
  /\ frames = 0

\* What counts against MaxWork.
Work == 2 * Cardinality({p \in Pairs : error_id[p] # 0}) + frames

Closed == cancelled \/ goaway_received

-----------------------------------------------------------------------------
(* realize_stream_pair, under open_seq *)

Goto(p, l) == pc' = [pc EXCEPT ![p] = l]
Fail(p) ==
  /\ Goto(p, "broken")
  /\ open_seq' = None
  /\ permits' = [permits EXCEPT ![p] = 0]

\* Variant: ids are allocated without taking open_seq.
LockIgnored == TRUE

Unlocked == open_seq = None

\* Variant: the sequencer advances by one id instead of two.
AllocateIdsOverlapping(p) ==
  /\ pc[p] = "unopened" /\ Unlocked
  /\ ~Closed /\ next_stream_id + 2 <= MAX_STREAM_ID /\ Work + 2 <= MaxWork
  /\ error_id' = [error_id EXCEPT ![p] = next_stream_id]
  /\ next_stream_id' = next_stream_id + 2
  /\ open_seq' = p
  /\ Goto(p, "registerError")
  /\ UNCHANGED <<permits, graceful, writes, channels, writer, workers, peer,
                 cancelled>>

\* Variant: the ids are not compared with the maximum.
AllocateIdsUnchecked(p) ==
  /\ pc[p] = "unopened" /\ Unlocked
  /\ ~Closed /\ Work + 2 <= MaxWork
  /\ error_id' = [error_id EXCEPT ![p] = next_stream_id]
  /\ next_stream_id' = next_stream_id + 4
  /\ open_seq' = p
  /\ Goto(p, "registerError")
  /\ UNCHANGED <<permits, graceful, writes, channels, writer, workers, peer,
                 cancelled>>

\* The checks before and after the lock, and the allocation of the ids; when
\* they run out a GOAWAY is sent and the open fails.
AllocateIds(p) ==
  /\ pc[p] = "unopened" /\ Unlocked
  /\ \/ /\ Closed
        /\ Fail(p)
        /\ UNCHANGED <<error_id, next_stream_id, control>>
     \/ /\ ~Closed /\ next_stream_id + 2 > MAX_STREAM_ID
        /\ control' = TrySendControl(Msg("GoAway", next_stream_id - 2))
        /\ Fail(p)
        /\ UNCHANGED <<error_id, next_stream_id>>
     \/ /\ ~Closed /\ next_stream_id + 2 <= MAX_STREAM_ID /\ Work + 2 <= MaxWork
        /\ error_id' = [error_id EXCEPT ![p] = next_stream_id]
        /\ next_stream_id' = next_stream_id + 4
        /\ open_seq' = p
        /\ Goto(p, "registerError")
        /\ UNCHANGED <<permits, control>>
  /\ UNCHANGED <<graceful, writes, cmd, reg, close_reg, writer, workers, peer,
                 cancelled>>

RegRoom(id) == Len(reg[WorkerOf(id)]) < RegCap /\ ~cancelled
Register(id) == reg' = [reg EXCEPT ![WorkerOf(id)] = Append(@, Msg("Open", id))]

RegisterError(p) ==
  /\ pc[p] = "registerError"
  /\ \/ /\ RegRoom(error_id[p])
        /\ Register(error_id[p])
        /\ Goto(p, "registerData")
        /\ UNCHANGED <<permits, open_seq>>
     \/ /\ ~RegRoom(error_id[p])
        /\ Fail(p)
        /\ UNCHANGED reg
  /\ UNCHANGED <<error_id, graceful, writes, next_stream_id, cmd, control,
                 close_reg, writer, workers, peer, cancelled>>

RegisterData(p) ==
  /\ pc[p] = "registerData"
  /\ \/ /\ RegRoom(data_id(p))
        /\ Register(data_id(p))
        /\ Goto(p, "enqueueOpen")
        /\ UNCHANGED <<permits, open_seq, close_reg>>
     \/ /\ ~RegRoom(data_id(p))
        /\ close_reg' = TrySendClose(close_reg, error_id[p])
        /\ Fail(p)
        /\ UNCHANGED reg
  /\ UNCHANGED <<error_id, graceful, writes, next_stream_id, cmd, control,
                 writer, workers, peer, cancelled>>

CmdRoom == Len(cmd) < CmdCap /\ ~cancelled

EnqueueOpen(p) ==
  /\ pc[p] = "enqueueOpen"
  /\ \/ /\ CmdRoom
        /\ cmd' = Append(cmd, Msg("OpenStreamPair", error_id[p]))
        /\ Goto(p, "reserve")
     \/ /\ ~CmdRoom
        /\ Goto(p, "closeError")
        /\ UNCHANGED cmd
  /\ UNCHANGED <<error_id, permits, graceful, writes, open_seq, next_stream_id,
                 control, reg, close_reg, writer, workers, peer, cancelled>>

\* The channel the next permit is reserved in has room.
PermitRoom(p) ==
  /\ ~cancelled
  /\ CASE permits[p] < 2 -> ControlRoom > 0
       [] permits[p] = 2 -> CloseRegRoom(WorkerOf(error_id[p])) > 0
       [] permits[p] = 3 -> CloseRegRoom(WorkerOf(data_id(p))) > 0

\* One of the four try_reserve_owned; after the last one the lock is released and
\* the Stream becomes Opened, with a StreamGuard.
ReservePermit(p) ==
  /\ pc[p] = "reserve"
  /\ \/ /\ PermitRoom(p)
        /\ permits' = [permits EXCEPT ![p] = @ + 1]
        /\ IF permits[p] = 3 THEN Goto(p, "opened") /\ open_seq' = None
                             ELSE UNCHANGED <<pc, open_seq>>
     \/ /\ ~PermitRoom(p)
        /\ Goto(p, "closeError")
        /\ UNCHANGED <<permits, open_seq>>
  /\ UNCHANGED <<error_id, graceful, writes, next_stream_id, channels, writer,
                 workers, peer, cancelled>>

\* cleanup_registration: a Close for each stream, if there is room.  The permits
\* reserved so far are given back only afterwards, when the function returns.
CleanupRegistration(p) ==
  /\ \/ /\ pc[p] = "closeError"
        /\ close_reg' = TrySendClose(close_reg, error_id[p])
        /\ Goto(p, "closeData")
        /\ UNCHANGED <<permits, open_seq>>
     \/ /\ pc[p] = "closeData"
        /\ close_reg' = TrySendClose(close_reg, data_id(p))
        /\ Fail(p)
  /\ UNCHANGED <<error_id, graceful, writes, next_stream_id, cmd, control, reg,
                 writer, workers, peer, cancelled>>

Realize(p) ==
  \/ RegisterError(p) \/ RegisterData(p) \/ EnqueueOpen(p) \/ ReservePermit(p)
  \/ CleanupRegistration(p)

-----------------------------------------------------------------------------
(* The Stream *)

\* poll_write sends a DATA frame.
Write(p) ==
  /\ pc[p] = "opened" /\ ~graceful[p] /\ CmdRoom
  /\ writes[p] < MaxWrites
  /\ cmd' = Append(cmd, Msg("Data", data_id(p)))
  /\ writes' = [writes EXCEPT ![p] = @ + 1]
  /\ UNCHANGED <<pc, error_id, permits, graceful, open_seq, next_stream_id, control,
                 reg, close_reg, writer, workers, peer, cancelled>>

\* Variant: DATA+FIN is sent and the guard not marked.
ShutdownUnmarked(p) ==
  /\ pc[p] = "opened" /\ ~graceful[p] /\ CmdRoom
  /\ cmd' = Append(cmd, Msg("Fin", data_id(p)))
  /\ UNCHANGED <<callers, control, reg, close_reg, writer, workers, peer, cancelled>>

\* poll_shutdown_opened sends DATA+FIN and marks the guard.
Shutdown(p) ==
  /\ pc[p] = "opened" /\ ~graceful[p] /\ CmdRoom
  /\ cmd' = Append(cmd, Msg("Fin", data_id(p)))
  /\ graceful' = [graceful EXCEPT ![p] = TRUE]
  /\ UNCHANGED <<pc, error_id, permits, writes, open_seq, next_stream_id, control,
                 reg, close_reg, writer, workers, peer, cancelled>>

\* Variant: the control permits are dropped unused.
StreamGuardDropSilent(p) ==
  /\ pc[p] = "opened"
  /\ Goto(p, "dropped")
  /\ permits' = [permits EXCEPT ![p] = 0]
  /\ UNCHANGED <<error_id, graceful, writes, open_seq, next_stream_id, channels,
                 writer, workers, peer, cancelled>>

\* StreamGuard::drop: the permits turn into messages (permit.send).
StreamGuardDrop(p) ==
  /\ pc[p] = "opened"
  /\ Goto(p, "dropped")
  /\ permits' = [permits EXCEPT ![p] = 0]
  /\ control' = IF graceful[p] \/ cancelled THEN control
                ELSE Append(control, Msg("CloseStream", data_id(p)))
  /\ close_reg' = IF cancelled THEN close_reg
                  ELSE SendClose(SendClose(close_reg, error_id[p]), data_id(p))
  /\ UNCHANGED <<error_id, graceful, writes, open_seq, next_stream_id, cmd, reg,
                 writer, workers, peer, cancelled>>

-----------------------------------------------------------------------------
(* run_writer *)

\* process_writer_command: the frames of a command.
FramesOf(m) ==
  CASE m.kind = "OpenStreamPair" ->
         <<Msg("SynStream", m.id), Msg("SynStream", m.id + 2), Msg("Fin", m.id)>>
    [] m.kind = "CloseStream" -> <<Msg("RstStream", m.id)>>
    [] OTHER -> <<m>>

Emit(m) ==
  /\ wire' = wire \o FramesOf(m)
  /\ pending_closes' = IF m.kind = "CloseStream" THEN Append(pending_closes, m.id)
                       ELSE pending_closes

\* The control branch of the select, and the commands it drains with it.
WriterControl ==
  /\ ~cancelled /\ writerAt \in {"select", "control"}
  /\ control # <<>>
  /\ Emit(Head(control))
  /\ control' = Tail(control)
  /\ writerAt' = "control"
  /\ UNCHANGED <<callers, cmd, reg, close_reg, taken, workers, peer, cancelled>>

\* The cmd branch takes a command, which biased polling does only when
\* control_rx is empty; control_rx is then drained before the command runs.
WriterTake ==
  /\ ~cancelled /\ writerAt = "select"
  /\ control = <<>> /\ cmd # <<>>
  /\ taken' = Head(cmd)
  /\ cmd' = Tail(cmd)
  /\ writerAt' = "drain"
  /\ UNCHANGED <<callers, control, reg, close_reg, pending_closes, wire, workers,
                 peer, cancelled>>

WriterDrain ==
  /\ ~cancelled /\ writerAt = "drain"
  /\ control # <<>>
  /\ Emit(Head(control))
  /\ control' = Tail(control)
  /\ UNCHANGED <<callers, cmd, reg, close_reg, writerAt, taken, workers, peer,
                 cancelled>>

WriterRunTaken ==
  /\ ~cancelled /\ writerAt = "drain"
  /\ control = <<>>
  /\ Emit(taken)
  /\ taken' = Msg(None, 0)
  /\ writerAt' = "batch"
  /\ UNCHANGED <<callers, channels, workers, peer, cancelled>>

\* The batch takes more commands without looking at control_rx.
WriterBatch ==
  /\ ~cancelled /\ writerAt = "batch"
  /\ cmd # <<>>
  /\ Emit(Head(cmd))
  /\ cmd' = Tail(cmd)
  /\ UNCHANGED <<callers, control, reg, close_reg, writerAt, taken, workers, peer,
                 cancelled>>

\* One deferred close: sent to its worker, or kept when the channel is full.
DeferClose(acc, id) ==
  LET q == TrySendClose(acc.q, id)
  IN IF q = acc.q THEN [acc EXCEPT !.kept = Append(@, id)] ELSE [acc EXCEPT !.q = q]

Deferred ==
  LET after[i \in 0 .. Len(pending_closes)] ==
        IF i = 0 THEN [q |-> close_reg, kept |-> <<>>]
        ELSE DeferClose(after[i - 1], pending_closes[i])
  IN after[Len(pending_closes)]

\* The end of the batch: flush, then the deferred closes.
WriterFlush ==
  /\ ~cancelled /\ writerAt \in {"control", "batch"}
  /\ close_reg' = Deferred.q /\ pending_closes' = Deferred.kept
  /\ writerAt' = "select"
  /\ UNCHANGED <<callers, cmd, control, reg, taken, wire, workers, peer, cancelled>>

WriterStep ==
  WriterControl \/ WriterTake \/ WriterDrain \/ WriterRunTaken \/ WriterBatch \/ WriterFlush

-----------------------------------------------------------------------------
(* run_frame_worker *)

GoTo(w, l) == workerAt' = [workerAt EXCEPT ![w] = l]

\* apply_registration of Close, and of GoAway: each stream past last_good is
\* removed and reset.
ApplyClose(w) ==
  LET m == Head(close_reg[w])
      bad == {id \in streams : WorkerOf(id) = w /\ id > m.id}
  IN /\ close_reg' = [close_reg EXCEPT ![w] = Tail(@)]
     /\ \/ /\ m.kind = "Close"
           /\ streams' = streams \ {m.id}
           /\ UNCHANGED control
        \/ /\ m.kind = "GoAway"
           /\ streams' = streams \ bad
           /\ \E order \in Bijection(1 .. Cardinality(bad), bad) :
                control' = control \o
                  [i \in 1 .. (IF ControlRoom < Cardinality(bad) THEN ControlRoom
                               ELSE Cardinality(bad)) |-> Msg("CloseStream", order[i])]

ApplyOpen(w) ==
  /\ streams' = streams \cup {Head(reg[w]).id}
  /\ reg' = [reg EXCEPT ![w] = Tail(@)]

\* The loop drains close_reg_rx ...
WorkerCloses(w) ==
  /\ ~cancelled /\ workerAt[w] = "closes"
  /\ \/ /\ close_reg[w] # <<>>
        /\ ApplyClose(w)
        /\ UNCHANGED workerAt
     \/ /\ close_reg[w] = <<>>
        /\ GoTo(w, "opens")
        /\ UNCHANGED <<streams, close_reg, control>>
  /\ UNCHANGED <<callers, cmd, reg, writer, peer, cancelled>>

\* ... then reg_rx ...
WorkerOpens(w) ==
  /\ ~cancelled /\ workerAt[w] = "opens"
  /\ \/ /\ reg[w] # <<>>
        /\ ApplyOpen(w)
        /\ UNCHANGED workerAt
     \/ /\ reg[w] = <<>>
        /\ GoTo(w, "select")
        /\ UNCHANGED <<streams, reg>>
  /\ UNCHANGED <<callers, cmd, control, close_reg, writer, peer, cancelled>>

\* ... and then waits for either, closes first.
WorkerSelect(w) ==
  /\ ~cancelled /\ workerAt[w] = "select"
  /\ \/ /\ close_reg[w] # <<>>
        /\ ApplyClose(w)
        /\ UNCHANGED reg
     \/ /\ close_reg[w] = <<>> /\ reg[w] # <<>>
        /\ ApplyOpen(w)
        /\ UNCHANGED <<close_reg, control>>
  /\ GoTo(w, "closes")
  /\ UNCHANGED <<callers, cmd, writer, peer, cancelled>>

WorkerStep(w) == WorkerCloses(w) \/ WorkerOpens(w) \/ WorkerSelect(w)

OnWire(kind, id) == \E i \in DOMAIN wire : wire[i] = Msg(kind, id)

\* dispatch_frame_in_worker: a frame of the peer on a stream it knows.
\* RST_STREAM removes the entry.  DATA for a stream without entry is answered
\* by RST_STREAM; so is DATA whose reader is gone, which removes the entry.
PeerFrame(w) ==
  /\ ~cancelled /\ frames < MaxFrames /\ Work < MaxWork
  /\ workerAt[w] = "select" /\ close_reg[w] = <<>> /\ reg[w] = <<>>
  /\ \E p \in Pairs : \E id \in IdsOf(p) :
       /\ WorkerOf(id) = w /\ OnWire("SynStream", id)
       /\ \/ /\ streams' = streams \ {id}
             /\ UNCHANGED control
          \/ /\ id \notin streams \/ pc[p] \in {"dropped", "broken"}
             /\ streams' = streams \ {id}
             /\ control' = TrySendControl(Msg("CloseStream", id))
  /\ frames' = frames + 1
  /\ GoTo(w, "closes")
  /\ UNCHANGED <<callers, cmd, reg, close_reg, writer, goaway_received, cancelled>>

\* route_frame of GOAWAY: the flag, then a try_send to each worker.
GoAway ==
  /\ ~cancelled /\ frames < MaxFrames /\ Work < MaxWork /\ ~goaway_received
  /\ goaway_received' = TRUE
  /\ \E last_good \in {0} \cup UNION {IdsOf(p) : p \in Pairs} :
       close_reg' = [w \in Workers |->
                       IF CloseRegRoom(w) > 0
                       THEN Append(close_reg[w], Msg("GoAway", last_good))
                       ELSE close_reg[w]]
  /\ frames' = frames + 1
  /\ UNCHANGED <<callers, cmd, control, reg, writer, workers, cancelled>>

\* The session ends: every task stops, the workers drain their entries and
\* the channels close.
Cancel ==
  /\ ~cancelled
  /\ cancelled' = TRUE
  /\ streams' = {}
  /\ cmd' = <<>> /\ control' = <<>>
  /\ reg' = [w \in Workers |-> <<>>]
  /\ close_reg' = [w \in Workers |-> <<>>]
  /\ UNCHANGED <<callers, writer, workerAt, peer>>

Next ==
  \/ \E p \in Pairs :
       AllocateIds(p) \/ Realize(p) \/ Write(p) \/ Shutdown(p) \/ StreamGuardDrop(p)
  \/ WriterStep
  \/ \E w \in Workers : WorkerStep(w) \/ PeerFrame(w)
  \/ GoAway
  \/ Cancel

Spec == Init /\ [][Next]_vars

-----------------------------------------------------------------------------
\* Types.  In particular no stream gets an id above MAX_STREAM_ID, when the ids
\* run out in the middle of a pair (handle.rs:444).
TypeOK ==
  /\ pc \in [Pairs -> {"unopened", "registerError", "registerData", "enqueueOpen",
                       "reserve", "closeError", "closeData", "opened", "broken",
                       "dropped"}]
  /\ permits \in [Pairs -> 0 .. 4]
  /\ error_id \in [Pairs -> 0 .. MAX_STREAM_ID]
  /\ graceful \in [Pairs -> BOOLEAN] /\ writes \in [Pairs -> 0 .. MaxWrites]
  /\ open_seq \in Pairs \cup {None} /\ next_stream_id \in Nat
  /\ streams \subseteq 1 .. MAX_STREAM_ID
  /\ workerAt \in [Workers -> {"closes", "opens", "select"}]
  /\ writerAt \in {"select", "control", "drain", "batch"}
  /\ goaway_received \in BOOLEAN /\ cancelled \in BOOLEAN
  /\ frames \in 0 .. MaxFrames

\* The permits are honoured: messages and reservations together fit in the
\* channels, so the permit.send of StreamGuard::drop always has its place,
\* whatever the writer, the workers and the reader try_send meanwhile.
PermitsCovered ==
  /\ Len(control) + ControlPermits <= ControlCap
  /\ \A w \in Workers : Len(close_reg[w]) + CloseRegPermits(w) <= CloseRegCap

\* handle.rs:403-405, "IDs are strictly monotonically increasing on the wire":
\* whatever the callers race through, the SYN_STREAM frames leave in the order
\* of their ids.  No stream gets an id above MAX_STREAM_ID, also when the ids run out in
\* the middle of a pair (handle.rs:444), and every variable keeps its type.
SynIdsIncrease ==
  /\ TypeOK
  /\ \A i, j \in DOMAIN wire :
       i < j /\ wire[i].kind = "SynStream" /\ wire[j].kind = "SynStream"
         => wire[i].id < wire[j].id

\* handle.rs:401-405: "the wire never sees frames for a stream whose `SYN_STREAM` has
\* not yet been emitted", for DATA: it leaves after the SYN_STREAM of its stream and
\* before its FIN.  (A RST_STREAM may come first: it travels in the control channel.)
DataWithinStream ==
  \A i \in DOMAIN wire :
    /\ wire[i].kind \in {"Data", "Fin"} =>
         \E j \in 1 .. i-1 : wire[j] = Msg("SynStream", wire[i].id)
    /\ wire[i].kind = "Data" => \A j \in 1 .. i-1 : wire[j] # Msg("Fin", wire[i].id)

\* Nothing is on its way between the callers, the writer and the workers.
Quiet ==
  /\ open_seq = None /\ cmd = <<>> /\ control = <<>> /\ pending_closes = <<>>
  /\ writerAt = "select"
  /\ \A w \in Workers :
       reg[w] = <<>> /\ close_reg[w] = <<>> /\ workerAt[w] = "select"

\* The pair was opened and then dropped without poll_shutdown.
Abandoned(p) == pc[p] = "dropped" /\ ~graceful[p]

\* stream.rs:142, "guaranteed path: use pre-reserved permits for infallible
\* delivery": once nothing is on its way, the RST_STREAM of an abandoned stream has
\* reached the wire, however full the channels were when it was dropped.
AbandonedIsReset ==
  Quiet /\ ~cancelled => \A p \in Pairs : Abandoned(p) => OnWire("RstStream", data_id(p))

\* No teardown hits the wrong stream: until the peer resets something, a live
\* pair has both its entries, although the Close messages of failed and dropped
\* pairs overtake the Open messages in front of them.
LiveIsRegistered ==
  Quiet /\ frames = 0 /\ ~cancelled => \A p \in Opened : IdsOf(p) \subseteq streams
=============================================================================
