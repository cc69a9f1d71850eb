------------------------------ MODULE MuxTasks ------------------------------
(***************************************************************************)
(* The tasks behind one MuxHandle: the writer, the reader, the frame       *)
(* workers and their supervisor (mux/writer.rs, mux/reader.rs,             *)
(* mux/worker.rs, mux/supervisor.rs), the MuxHandle::spawn that starts     *)
(* them and waits for the first PING, and the ways they end: the           *)
(* cancellation token, a closed channel, a write that fails or times out,  *)
(* the idle probe, the stall watchdog, a panic.                            *)
(*                                                                         *)
(* What the tasks exchange is in StreamLifecycle, SendWindow and RecvFlow; *)
(* here a command is only one more thing in a channel of the writer.  Of   *)
(* time the code only asks whether a clock has run for longer than its     *)
(* limit: a running clock may expire at any moment, and does in the end.   *)
(***************************************************************************)
EXTENDS Integers, FiniteSets

CONSTANTS Workers,
          BatchCap,      \* WRITE_BATCH_CAP: 1 and OPPORTUNISTIC_CAP
          QueueCap,      \* capacity of each channel of the writer, beyond what is reserved
          MaxMessages,   \* bound: messages the peer sends
          MaxCloses,     \* bound: Streams, each with a slot of control_rx for its CloseStream
          MaxPanics      \* bound: tasks that panic

ASSUME TasksAssumption ==
  /\ {BatchCap, QueueCap} \subseteq Nat \ {0}
  /\ {MaxMessages, MaxCloses, MaxPanics} \subseteq Nat
  /\ IsFiniteSet(Workers)

VARIABLES
  cancel,      \* the CancellationToken of the handle
  reader,      \* "top" of its loop, in the "select", or "done"
  probe,       \* idle_probe_sent_at is set
  writer,      \* see WriterStates
  hello,       \* writes and flushes left before the main loop
  taken,       \* commands taken by the loop that is capped
  batch,       \* bytes_since_flush > 0
  queue,       \* commands in each of the writer's channels
  worker,      \* worker[w]: "run" or "done"
  supervisor,  \* "run" or "done"
  spawn,       \* "wait" for the first PING, "ok", "failed"
  ping_ready,  \* "pending", "sent", "dropped"
  held,        \* some clone of the MuxHandle (its cmd_tx) is alive
  messages,    \* messages still read; at 0 the peer is silent for good
  closes,      \* slots of control_rx reserved: the Streams not yet dropped
  panics,      \* panics left
  expired      \* the clocks that have run for longer than their limit

readerVars == <<reader, probe>>
writerVars == <<writer, hello, taken, batch>>
spawnVars == <<spawn, ping_ready, held>>
peerVars == <<messages, closes, panics>>
vars == <<cancel, readerVars, writerVars, queue, worker, supervisor, spawnVars,
          peerVars, expired>>

WriterStates == {"hello", "select", "window", "control", "received", "drain", "command",
                 "ping", "flush", "stall", "closing", "done"}

NothingQueued == [window_rx |-> 0, control_rx |-> 0, cmd_rx |-> 0]

Init ==
  /\ cancel = FALSE
  /\ reader = "top" /\ probe = FALSE
  /\ writer = "hello" /\ hello = 4 /\ taken = 0
  /\ batch = FALSE
  /\ queue = NothingQueued
  /\ worker = [w \in Workers |-> "run"]
  /\ supervisor = "run"
  /\ spawn = "wait" /\ ping_ready = "pending" /\ held = TRUE
  /\ messages = MaxMessages /\ closes = MaxCloses /\ panics = MaxPanics
  /\ expired = {}

(***************************************************************************)
(* Time and the channels.                                                  *)
(***************************************************************************)

\* The writer awaits a write or a flush, each under tokio::time::timeout.
Awaits == writer \in {"hello", "window", "control", "drain", "command", "ping", "flush"}

\* Once the writer has left its loop nobody reads the channels: they are emptied, slots
\* included, and what is sent is lost.
Reads == writer \notin {"closing", "done"}

\* The clocks: the sleep of the reader's select until idle_timeout, ping_timeout since
\* the probe, write_timeout of the write or flush awaited, ping_timeout of the spawn.
Clocks == {"idle", "probe", "write", "spawn"}
Runs(c) ==
  \/ c = "idle" /\ reader # "done" /\ ~probe
  \/ c = "probe" /\ reader # "done" /\ probe
  \/ c = "write" /\ Awaits
  \/ c = "spawn" /\ spawn = "wait"

Tick(c) ==
  /\ c \notin expired /\ Runs(c)
  /\ expired' = expired \cup {c}
  /\ UNCHANGED <<cancel, readerVars, writerVars, queue, worker, supervisor, spawnVars,
                 peerVars>>

Restart(clocks) == expired' = expired \ clocks

Capacity == [window_rx |-> QueueCap, control_rx |-> QueueCap + MaxCloses, cmd_rx |-> QueueCap]
Reserved == [window_rx |-> 0, control_rx |-> closes, cmd_rx |-> 0]
HasSlot(rx) == queue[rx] + Reserved[rx] < Capacity[rx]

\* try_send: the command is dropped when the channel is full.
TrySend(rx) == queue' = IF HasSlot(rx) /\ Reads THEN [queue EXCEPT ![rx] = @ + 1] ELSE queue

\* A Stream or an open puts a command in cmd_tx.
Enqueue ==
  /\ held /\ spawn = "ok" /\ HasSlot("cmd_rx") /\ Reads
  /\ queue' = [queue EXCEPT !.cmd_rx = @ + 1]
  /\ UNCHANGED <<cancel, readerVars, writerVars, worker, supervisor, spawnVars, peerVars,
                 expired>>

\* StreamGuard::drop: the CloseStream goes in the slot reserved at the open.
CloseStream ==
  /\ held /\ spawn = "ok" /\ closes > 0
  /\ closes' = closes - 1
  /\ queue' = [queue EXCEPT !.control_rx = @ + 1]
  /\ UNCHANGED <<cancel, readerVars, writerVars, worker, supervisor, spawnVars, messages,
                 panics, expired>>

(***************************************************************************)
(* The reader.                                                             *)
(***************************************************************************)

\* Leaving run_reader cancels the handle and drops the sender of ping_ready; what the peer
\* still sends is not read.
ReaderExit ==
  /\ reader' = "done"
  /\ cancel' = TRUE
  /\ messages' = 0
  /\ ping_ready' = IF ping_ready = "pending" THEN "dropped" ELSE ping_ready
  /\ Restart({"idle", "probe"})
  /\ UNCHANGED <<probe, writerVars, queue, worker, supervisor, spawn, held, closes, panics>>

\* Top of the loop: the age of the probe is looked at here only.
ReaderTop ==
  /\ reader = "top"
  /\ IF probe /\ "probe" \in expired
     THEN ReaderExit
     ELSE /\ reader' = "select"
          /\ UNCHANGED <<cancel, probe, writerVars, queue, worker, supervisor, spawnVars,
                         peerVars, expired>>

ReaderCancelled ==
  /\ reader = "select" /\ cancel
  /\ ReaderExit

\* The sleep of the select, armed only while no probe is out.
ReaderIdle ==
  /\ reader = "select" /\ ~cancel /\ ~probe /\ "idle" \in expired
  /\ TrySend("control_rx")
  /\ probe' = TRUE
  /\ Restart({"idle"})
  /\ reader' = "top"
  /\ UNCHANGED <<cancel, writerVars, worker, supervisor, spawnVars, peerVars>>

\* A message of the peer.  Every kind resets the idle tracking.
ReaderGets ==
  /\ reader = "select" /\ ~cancel /\ messages > 0
  /\ Restart({"idle", "probe"})
  /\ probe' = FALSE
  /\ reader' = "top"
  /\ messages' = messages - 1
  /\ UNCHANGED <<cancel, writerVars, worker, supervisor, spawn, held, closes, panics>>

\* Frame::Ping: the first one completes the handshake whatever its id; later ones are
\* answered when their id is even.
ReaderPing(id) ==
  /\ ReaderGets
  /\ id = 1 => hello <= 3
  /\ IF ping_ready = "pending"
     THEN /\ ping_ready' = "sent"
          /\ UNCHANGED queue
     ELSE /\ IF id % 2 = 0 THEN TrySend("control_rx") ELSE UNCHANGED queue
          /\ UNCHANGED ping_ready

\* A WebSocket Ping, which the writer is asked to answer, DATA, for which the reader or a
\* worker returns credit or resets the stream, or any other frame.
ReaderOther ==
  /\ ReaderGets
  /\ TrySend("control_rx") \/ TrySend("window_rx") \/ UNCHANGED queue
  /\ UNCHANGED ping_ready

\* Close, end of file, a read or decode error, or a frame route_frame rejects.
ReaderBreaks ==
  /\ reader = "select" /\ ~cancel /\ messages > 0
  /\ ReaderExit

(***************************************************************************)
(* The writer.                                                             *)
(***************************************************************************)

writerRest == <<readerVars, worker, supervisor, spawnVars, messages, panics>>

\* Leaving the main loop cancels the handle and closes the transport; a failure before
\* it returns at once.
WriterExit ==
  /\ writer' = IF writer = "hello" THEN "done" ELSE "closing"
  /\ queue' = NothingQueued /\ closes' = 0
  /\ hello' = 0 /\ taken' = 0 /\ batch' = FALSE
  /\ cancel' = TRUE
  /\ Restart({"write"})
  /\ UNCHANGED writerRest

\* The PING and the SETTINGS, each written and flushed.
HelloDone ==
  /\ writer = "hello"
  /\ hello' = hello - 1
  /\ writer' = IF hello = 1 THEN "select" ELSE "hello"
  /\ Restart({"write"})
  /\ UNCHANGED <<cancel, taken, batch, queue, closes, writerRest>>

NothingToTake == \A rx \in DOMAIN queue : queue[rx] = 0

\* A recv of the select returns None: all senders of window_tx, which the reader and the
\* workers have, or of cmd_tx are gone and nothing is left to write.
Closed ==
  \/ queue.window_rx = 0 /\ reader = "done" /\ \A w \in Workers : worker[w] = "done"
  \/ NothingToTake /\ ~held

WriterCancelled ==
  /\ writer = "select" /\ cancel
  /\ WriterExit

WriterClosed ==
  /\ writer = "select" /\ ~cancel /\ Closed
  /\ WriterExit

\* The next command of rx is taken, the nth of its loop, and starts to be written.  A
\* SendWsPong, which only control_rx carries, counts no bytes.
Take(rx, at, nth) ==
  /\ queue[rx] > 0
  /\ queue' = [queue EXCEPT ![rx] = @ - 1]
  /\ taken' = nth
  /\ batch' = TRUE \/ (rx = "control_rx" /\ UNCHANGED batch)
  /\ writer' = at
  /\ Restart({"write"})
  /\ UNCHANGED <<cancel, hello, closes, writerRest>>

\* The select is biased.  A command of cmd_rx is received and not yet written.
WriterRecv ==
  /\ writer = "select" /\ ~cancel /\ ~Closed
  /\ \/ Take("window_rx", "window", 0)
     \/ queue.window_rx = 0 /\ Take("control_rx", "control", 1)
     \/ /\ queue.window_rx = 0 /\ queue.control_rx = 0 /\ queue.cmd_rx > 0
        /\ queue' = [queue EXCEPT !.cmd_rx = @ - 1]
        /\ writer' = "received"
        /\ UNCHANGED <<cancel, hello, taken, batch, closes, writerRest, expired>>

\* All control commands there are, however many, go before the command received.
Drain ==
  \/ Take("control_rx", "drain", 0)
  \/ /\ queue.control_rx = 0
     /\ writer' = "command" /\ taken' = 1 /\ batch' = TRUE
     /\ Restart({"write"})
     /\ UNCHANGED <<cancel, hello, queue, closes, writerRest>>

Received == writer = "received" /\ Drain

\* The two timers of the select come after its channels.
PingTick ==
  /\ writer = "select" /\ ~cancel /\ ~Closed /\ NothingToTake
  /\ writer' = "ping"
  /\ UNCHANGED <<cancel, hello, taken, batch, queue, closes, writerRest, expired>>

StallTick ==
  /\ writer = "select" /\ ~cancel /\ ~Closed /\ NothingToTake
  /\ writer' = "stall"
  /\ UNCHANGED <<cancel, hello, taken, batch, queue, closes, writerRest, expired>>

\* The channels were empty when the select polled them; two of them are counted again here.
\* That the last flush is more than twice write_timeout ago may be so at any tick.
StallCheck ==
  /\ writer = "stall"
  /\ \/ queue.control_rx + queue.cmd_rx > 0 /\ WriterExit
     \/ /\ writer' = "select"
        /\ UNCHANGED <<cancel, hello, taken, batch, queue, closes, writerRest, expired>>

\* A deferred close finds the channel of its worker closed.
WorkerGone == (\E w \in Workers : worker[w] = "done") /\ WriterExit

\* Variant: only a batch that its cap has ended is flushed.
EndBatchFullOnly ==
  \/ /\ writer' = IF taken = BatchCap THEN "flush" ELSE "select"
     /\ taken' = 0
     /\ Restart({"write"})
     /\ UNCHANGED <<cancel, hello, batch, queue, closes, writerRest>>
  \/ taken < BatchCap /\ WorkerGone

\* The batch is flushed if bytes were counted; if not, the deferred closes are next.
EndBatch ==
  \/ /\ writer' = IF batch THEN "flush" ELSE "select"
     /\ taken' = 0
     /\ Restart({"write"})
     /\ UNCHANGED <<cancel, hello, batch, queue, closes, writerRest>>
  \/ ~batch /\ WorkerGone

\* A write is done and try_recv looks for more: in the window channel, and in the control
\* channel before a command, until there is none; elsewhere up to the cap.
WriteDone ==
  \/ writer = "window" /\ IF queue.window_rx > 0
                          THEN Take("window_rx", "window", 0) ELSE EndBatch
  \/ writer = "control" /\ IF queue.control_rx > 0 /\ taken < BatchCap
                           THEN Take("control_rx", "control", taken + 1) ELSE EndBatch
  \/ writer = "drain" /\ Drain
  \/ writer = "command" /\ IF queue.cmd_rx > 0 /\ taken < BatchCap
                           THEN Take("cmd_rx", "command", taken + 1) ELSE EndBatch
  \/ writer = "ping" /\ EndBatch

FlushDone ==
  /\ writer = "flush"
  /\ \/ /\ writer' = "select"
        /\ batch' = FALSE
        /\ Restart({"write"})
        /\ UNCHANGED <<cancel, hello, taken, queue, closes, writerRest>>
     \/ WorkerGone

WriteFails == Awaits /\ WriterExit

WriteTimesOut == Awaits /\ "write" \in expired /\ WriterExit

CloseDone ==
  /\ writer = "closing"
  /\ writer' = "done"
  /\ UNCHANGED <<cancel, hello, taken, batch, queue, closes, writerRest, expired>>

(***************************************************************************)
(* Workers, supervisor, panics.                                            *)
(***************************************************************************)

\* The cancelled token or, when the reader has dropped frame_tx, the closed channel.
WorkerEnds(w) ==
  /\ worker[w] = "run"
  /\ cancel \/ reader = "done"
  /\ worker' = [worker EXCEPT ![w] = "done"]
  /\ UNCHANGED <<cancel, readerVars, writerVars, queue, supervisor, spawnVars, peerVars,
                 expired>>

Panic(t) ==
  /\ panics > 0
  /\ panics' = panics - 1
  /\ \/ /\ t = "reader" /\ reader # "done"
        /\ reader' = "done" /\ messages' = 0
        /\ Restart({"idle", "probe"})
        /\ ping_ready' = IF ping_ready = "pending" THEN "dropped" ELSE ping_ready
        /\ UNCHANGED <<writerVars, queue, closes, worker>>
     \/ /\ t = "writer" /\ writer # "done"
        /\ writer' = "done" /\ hello' = 0 /\ taken' = 0 /\ batch' = FALSE
        /\ queue' = NothingQueued /\ closes' = 0
        /\ Restart({"write"})
        /\ UNCHANGED <<reader, ping_ready, messages, worker>>
     \/ /\ t \in Workers /\ worker[t] = "run"
        /\ worker' = [worker EXCEPT ![t] = "done"]
        /\ UNCHANGED <<reader, ping_ready, messages, writerVars, queue, closes, expired>>
  /\ UNCHANGED <<cancel, probe, supervisor, spawn, held>>

\* join_next: the first task to end, in whatever way.
SomeTaskDone == reader = "done" \/ writer = "done" \/ \E w \in Workers : worker[w] = "done"

\* Variant: only the end of the reader and of the writer is watched.
SuperviseNoWorker ==
  /\ supervisor = "run"
  /\ reader = "done" \/ writer = "done"
  /\ supervisor' = "done"
  /\ cancel' = TRUE
  /\ UNCHANGED <<readerVars, writerVars, queue, worker, spawnVars, peerVars, expired>>

supervise ==
  /\ supervisor = "run"
  /\ SomeTaskDone
  /\ supervisor' = "done"
  /\ cancel' = TRUE
  /\ UNCHANGED <<readerVars, writerVars, queue, worker, spawnVars, peerVars, expired>>

(***************************************************************************)
(* MuxHandle::spawn and the handle.                                        *)
(***************************************************************************)

spawnRest == <<cancel, readerVars, writerVars, queue, worker, supervisor, ping_ready,
               peerVars>>

SpawnOk ==
  /\ spawn = "wait" /\ ping_ready = "sent"
  /\ spawn' = "ok"
  /\ Restart({"spawn"})
  /\ UNCHANGED <<held, spawnRest>>

\* Variant: a failed spawn keeps its handle.
SpawnFailsHeld ==
  /\ spawn = "wait"
  /\ ping_ready = "dropped" \/ (ping_ready = "pending" /\ "spawn" \in expired)
  /\ spawn' = "failed"
  /\ Restart({"spawn"})
  /\ UNCHANGED <<held, spawnRest>>

\* Variant: the wait for the first PING has no timeout.
SpawnFailsUntimed ==
  /\ spawn = "wait" /\ ping_ready = "dropped"
  /\ spawn' = "failed"
  /\ held' = FALSE
  /\ Restart({"spawn"})
  /\ UNCHANGED spawnRest

\* The reader has ended, or the answer is late: the handle is dropped, nothing is
\* cancelled here.
SpawnFails ==
  /\ spawn = "wait"
  /\ ping_ready = "dropped" \/ (ping_ready = "pending" /\ "spawn" \in expired)
  /\ spawn' = "failed"
  /\ held' = FALSE
  /\ Restart({"spawn"})
  /\ UNCHANGED spawnRest

\* The session and the last Stream are dropped.
DropHandle ==
  /\ spawn = "ok" /\ held
  /\ held' = FALSE
  /\ UNCHANGED <<spawn, spawnRest, expired>>

\* Session::close, or the cancellation of a parent token.
Close ==
  /\ ~cancel
  /\ cancel' = TRUE
  /\ UNCHANGED <<readerVars, writerVars, queue, worker, supervisor, spawnVars, peerVars,
                 expired>>

Next ==
  \/ \E c \in Clocks : Tick(c)
  \/ Enqueue \/ CloseStream
  \/ ReaderTop \/ ReaderCancelled \/ ReaderIdle \/ ReaderOther \/ ReaderBreaks
  \/ \E id \in {1, 2} : ReaderPing(id)
  \/ HelloDone \/ WriterCancelled \/ WriterClosed \/ WriterRecv \/ Received \/ PingTick
  \/ StallTick \/ StallCheck \/ WriteDone \/ FlushDone
  \/ WriteFails \/ WriteTimesOut \/ CloseDone
  \/ \E w \in Workers : WorkerEnds(w)
  \/ \E t \in Workers \cup {"reader", "writer"} : Panic(t)
  \/ supervise
  \/ SpawnOk \/ SpawnFails \/ DropHandle \/ Close

Spec == Init /\ [][Next]_vars

\* The runtime polls every task that is ready and every timer fires; a write ends or
\* times out.  Nothing is assumed of the peer, of the application or of the close of
\* the transport.
Fairness ==
  /\ \A c \in Clocks : WF_vars(Tick(c))
  /\ WF_vars(ReaderTop) /\ WF_vars(ReaderCancelled) /\ WF_vars(ReaderIdle)
  /\ WF_vars(WriterCancelled) /\ WF_vars(WriterClosed) /\ WF_vars(WriterRecv)
  /\ WF_vars(Received) /\ WF_vars(StallCheck) /\ WF_vars(WriteTimesOut)
  /\ \A w \in Workers : WF_vars(WorkerEnds(w))
  /\ WF_vars(supervise)
  /\ WF_vars(SpawnOk) /\ WF_vars(SpawnFails)

FairSpec == Spec /\ Fairness

(***************************************************************************)
(* Properties.                                                             *)
(***************************************************************************)

\* Every variable keeps its type; in particular no channel holds more than its capacity.
TypeOK ==
  /\ {cancel, probe, batch, held} \subseteq BOOLEAN
  /\ reader \in {"top", "select", "done"}
  /\ writer \in WriterStates /\ hello \in 0..4 /\ taken \in 0..BatchCap
  /\ queue \in [DOMAIN NothingQueued -> Nat]
  /\ \A rx \in DOMAIN queue : queue[rx] + Reserved[rx] \in 0..Capacity[rx]
  /\ worker \in [Workers -> {"run", "done"}] /\ supervisor \in {"run", "done"}
  /\ spawn \in {"wait", "ok", "failed"} /\ ping_ready \in {"pending", "sent", "dropped"}
  /\ messages \in 0..MaxMessages /\ closes \in 0..MaxCloses /\ panics \in 0..MaxPanics
  /\ \A c \in expired : c \in Clocks /\ Runs(c)

\* Every SPDY frame of a command is flushed before the writer waits for more: no byte
\* counted in bytes_since_flush is left in the transport, however the batch ended, and
\* every variable keeps its type.
CountedFlushed == TypeOK /\ (writer \in {"select", "stall"} => ~batch)

\* Every task has left its loop; closing the transport may still be under way.
AllStopped ==
  /\ reader = "done"
  /\ writer \in {"closing", "done"}
  /\ \A w \in Workers : worker[w] = "done"

\* Once one task has ended, by a return or a panic, or the token is cancelled, all of
\* them leave their loops: none is left behind in a write or a recv (supervise, and the
\* select and timeouts of every task).
OneExitEndsAll == (cancel \/ SomeTaskDone) ~> AllStopped

\* When a spawn fails, or the last clone of the handle is dropped, the tasks end, though
\* no one cancels them: the writer sees cmd_rx closed once it is back in its select.
AbandonedStops == (spawn = "failed" \/ ~held) ~> AllStopped

\* MuxHandle::spawn returns, whatever the peer and the tasks do.
SpawnReturns == <>(spawn # "wait")

\* config.rs:38, of ping_timeout: "Time to wait for a PING response before tearing
\* down".  A peer from which nothing comes any more is given up.
SilentPeerTornDown == messages = 0 ~> cancel
=============================================================================
