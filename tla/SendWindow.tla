----------------------------- MODULE SendWindow -----------------------------
(***************************************************************************)
(* Flow control of the bytes a Stream sends (mux/window.rs,                *)
(* poll_write_via_sender of stream.rs, and the worker, reader and          *)
(* realize_stream_pair code that owns or touches a SendWindow).            *)
(*                                                                         *)
(* A SendWindow is an atomic counter and an AtomicWaker shared by the task *)
(* that writes and the frame worker that replenishes, resizes or poisons   *)
(* it.  Every atomic access of poll_write is a step of its own; so are the *)
(* store and the wake of the worker, and the swap and the broadcast of a   *)
(* SETTINGS frame.  Each stream has a worker of its own (five workers      *)
(* share the streams in the code; they share no state).                    *)
(***************************************************************************)
EXTENDS Integers, Sequences, FiniteSets

CONSTANTS Streams,
          Windows,        \* INITIAL_WINDOW_SIZE values of the peer
          FirstWindow,    \* peer_initial_window before any SETTINGS
          Updates,        \* delta_window_size of the peer's WINDOW_UPDATEs
          BufLen,         \* bytes the application offers to poll_write
          MaxFrameSizes,  \* MaxFrameSizes[s]: values of max_frame_size, the peer's or the
                          \* configured one
          CmdCap,         \* MuxConfig::cmd_buffer_size
          RegCap,         \* MuxConfig::reg_buffer_size
          I64Min,         \* the poison value of `remaining`
          MaxWrites, MaxUpdates, \* bounds for each stream: writes, WINDOW_UPDATEs
          MaxSettings,    \* bound: SETTINGS
          SettingsStreams \* bound: streams opened on a connection that gets SETTINGS

ASSUME WindowAssumption ==
  /\ Windows \subseteq Nat /\ FirstWindow \in Windows
  /\ Updates \subseteq Nat \ {0}
  /\ BufLen \in Nat \ {0} /\ MaxFrameSizes \in [Streams -> SUBSET Nat]
  /\ CmdCap \in Nat \ {0} /\ RegCap \in Nat \ {0}
  /\ I64Min \in Int /\ I64Min < 0
  /\ MaxWrites \in [Streams -> Nat] /\ MaxUpdates \in [Streams -> Nat]
  /\ MaxSettings \in Nat /\ SettingsStreams \in Nat

VARIABLES
  remaining,    \* SendWindow::remaining
  waker,        \* SendWindow::waker holds the task's waker
  pc,           \* where the writing task is
  n,            \* bytes this poll_write is about to debit
  cur,          \* expected value of the compare_exchange in consume
  woken,        \* the task has been woken since it was last polled
  permit,       \* the PollSender holds a permit of the cmd channel
  entry,        \* the stream in its worker: "none", "registered" or "removed"
  regq,         \* reg_rx of the stream's worker
  workerUp,     \* the loop of the stream's worker is running
  due,          \* the worker has stored and not yet called wake()
  peerInitial,  \* peer_initial_window
  delta,        \* SettingsWindowDelta the reader is broadcasting
  pending,      \* workers the broadcast has not reached
  queued,       \* commands in the cmd channel
  max_frame_size, \* what it was when the stream's pair was reserved
  cancelled,    \* the session's CancellationToken
  writerUp,     \* the writer task still owns cmd_rx
  writes, updates, settings,
  credited,     \* what the worker has added to each window, the first value included
  debited       \* what poll_write has taken from it

task == <<pc, n, cur, permit, writes, debited>>
worker == <<entry, workerUp, updates, credited>>
reader == <<max_frame_size, peerInitial, delta, pending, settings>>
vars == <<remaining, waker, woken, due, regq, queued, cancelled, writerUp,
          task, worker, reader>>

Positive(v) == IF v > 0 THEN v ELSE 0
Smaller(a, b) == IF a < b THEN a ELSE b

\* Variant: a frame size without room for payload gives no payload.
max_payload_saturating(s) == Positive(max_frame_size[s] - 8)

\* max_frame_size less the header of a DATA frame; the whole buffer when nothing is left.
max_payload(s) == IF max_frame_size[s] > 8 THEN max_frame_size[s] - 8 ELSE BufLen

\* Variant: the window is not clamped at zero before it becomes a length.
WriteSizeUnclamped(s) == Smaller(BufLen, Smaller(remaining[s], max_payload(s)))

\* buf.len().min(stream_avail).min(max_payload)
WriteSize(s) == Smaller(BufLen, Smaller(Positive(remaining[s]), max_payload(s)))

\* StreamRegistration
Open == [kind |-> "Open", delta |-> 0]
SettingsWindowDelta(d) == [kind |-> "Delta", delta |-> d]

Opened == {s \in Streams : pc[s] # "unopened"}
Permits == Cardinality({s \in Streams : permit[s]})

Init ==
  /\ remaining = [s \in Streams |-> 0]
  /\ waker = [s \in Streams |-> FALSE]
  /\ pc = [s \in Streams |-> "unopened"]
  /\ n = [s \in Streams |-> 0]
  /\ cur = [s \in Streams |-> 0]
  /\ woken = [s \in Streams |-> FALSE]
  /\ permit = [s \in Streams |-> FALSE]
  /\ entry = [s \in Streams |-> "none"]
  /\ regq = [s \in Streams |-> <<>>]
  /\ workerUp = [s \in Streams |-> TRUE]
  /\ due = [s \in Streams |-> FALSE]
  /\ max_frame_size \in [Streams -> UNION {MaxFrameSizes[s] : s \in Streams}]
  /\ \A s \in Streams : max_frame_size[s] \in MaxFrameSizes[s]
  /\ peerInitial = FirstWindow
  /\ delta = 0
  /\ pending = {}
  /\ queued = 0
  /\ cancelled = FALSE
  /\ writerUp = TRUE
  /\ writes = [s \in Streams |-> 0]
  /\ updates = [s \in Streams |-> 0]
  /\ settings = 0
  /\ credited = [s \in Streams |-> 0]
  /\ debited = [s \in Streams |-> 0]

Goto(s, l) == pc' = [pc EXCEPT ![s] = l]

-----------------------------------------------------------------------------
(* realize_stream_pair, as far as the window goes *)

\* SendWindow::new(peer_initial_window.load())
LoadInitial(s) ==
  /\ pc[s] = "unopened"
  /\ ~cancelled
  /\ settings > 0 => Cardinality(Opened) < SettingsStreams
  /\ remaining' = [remaining EXCEPT ![s] = peerInitial]
  /\ credited' = [credited EXCEPT ![s] = peerInitial]
  /\ Goto(s, "enqueue")
  /\ UNCHANGED <<waker, woken, due, regq, queued, cancelled, writerUp, n, cur,
                 permit, writes, debited, entry, workerUp, updates, reader>>

\* reg_tx.try_send(Open): a full or closed channel breaks the stream.
EnqueueOpen(s) ==
  /\ pc[s] = "enqueue"
  /\ \/ /\ workerUp[s] /\ Len(regq[s]) < RegCap
        /\ regq' = [regq EXCEPT ![s] = Append(@, Open)]
        /\ Goto(s, "idle")
     \/ /\ ~workerUp[s] \/ Len(regq[s]) = RegCap
        /\ Goto(s, "broken")
        /\ UNCHANGED regq
  /\ UNCHANGED <<remaining, waker, woken, due, queued, cancelled, writerUp, n,
                 cur, permit, writes, debited, worker, reader>>

-----------------------------------------------------------------------------
(* poll_write_via_sender *)

PollWrite(s) ==
  /\ pc[s] = "idle"
  /\ writes[s] < MaxWrites[s]
  /\ woken' = [woken EXCEPT ![s] = FALSE]
  /\ Goto(s, "isClosed")
  /\ UNCHANGED <<remaining, waker, due, regq, queued, cancelled, writerUp, n,
                 cur, permit, writes, debited, worker, reader>>

\* The executor polls a parked task again once it has been woken.
PollAgain(s) ==
  /\ pc[s] = "blocked"
  /\ woken[s]
  /\ woken' = [woken EXCEPT ![s] = FALSE]
  /\ Goto(s, "isClosed")
  /\ UNCHANGED <<remaining, waker, due, regq, queued, cancelled, writerUp, n,
                 cur, permit, writes, debited, worker, reader>>

IsClosed(s) ==
  /\ pc[s] = "isClosed"
  /\ Goto(s, IF remaining[s] = I64Min THEN "broken" ELSE "reserve")
  /\ UNCHANGED <<remaining, waker, woken, due, regq, queued, cancelled, writerUp,
                 n, cur, permit, writes, debited, worker, reader>>

\* poll_reserve: while the channel is full the task waits here, and the
\* channel wakes it.  A permit kept from an earlier poll is reused.
PollReserve(s) ==
  /\ pc[s] = "reserve"
  /\ \/ /\ permit[s]
        /\ Goto(s, "available")
        /\ UNCHANGED permit
     \/ /\ ~permit[s] /\ writerUp
        /\ queued + Permits < CmdCap
        /\ permit' = [permit EXCEPT ![s] = TRUE]
        /\ Goto(s, "available")
     \/ /\ ~permit[s] /\ ~writerUp
        /\ Goto(s, "broken")
        /\ UNCHANGED permit
  /\ UNCHANGED <<remaining, waker, woken, due, regq, queued, cancelled, writerUp,
                 n, cur, writes, debited, worker, reader>>

Available(s) ==
  /\ pc[s] = "available"
  /\ n' = [n EXCEPT ![s] = WriteSize(s)]
  /\ Goto(s, IF n'[s] = 0 THEN "register" ELSE "consume")
  /\ UNCHANGED <<remaining, waker, woken, due, regq, queued, cancelled, writerUp,
                 cur, permit, writes, debited, worker, reader>>

RegisterWaker(s) ==
  /\ pc[s] = "register"
  /\ waker' = [waker EXCEPT ![s] = TRUE]
  /\ Goto(s, "recheckClosed")
  /\ UNCHANGED <<remaining, woken, due, regq, queued, cancelled, writerUp, n,
                 cur, permit, writes, debited, worker, reader>>

RecheckClosed(s) ==
  /\ pc[s] = "recheckClosed"
  /\ Goto(s, IF remaining[s] = I64Min THEN "broken" ELSE "recheck")
  /\ UNCHANGED <<remaining, waker, woken, due, regq, queued, cancelled, writerUp,
                 n, cur, permit, writes, debited, worker, reader>>

\* Variant: Poll::Pending right after registering the waker.
RecheckDropped(s) ==
  /\ pc[s] = "recheck"
  /\ Goto(s, "blocked")
  /\ UNCHANGED <<remaining, waker, woken, due, regq, queued, cancelled, writerUp,
                 n, cur, permit, writes, debited, worker, reader>>

\* The lost wake guard; "blocked" is Poll::Pending.
Recheck(s) ==
  /\ pc[s] = "recheck"
  /\ n' = [n EXCEPT ![s] = WriteSize(s)]
  /\ Goto(s, IF n'[s] = 0 THEN "blocked" ELSE "consume")
  /\ UNCHANGED <<remaining, waker, woken, due, regq, queued, cancelled, writerUp,
                 cur, permit, writes, debited, worker, reader>>

\* consume: the load of the loop.
ConsumeLoad(s) ==
  /\ pc[s] = "consume"
  /\ cur' = [cur EXCEPT ![s] = remaining[s]]
  /\ Goto(s, IF remaining[s] = I64Min THEN "broken" ELSE "exchange")
  /\ UNCHANGED <<remaining, waker, woken, due, regq, queued, cancelled, writerUp,
                 n, permit, writes, debited, worker, reader>>

\* Variant: a plain store instead of the compare_exchange.
ConsumeStore(s) ==
  /\ pc[s] = "exchange"
  /\ remaining' = [remaining EXCEPT ![s] = cur[s] - n[s]]
  /\ debited' = [debited EXCEPT ![s] = @ + n[s]]
  /\ cur' = [cur EXCEPT ![s] = 0]
  /\ Goto(s, "send")
  /\ UNCHANGED <<waker, woken, due, regq, queued, cancelled, writerUp, n, permit,
                 writes, worker, reader>>

\* consume: the compare_exchange of the loop.  A bound: no window comes down to i64::MIN by
\* arithmetic, which takes 2^63 bytes of debt.
ConsumeExchange(s) ==
  /\ pc[s] = "exchange"
  /\ \/ /\ remaining[s] = cur[s]
        /\ cur[s] - n[s] > I64Min
        /\ remaining' = [remaining EXCEPT ![s] = cur[s] - n[s]]
        /\ debited' = [debited EXCEPT ![s] = @ + n[s]]
        /\ Goto(s, "send")
     \/ /\ remaining[s] # cur[s]
        /\ Goto(s, "consume")
        /\ UNCHANGED <<remaining, debited>>
  /\ cur' = [cur EXCEPT ![s] = 0]
  /\ UNCHANGED <<waker, woken, due, regq, queued, cancelled, writerUp, n, permit,
                 writes, worker, reader>>

\* send_item spends the permit; without a writer the frame goes nowhere.
SendItem(s) ==
  /\ pc[s] = "send"
  /\ permit' = [permit EXCEPT ![s] = FALSE]
  /\ queued' = IF writerUp THEN queued + 1 ELSE queued
  /\ writes' = [writes EXCEPT ![s] = @ + 1]
  /\ n' = [n EXCEPT ![s] = 0]
  /\ Goto(s, "idle")
  /\ UNCHANGED <<remaining, waker, woken, due, regq, cancelled, writerUp, cur,
                 debited, worker, reader>>

-----------------------------------------------------------------------------
(* The frame worker *)

WorkerReady(s) == workerUp[s] /\ ~due[s]

\* fetch_add on the window, as replenish and apply_delta do it, with the same bound.
Add(s, d) ==
  /\ remaining[s] + d > I64Min
  /\ remaining' = [remaining EXCEPT ![s] = @ + d]
  /\ credited' = [credited EXCEPT ![s] = @ + d]

\* apply_registration of Open, or of SettingsWindowDelta, which reaches only
\* the streams the worker knows and wakes only when the window grows.
ApplyRegistration(s) ==
  /\ WorkerReady(s)
  /\ regq[s] # <<>>
  /\ regq' = [regq EXCEPT ![s] = Tail(@)]
  /\ \/ /\ Head(regq[s]).kind = "Open"
        /\ entry' = [entry EXCEPT ![s] = "registered"]
        /\ UNCHANGED <<remaining, credited, due>>
     \/ /\ Head(regq[s]).kind = "Delta" /\ entry[s] = "registered"
        /\ Add(s, Head(regq[s]).delta)
        /\ due' = [due EXCEPT ![s] = Head(regq[s]).delta > 0]
        /\ UNCHANGED entry
     \/ /\ Head(regq[s]).kind = "Delta" /\ entry[s] # "registered"
        /\ UNCHANGED <<entry, remaining, credited, due>>
  /\ UNCHANGED <<waker, woken, queued, cancelled, writerUp, task, workerUp,
                 updates, reader>>

\* Variant: replenish does not wake the writer.
WindowUpdateSilent(s) ==
  /\ WorkerReady(s) /\ entry[s] = "registered"
  /\ updates[s] < MaxUpdates[s]
  /\ \E d \in Updates : Add(s, d)
  /\ updates' = [updates EXCEPT ![s] = @ + 1]
  /\ UNCHANGED <<waker, woken, due, regq, queued, cancelled, writerUp, task,
                 entry, workerUp, reader>>

\* WINDOW_UPDATE for a stream the worker knows: replenish.
WindowUpdate(s) ==
  /\ WorkerReady(s) /\ entry[s] = "registered"
  /\ updates[s] < MaxUpdates[s]
  /\ \E d \in Updates : Add(s, d)
  /\ due' = [due EXCEPT ![s] = TRUE]
  /\ updates' = [updates EXCEPT ![s] = @ + 1]
  /\ UNCHANGED <<waker, woken, regq, queued, cancelled, writerUp, task, entry,
                 workerUp, reader>>

\* Variant: the window is poisoned and the worker keeps the stream.
PoisonOnly(s) ==
  /\ WorkerReady(s) /\ entry[s] = "registered"
  /\ remaining' = [remaining EXCEPT ![s] = I64Min]
  /\ due' = [due EXCEPT ![s] = TRUE]
  /\ UNCHANGED <<waker, woken, regq, queued, cancelled, writerUp, task, entry,
                 workerUp, updates, credited, reader>>

\* streams.remove and SendWindow::close, on RST_STREAM, Close or GOAWAY.
RemoveAndPoison(s) ==
  /\ WorkerReady(s) /\ entry[s] = "registered"
  /\ entry' = [entry EXCEPT ![s] = "removed"]
  /\ remaining' = [remaining EXCEPT ![s] = I64Min]
  /\ due' = [due EXCEPT ![s] = TRUE]
  /\ UNCHANGED <<waker, woken, regq, queued, cancelled, writerUp, task, workerUp,
                 updates, credited, reader>>

\* Variant: the entries are dropped and their windows left as they are.
WorkerExitSilent(s) ==
  /\ cancelled
  /\ WorkerReady(s)
  /\ workerUp' = [workerUp EXCEPT ![s] = FALSE]
  /\ regq' = [regq EXCEPT ![s] = <<>>]
  /\ \/ /\ entry[s] = "registered"
        /\ entry' = [entry EXCEPT ![s] = "removed"]
        /\ UNCHANGED <<remaining, due>>
     \/ /\ entry[s] # "registered"
        /\ UNCHANGED <<entry, remaining, due>>
  /\ UNCHANGED <<waker, woken, queued, cancelled, writerUp, task, updates,
                 credited, reader>>

\* The loop of run_frame_worker ends: it poisons the windows of the streams it
\* has registered and drops what is still in reg_rx.
WorkerExit(s) ==
  /\ cancelled
  /\ WorkerReady(s)
  /\ workerUp' = [workerUp EXCEPT ![s] = FALSE]
  /\ regq' = [regq EXCEPT ![s] = <<>>]
  /\ \/ /\ entry[s] = "registered"
        /\ entry' = [entry EXCEPT ![s] = "removed"]
        /\ remaining' = [remaining EXCEPT ![s] = I64Min]
        /\ due' = [due EXCEPT ![s] = TRUE]
     \/ /\ entry[s] # "registered"
        /\ UNCHANGED <<entry, remaining, due>>
  /\ UNCHANGED <<waker, woken, queued, cancelled, writerUp, task, updates,
                 credited, reader>>

\* AtomicWaker::wake takes the waker, if there is one, and schedules the task.
Wake(s) ==
  /\ due[s]
  /\ due' = [due EXCEPT ![s] = FALSE]
  /\ waker' = [waker EXCEPT ![s] = FALSE]
  /\ woken' = [woken EXCEPT ![s] = @ \/ waker[s]]
  /\ UNCHANGED <<remaining, regq, queued, cancelled, writerUp, task, worker, reader>>

-----------------------------------------------------------------------------
(* The reader, the writer and the session *)

\* SETTINGS: swap peer_initial_window and start the broadcast of the change.
SettingsSwap ==
  /\ pending = {} /\ ~cancelled
  /\ settings < MaxSettings /\ Cardinality(Opened) <= SettingsStreams
  /\ \E w \in Windows \ {peerInitial} :
       /\ peerInitial' = w
       /\ delta' = w - peerInitial
  /\ pending' = Streams
  /\ settings' = settings + 1
  /\ UNCHANGED <<remaining, waker, woken, due, regq, queued, cancelled, writerUp,
                 max_frame_size, task, worker>>

\* reg_tx.try_send(SettingsWindowDelta): the result is ignored.
SettingsBroadcast(s) ==
  /\ s \in pending
  /\ pending' = pending \ {s}
  /\ \/ /\ Len(regq[s]) < RegCap /\ workerUp[s]
        /\ regq' = [regq EXCEPT ![s] = Append(@, SettingsWindowDelta(delta))]
     \/ /\ Len(regq[s]) = RegCap \/ ~workerUp[s]
        /\ UNCHANGED regq
  /\ UNCHANGED <<remaining, waker, woken, due, queued, cancelled, writerUp, task,
                 worker, max_frame_size, peerInitial, delta, settings>>

\* The writer takes a command off cmd_rx.
WriterRecv ==
  /\ writerUp /\ queued > 0
  /\ queued' = queued - 1
  /\ UNCHANGED <<remaining, waker, woken, due, regq, cancelled, writerUp, task,
                 worker, reader>>

\* The transport breaks or the session is closed: cancel.cancel().
Cancel ==
  /\ ~cancelled
  /\ cancelled' = TRUE
  /\ UNCHANGED <<remaining, waker, woken, due, regq, queued, writerUp, task,
                 worker, reader>>

\* The writer sees the cancellation and drops cmd_rx.
WriterExit ==
  /\ cancelled /\ writerUp
  /\ writerUp' = FALSE
  /\ queued' = 0
  /\ UNCHANGED <<remaining, waker, woken, due, regq, cancelled, task, worker, reader>>

Realize(s) == LoadInitial(s) \/ EnqueueOpen(s)
WriteStep(s) ==
  \/ PollAgain(s) \/ IsClosed(s) \/ PollReserve(s) \/ Available(s)
  \/ RegisterWaker(s) \/ RecheckClosed(s) \/ Recheck(s)
  \/ ConsumeLoad(s) \/ ConsumeExchange(s) \/ SendItem(s)
Peer(s) == WindowUpdate(s) \/ RemoveAndPoison(s)

Next ==
  \/ \E s \in Streams :
       \/ Realize(s) \/ PollWrite(s) \/ WriteStep(s) \/ Peer(s)
       \/ ApplyRegistration(s) \/ Wake(s) \/ WorkerExit(s) \/ SettingsBroadcast(s)
  \/ SettingsSwap \/ WriterRecv \/ Cancel \/ WriterExit

Spec == Init /\ [][Next]_vars

\* Every task that is ready runs again; a task that waits for a permit is
\* served in turn (tokio's semaphore is FIFO).  The peer owes nothing.
Fairness ==
  /\ \A s \in Streams :
       /\ WF_vars(EnqueueOpen(s)) /\ SF_vars(WriteStep(s))
       /\ WF_vars(ApplyRegistration(s)) /\ WF_vars(Wake(s)) /\ WF_vars(WorkerExit(s))
       /\ WF_vars(SettingsBroadcast(s))
  /\ WF_vars(WriterRecv) /\ WF_vars(WriterExit)

FairSpec == Spec /\ Fairness

-----------------------------------------------------------------------------
Labels == {"unopened", "enqueue", "idle", "isClosed", "reserve", "available",
           "register", "recheckClosed", "recheck", "blocked", "consume",
           "exchange", "send", "broken"}

\* Types.  In particular poll_write never debits a negative number of bytes, though
\* a SETTINGS delta may make the window negative (stream.rs:499).
TypeOK ==
  /\ remaining \in [Streams -> Int]
  /\ waker \in [Streams -> BOOLEAN]
  /\ pc \in [Streams -> Labels]
  /\ n \in [Streams -> Nat] /\ cur \in [Streams -> Int]
  /\ woken \in [Streams -> BOOLEAN] /\ permit \in [Streams -> BOOLEAN]
  /\ entry \in [Streams -> {"none", "registered", "removed"}]
  /\ workerUp \in [Streams -> BOOLEAN]
  /\ regq \in [Streams -> Seq([kind : {"Open", "Delta"}, delta : Int])]
  /\ due \in [Streams -> BOOLEAN]
  /\ max_frame_size \in [Streams -> Nat]
  /\ peerInitial \in Nat /\ delta \in Int /\ pending \subseteq Streams
  /\ queued \in Nat /\ cancelled \in BOOLEAN /\ writerUp \in BOOLEAN
  /\ writes \in [Streams -> Nat] /\ updates \in [Streams -> Nat] /\ settings \in Nat
  /\ credited \in [Streams -> Int] /\ debited \in [Streams -> Nat]

\* Window conservation: until it is poisoned, a window holds exactly what was
\* credited minus what was debited.  The load and the compare_exchange of
\* consume race with the worker's fetch_add; no update is lost.
WindowConserved ==
  \A s \in Streams : remaining[s] # I64Min => remaining[s] = credited[s] - debited[s]

\* Poison is permanent: replenish and apply_delta use fetch_add and would turn
\* i64::MIN back into a number, so a closed stream stays closed only because
\* the worker forgets a stream before it poisons its window.
PoisonIsForever ==
  [][\A s \in Streams : remaining[s] = I64Min => remaining'[s] = I64Min]_vars

\* No lost wake: a writer parked on its window (Poll::Pending) while there is
\* something for it to see - credit, or the poison - has been woken or is
\* about to be, by a wake() that will find its waker.  A max_frame_size without
\* room for payload (stream.rs:491-496) does not park it either.
NoLostWake ==
  \A s \in Streams :
    pc[s] = "blocked" /\ (remaining[s] = I64Min \/ remaining[s] > 0)
      => woken[s] \/ (due[s] /\ waker[s])

\* A writer parked on its window runs again once there is credit or poison.
CreditResumesWriter ==
  \A s \in Streams :
    pc[s] = "blocked" /\ (remaining[s] = I64Min \/ remaining[s] > 0)
      ~> pc[s] # "blocked"

\* poll_reserve comes before the window check, so a writer parked on its window keeps the
\* slot of the cmd channel it has reserved, and a broken one keeps it until it is dropped.
Parked(s) ==
  \/ pc[s] = "broken"
  \/ pc[s] = "blocked" /\ remaining[s] <= 0 /\ remaining[s] # I64Min

\* A writer waiting for a slot of the cmd channel, which all streams share, gets one or sees
\* the channel close, unless every slot is kept for good by streams that are parked
\* without credit or broken: a stream that has credit, or is poisoned, gives its slot back.
AdmittedUnlessParked ==
  \A s \in Streams :
    \/ []<>(pc[s] # "reserve")
    \/ <>[](Cardinality({t \in Streams : permit[t] /\ Parked(t)}) = CmdCap)

\* mux/mod.rs:17-20: "When the WebSocket closes or errors, **all** streams
\* receive `BrokenPipe`. ... transport failure propagates to every stream as an
\* I/O error."  A parked writer does not outlive the transport if its worker has
\* registered the stream; an Open still in reg_rx is dropped, its window with it.
BreakReachesRegistered ==
  \A s \in Streams :
    cancelled /\ pc[s] = "blocked" /\ entry[s] = "registered" ~> pc[s] # "blocked"
=============================================================================
