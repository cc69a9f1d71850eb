-------------------------- MODULE SendWindowProofs --------------------------
(***************************************************************************)
(* WindowConserved, PoisonIsForever and NoLostWake for any streams, any    *)
(* windows and any bounds.                                                 *)
(*                                                                         *)
(* A window is poisoned only once its worker has forgotten the stream, and *)
(* a forgotten stream never comes back: its only Open has left reg_rx.  So *)
(* no fetch_add meets the poison.  As to wakes: from the registration of   *)
(* its waker until its next poll, the task has been woken or its waker is  *)
(* there to be taken; credit or poison the task has not seen is followed   *)
(* by a wake that is still due.                                            *)
(***************************************************************************)
EXTENDS SendWindow, SequenceTheorems, TLAPS

Registration == [kind : {"Open", "Delta"}, delta : Int]
NoOpen(q) == \A i \in 1 .. Len(q) : q[i].kind # "Open"
OneOpen(q) == \A i, j \in 1 .. Len(q) : q[i].kind = "Open" /\ q[j].kind = "Open" => i = j

\* The stream is opened once.
OpenedOnce(s) ==
  /\ pc[s] \in {"unopened", "enqueue"} => entry[s] = "none" /\ NoOpen(regq[s])
  /\ entry[s] # "none" => NoOpen(regq[s])
  /\ OneOpen(regq[s])

\* The window is what was credited less what was debited, until it is poisoned.
Conserved(s) ==
  /\ remaining[s] # I64Min => remaining[s] = credited[s] - debited[s]
  /\ remaining[s] = I64Min => entry[s] = "removed"
  /\ pc[s] = "unopened" => debited[s] = 0
  /\ pc[s] = "exchange" => cur[s] # I64Min

Waiting == {"recheckClosed", "recheck", "blocked"}

\* A task that has registered its waker can be woken, and will be.
WillWake(s) ==
  /\ pc[s] \in Waiting => waker[s] \/ woken[s]
  /\ pc[s] \in {"recheck", "blocked"} /\ remaining[s] = I64Min
       => woken[s] \/ (due[s] /\ waker[s])
  /\ pc[s] = "blocked" /\ remaining[s] > 0 => woken[s] \/ (due[s] /\ waker[s])

StreamInv(s) == OpenedOnce(s) /\ Conserved(s) /\ WillWake(s)

IndInv == TypeOK /\ \A s \in Streams : StreamInv(s)
-----------------------------------------------------------------------------

\* A registration other than Open, or the first Open, is put in reg_rx.
LEMMA QueueAppend ==
  ASSUME NEW q \in Seq(Registration), NEW r \in Registration
  PROVE  /\ Append(q, r) \in Seq(Registration)
         /\ NoOpen(q) => OneOpen(Append(q, r))
         /\ NoOpen(q) /\ r.kind # "Open" => NoOpen(Append(q, r))
         /\ OneOpen(q) /\ r.kind # "Open" => OneOpen(Append(q, r))
<1> DEFINE a == Append(q, r)
<1>1. /\ a \in Seq(Registration) /\ Len(a) = Len(q) + 1 /\ Len(q) \in Nat
      /\ \A i \in 1 .. Len(q) : a[i] = q[i]
      /\ a[Len(q) + 1] = r
  BY AppendProperties
<1>2. \A i \in 1 .. Len(a) : i \in 1 .. Len(q) \/ i = Len(q) + 1
  BY <1>1
<1> HIDE DEF a
<1>3. NoOpen(q) => OneOpen(a)
  BY <1>1, <1>2 DEF NoOpen, OneOpen
<1>4. NoOpen(q) /\ r.kind # "Open" => NoOpen(a)
  BY <1>1, <1>2 DEF NoOpen
<1>5. OneOpen(q) /\ r.kind # "Open" => OneOpen(a)
  BY <1>1, <1>2 DEF OneOpen
<1>. QED  BY <1>1, <1>3, <1>4, <1>5 DEF a

\* A registration is taken off reg_rx.
LEMMA QueueTail ==
  ASSUME NEW q \in Seq(Registration), q # <<>>
  PROVE  /\ Tail(q) \in Seq(Registration) /\ Head(q) \in Registration
         /\ NoOpen(q) => NoOpen(Tail(q)) /\ Head(q).kind # "Open"
         /\ OneOpen(q) => OneOpen(Tail(q))
         /\ OneOpen(q) /\ Head(q).kind = "Open" => NoOpen(Tail(q))
<1> DEFINE t == Tail(q)
<1>1. /\ t \in Seq(Registration) /\ Head(q) \in Registration /\ Head(q) = q[1]
      /\ Len(t) = Len(q) - 1 /\ Len(q) \in Nat /\ Len(q) >= 1
      /\ \A i \in 1 .. Len(t) : t[i] = q[i+1]
  BY HeadTailProperties
<1>2. \A i \in 1 .. Len(t) : i + 1 \in 1 .. Len(q) /\ i + 1 # 1
  BY <1>1
<1>h. 1 \in 1 .. Len(q)
  BY <1>1
<1> HIDE DEF t
<1>3. NoOpen(q) => NoOpen(t) /\ Head(q).kind # "Open"
  BY <1>1, <1>2, <1>h DEF NoOpen
<1>4. ASSUME OneOpen(q) PROVE OneOpen(t)
  <2>1. ASSUME NEW i \in 1 .. Len(t), NEW j \in 1 .. Len(t),
               t[i].kind = "Open", t[j].kind = "Open"
        PROVE  i = j
    <3>1. i + 1 = j + 1
      BY <1>1, <1>2, <1>4, <2>1, Zenon DEF OneOpen
    <3>. QED  BY <3>1
  <2>. QED  BY <2>1 DEF OneOpen
<1>5. OneOpen(q) /\ Head(q).kind = "Open" => NoOpen(t)
  BY <1>1, <1>2, <1>h DEF NoOpen, OneOpen
<1>. QED  BY <1>1, <1>3, <1>4, <1>5 DEF t
-----------------------------------------------------------------------------

\* What the invariant of a stream reads is as it was.
Same(s) ==
  /\ remaining'[s] = remaining[s] /\ waker'[s] = waker[s] /\ pc'[s] = pc[s]
  /\ cur'[s] = cur[s] /\ woken'[s] = woken[s] /\ entry'[s] = entry[s]
  /\ regq'[s] = regq[s] /\ due'[s] = due[s]
  /\ credited'[s] = credited[s] /\ debited'[s] = debited[s]

\* A step keeps the invariant of the streams it does not touch.
LEMMA SameInv ==
  ASSUME NEW s \in Streams, StreamInv(s), Same(s)
  PROVE  StreamInv(s)'
<1>1. OpenedOnce(s)'
  BY DEF StreamInv, OpenedOnce, NoOpen, OneOpen, Same
<1>2. Conserved(s)'
  BY DEF StreamInv, Conserved, Same
<1>3. WillWake(s)'
  BY DEF StreamInv, WillWake, Waiting, Same
<1>. QED  BY <1>1, <1>2, <1>3 DEF StreamInv

\* A step of one stream keeps the invariant if it keeps that stream's.
LEMMA OneStream ==
  ASSUME IndInv, NEW s \in Streams, TypeOK', StreamInv(s)',
         \A t \in Streams \ {s} : Same(t)
  PROVE  IndInv'
<1>1. ASSUME NEW t \in Streams PROVE StreamInv(t)'
  <2>1. CASE t = s
    BY <2>1
  <2>2. CASE t # s
    BY <2>2, SameInv DEF IndInv
  <2>. QED  BY <2>1, <2>2
<1>. QED  BY <1>1 DEF IndInv

\* poll_write offers a number of bytes, and none only without credit.
LEMMA WriteSizeFacts ==
  ASSUME NEW s \in Streams, remaining[s] \in Int, max_frame_size[s] \in Nat
  PROVE  WriteSize(s) \in Nat /\ (WriteSize(s) = 0 => ~(remaining[s] > 0))
<1>1. max_payload(s) \in Nat \ {0}
  BY WindowAssumption DEF max_payload
<1>. QED  BY <1>1, WindowAssumption DEF WriteSize, Smaller, Positive

\* realize_stream_pair: the window is loaded and the Open queued.
LEMMA RealizeInv ==
  ASSUME IndInv, NEW s \in Streams, Realize(s)
  PROVE  IndInv'
<1> USE DEF IndInv
<1>1. CASE LoadInitial(s)
  <2>1. TypeOK'
    BY <1>1, SMTT(40) DEF LoadInitial, Goto, TypeOK, Labels, reader
  <2>2. StreamInv(s)'
    <3>1. OpenedOnce(s)'
      BY <1>1 DEF LoadInitial, Goto, TypeOK, StreamInv, OpenedOnce
    <3>2. Conserved(s)'
      BY <1>1, WindowAssumption DEF LoadInitial, Goto, TypeOK, StreamInv, Conserved
    <3>3. WillWake(s)'
      BY <1>1 DEF LoadInitial, Goto, TypeOK, WillWake, Waiting
    <3>. QED  BY <3>1, <3>2, <3>3 DEF StreamInv
  <2>3. \A t \in Streams \ {s} : Same(t)
    BY <1>1 DEF LoadInitial, Goto, TypeOK, Same
  <2>. QED  BY <2>1, <2>2, <2>3, OneStream
<1>2. CASE EnqueueOpen(s)
  <2>0. /\ Open \in Registration /\ regq[s] \in Seq(Registration)
        /\ NoOpen(regq[s]) /\ entry[s] = "none"
    BY <1>2 DEF EnqueueOpen, TypeOK, Registration, Open, StreamInv, OpenedOnce
  <2>a. /\ Append(regq[s], Open) \in Seq(Registration)
        /\ OneOpen(Append(regq[s], Open)) /\ OneOpen(regq[s])
    BY <2>0, QueueAppend DEF NoOpen, OneOpen
  <2>q. /\ regq' \in [Streams -> Seq(Registration)]
        /\ regq'[s] \in {regq[s], Append(regq[s], Open)}
        /\ \A t \in Streams \ {s} : regq'[t] = regq[t]
    <3>1. regq \in [Streams -> Seq(Registration)]
      BY DEF TypeOK, Registration
    <3>2. regq' = regq \/ regq' = [regq EXCEPT ![s] = Append(regq[s], Open)]
      BY <1>2, Zenon DEF EnqueueOpen
    <3>. QED  BY <2>a, <3>1, <3>2, Zenon
  <2>p. /\ pc' \in [Streams -> Labels] /\ pc'[s] \in {"idle", "broken"}
        /\ \A t \in Streams \ {s} : pc'[t] = pc[t]
        /\ UNCHANGED <<remaining, waker, woken, due, queued, cancelled, writerUp,
                       n, cur, permit, writes, debited, worker, reader>>
    BY <1>2, Zenon DEF EnqueueOpen, Goto, TypeOK, Labels
  <2>1. TypeOK'
    BY <2>q, <2>p, Zenon DEF TypeOK, worker, reader, Registration
  <2>2. StreamInv(s)'
    <3>1. OpenedOnce(s)'
      BY <2>0, <2>a, <2>q, <2>p, Zenon DEF OpenedOnce, worker
    <3>2. Conserved(s)'
      BY <2>p DEF StreamInv, Conserved, worker
    <3>3. WillWake(s)'
      BY <2>p DEF WillWake, Waiting
    <3>. QED  BY <3>1, <3>2, <3>3 DEF StreamInv
  <2>3. \A t \in Streams \ {s} : Same(t)
    BY <2>q, <2>p DEF Same, worker
  <2>. QED  BY <2>1, <2>2, <2>3, OneStream
<1>. QED  BY <1>1, <1>2 DEF Realize

\* The steps of poll_write.  Only consume debits the window, and it does so
\* from a value it has just found there.
LEMMA WriteInv ==
  ASSUME IndInv, NEW s \in Streams, PollWrite(s) \/ WriteStep(s)
  PROVE  IndInv'
<1> USE DEF IndInv
<1>o. ASSUME regq' = regq, entry' = entry, pc[s] \notin {"unopened", "enqueue"},
             pc'[s] \notin {"unopened", "enqueue"}
      PROVE  OpenedOnce(s)'
  BY <1>o DEF StreamInv, OpenedOnce
<1>w. WriteSize(s) \in Nat /\ (WriteSize(s) = 0 => ~(remaining[s] > 0))
  BY WriteSizeFacts DEF TypeOK
<1>1. CASE PollWrite(s)
  <2>1. TypeOK'
    BY <1>1 DEF PollWrite, Goto, TypeOK, Labels, worker, reader
  <2>2. OpenedOnce(s)'
    BY <1>1, <1>o DEF PollWrite, Goto, TypeOK, worker
  <2>3. Conserved(s)'
    BY <1>1 DEF PollWrite, Goto, TypeOK, StreamInv, Conserved, worker
  <2>4. WillWake(s)'
    BY <1>1 DEF PollWrite, Goto, TypeOK, StreamInv, WillWake, Waiting
  <2>5. \A t \in Streams \ {s} : Same(t)
    BY <1>1 DEF PollWrite, Goto, TypeOK, Same, worker
  <2>. QED  BY <2>1, <2>2, <2>3, <2>4, <2>5, OneStream DEF StreamInv
<1>2. CASE PollAgain(s)
  <2>1. TypeOK'
    BY <1>2 DEF PollAgain, Goto, TypeOK, Labels, worker, reader
  <2>2. OpenedOnce(s)'
    BY <1>2, <1>o DEF PollAgain, Goto, TypeOK, worker
  <2>3. Conserved(s)'
    BY <1>2 DEF PollAgain, Goto, TypeOK, StreamInv, Conserved, worker
  <2>4. WillWake(s)'
    BY <1>2 DEF PollAgain, Goto, TypeOK, StreamInv, WillWake, Waiting
  <2>5. \A t \in Streams \ {s} : Same(t)
    BY <1>2 DEF PollAgain, Goto, TypeOK, Same, worker
  <2>. QED  BY <2>1, <2>2, <2>3, <2>4, <2>5, OneStream DEF StreamInv
<1>3. CASE IsClosed(s)
  <2>1. TypeOK'
    BY <1>3 DEF IsClosed, Goto, TypeOK, Labels, worker, reader
  <2>2. OpenedOnce(s)'
    BY <1>3, <1>o DEF IsClosed, Goto, TypeOK, worker
  <2>3. Conserved(s)'
    BY <1>3 DEF IsClosed, Goto, TypeOK, StreamInv, Conserved, worker
  <2>4. WillWake(s)'
    BY <1>3 DEF IsClosed, Goto, TypeOK, StreamInv, WillWake, Waiting
  <2>5. \A t \in Streams \ {s} : Same(t)
    BY <1>3 DEF IsClosed, Goto, TypeOK, Same, worker
  <2>. QED  BY <2>1, <2>2, <2>3, <2>4, <2>5, OneStream DEF StreamInv
<1>4. CASE PollReserve(s)
  <2>1. TypeOK'
    BY <1>4, Zenon DEF PollReserve, Goto, TypeOK, Labels, worker, reader
  <2>2. OpenedOnce(s)'
    BY <1>4, <1>o DEF PollReserve, Goto, TypeOK, worker
  <2>3. Conserved(s)'
    BY <1>4 DEF PollReserve, Goto, TypeOK, StreamInv, Conserved, worker
  <2>4. WillWake(s)'
    BY <1>4 DEF PollReserve, Goto, TypeOK, StreamInv, WillWake, Waiting
  <2>5. \A t \in Streams \ {s} : Same(t)
    BY <1>4 DEF PollReserve, Goto, TypeOK, Same, worker
  <2>. QED  BY <2>1, <2>2, <2>3, <2>4, <2>5, OneStream DEF StreamInv
<1>5. CASE Available(s)
  <2>1. TypeOK'
    BY <1>5, <1>w DEF Available, Goto, TypeOK, Labels, worker, reader
  <2>2. OpenedOnce(s)'
    BY <1>5, <1>o DEF Available, Goto, TypeOK, worker
  <2>3. Conserved(s)'
    BY <1>5 DEF Available, Goto, TypeOK, StreamInv, Conserved, worker
  <2>4. WillWake(s)'
    BY <1>5, <1>w DEF Available, Goto, TypeOK, StreamInv, WillWake, Waiting
  <2>5. \A t \in Streams \ {s} : Same(t)
    BY <1>5 DEF Available, Goto, TypeOK, Same, worker
  <2>. QED  BY <2>1, <2>2, <2>3, <2>4, <2>5, OneStream DEF StreamInv
<1>6. CASE RegisterWaker(s)
  <2>1. TypeOK'
    BY <1>6 DEF RegisterWaker, Goto, TypeOK, Labels, worker, reader
  <2>2. OpenedOnce(s)'
    BY <1>6, <1>o DEF RegisterWaker, Goto, TypeOK, worker
  <2>3. Conserved(s)'
    BY <1>6 DEF RegisterWaker, Goto, TypeOK, StreamInv, Conserved, worker
  <2>4. WillWake(s)'
    BY <1>6 DEF RegisterWaker, Goto, TypeOK, StreamInv, WillWake, Waiting
  <2>5. \A t \in Streams \ {s} : Same(t)
    BY <1>6 DEF RegisterWaker, Goto, TypeOK, Same, worker
  <2>. QED  BY <2>1, <2>2, <2>3, <2>4, <2>5, OneStream DEF StreamInv
<1>7. CASE RecheckClosed(s)
  <2>1. TypeOK'
    BY <1>7 DEF RecheckClosed, Goto, TypeOK, Labels, worker, reader
  <2>2. OpenedOnce(s)'
    BY <1>7, <1>o DEF RecheckClosed, Goto, TypeOK, worker
  <2>3. Conserved(s)'
    BY <1>7 DEF RecheckClosed, Goto, TypeOK, StreamInv, Conserved, worker
  <2>4. WillWake(s)'
    BY <1>7 DEF RecheckClosed, Goto, TypeOK, StreamInv, WillWake, Waiting
  <2>5. \A t \in Streams \ {s} : Same(t)
    BY <1>7 DEF RecheckClosed, Goto, TypeOK, Same, worker
  <2>. QED  BY <2>1, <2>2, <2>3, <2>4, <2>5, OneStream DEF StreamInv
<1>8. CASE Recheck(s)
  <2>1. TypeOK'
    BY <1>8, <1>w DEF Recheck, Goto, TypeOK, Labels, worker, reader
  <2>2. OpenedOnce(s)'
    BY <1>8, <1>o DEF Recheck, Goto, TypeOK, worker
  <2>3. Conserved(s)'
    BY <1>8 DEF Recheck, Goto, TypeOK, StreamInv, Conserved, worker
  <2>4. WillWake(s)'
    BY <1>8, <1>w DEF Recheck, Goto, TypeOK, StreamInv, WillWake, Waiting
  <2>5. \A t \in Streams \ {s} : Same(t)
    BY <1>8 DEF Recheck, Goto, TypeOK, Same, worker
  <2>. QED  BY <2>1, <2>2, <2>3, <2>4, <2>5, OneStream DEF StreamInv
<1>9. CASE ConsumeLoad(s)
  <2>1. TypeOK'
    BY <1>9 DEF ConsumeLoad, Goto, TypeOK, Labels, worker, reader
  <2>2. OpenedOnce(s)'
    BY <1>9, <1>o DEF ConsumeLoad, Goto, TypeOK, worker
  <2>3. Conserved(s)'
    BY <1>9 DEF ConsumeLoad, Goto, TypeOK, StreamInv, Conserved, worker
  <2>4. WillWake(s)'
    BY <1>9 DEF ConsumeLoad, Goto, TypeOK, StreamInv, WillWake, Waiting
  <2>5. \A t \in Streams \ {s} : Same(t)
    BY <1>9 DEF ConsumeLoad, Goto, TypeOK, Same, worker
  <2>. QED  BY <2>1, <2>2, <2>3, <2>4, <2>5, OneStream DEF StreamInv
<1>10. CASE ConsumeExchange(s)
  <2>n. cur[s] - n[s] \in Int /\ debited[s] + n[s] \in Nat
    BY DEF TypeOK
  <2>t. /\ remaining \in [Streams -> Int] /\ debited \in [Streams -> Nat]
        /\ pc \in [Streams -> Labels] /\ cur \in [Streams -> Int]
    BY Zenon DEF TypeOK
  <2>c. /\ \/ /\ remaining' = [remaining EXCEPT ![s] = cur[s] - n[s]]
              /\ debited' = [debited EXCEPT ![s] = @ + n[s]]
           \/ remaining' = remaining /\ debited' = debited
        /\ \/ pc' = [pc EXCEPT ![s] = "send"]
           \/ pc' = [pc EXCEPT ![s] = "consume"]
        /\ cur' = [cur EXCEPT ![s] = 0]
    BY <1>10, Zenon DEF ConsumeExchange, Goto
  <2>r. remaining' \in [Streams -> Int]
    BY <2>c, <2>n, <2>t, Zenon
  <2>b. debited' \in [Streams -> Nat]
    BY <2>c, <2>n, <2>t, Zenon
  <2>p. pc' \in [Streams -> Labels]
    BY <2>c, <2>t DEF Labels
  <2>d. cur' \in [Streams -> Int]
    BY <2>c, <2>t
  <2>1. TypeOK'
    BY <1>10, <2>r, <2>b, <2>p, <2>d, Zenon DEF ConsumeExchange, TypeOK, worker, reader
  <2>2. OpenedOnce(s)'
    BY <1>10, <1>o DEF ConsumeExchange, Goto, TypeOK, worker
  <2>3. Conserved(s)'
    BY <1>10, SMTT(40) DEF ConsumeExchange, Goto, TypeOK, StreamInv, Conserved, worker
  <2>4. WillWake(s)'
    BY <1>10 DEF ConsumeExchange, Goto, TypeOK, StreamInv, WillWake, Waiting
  <2>5. \A t \in Streams \ {s} : Same(t)
    <3>1. UNCHANGED <<waker, woken, due, regq, worker>>
      BY <1>10, Zenon DEF ConsumeExchange
    <3>. QED  BY <2>c, <2>t, <3>1 DEF Same, worker
  <2>. QED  BY <2>1, <2>2, <2>3, <2>4, <2>5, OneStream DEF StreamInv
<1>11. CASE SendItem(s)
  <2>1. TypeOK'
    <3>1. /\ writes[s] + 1 \in Nat /\ queued + 1 \in Nat /\ 0 \in Nat
          /\ writes \in [Streams -> Nat] /\ pc \in [Streams -> Labels]
      BY DEF TypeOK
    <3>2. writes' \in [Streams -> Nat] /\ queued' \in Nat
      BY <1>11, <3>1, Zenon DEF SendItem, TypeOK
    <3>3. pc' \in [Streams -> Labels]
      BY <1>11, <3>1 DEF SendItem, Goto, Labels
    <3>. QED  BY <1>11, <3>1, <3>2, <3>3, Zenon DEF SendItem, TypeOK, worker, reader
  <2>2. OpenedOnce(s)'
    BY <1>11, <1>o DEF SendItem, Goto, TypeOK, worker
  <2>3. Conserved(s)'
    BY <1>11 DEF SendItem, Goto, TypeOK, StreamInv, Conserved, worker
  <2>4. WillWake(s)'
    BY <1>11 DEF SendItem, Goto, TypeOK, StreamInv, WillWake, Waiting
  <2>5. \A t \in Streams \ {s} : Same(t)
    BY <1>11 DEF SendItem, Goto, TypeOK, Same, worker
  <2>. QED  BY <2>1, <2>2, <2>3, <2>4, <2>5, OneStream DEF StreamInv
<1>. QED
  BY <1>1, <1>2, <1>3, <1>4, <1>5, <1>6, <1>7, <1>8, <1>9, <1>10, <1>11 DEF WriteStep
-----------------------------------------------------------------------------

\* A window above the poison value is not the poison value (i64::MIN, window.rs:37).
LEMMA AboveMin == ASSUME NEW x \in Int, x > I64Min PROVE x # I64Min
BY WindowAssumption

\* A fetch_add (window.rs) of d to a window and to what was credited to it
\* leaves integers, and the same debit between them.
LEMMA CreditBoth ==
  /\ \A x, d \in Int : x + d \in Int
  /\ \A x \in Nat : x \in Int /\ x + 1 \in Nat
  /\ \A c, b, d \in Int : (c - b) + d = (c + d) - b
  OBVIOUS

\* The steps of the worker and the reader that touch one stream: only a
\* registered stream is credited or poisoned, and every poison, and every
\* credit that grows the window, leaves a wake due.
LEMMA WorkerInv ==
  ASSUME IndInv, NEW s \in Streams,
         Peer(s) \/ ApplyRegistration(s) \/ Wake(s) \/ WorkerExit(s) \/ SettingsBroadcast(s)
  PROVE  IndInv'
<1> USE DEF IndInv
<1>q. regq[s] \in Seq(Registration) /\ OneOpen(regq[s])
  BY DEF TypeOK, Registration, StreamInv, OpenedOnce
<1>1. CASE WindowUpdate(s)
  <2>1. PICK d \in Updates : Add(s, d)
    BY <1>1 DEF WindowUpdate
  <2>2. /\ d \in Nat /\ d > 0 /\ entry[s] = "registered"
        /\ remaining[s] + d \in Int /\ credited[s] + d \in Int /\ updates[s] + 1 \in Nat
    <3>1. d \in Nat /\ d > 0
      BY WindowAssumption
    <3>2. remaining[s] \in Int /\ credited[s] \in Int /\ updates[s] \in Nat
      BY DEF TypeOK
    <3>3. entry[s] = "registered"
      BY <1>1, Zenon DEF WindowUpdate
    <3>. QED  BY <3>1, <3>2, <3>3, CreditBoth, Zenon
  <2>3. TypeOK'
    BY <1>1, <2>1, <2>2, Zenon DEF WindowUpdate, Add, TypeOK, task, reader
  <2>4. OpenedOnce(s)'
    BY <1>1 DEF WindowUpdate, task, StreamInv, OpenedOnce
  <2>5. Conserved(s)'
    <3>1. /\ remaining'[s] = remaining[s] + d /\ credited'[s] = credited[s] + d
          /\ remaining'[s] > I64Min /\ UNCHANGED <<pc, cur, debited, entry>>
      BY <1>1, <2>1 DEF WindowUpdate, Add, TypeOK, task
    <3>2. remaining[s] = credited[s] - debited[s] /\ debited[s] \in Nat
      BY <2>2 DEF TypeOK, StreamInv, Conserved
    <3>3. credited[s] \in Int
      BY DEF TypeOK
    <3>4. remaining'[s] = credited'[s] - debited'[s]
      <4>1. remaining[s] + d = (credited[s] + d) - debited[s]
        <5>1. remaining[s] \in Int /\ debited[s] \in Int /\ d \in Int
          BY <2>2, <3>2 DEF TypeOK
        <5>2. (credited[s] - debited[s]) + d = (credited[s] + d) - debited[s]
          BY <3>3, <5>1, CreditBoth, Zenon
        <5>. QED  BY <3>2, <5>2, Zenon
      <4>. QED  BY <3>1, <4>1, Zenon
    <3>5. remaining'[s] # I64Min
      BY <2>2, <3>1, AboveMin, Zenon
    <3>. QED  BY <3>1, <3>4, <3>5 DEF StreamInv, Conserved
  <2>6. WillWake(s)'
    BY <1>1 DEF WindowUpdate, TypeOK, task, StreamInv, WillWake, Waiting
  <2>7. \A t \in Streams \ {s} : Same(t)
    BY <1>1, <2>1, SMTT(40) DEF WindowUpdate, Add, TypeOK, task, Same
  <2>. QED  BY <2>3, <2>4, <2>5, <2>6, <2>7, OneStream DEF StreamInv
<1>2. CASE RemoveAndPoison(s)
  <2>1. TypeOK'
    BY <1>2, WindowAssumption, Zenon DEF RemoveAndPoison, TypeOK, task, reader
  <2>2. OpenedOnce(s)'
    BY <1>2 DEF RemoveAndPoison, TypeOK, task, StreamInv, OpenedOnce
  <2>3. Conserved(s)'
    BY <1>2 DEF RemoveAndPoison, TypeOK, task, StreamInv, Conserved
  <2>4. WillWake(s)'
    BY <1>2 DEF RemoveAndPoison, TypeOK, task, StreamInv, WillWake, Waiting
  <2>5. \A t \in Streams \ {s} : Same(t)
    BY <1>2 DEF RemoveAndPoison, TypeOK, task, Same
  <2>. QED  BY <2>1, <2>2, <2>3, <2>4, <2>5, OneStream DEF StreamInv
<1>3. CASE ApplyRegistration(s)
  <2>q. /\ regq[s] # <<>> /\ regq' = [regq EXCEPT ![s] = Tail(regq[s])]
        /\ Tail(regq[s]) \in Seq(Registration) /\ Head(regq[s]) \in Registration
        /\ NoOpen(regq[s]) => NoOpen(Tail(regq[s])) /\ Head(regq[s]).kind # "Open"
        /\ OneOpen(Tail(regq[s]))
        /\ Head(regq[s]).kind = "Open" => NoOpen(Tail(regq[s]))
    BY <1>3, <1>q, QueueTail DEF ApplyRegistration
  <2>r. /\ regq' \in [Streams -> Seq(Registration)] /\ regq'[s] = Tail(regq[s])
        /\ \A t \in Streams \ {s} : regq'[t] = regq[t]
    BY <2>q DEF TypeOK, Registration
  <2>1. CASE Head(regq[s]).kind = "Open"
    <3>0. /\ entry' = [entry EXCEPT ![s] = "registered"]
          /\ entry[s] = "none" /\ NoOpen(Tail(regq[s]))
          /\ UNCHANGED <<remaining, credited, due, waker, woken, queued, cancelled,
                         writerUp, task, workerUp, updates, reader>>
      BY <1>3, <2>1, <2>q DEF ApplyRegistration, StreamInv, OpenedOnce
    <3>1. TypeOK'
      BY <2>r, <3>0 DEF TypeOK, task, reader, Registration
    <3>2. OpenedOnce(s)'
      BY <2>1, <2>q, <2>r, <3>0 DEF TypeOK, task, StreamInv, OpenedOnce
    <3>3. Conserved(s)'
      BY <3>0 DEF TypeOK, task, StreamInv, Conserved
    <3>4. WillWake(s)'
      BY <3>0 DEF task, StreamInv, WillWake
    <3>5. \A t \in Streams \ {s} : Same(t)
      BY <2>r, <3>0 DEF TypeOK, task, Same
    <3>. QED  BY <3>1, <3>2, <3>3, <3>4, <3>5, OneStream DEF StreamInv
  <2>2. CASE Head(regq[s]).kind = "Delta" /\ entry[s] = "registered"
    <3> DEFINE d == Head(regq[s]).delta
    <3>0. /\ d \in Int /\ remaining[s] + d > I64Min
          /\ remaining' = [remaining EXCEPT ![s] = remaining[s] + d]
          /\ credited' = [credited EXCEPT ![s] = credited[s] + d]
          /\ due' = [due EXCEPT ![s] = (d > 0)] /\ ~due[s]
          /\ UNCHANGED <<entry, waker, woken, queued, cancelled, writerUp, task,
                         workerUp, updates, reader>>
      BY <1>3, <2>2, <2>q DEF ApplyRegistration, Add, WorkerReady, Registration
    <3> HIDE DEF d
    <3>n. remaining[s] + d \in Int /\ credited[s] + d \in Int /\ (d > 0) \in BOOLEAN
      BY <3>0 DEF TypeOK
    <3>1. TypeOK'
      BY <2>r, <3>0, <3>n, Zenon DEF TypeOK, task, reader, Registration
    <3>2. OpenedOnce(s)'
      BY <2>2, <2>q, <2>r, <3>0 DEF TypeOK, task, StreamInv, OpenedOnce
    <3>3. Conserved(s)'
      <4>1. /\ remaining'[s] = remaining[s] + d /\ credited'[s] = credited[s] + d
            /\ remaining'[s] > I64Min /\ UNCHANGED <<pc, cur, debited, entry>>
        BY <3>0 DEF TypeOK, task
      <4>2. remaining[s] = credited[s] - debited[s] /\ debited[s] \in Nat
        BY <2>2 DEF TypeOK, StreamInv, Conserved
      <4>3. credited[s] \in Int
        BY DEF TypeOK
      <4>4. remaining'[s] = credited'[s] - debited'[s]
        <5>1. remaining[s] + d = (credited[s] + d) - debited[s]
          <6>1. remaining[s] \in Int /\ debited[s] \in Int /\ d \in Int
            BY <3>0, <4>2 DEF TypeOK
          <6>2. (credited[s] - debited[s]) + d = (credited[s] + d) - debited[s]
            BY <4>3, <6>1, CreditBoth, Zenon
          <6>. QED  BY <4>2, <6>2, Zenon
        <5>. QED  BY <4>1, <5>1, Zenon
      <4>5. remaining'[s] # I64Min
        BY <3>n, <4>1, AboveMin, Zenon
      <4>. QED  BY <4>1, <4>4, <4>5 DEF StreamInv, Conserved
    <3>4. WillWake(s)'
      <4>1. /\ remaining'[s] = remaining[s] + d /\ due'[s] = (d > 0)
            /\ remaining[s] \in Int /\ remaining'[s] # I64Min
            /\ waker' = waker /\ woken' = woken /\ pc' = pc
        <5>1. remaining \in [Streams -> Int] /\ due \in [Streams -> BOOLEAN]
          BY DEF TypeOK
        <5>2. /\ remaining'[s] = remaining[s] + d /\ due'[s] = (d > 0)
              /\ remaining[s] \in Int
          BY <3>0, <5>1, Zenon
        <5>3. remaining'[s] # I64Min
          BY <3>0, <3>n, <5>2, AboveMin, Zenon
        <5>. QED  BY <3>0, <5>2, <5>3, Zenon DEF task
      <4>2. CASE d > 0
        BY <4>1, <4>2, Zenon DEF StreamInv, WillWake, Waiting
      <4>3. CASE ~(d > 0)
        <5>1. remaining'[s] > 0 => remaining[s] > 0
          BY <3>0, <4>1, <4>3
        <5>2. WillWake(s) /\ ~due[s]
          BY <3>0 DEF StreamInv
        <5>. QED  BY <4>1, <5>1, <5>2 DEF WillWake
      <4>. QED  BY <4>2, <4>3
    <3>5. \A t \in Streams \ {s} : Same(t)
      BY <2>r, <3>0 DEF TypeOK, task, Same
    <3>. QED  BY <3>1, <3>2, <3>3, <3>4, <3>5, OneStream DEF StreamInv
  <2>3. CASE Head(regq[s]).kind = "Delta" /\ entry[s] # "registered"
    <3>0. UNCHANGED <<entry, remaining, credited, due, waker, woken, queued, cancelled,
                      writerUp, task, workerUp, updates, reader>>
      BY <1>3, <2>3 DEF ApplyRegistration
    <3>1. TypeOK'
      BY <2>r, <3>0 DEF TypeOK, task, reader, Registration
    <3>2. OpenedOnce(s)'
      BY <2>3, <2>q, <2>r, <3>0 DEF task, StreamInv, OpenedOnce
    <3>3. Conserved(s)' /\ WillWake(s)'
      BY <3>0 DEF task, StreamInv, Conserved, WillWake
    <3>4. \A t \in Streams \ {s} : Same(t)
      BY <2>r, <3>0 DEF task, Same
    <3>. QED  BY <3>1, <3>2, <3>3, <3>4, OneStream DEF StreamInv
  <2>. QED  BY <2>1, <2>2, <2>3, <2>q DEF Registration
<1>4. CASE Wake(s)
  <2>1. TypeOK'
    BY <1>4 DEF Wake, TypeOK, task, worker, reader
  <2>2. OpenedOnce(s)' /\ Conserved(s)'
    BY <1>4 DEF Wake, task, worker, StreamInv, OpenedOnce, Conserved
  <2>3. WillWake(s)'
    BY <1>4 DEF Wake, TypeOK, task, StreamInv, WillWake, Waiting
  <2>4. \A t \in Streams \ {s} : Same(t)
    BY <1>4 DEF Wake, TypeOK, task, worker, Same
  <2>. QED  BY <2>1, <2>2, <2>3, <2>4, OneStream DEF StreamInv
<1>5. CASE WorkerExit(s)
  <2>e. /\ <<>> \in Seq(Registration) /\ NoOpen(<<>>) /\ OneOpen(<<>>)
    BY DEF NoOpen, OneOpen
  <2>r. /\ regq' \in [Streams -> Seq(Registration)] /\ regq'[s] = <<>>
        /\ \A t \in Streams \ {s} : regq'[t] = regq[t]
    BY <1>5, <2>e DEF WorkerExit, TypeOK, Registration
  <2>u. /\ workerUp' \in [Streams -> BOOLEAN]
        /\ UNCHANGED <<waker, woken, queued, cancelled, writerUp, task, updates,
                       credited, reader>>
    BY <1>5 DEF WorkerExit, TypeOK
  <2>1. CASE entry[s] = "registered"
    <3>0. /\ entry' = [entry EXCEPT ![s] = "removed"]
          /\ remaining' = [remaining EXCEPT ![s] = I64Min]
          /\ due' = [due EXCEPT ![s] = TRUE]
      BY <1>5, <2>1 DEF WorkerExit
    <3>1. TypeOK'
      BY <2>r, <2>u, <3>0, WindowAssumption, Zenon DEF TypeOK, task, reader, Registration
    <3>2. OpenedOnce(s)'
      BY <2>1, <2>e, <2>r, <2>u, <3>0 DEF TypeOK, task, StreamInv, OpenedOnce
    <3>3. Conserved(s)'
      BY <2>u, <3>0 DEF TypeOK, task, StreamInv, Conserved
    <3>4. WillWake(s)'
      BY <2>u, <3>0 DEF TypeOK, task, StreamInv, WillWake, Waiting
    <3>5. \A t \in Streams \ {s} : Same(t)
      BY <2>r, <2>u, <3>0 DEF TypeOK, task, Same
    <3>. QED  BY <3>1, <3>2, <3>3, <3>4, <3>5, OneStream DEF StreamInv
  <2>2. CASE entry[s] # "registered"
    <3>0. UNCHANGED <<entry, remaining, due>>
      BY <1>5, <2>2 DEF WorkerExit
    <3>1. TypeOK'
      BY <2>r, <2>u, <3>0 DEF TypeOK, task, reader, Registration
    <3>2. OpenedOnce(s)'
      BY <2>e, <2>r, <2>u, <3>0 DEF task, StreamInv, OpenedOnce
    <3>3. Conserved(s)' /\ WillWake(s)'
      BY <2>u, <3>0 DEF task, StreamInv, Conserved, WillWake
    <3>4. \A t \in Streams \ {s} : Same(t)
      BY <2>r, <2>u, <3>0 DEF task, Same
    <3>. QED  BY <3>1, <3>2, <3>3, <3>4, OneStream DEF StreamInv
  <2>. QED  BY <2>1, <2>2
<1>6. CASE SettingsBroadcast(s)
  <2> DEFINE r == SettingsWindowDelta(delta)
  <2>0. r \in Registration /\ r.kind # "Open"
    BY DEF TypeOK, Registration, SettingsWindowDelta
  <2> HIDE DEF r
  <2>a. /\ Append(regq[s], r) \in Seq(Registration) /\ OneOpen(Append(regq[s], r))
        /\ NoOpen(regq[s]) => NoOpen(Append(regq[s], r))
    BY <1>q, <2>0, QueueAppend
  <2>q. /\ regq' \in [Streams -> Seq(Registration)]
        /\ regq'[s] \in {regq[s], Append(regq[s], r)}
        /\ \A t \in Streams \ {s} : regq'[t] = regq[t]
    <3>1. regq \in [Streams -> Seq(Registration)]
      BY DEF TypeOK, Registration
    <3>2. regq' = regq \/ regq' = [regq EXCEPT ![s] = Append(regq[s], r)]
      BY <1>6, Zenon DEF SettingsBroadcast, r
    <3>. QED  BY <2>a, <3>1, <3>2, Zenon
  <2>u. /\ pending' \subseteq Streams
        /\ UNCHANGED <<remaining, waker, woken, due, queued, cancelled, writerUp,
                       task, worker, max_frame_size, peerInitial, delta, settings>>
    BY <1>6 DEF SettingsBroadcast, TypeOK
  <2>1. TypeOK'
    BY <2>q, <2>u DEF TypeOK, task, worker, Registration
  <2>2. OpenedOnce(s)'
    BY <1>q, <2>a, <2>q, <2>u, Zenon DEF task, worker, StreamInv, OpenedOnce
  <2>3. Conserved(s)' /\ WillWake(s)'
    BY <2>u DEF task, worker, StreamInv, Conserved, WillWake
  <2>4. \A t \in Streams \ {s} : Same(t)
    BY <2>q, <2>u DEF task, worker, Same
  <2>. QED  BY <2>1, <2>2, <2>3, <2>4, OneStream DEF StreamInv
<1>. QED  BY <1>1, <1>2, <1>3, <1>4, <1>5, <1>6 DEF Peer

\* The other steps touch no stream.
LEMMA OtherInv ==
  ASSUME IndInv, SettingsSwap \/ WriterRecv \/ Cancel \/ WriterExit \/ UNCHANGED vars
  PROVE  IndInv'
<1> USE DEF IndInv
<1>1. TypeOK'
  <2>1. CASE SettingsSwap
    <3>1. PICK w \in Windows : peerInitial' = w /\ delta' = w - peerInitial
      BY <2>1 DEF SettingsSwap
    <3>2. peerInitial \in Nat /\ w \in Nat /\ settings \in Nat
      BY WindowAssumption DEF TypeOK
    <3>3. peerInitial' \in Nat /\ delta' \in Int
      BY <3>1, <3>2
    <3>4. pending' \subseteq Streams /\ settings' \in Nat
      BY <2>1, <3>2 DEF SettingsSwap
    <3>. QED  BY <2>1, <3>3, <3>4, Zenon DEF SettingsSwap, TypeOK, task, worker
  <2>2. CASE WriterRecv
    <3>1. queued' \in Nat
      BY <2>2 DEF WriterRecv, TypeOK
    <3>. QED  BY <2>2, <3>1, Zenon DEF WriterRecv, TypeOK, task, worker, reader
  <2>3. CASE Cancel
    BY <2>3 DEF Cancel, TypeOK, task, worker, reader
  <2>4. CASE WriterExit
    BY <2>4, Zenon DEF WriterExit, TypeOK, task, worker, reader
  <2>5. CASE UNCHANGED vars
    BY <2>5, Zenon DEF vars, TypeOK, task, worker, reader
  <2>. QED  BY <2>1, <2>2, <2>3, <2>4, <2>5
<1>2. \A t \in Streams : Same(t)
  BY DEF SettingsSwap, WriterRecv, Cancel, WriterExit, vars, task, worker, Same
<1>. QED  BY <1>1, <1>2, SameInv

\* The invariant holds at the start.
LEMMA InitInv == Init => IndInv
<1> SUFFICES ASSUME Init PROVE IndInv
  OBVIOUS
<1>1. TypeOK
  <2>1. <<>> \in Seq([kind : {"Open", "Delta"}, delta : Int])
    OBVIOUS
  <2>2. FirstWindow \in Nat
    BY WindowAssumption
  <2>3. regq \in [Streams -> Seq([kind : {"Open", "Delta"}, delta : Int])]
    BY <2>1 DEF Init
  <2>4. pc \in [Streams -> Labels] /\ entry \in [Streams -> {"none", "registered", "removed"}]
    BY DEF Init, Labels
  <2>5. /\ remaining \in [Streams -> Int] /\ cur \in [Streams -> Int]
        /\ credited \in [Streams -> Int] /\ n \in [Streams -> Nat]
    BY DEF Init
  <2>6. /\ debited \in [Streams -> Nat] /\ writes \in [Streams -> Nat]
        /\ updates \in [Streams -> Nat]
    BY DEF Init
  <2>7. /\ waker \in [Streams -> BOOLEAN] /\ woken \in [Streams -> BOOLEAN]
        /\ permit \in [Streams -> BOOLEAN] /\ workerUp \in [Streams -> BOOLEAN]
        /\ due \in [Streams -> BOOLEAN] /\ cancelled \in BOOLEAN /\ writerUp \in BOOLEAN
    BY Zenon DEF Init
  <2>9. max_frame_size \in [Streams -> Nat]
    BY WindowAssumption, Zenon DEF Init
  <2>8. /\ peerInitial \in Nat /\ delta \in Int /\ pending \subseteq Streams
        /\ queued \in Nat /\ settings \in Nat
    BY <2>2 DEF Init
  <2>. QED  BY <2>3, <2>4, <2>5, <2>6, <2>7, <2>8, <2>9 DEF TypeOK
<1>2. ASSUME NEW s \in Streams PROVE StreamInv(s)
  <2>1. /\ pc[s] = "unopened" /\ entry[s] = "none" /\ regq[s] = <<>>
        /\ remaining[s] = 0 /\ credited[s] = 0 /\ debited[s] = 0
    BY DEF Init
  <2>2. OpenedOnce(s)
    BY <2>1 DEF OpenedOnce, NoOpen, OneOpen
  <2>3. Conserved(s)
    BY <2>1, WindowAssumption DEF Conserved
  <2>4. WillWake(s)
    BY <2>1 DEF WillWake, Waiting
  <2>. QED  BY <2>2, <2>3, <2>4 DEF StreamInv
<1>. QED  BY <1>1, <1>2 DEF IndInv

\* Every step keeps the invariant.
LEMMA StepInv == IndInv /\ [Next]_vars => IndInv'
<1> SUFFICES ASSUME IndInv, [Next]_vars PROVE IndInv'
  OBVIOUS
<1>1. CASE SettingsSwap \/ WriterRecv \/ Cancel \/ WriterExit \/ UNCHANGED vars
  BY <1>1, OtherInv
<1>2. ASSUME NEW s \in Streams,
             \/ Realize(s) \/ PollWrite(s) \/ WriteStep(s) \/ Peer(s)
             \/ ApplyRegistration(s) \/ Wake(s) \/ WorkerExit(s) \/ SettingsBroadcast(s)
      PROVE  IndInv'
  BY <1>2, RealizeInv, WriteInv, WorkerInv
<1>. QED  BY <1>1, <1>2 DEF Next

\* The inductive invariant of the send window.
LEMMA Invariant == Spec => []IndInv
BY InitInv, StepInv, PTL DEF Spec

\* Types, for any streams: above all, poll_write never debits a negative length
\* (the clamp of stream.rs:499).
THEOREM WindowTypeCorrect == Spec => []TypeOK
<1>1. IndInv => TypeOK
  BY DEF IndInv
<1>. QED  BY <1>1, Invariant, PTL

\* No credit is lost or made up by the races of consume, replenish and apply_delta.
THEOREM CreditConserved == Spec => []WindowConserved
<1>1. IndInv => WindowConserved
  BY DEF IndInv, StreamInv, Conserved, WindowConserved
<1>. QED  BY <1>1, Invariant, PTL

\* poll_write parks on the window only when a wake has come or is still due for
\* whatever it has not seen: the order register, recheck, park is enough.
THEOREM WakeNotLost == Spec => []NoLostWake
<1>1. IndInv => NoLostWake
  BY DEF IndInv, StreamInv, WillWake, NoLostWake
<1>. QED  BY <1>1, Invariant, PTL

\* No fetch_add of replenish or apply_delta ever meets i64::MIN.
THEOREM PoisonKept == Spec => PoisonIsForever
<1>1. ASSUME IndInv, [Next]_vars, NEW s \in Streams, remaining[s] = I64Min
      PROVE  remaining'[s] = I64Min
  <2>0. /\ entry[s] = "removed" /\ pc[s] # "unopened"
        /\ (pc[s] = "exchange" => cur[s] # I64Min)
    BY <1>1 DEF IndInv, StreamInv, Conserved, OpenedOnce
  <2>1. CASE SettingsSwap \/ WriterRecv \/ Cancel \/ WriterExit \/ UNCHANGED vars
    BY <1>1, <2>1 DEF SettingsSwap, WriterRecv, Cancel, WriterExit, vars
  <2>2. ASSUME NEW t \in Streams,
               \/ Realize(t) \/ PollWrite(t) \/ WriteStep(t) \/ Peer(t)
               \/ ApplyRegistration(t) \/ Wake(t) \/ WorkerExit(t) \/ SettingsBroadcast(t)
        PROVE  remaining'[s] = I64Min
    <3>r. remaining \in [Streams -> Int]
      BY <1>1 DEF IndInv, TypeOK
    <3>1. CASE Realize(t)
      BY <1>1, <2>0, <3>r, <3>1 DEF Realize, LoadInitial, EnqueueOpen
    <3>2. CASE PollWrite(t) \/ WriteStep(t)
      BY <1>1, <2>0, <3>r, <3>2
      DEF PollWrite, WriteStep, PollAgain, IsClosed, PollReserve, Available, RegisterWaker,
          RecheckClosed, Recheck, ConsumeLoad, ConsumeExchange, SendItem
    <3>3. CASE Peer(t)
      BY <1>1, <2>0, <3>r, <3>3 DEF Peer, WindowUpdate, RemoveAndPoison, Add
    <3>4. CASE ApplyRegistration(t)
      BY <1>1, <2>0, <3>r, <3>4 DEF ApplyRegistration, Add
    <3>5. CASE Wake(t) \/ WorkerExit(t) \/ SettingsBroadcast(t)
      BY <1>1, <2>0, <3>r, <3>5 DEF Wake, WorkerExit, SettingsBroadcast
    <3>. QED  BY <2>2, <3>1, <3>2, <3>3, <3>4, <3>5
  <2>. QED  BY <1>1, <2>1, <2>2 DEF Next
<1>2. IndInv /\ [Next]_vars
        => [\A s \in Streams : remaining[s] = I64Min => remaining'[s] = I64Min]_vars
  BY <1>1
<1>. QED  BY <1>2, Invariant, PTL DEF Spec, PoisonIsForever
=============================================================================
