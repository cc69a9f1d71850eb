----------------------- MODULE StreamLifecycleProofs -----------------------
(***************************************************************************)
(* Proofs about StreamLifecycle, for any finite set of pairs, any number   *)
(* of workers, any ids and any capacities: the permits of a StreamGuard    *)
(* always have their place, streams are announced in the order of their    *)
(* ids and before their data, an abandoned stream is reset, and no live    *)
(* stream loses its entry.                                                 *)
(***************************************************************************)
EXTENDS StreamLifecycle, TLAPS

-----------------------------------------------------------------------------
(* The inductive invariant *)

Ids == 1 .. MAX_STREAM_ID
Kinds == {"OpenStreamPair", "Data", "Fin"}
CmdMsg == [kind : Kinds, id : Ids]
ControlMsg == {m \in [kind : {"CloseStream", "GoAway"}, id : Int] :
                 m.kind = "CloseStream" => m.id \in Nat}
RegMsg == [kind : {"Open"}, id : Ids]
CloseRegMsg == [kind : {"Close", "GoAway"}, id : Nat]
Frame == [kind : {"SynStream", "Fin", "Data", "RstStream", "GoAway"}, id : Int]

Pcs == {"unopened", "registerError", "registerData", "enqueueOpen", "reserve", "closeError",
        "closeData", "opened", "broken", "dropped"}

\* The types of every variable, channels and wire included.
CallerTypes ==
  /\ pc \in [Pairs -> Pcs] /\ permits \in [Pairs -> 0 .. 4]
  /\ error_id \in [Pairs -> 0 .. MAX_STREAM_ID]
  /\ graceful \in [Pairs -> BOOLEAN] /\ writes \in [Pairs -> 0 .. MaxWrites]
  /\ open_seq \in Pairs \cup {None} /\ next_stream_id \in Nat

ChannelTypes ==
  /\ cmd \in Seq(CmdMsg) /\ control \in Seq(ControlMsg)
  /\ reg \in [Workers -> Seq(RegMsg)] /\ close_reg \in [Workers -> Seq(CloseRegMsg)]

WriterTypes ==
  /\ writerAt \in {"select", "control", "drain", "batch"}
  /\ IF writerAt = "drain" THEN taken \in CmdMsg ELSE taken = Msg(None, 0)
  /\ pending_closes \in Seq(Nat) /\ wire \in Seq(Frame)

WorkerTypes ==
  /\ streams \subseteq Ids
  /\ workerAt \in [Workers -> {"closes", "opens", "select"}]
  /\ goaway_received \in BOOLEAN /\ cancelled \in BOOLEAN
  /\ frames \in 0 .. MaxFrames

Types == ChannelTypes /\ WriterTypes /\ WorkerTypes

\* The steps of realize_stream_pair that hold open_seq, and among them those that come
\* before OpenStreamPair is queued.
Early == {"registerError", "registerData", "enqueueOpen"}
Section == Early \cup {"reserve", "closeError", "closeData"}

\* Who holds the lock, which pairs have ids, and which hold permits.
HeldBy(p) ==
  /\ pc[p] \in Section <=> open_seq = p
  /\ pc[p] \in Section \cup {"opened", "dropped"} => error_id[p] # 0
  /\ pc[p] = "unopened" => error_id[p] = 0
  /\ pc[p] \in {"unopened", "broken", "dropped"} \cup Early => permits[p] = 0
  /\ pc[p] = "reserve" => permits[p] < 4
  /\ pc[p] = "opened" => permits[p] = 4
  /\ graceful[p] => pc[p] \in {"opened", "dropped"}
Held == \A p \in Pairs : HeldBy(p)

\* Where the ids of the pairs lie.
Apart ==
  /\ next_stream_id > 0
  /\ \A p \in Pairs : error_id[p] # 0 =>
       error_id[p] + 4 <= next_stream_id /\ error_id[p] + 2 <= MAX_STREAM_ID
  /\ \A p, q \in Pairs : p # q /\ error_id[p] # 0 /\ error_id[q] # 0 =>
       error_id[p] + 4 <= error_id[q] \/ error_id[q] + 4 <= error_id[p]

Callers == CallerTypes /\ Held /\ Apart

\* The commands the writer has not emitted yet, the one it has taken first.
Cmds == IF writerAt = "drain" THEN <<taken>> \o cmd ELSE cmd

Elems(q) == { q[i] : i \in 1 .. Len(q) }
Precedes(q, m, n) == \E i, j \in 1 .. Len(q) : i < j /\ q[i] = m /\ q[j] = n

IsSyn(m) == m.kind = "SynStream"
IsOpen(m) == m.kind = "OpenStreamPair"

\* The wire so far is in order: what SynIdsIncrease and DataWithinStream say of it.
InOrder(w) ==
  /\ \A i, j \in 1 .. Len(w) : i < j /\ IsSyn(w[i]) /\ IsSyn(w[j]) => w[i].id < w[j].id
  /\ \A i \in 1 .. Len(w) :
       /\ w[i].kind \in {"Data", "Fin"} => \E j \in 1 .. i-1 : w[j] = Msg("SynStream", w[i].id)
       /\ w[i].kind = "Data" => \A j \in 1 .. i-1 : w[j] # Msg("Fin", w[i].id)

\* Every stream that has been announced, or is about to be, has an id below b.
Below(b) ==
  /\ \A f \in Elems(wire) : IsSyn(f) => f.id < b
  /\ \A m \in Elems(Cmds) : IsOpen(m) => m.id + 2 < b

\* The commands continue the wire in the order of the ids, and so do the caller that
\* holds the lock and the next one.
OpensOrdered ==
  ~cancelled =>
    /\ Below(next_stream_id)
    /\ \A p \in Pairs : pc[p] \in Early => Below(error_id[p])
    /\ \A m \in Elems(Cmds) : IsOpen(m) => \A f \in Elems(wire) : IsSyn(f) => f.id < m.id
    /\ \A m, n \in Elems(Cmds) :
         Precedes(Cmds, m, n) /\ IsOpen(m) /\ IsOpen(n) => m.id + 2 < n.id

\* A FIN belongs to an error stream or to a pair that was shut down.
Finished(x) ==
  \E p \in Pairs : error_id[p] # 0 /\ (x = error_id[p] \/ (x = data_id(p) /\ graceful[p]))

\* From the moment OpenStreamPair is queued until the pair fails.
Known == {"reserve", "opened", "dropped"}

\* The pair's streams are on the wire, or the command to open them waits.
Announced(p) ==
  \/ Msg("SynStream", data_id(p)) \in Elems(wire)
  \/ Msg("OpenStreamPair", error_id[p]) \in Elems(Cmds)

\* A command was sent by a pair that got this far.
Owned(m) ==
  /\ IsOpen(m) => \E p \in Pairs : error_id[p] # 0 /\ m.id = error_id[p]
  /\ ~IsOpen(m) => \E p \in Pairs : /\ pc[p] \in {"opened", "dropped"} /\ m.id = data_id(p)
                                    /\ m.kind = "Fin" => graceful[p]

\* DATA and FIN wait behind the OpenStreamPair of their stream, and no DATA behind a FIN.
DataOrdered ==
  ~cancelled =>
    /\ \A f \in Elems(wire) : f.kind = "Fin" => Finished(f.id)
    /\ \A p \in Pairs : pc[p] \in Known => Announced(p)
    /\ \A m \in Elems(Cmds) :
         Owned(m) /\ (m.kind = "Data" => Msg("Fin", m.id) \notin Elems(wire))
    /\ \A m, n \in Elems(Cmds) : Precedes(Cmds, m, n) =>
         /\ IsOpen(n) /\ ~IsOpen(m) => m.id # n.id + 2
         /\ n.kind = "Data" /\ m.kind = "Fin" => m.id # n.id

\* The reset of an abandoned pair is in the control channel or on the wire.
ResetsSent ==
  ~cancelled => \A p \in Pairs : Abandoned(p) =>
    \/ Msg("CloseStream", data_id(p)) \in Elems(control)
    \/ Msg("RstStream", data_id(p)) \in Elems(wire)

Gone == {"closeData", "broken", "dropped"}

\* The id may be torn down: it was allocated, and its pair has failed or was dropped.
Dead(id) == id < next_stream_id /\ \A p \in Pairs : id \in IdsOf(p) => pc[p] \in Gone

Entered(id) == id \in streams \/ Msg("Open", id) \in Elems(reg[WorkerOf(id)])

\* Only dead streams are closed.
ClosesDead ==
  /\ \A w \in Workers : \A m \in Elems(close_reg[w]) : m.kind = "Close" /\ Dead(m.id)
  /\ \A m \in Elems(control) : m.kind = "CloseStream" => Dead(m.id)
  /\ \A x \in Elems(pending_closes) : Dead(x)

\* The others are with their worker or on their way to it.
HasError == {"registerData", "enqueueOpen", "reserve", "opened"}
HasData == {"enqueueOpen", "reserve", "opened"}
LiveEntered ==
  \A p \in Pairs : /\ pc[p] \in HasError => Entered(error_id[p])
                   /\ pc[p] \in HasData => Entered(data_id(p))

\* Both hold until the peer sends anything.
Registered == frames = 0 /\ ~cancelled => ClosesDead /\ LiveEntered

Inv ==
  /\ Callers /\ Types /\ PermitsCovered /\ InOrder(wire) /\ OpensOrdered /\ DataOrdered
  /\ ResetsSent /\ Registered

\* The provers: Zenon for the first-order steps, SMT where a step cites it.
USE Zenon

-----------------------------------------------------------------------------
(* Queues *)

\* What sending x to q leaves in the channel.
Sent(q, x) ==
  /\ Len(Append(q, x)) = Len(q) + 1 /\ Len(q) \in Nat
  /\ Elems(Append(q, x)) = Elems(q) \cup {x}
  /\ \A m, n : Precedes(Append(q, x), m, n) => Precedes(q, m, n) \/ (n = x /\ m \in Elems(q))

\* What taking the first message of q leaves in the channel.
Taken(q) ==
  /\ Len(Tail(q)) = Len(q) - 1 /\ Len(q) \in Nat \ {0}
  /\ Elems(q) = {Head(q)} \cup Elems(Tail(q))
  /\ \A m, n : Precedes(Tail(q), m, n) => Precedes(q, m, n)
  /\ \A n \in Elems(Tail(q)) : Precedes(q, Head(q), n)

\* Sending to a channel.
LEMMA Sending ==
  ASSUME NEW X, NEW q \in Seq(X), NEW x \in X
  PROVE  Append(q, x) \in Seq(X) /\ Sent(q, x)
<1> DEFINE r == Append(q, x)
<1>1. /\ r \in Seq(X) /\ Len(r) = Len(q) + 1 /\ Len(q) \in Nat
      /\ \A i \in 1 .. Len(q) : r[i] = q[i]
      /\ r[Len(q) + 1] = x
  BY SMT
<1> HIDE DEF r
<1>2. Elems(r) = Elems(q) \cup {x}
  BY <1>1, SMT DEF Elems
<1>3. ASSUME NEW m, NEW n, Precedes(r, m, n)
      PROVE  Precedes(q, m, n) \/ (n = x /\ m \in Elems(q))
  <2>1. PICK i, j \in 1 .. Len(r) : i < j /\ r[i] = m /\ r[j] = n
    BY <1>3 DEF Precedes
  <2>2. i \in 1 .. Len(q) /\ q[i] = m
    BY <1>1, <2>1, SMT
  <2>3. CASE j \in 1 .. Len(q)
    BY <1>1, <2>1, <2>2, <2>3 DEF Precedes
  <2>4. CASE j = Len(q) + 1
    BY <1>1, <2>1, <2>2, <2>4 DEF Elems
  <2>. QED  BY <1>1, <2>1, <2>3, <2>4, SMT
<1>. QED  BY <1>1, <1>2, <1>3 DEF Sent, r

\* Receiving from a channel.
LEMMA Receiving ==
  ASSUME NEW X, NEW q \in Seq(X), q # <<>>
  PROVE  Tail(q) \in Seq(X) /\ Head(q) \in X /\ Taken(q)
<1> DEFINE r == Tail(q)
           h == Head(q)
<1>1. /\ r \in Seq(X) /\ Len(r) = Len(q) - 1 /\ Len(q) \in Nat \ {0} /\ h \in X
      /\ \A i \in 1 .. Len(q) - 1 : r[i] = q[i + 1]
      /\ q[1] = h
  BY SMT
<1> HIDE DEF r, h
<1>2. Elems(q) = {h} \cup Elems(r)
  <2>1. Elems(r) \subseteq Elems(q) /\ h \in Elems(q)
    BY <1>1, SMT DEF Elems
  <2>2. ASSUME NEW i \in 1 .. Len(q) PROVE q[i] \in {h} \cup Elems(r)
    <3>1. CASE i = 1
      BY <1>1, <3>1
    <3>2. CASE i # 1
      <4>1. i - 1 \in 1 .. Len(r) /\ r[i - 1] = q[i]
        BY <1>1, <3>2, SMT
      <4>. QED  BY <4>1 DEF Elems
    <3>. QED  BY <3>1, <3>2
  <2>. QED  BY <2>1, <2>2 DEF Elems
<1>3. ASSUME NEW m, NEW n, Precedes(r, m, n)  PROVE Precedes(q, m, n)
  <2>1. PICK i, j \in 1 .. Len(r) : i < j /\ r[i] = m /\ r[j] = n
    BY <1>3 DEF Precedes
  <2>2. i + 1 \in 1 .. Len(q) /\ j + 1 \in 1 .. Len(q) /\ i + 1 < j + 1
    BY <1>1, <2>1, SMT
  <2>3. q[i + 1] = m /\ q[j + 1] = n
    BY <1>1, <2>1
  <2>. QED  BY <2>2, <2>3 DEF Precedes
<1>4. ASSUME NEW n \in Elems(r)  PROVE Precedes(q, h, n)
  <2>1. PICK j \in 1 .. Len(r) : r[j] = n
    BY <1>4 DEF Elems
  <2>2. 1 \in 1 .. Len(q) /\ j + 1 \in 1 .. Len(q) /\ 1 < j + 1 /\ q[j + 1] = n
    BY <1>1, <2>1, SMT
  <2>. QED  BY <1>1, <2>2 DEF Precedes
<1>. QED  BY <1>1, <1>2, <1>3, <1>4 DEF Taken, r, h

\* A message of a channel is one of its type, and an empty one has none.
LEMMA Messages ==
  ASSUME NEW X, NEW q \in Seq(X)
  PROVE  Elems(q) \subseteq X
BY SMT DEF Elems

\* The empty channel.
LEMMA NoMessages ==
  Elems(<<>>) = {} /\ Len(<<>>) = 0 /\ \A m, n : ~Precedes(<<>>, m, n)
BY SMT DEF Elems, Precedes

\* What puts the messages of a queue in a type.
LEMMA Typed ==
  ASSUME NEW X, NEW Y, NEW q \in Seq(X), Elems(q) \subseteq Y
  PROVE  q \in Seq(Y)
BY SMT DEF Elems

\* Sending a batch of messages.
LEMMA SendingAll ==
  ASSUME NEW X, NEW q \in Seq(X), NEW b \in Seq(X)
  PROVE  /\ q \o b \in Seq(X) /\ Len(q \o b) = Len(q) + Len(b)
         /\ Len(q) \in Nat /\ Len(b) \in Nat
         /\ Elems(q \o b) = Elems(q) \cup Elems(b)
<1> DEFINE r == q \o b
<1>1. /\ r \in Seq(X) /\ Len(r) = Len(q) + Len(b) /\ Len(q) \in Nat /\ Len(b) \in Nat
      /\ \A i \in 1 .. Len(q) : r[i] = q[i]
      /\ \A i \in 1 .. Len(b) : r[Len(q) + i] = b[i]
  BY SMT
<1> HIDE DEF r
<1>2. Elems(q) \subseteq Elems(r)
  BY <1>1, SMT DEF Elems
<1>3. Elems(b) \subseteq Elems(r)
  <2>1. ASSUME NEW i \in 1 .. Len(b) PROVE b[i] \in Elems(r)
    <3>1. Len(q) + i \in 1 .. Len(r) /\ r[Len(q) + i] = b[i]
      BY <1>1, SMT
    <3>. QED  BY <3>1 DEF Elems
  <2>. QED  BY <2>1 DEF Elems
<1>4. ASSUME NEW i \in 1 .. Len(r) PROVE r[i] \in Elems(q) \cup Elems(b)
  <2>1. CASE i \in 1 .. Len(q)
    BY <1>1, <2>1 DEF Elems
  <2>2. CASE i > Len(q)
    <3>1. i - Len(q) \in 1 .. Len(b) /\ r[i] = b[i - Len(q)]
      BY <1>1, <2>2, SMT
    <3>. QED  BY <3>1 DEF Elems
  <2>. QED  BY <1>1, <2>1, <2>2, SMT
<1>5. Elems(r) \subseteq Elems(q) \cup Elems(b)
  BY <1>4 DEF Elems
<1>. QED  BY <1>1, <1>2, <1>3, <1>5 DEF r

-----------------------------------------------------------------------------
(* The wire *)

\* What a frame needs to leave in order after the frames of w.
MayFollow(w, f) ==
  /\ IsSyn(f) => \A g \in Elems(w) : IsSyn(g) => g.id < f.id
  /\ f.kind \in {"Data", "Fin"} => Msg("SynStream", f.id) \in Elems(w)
  /\ f.kind = "Data" => Msg("Fin", f.id) \notin Elems(w)

\* What the writer sends for a command, frame by frame.
LEMMA FramesSent ==
  ASSUME NEW w \in Seq(Frame), NEW m
  PROVE  /\ IsOpen(m) =>
              w \o FramesOf(m) = Append(Append(Append(w, Msg("SynStream", m.id)),
                                               Msg("SynStream", m.id + 2)), Msg("Fin", m.id))
         /\ m.kind = "CloseStream" => w \o FramesOf(m) = Append(w, Msg("RstStream", m.id))
         /\ ~IsOpen(m) /\ m.kind # "CloseStream" => w \o FramesOf(m) = Append(w, m)
<1>1. ASSUME NEW x PROVE w \o <<x>> = Append(w, x)
  BY SMT
<1>2. ASSUME NEW x, NEW y, NEW z PROVE w \o <<x, y, z>> = Append(Append(Append(w, x), y), z)
  BY SMT
<1>3. IsOpen(m) => 
        FramesOf(m) = <<Msg("SynStream", m.id), Msg("SynStream", m.id + 2), Msg("Fin", m.id)>>
  BY DEF IsOpen, FramesOf
<1>4. m.kind = "CloseStream" => FramesOf(m) = <<Msg("RstStream", m.id)>>
  BY DEF FramesOf
<1>5. ASSUME m.kind # "OpenStreamPair", m.kind # "CloseStream"  PROVE FramesOf(m) = <<m>>
  BY <1>5 DEF FramesOf
<1>6. IsOpen(m) => w \o FramesOf(m)
                    = Append(Append(Append(w, Msg("SynStream", m.id)),
                                    Msg("SynStream", m.id + 2)), Msg("Fin", m.id))
  <2> DEFINE x == Msg("SynStream", m.id)
             y == Msg("SynStream", m.id + 2)
             z == Msg("Fin", m.id)
  <2>1. w \o <<x, y, z>> = Append(Append(Append(w, x), y), z)
    <3> HIDE DEF x, y, z
    <3>. QED  BY <1>2, SMT
  <2>2. IsOpen(m) => FramesOf(m) = <<x, y, z>>
    BY <1>3
  <2> HIDE DEF x, y, z
  <2>3. IsOpen(m) => w \o FramesOf(m) = Append(Append(Append(w, x), y), z)
    BY <2>1, <2>2
  <2>. QED  BY <2>3 DEF x, y, z
<1>7. m.kind = "CloseStream" => w \o FramesOf(m) = Append(w, Msg("RstStream", m.id))
  BY <1>1, <1>4
<1>8. ~IsOpen(m) /\ m.kind # "CloseStream" => w \o FramesOf(m) = Append(w, m)
  BY <1>1, <1>5 DEF IsOpen
<1>. QED  BY <1>6, <1>7, <1>8

-----------------------------------------------------------------------------
(* The callers *)

\* What a step of p leaves alone.
Others(p) ==
  \A q \in Pairs : q # p =>
    /\ pc'[q] = pc[q] /\ permits'[q] = permits[q] /\ error_id'[q] = error_id[q]
    /\ graceful'[q] = graceful[q] /\ (open_seq' = q <=> open_seq = q)

\* Every step keeps what is said of the callers.  The named steps are the facts that the
\* cases of the step have in common, here and in the lemmas on the other parts of Inv.
LEMMA CallersStep ==
  ASSUME Callers, [Next]_vars
  PROVE  Callers'

\* A step of one pair is checked for that pair only.
<1>HeldKept.
  ASSUME Held, NEW p \in Pairs, Others(p), HeldBy(p)'
  PROVE  Held'
  <2> USE <1>HeldKept
  <2>1. ASSUME NEW q \in Pairs, q # p PROVE HeldBy(q)'
    BY <2>1 DEF Held, HeldBy, Others
  <2>. QED  BY <2>1 DEF Held

\* The same for a step that only moves the pair to l, with k permits, and takes or
\* releases the lock.
<1>MoveStep.
  ASSUME Callers, NEW p \in Pairs, NEW l \in Pcs, NEW k \in 0 .. 4,
         pc' = [pc EXCEPT ![p] = l], permits' = [permits EXCEPT ![p] = k],
         (open_seq \in {p, None} /\ open_seq' \in {p, None}) \/ open_seq' = open_seq,
         l \in Section <=> open_seq' = p,
         l # "unopened", l \in Section \cup {"opened", "dropped"} => error_id[p] # 0,
         l \in {"broken", "dropped"} \cup Early => k = 0,
         l = "reserve" => k < 4, l = "opened" => k = 4,
         graceful[p] => l \in {"opened", "dropped"},
         UNCHANGED <<error_id, graceful, writes, next_stream_id>>
  PROVE  Callers'
  <2> USE <1>MoveStep
  <2>n. None \notin Pairs
    BY LifecycleAssumption DEF None
  <2>1. CallerTypes'
    BY DEF Callers, CallerTypes
  <2>2. /\ pc'[p] = l /\ \A q \in Pairs : q # p => pc'[q] = pc[q]
        /\ permits'[p] = k /\ \A q \in Pairs : q # p => permits'[q] = permits[q]
    BY DEF Callers, CallerTypes
  <2>3. Others(p)
    <3>1. \A q \in Pairs : q # p => (open_seq' = q <=> open_seq = q)
      BY <2>n
    <3>. QED  BY <2>2, <3>1 DEF Others
  <2>4. HeldBy(p)'
    BY <2>2 DEF HeldBy
  <2>5. Held'
    BY <2>3, <2>4, <1>HeldKept DEF Callers
  <2>6. Apart'
    BY DEF Callers, Apart
  <2>. QED  BY <2>1, <2>5, <2>6 DEF Callers

\* An open that fails leaves no lock and no permit behind.
<1>FailStep.
  ASSUME Callers, NEW p \in Pairs, Fail(p), pc[p] \in Section \cup {"unopened"},
         open_seq \in {p, None},
         UNCHANGED <<error_id, graceful, writes, next_stream_id>>
  PROVE  Callers'
  <2> USE <1>FailStep
  <2>1. ~graceful[p]
    BY DEF Callers, Held, HeldBy, Section, Early
  <2>2. "broken" \in Pcs /\ "broken" \notin Section /\ 0 \in 0 .. 4
    BY SMT DEF Pcs, Section, Early
  <2>3. /\ pc' = [pc EXCEPT ![p] = "broken"] /\ permits' = [permits EXCEPT ![p] = 0]
        /\ open_seq' = None
    BY DEF Fail, Goto
  <2>4. None # p
    BY LifecycleAssumption DEF None
  <2>. QED  BY <2>1, <2>2, <2>3, <2>4, <1>MoveStep

\* The constants of the steps.
<1>PcFacts.
  /\ Section \subseteq Pcs /\ Early \subseteq Section /\ "unopened" \in Pcs
  /\ {"opened", "dropped", "broken"} \subseteq Pcs
  /\ {"unopened", "opened", "dropped", "broken"} \cap Section = {}
  /\ {"reserve", "closeError", "closeData"} \subseteq Section
  /\ {"reserve", "closeError", "closeData"} \cap Early = {}
  /\ 0 \in 0 .. 4 /\ 4 \in 0 .. 4
  BY SMT DEF Pcs, Section, Early

\* AllocateIds: the ids lie above all others.
<1>AllocateStep.
  ASSUME Callers, NEW p \in Pairs, AllocateIds(p)
  PROVE  Callers'
  <2> USE <1>AllocateStep
  <2>0. pc[p] = "unopened" /\ open_seq = None /\ UNCHANGED <<graceful, writes>>
    BY DEF AllocateIds, Unlocked
  <2>1. CASE Fail(p) /\ UNCHANGED <<error_id, next_stream_id>>
    BY <2>0, <2>1, <1>FailStep
  <2>2. CASE /\ next_stream_id + 2 <= MAX_STREAM_ID
             /\ error_id' = [error_id EXCEPT ![p] = next_stream_id]
             /\ next_stream_id' = next_stream_id + 4
             /\ open_seq' = p
             /\ pc' = [pc EXCEPT ![p] = "registerError"]
             /\ permits' = permits
    <3>1. /\ next_stream_id \in Nat /\ next_stream_id > 0 /\ MAX_STREAM_ID \in Nat
          /\ next_stream_id \in 0 .. MAX_STREAM_ID /\ next_stream_id' \in Nat
          /\ next_stream_id' = next_stream_id + 4
      BY <2>2, LifecycleAssumption, SMT DEF Callers, CallerTypes, Apart
    <3>2. CallerTypes'
      <4>1. "registerError" \in Pcs
        BY DEF Pcs
      <4>. QED  BY <2>0, <2>2, <3>1, <4>1 DEF Callers, CallerTypes
    <3>3. /\ pc'[p] = "registerError" /\ \A q \in Pairs : q # p => pc'[q] = pc[q]
          /\ error_id'[p] = next_stream_id /\ \A q \in Pairs : q # p => error_id'[q] = error_id[q]
      BY <2>2 DEF Callers, CallerTypes
    <3>4. HeldBy(p)'
      <4>1. permits[p] = 0 /\ ~graceful[p]
        BY <2>0 DEF Callers, Held, HeldBy
      <4>2. next_stream_id # 0
        BY <3>1, SMT
      <4>3. "registerError" \in Section
        BY DEF Section, Early
      <4>. QED  BY <2>0, <2>2, <3>3, <4>1, <4>2, <4>3 DEF HeldBy
    <3>5. Others(p)
      <4>1. None \notin Pairs
        BY LifecycleAssumption DEF None
      <4>. QED  BY <2>0, <2>2, <3>3, <4>1 DEF Others
    <3>6. Held'
      BY <3>4, <3>5, <1>HeldKept DEF Callers
    <3>7. Apart'
      <4>1. \A q \in Pairs : error_id[q] # 0 =>
              error_id[q] + 4 <= next_stream_id /\ error_id[q] + 2 <= MAX_STREAM_ID
        BY DEF Callers, Apart
      <4>2. error_id \in [Pairs -> Nat]
        BY <3>1, SMT DEF Callers, CallerTypes
      <4>3. ASSUME NEW q \in Pairs, error_id'[q] # 0
            PROVE  error_id'[q] + 4 <= next_stream_id' /\ error_id'[q] + 2 <= MAX_STREAM_ID
        <5>1. CASE q = p
          BY <2>2, <3>1, <3>3, <5>1, SMT
        <5>2. CASE q # p
          <6>1. /\ error_id'[q] = error_id[q] /\ error_id[q] \in Nat
                /\ error_id[q] + 4 <= next_stream_id /\ error_id[q] + 2 <= MAX_STREAM_ID
            BY <3>3, <4>1, <4>2, <4>3, <5>2
          <6>. QED  BY <3>1, <6>1, SMT
        <5>. QED  BY <5>1, <5>2
      <4>4. ASSUME NEW q \in Pairs, NEW r \in Pairs, q # r, error_id'[q] # 0, error_id'[r] # 0
            PROVE  error_id'[q] + 4 <= error_id'[r] \/ error_id'[r] + 4 <= error_id'[q]
        <5>1. CASE q = p
          BY <3>3, <4>1, <4>4, <5>1
        <5>2. CASE r = p
          BY <3>3, <4>1, <4>4, <5>2
        <5>3. CASE q # p /\ r # p
          BY <3>3, <4>4, <5>3 DEF Callers, Apart
        <5>. QED  BY <5>1, <5>2, <5>3
      <4>5. next_stream_id' > 0
        BY <3>1, SMT
      <4>. QED  BY <4>3, <4>4, <4>5 DEF Apart
    <3>. QED  BY <3>2, <3>6, <3>7 DEF Callers
  <2>. QED  BY <2>1, <2>2 DEF AllocateIds, Goto

\* The other steps of realize_stream_pair.
<1>RealizeStep.
  ASSUME Callers, NEW p \in Pairs, Realize(p)
  PROVE  Callers'
  <2> USE <1>RealizeStep
  <2>0. UNCHANGED <<error_id, graceful, writes, next_stream_id>>
    BY DEF Realize, RegisterError, RegisterData, EnqueueOpen, ReservePermit,
                 CleanupRegistration
  <2>1. pc[p] \in Section
    BY DEF Realize, RegisterError, RegisterData, EnqueueOpen, ReservePermit,
                 CleanupRegistration, Section, Early
  <2>2. /\ open_seq = p /\ error_id[p] # 0 /\ ~graceful[p] /\ permits[p] \in 0 .. 4
        /\ permits = [permits EXCEPT ![p] = permits[p]]
        /\ pc[p] \in Early => permits[p] = 0
        /\ pc[p] = "reserve" => permits[p] < 4
    BY <2>1, <1>PcFacts DEF Callers, CallerTypes, Held, HeldBy, Section, Early
  <2>3. \/ Fail(p)
        \/ \E l \in {"registerData", "enqueueOpen"} :
             pc[p] \in Early /\ pc' = [pc EXCEPT ![p] = l] /\ UNCHANGED <<permits, open_seq>>
        \/ /\ pc[p] = "enqueueOpen" /\ pc' = [pc EXCEPT ![p] = "reserve"]
           /\ UNCHANGED <<permits, open_seq>>
        \/ \E l \in {"closeError", "closeData"} :
             pc' = [pc EXCEPT ![p] = l] /\ UNCHANGED <<permits, open_seq>>
        \/ /\ pc[p] = "reserve" /\ permits[p] = 3 /\ permits' = [permits EXCEPT ![p] = @ + 1]
           /\ pc' = [pc EXCEPT ![p] = "opened"] /\ open_seq' = None
        \/ /\ pc[p] = "reserve" /\ permits[p] # 3 /\ permits' = [permits EXCEPT ![p] = @ + 1]
           /\ UNCHANGED <<pc, open_seq>>
    <3>1. CASE RegisterError(p)
      BY <3>1 DEF RegisterError, Goto, Early
    <3>2. CASE RegisterData(p)
      BY <3>2 DEF RegisterData, Goto, Early
    <3>3. CASE EnqueueOpen(p)
      BY <3>3 DEF EnqueueOpen, Goto
    <3>4. CASE ReservePermit(p)
      BY <3>4 DEF ReservePermit, Goto
    <3>5. CASE CleanupRegistration(p)
      BY <3>5 DEF CleanupRegistration, Goto
    <3>. QED  BY <3>1, <3>2, <3>3, <3>4, <3>5 DEF Realize
  <2>4. CASE Fail(p)
    BY <2>0, <2>1, <2>2, <2>4, <1>FailStep
  <2>5. ASSUME NEW l \in {"registerData", "enqueueOpen"},
               pc[p] \in Early, pc' = [pc EXCEPT ![p] = l], UNCHANGED <<permits, open_seq>>
        PROVE  Callers'
    <3>1. /\ l \in Early /\ l \in Section /\ l \in Pcs
          /\ l # "unopened" /\ l # "reserve" /\ l # "opened"
      BY <2>5 DEF Early, Section, Pcs
    <3>. QED  BY <2>0, <2>2, <2>5, <3>1, <1>MoveStep
  <2>6. CASE /\ pc[p] = "enqueueOpen" /\ pc' = [pc EXCEPT ![p] = "reserve"]
             /\ UNCHANGED <<permits, open_seq>>
    <3>1. /\ "reserve" \in Pcs /\ "reserve" \in Section /\ "reserve" \notin Early
          /\ "enqueueOpen" \in Early /\ 0 < 4
      BY SMT DEF Early, Section, Pcs
    <3>. QED  BY <2>0, <2>2, <2>6, <3>1, <1>MoveStep
  <2>7. ASSUME NEW l \in {"closeError", "closeData"},
               pc' = [pc EXCEPT ![p] = l], UNCHANGED <<permits, open_seq>>
        PROVE  Callers'
    <3>1. /\ l \in Section /\ l \in Pcs /\ l # "unopened" /\ l # "reserve" /\ l # "opened"
          /\ l \notin Early /\ l # "dropped" /\ l # "broken"
      BY <2>7 DEF Early, Section, Pcs
    <3>. QED  BY <2>0, <2>2, <2>7, <3>1, <1>MoveStep
  <2>8. CASE /\ pc[p] = "reserve" /\ permits[p] = 3 /\ permits' = [permits EXCEPT ![p] = @ + 1]
             /\ pc' = [pc EXCEPT ![p] = "opened"] /\ open_seq' = None
    <3>1. /\ "opened" \in Pcs /\ "opened" \notin Section /\ 4 \in 0 .. 4 /\ "opened" \notin Early
      BY SMT DEF Early, Section, Pcs
    <3>2. permits' = [permits EXCEPT ![p] = 4]
      BY <2>8, SMT
    <3>3. None # p
      BY LifecycleAssumption DEF None
    <3>. QED  BY <2>0, <2>2, <2>8, <3>1, <3>2, <3>3, <1>MoveStep
  <2>9. CASE /\ pc[p] = "reserve" /\ permits[p] # 3 /\ permits' = [permits EXCEPT ![p] = @ + 1]
             /\ UNCHANGED <<pc, open_seq>>
    <3>1. /\ "reserve" \in Pcs /\ "reserve" \in Section /\ "reserve" \notin Early
      BY DEF Early, Section, Pcs
    <3>2. permits[p] + 1 \in 0 .. 4 /\ permits[p] + 1 < 4
      BY <2>2, <2>9, SMT
    <3>3. pc' = [pc EXCEPT ![p] = "reserve"]
      BY <2>9 DEF Callers, CallerTypes
    <3>4. permits' = [permits EXCEPT ![p] = permits[p] + 1]
      BY <2>9
    <3>5. open_seq' = open_seq /\ open_seq' = p
      BY <2>2, <2>9
    <3> DEFINE k == permits[p] + 1
    <3> HIDE DEF k
    <3>6. /\ k \in 0 .. 4 /\ k < 4 /\ permits' = [permits EXCEPT ![p] = k]
          /\ "reserve" \notin {"broken", "dropped"} \cup Early
      BY <3>1, <3>2, <3>4 DEF k
    <3>. QED  BY <2>0, <2>2, <3>1, <3>3, <3>5, <3>6, <1>MoveStep
  <2>. QED  BY <2>3, <2>4, <2>5, <2>6, <2>7, <2>8, <2>9

\* poll_write, poll_shutdown and the drop of the guard.
<1>StreamStep.
  ASSUME Callers, NEW p \in Pairs, Write(p) \/ Shutdown(p) \/ StreamGuardDrop(p)
  PROVE  Callers'
  <2> USE <1>StreamStep
  <2>1. CASE Write(p)
    <3>1. /\ writes' = [writes EXCEPT ![p] = @ + 1] /\ writes[p] < MaxWrites
          /\ UNCHANGED <<pc, error_id, permits, graceful, open_seq, next_stream_id>>
      BY <2>1 DEF Write
    <3>2. writes[p] + 1 \in 0 .. MaxWrites
      BY <3>1, LifecycleAssumption, SMT DEF Callers, CallerTypes
    <3>3. CallerTypes'
      BY <3>1, <3>2 DEF Callers, CallerTypes
    <3>. QED  BY <3>1, <3>3 DEF Callers, Held, HeldBy, Apart
  <2>2. CASE Shutdown(p)
    <3>1. /\ graceful' = [graceful EXCEPT ![p] = TRUE] /\ pc[p] = "opened"
          /\ UNCHANGED <<pc, error_id, permits, writes, open_seq, next_stream_id>>
      BY <2>2 DEF Shutdown
    <3>2. CallerTypes'
      BY <3>1 DEF Callers, CallerTypes
    <3>3. Others(p)
      BY <3>1 DEF Others, Callers, CallerTypes
    <3>4. HeldBy(p)'
      BY <3>1 DEF Callers, Held, HeldBy
    <3>5. Held'
      BY <3>3, <3>4, <1>HeldKept DEF Callers
    <3>. QED  BY <3>1, <3>2, <3>5 DEF Callers, Apart
  <2>3. CASE StreamGuardDrop(p)
    <3>1. /\ pc[p] = "opened" /\ pc' = [pc EXCEPT ![p] = "dropped"]
          /\ permits' = [permits EXCEPT ![p] = 0]
          /\ UNCHANGED <<error_id, graceful, writes, open_seq, next_stream_id>>
      BY <2>3 DEF StreamGuardDrop, Goto
    <3>2. /\ open_seq # p /\ error_id[p] # 0
      BY <3>1, <1>PcFacts DEF Callers, Held, HeldBy
    <3>3. "dropped" \in Pcs /\ "dropped" \notin Section
      BY <1>PcFacts
    <3>. QED  BY <3>1, <3>2, <3>3, <1>PcFacts, <1>MoveStep
  <2>. QED  BY <2>1, <2>2, <2>3
<1>1. CASE \E p \in Pairs :
             AllocateIds(p) \/ Realize(p) \/ Write(p) \/ Shutdown(p) \/ StreamGuardDrop(p)
  BY <1>1, <1>AllocateStep, <1>RealizeStep, <1>StreamStep
<1>2. CASE UNCHANGED callers
  BY <1>2 DEF callers, Callers, CallerTypes, Held, HeldBy, Apart
<1>3. CASE WriterStep
  <2>1. UNCHANGED callers
    BY <1>3 DEF WriterStep, WriterControl, WriterTake, WriterDrain, WriterRunTaken,
                       WriterBatch, WriterFlush
  <2>. QED  BY <1>2, <2>1
<1>4. ASSUME NEW w \in Workers, WorkerStep(w) \/ PeerFrame(w) PROVE UNCHANGED callers
  BY <1>4 DEF WorkerStep, WorkerCloses, WorkerOpens, WorkerSelect, PeerFrame
<1>5. CASE GoAway \/ Cancel
  BY <1>2, <1>5 DEF GoAway, Cancel
<1>6. CASE UNCHANGED vars
  BY <1>2, <1>6 DEF vars
<1>. QED  BY <1>1, <1>2, <1>3, <1>4, <1>5, <1>6 DEF Next

-----------------------------------------------------------------------------
(* The ids *)

\* A worker serves every id.
LEMMA WorkerTypesOf == \A id \in Nat : WorkerOf(id) \in Workers
BY LifecycleAssumption, SMT DEF WorkerOf, Workers

\* The ids of a pair that got them.
LEMMA IdTypes ==
  ASSUME Callers, NEW p \in Pairs, error_id[p] # 0
  PROVE  /\ error_id[p] \in Ids /\ data_id(p) \in Ids /\ error_id[p] \in Nat /\ data_id(p) \in Nat
         /\ error_id[p] < next_stream_id /\ data_id(p) < next_stream_id
         /\ WorkerOf(error_id[p]) \in Workers /\ WorkerOf(data_id(p)) \in Workers
<1>1. /\ error_id[p] \in 0 .. MAX_STREAM_ID /\ error_id[p] + 4 <= next_stream_id
      /\ error_id[p] + 2 <= MAX_STREAM_ID /\ next_stream_id \in Nat /\ MAX_STREAM_ID \in Nat
  BY LifecycleAssumption DEF Callers, CallerTypes, Apart
<1>2. /\ error_id[p] \in Ids /\ data_id(p) \in Ids /\ error_id[p] \in Nat /\ data_id(p) \in Nat
      /\ error_id[p] < next_stream_id /\ data_id(p) < next_stream_id
  BY <1>1, SMT DEF Ids, data_id
<1>. QED  BY <1>2, WorkerTypesOf

-----------------------------------------------------------------------------
(* Finite sets and induction: what the library has on them, proved of it at the *)
(* end of the module.                                                           *)

FiniteLaws ==
  /\ Cardinality({}) = 0
  /\ \A a, b \in Int : IsFiniteSet(a .. b)
  /\ \A S, T : IsFiniteSet(S) /\ IsFiniteSet(T) => IsFiniteSet(S \X T)
  /\ \A S : IsFiniteSet(S) => Cardinality(S) \in Nat
  /\ \A S, T : IsFiniteSet(T) /\ S \subseteq T =>
       IsFiniteSet(S) /\ Cardinality(S) <= Cardinality(T)
  /\ \A S, x : IsFiniteSet(S) /\ x \notin S => Cardinality(S \cup {x}) = Cardinality(S) + 1
  /\ \A S, x : IsFiniteSet(S) =>
       /\ IsFiniteSet(S \ {x})
       /\ Cardinality(S \ {x}) = IF x \in S THEN Cardinality(S) - 1 ELSE Cardinality(S)

\* Induction along an interval.
UpTo ==
  \A n \in Nat : \A T :
    0 \in T /\ (\A i \in 0 .. n - 1 : i \in T => i + 1 \in T) => \A i \in 0 .. n : i \in T

-----------------------------------------------------------------------------
(* Closing streams *)

\* The close channels keep within their capacity.
Covered(q) ==
  \A w \in Workers : CloseRegPermits(w) \in Nat /\ Len(q[w]) + CloseRegPermits(w) <= CloseRegCap

\* What a Close leaves in the channels.
CloseSent(q, id) ==
  \A w \in Workers :
    /\ Len(SendClose(q, id)[w]) = Len(q[w]) + (IF WorkerOf(id) = w THEN 1 ELSE 0)
    /\ Len(q[w]) \in Nat

\* A Close is sent to the worker of its stream.
LEMMA SendCloseFacts ==
  ASSUME NEW M, NEW q \in [Workers -> Seq(M)], NEW id \in Nat, Msg("Close", id) \in M
  PROVE  /\ SendClose(q, id) \in [Workers -> Seq(M)]
         /\ CloseSent(q, id)
         /\ SendClose(q, id) # q
<1> DEFINE v == WorkerOf(id)
           m == Msg("Close", id)
<1>1. v \in Workers
  BY WorkerTypesOf
<1>2. q[v] \in Seq(M) /\ m \in M
  BY <1>1
<1> HIDE DEF v, m
<1>3. Append(q[v], m) \in Seq(M) /\ Len(Append(q[v], m)) = Len(q[v]) + 1
  BY <1>2, SMT
<1>4. SendClose(q, id) = [q EXCEPT ![v] = Append(q[v], m)]
  BY DEF SendClose, v, m
<1>5. SendClose(q, id) \in [Workers -> Seq(M)]
  BY <1>1, <1>3, <1>4
<1>6. /\ SendClose(q, id)[v] = Append(q[v], m)
      /\ \A w \in Workers : w # v => SendClose(q, id)[w] = q[w]
  BY <1>1, <1>4
<1>7. ASSUME NEW w \in Workers
      PROVE  /\ Len(SendClose(q, id)[w]) = Len(q[w]) + (IF v = w THEN 1 ELSE 0)
             /\ Len(q[w]) \in Nat
  <2>1. q[w] \in Seq(M)
    OBVIOUS
  <2>2. Len(q[w]) \in Nat
    BY <2>1, SMT
  <2>3. CASE w = v
    BY <1>3, <1>6, <2>2, <2>3
  <2>4. CASE w # v
    BY <1>6, <2>2, <2>4, SMT
  <2>. QED  BY <2>3, <2>4
<1>8. CloseSent(q, id)
  BY <1>7 DEF CloseSent, v
<1>9. SendClose(q, id) # q
  <2>1. Len(SendClose(q, id)[v]) = Len(q[v]) + 1 /\ Len(q[v]) \in Nat
    BY <1>1, <1>2, <1>3, <1>6, SMT
  <2>2. Len(q[v]) # Len(q[v]) + 1
    BY <2>1, SMT
  <2>. QED  BY <2>1, <2>2
<1>. QED  BY <1>5, <1>8, <1>9

\* try_send of a Close never takes the place of a permit.
LEMMA TrySendCloseFacts ==
  ASSUME NEW M, NEW q \in [Workers -> Seq(M)], NEW id \in Nat, Msg("Close", id) \in M
  PROVE  /\ TrySendClose(q, id) \in [Workers -> Seq(M)]
         /\ Covered(q) => Covered(TrySendClose(q, id))
<1>1. SendClose(q, id) \in [Workers -> Seq(M)] /\ CloseSent(q, id)
  BY SendCloseFacts
<1>2. \/ TrySendClose(q, id) = q
      \/ /\ TrySendClose(q, id) = SendClose(q, id)
         /\ CloseRegCap - Len(q[WorkerOf(id)]) - CloseRegPermits(WorkerOf(id)) > 0
  BY DEF TrySendClose
<1>3. ASSUME TrySendClose(q, id) = SendClose(q, id), Covered(q),
             CloseRegCap - Len(q[WorkerOf(id)]) - CloseRegPermits(WorkerOf(id)) > 0,
             NEW w \in Workers
      PROVE  /\ CloseRegPermits(w) \in Nat
             /\ Len(SendClose(q, id)[w]) + CloseRegPermits(w) <= CloseRegCap
  <2>1. /\ Len(SendClose(q, id)[w]) = Len(q[w]) + (IF WorkerOf(id) = w THEN 1 ELSE 0)
        /\ Len(q[w]) \in Nat /\ Len(q[w]) + CloseRegPermits(w) <= CloseRegCap
    BY <1>1, <1>3 DEF CloseSent, Covered
  <2>2. CloseRegPermits(w) \in Nat /\ CloseRegCap \in Nat
    BY <1>3, LifecycleAssumption DEF Covered
  <2>3. CASE WorkerOf(id) = w
    <3>1. CloseRegCap - Len(q[w]) - CloseRegPermits(w) > 0
      BY <1>3, <2>3
    <3>. QED  BY <2>1, <2>2, <2>3, <3>1, SMT
  <2>4. CASE WorkerOf(id) # w
    BY <2>1, <2>2, <2>4, SMT
  <2>. QED  BY <2>3, <2>4
<1>. QED  BY <1>1, <1>2, <1>3 DEF Covered

\* What the deferred closes leave, step by step.
LEMMA DeferredSteps ==
  ASSUME UpTo, NEW S, pending_closes \in Seq(S)
  PROVE  \E f : /\ f[0] = [q |-> close_reg, kept |-> <<>>]
                /\ \A i \in 1 .. Len(pending_closes) :
                     f[i] = DeferClose(f[i - 1], pending_closes[i])
                /\ Deferred = f[Len(pending_closes)]
<1> DEFINE c == pending_closes
           start == [q |-> close_reg, kept |-> <<>>]
           Steps(f, n) ==
             f = [i \in 0 .. n |-> IF i = 0 THEN start ELSE DeferClose(f[i - 1], c[i])]
           T == {n \in 0 .. Len(c) : \E f : Steps(f, n)}
<1>n. Len(c) \in Nat
  BY SMT
<1> HIDE DEF start
<1>1. 0 \in T
  <2>1. Steps([i \in 0 .. 0 |-> start], 0)
    <3>1. \A i \in 0 .. 0 : i = 0
      BY SMT
    <3>. QED  BY <3>1
  <2> HIDE DEF Steps
  <2>. QED  BY <2>1, <1>n, SMT
<1>2. ASSUME NEW n \in 0 .. Len(c) - 1, n \in T  PROVE n + 1 \in T
  <2>1. PICK f : Steps(f, n)
    BY <1>2
  <2>2. \A i \in 0 .. n : f[i] = IF i = 0 THEN start ELSE DeferClose(f[i - 1], c[i])
    BY <2>1
  <2> DEFINE g == [i \in 0 .. n + 1 |-> IF i <= n THEN f[i] ELSE DeferClose(f[n], c[n + 1])]
  <2>3. /\ \A i \in 0 .. n : i <= n /\ i \in 0 .. n + 1
        /\ ~(n + 1 <= n) /\ n + 1 \in 0 .. n + 1 /\ (n + 1) - 1 = n /\ n + 1 # 0 /\ n \in 0 .. n
    BY <1>n, SMT
  <2>4. (\A i \in 0 .. n : g[i] = f[i]) /\ g[n + 1] = DeferClose(f[n], c[n + 1])
    BY <2>3
  <2>5. ASSUME NEW i \in 0 .. n + 1
        PROVE  g[i] = IF i = 0 THEN start ELSE DeferClose(g[i - 1], c[i])
    <3>1. CASE i = 0
      <4>1. 0 \in 0 .. n
        BY <1>n, SMT
      <4>. QED  BY <2>2, <2>4, <3>1, <4>1
    <3>2. CASE i \in 1 .. n
      <4>1. i \in 0 .. n /\ i - 1 \in 0 .. n /\ i # 0
        BY <1>n, <3>2, SMT
      <4>. QED  BY <2>2, <2>4, <4>1
    <3>3. CASE i = n + 1
      BY <2>3, <2>4, <3>3
    <3>4. i = 0 \/ i \in 1 .. n \/ i = n + 1
      BY <1>n, SMT
    <3>. QED  BY <3>1, <3>2, <3>3, <3>4
  <2>6. Steps(g, n + 1)
    BY <2>5
  <2>7. n + 1 \in 0 .. Len(c)
    BY <1>n, SMT
  <2> HIDE DEF g, Steps
  <2>. QED  BY <2>6, <2>7
<1>3. Len(c) \in T
  <2> HIDE DEF T
  <2>1. \A i \in 0 .. Len(c) : i \in T
    BY <1>1, <1>2, <1>n DEF UpTo
  <2>. QED  BY <2>1, <1>n, SMT
<1>4. PICK f : Steps(f, Len(c)) /\ Deferred = f[Len(c)]
  BY <1>3 DEF Deferred, start
<1>5. \A i \in 0 .. Len(c) : f[i] = IF i = 0 THEN start ELSE DeferClose(f[i - 1], c[i])
  BY <1>4
<1>6. 0 \in 0 .. Len(c) /\ \A i \in 1 .. Len(c) : i \in 0 .. Len(c) /\ i # 0
  BY <1>n, SMT
<1>7. f[0] = start /\ \A i \in 1 .. Len(c) : f[i] = DeferClose(f[i - 1], c[i])
  BY <1>5, <1>6
<1>. QED  BY <1>4, <1>7 DEF start

\* The end of a batch: the deferred closes are sent where there is room, and the others
\* are kept.
LEMMA DeferredFacts ==
  ASSUME UpTo, NEW M, NEW S, S \subseteq Nat, close_reg \in [Workers -> Seq(M)],
         pending_closes \in Seq(S), \A x \in S : Msg("Close", x) \in M,
         Covered(close_reg)
  PROVE  /\ Deferred.q \in [Workers -> Seq(M)] /\ Deferred.kept \in Seq(S)
         /\ Covered(Deferred.q)
<1> DEFINE c == pending_closes
           Good(r) == /\ r = [q |-> r.q, kept |-> r.kept]
                      /\ r.q \in [Workers -> Seq(M)] /\ r.kept \in Seq(S) /\ Covered(r.q)
<1>1. PICK f : /\ f[0] = [q |-> close_reg, kept |-> <<>>]
               /\ \A i \in 1 .. Len(c) : f[i] = DeferClose(f[i - 1], c[i])
               /\ Deferred = f[Len(c)]
  BY DeferredSteps
<1>n. Len(c) \in Nat /\ \A i \in 1 .. Len(c) : c[i] \in S
  BY SMT
<1>2. Good(f[0])
  <2>1. <<>> \in Seq(S)
    BY SMT
  <2>2. f[0].q = close_reg /\ f[0].kept = <<>>
    BY <1>1, SMT
  <2>. QED  BY <1>1, <2>1, <2>2
<1>3. ASSUME NEW r, NEW x \in S, Good(r) PROVE Good(DeferClose(r, x))
  <2> DEFINE q == r.q
             k == r.kept
             t == TrySendClose(q, x)
  <2>1. q \in [Workers -> Seq(M)] /\ k \in Seq(S) /\ Covered(q) /\ r = [q |-> q, kept |-> k]
    BY <1>3
  <2>2. x \in Nat /\ Msg("Close", x) \in M
    BY <1>3
  <2> HIDE DEF q, k
  <2>3. t \in [Workers -> Seq(M)] /\ Covered(t)
    BY <2>1, <2>2, TrySendCloseFacts
  <2>4. Append(k, x) \in Seq(S)
    BY <1>3, <2>1, SMT
  <2> HIDE DEF t
  <2>5. DeferClose(r, x) = IF t = q THEN [r EXCEPT !.kept = Append(@, x)] ELSE [r EXCEPT !.q = t]
    BY DEF DeferClose, t, q
  <2>6. \/ DeferClose(r, x) = [q |-> q, kept |-> Append(k, x)]
        \/ DeferClose(r, x) = [q |-> t, kept |-> k]
    BY <2>1, <2>5
  <2>7. CASE DeferClose(r, x) = [q |-> q, kept |-> Append(k, x)]
    <3>1. DeferClose(r, x).q = q /\ DeferClose(r, x).kept = Append(k, x)
      BY <2>7, SMT
    <3>. QED  BY <2>1, <2>4, <2>7, <3>1
  <2>8. CASE DeferClose(r, x) = [q |-> t, kept |-> k]
    <3>1. DeferClose(r, x).q = t /\ DeferClose(r, x).kept = k
      BY <2>8, SMT
    <3>. QED  BY <2>1, <2>3, <2>8, <3>1
  <2>. QED  BY <2>6, <2>7, <2>8
<1> DEFINE T == {i \in 0 .. Len(c) : Good(f[i])}
<1> HIDE DEF Good
<1>4. 0 \in T
  BY <1>2, <1>n, SMT
<1>5. ASSUME NEW i \in 0 .. Len(c) - 1, i \in T PROVE i + 1 \in T
  <2>1. i + 1 \in 1 .. Len(c) /\ i + 1 \in 0 .. Len(c) /\ (i + 1) - 1 = i
    BY <1>n, SMT
  <2>2. f[i + 1] = DeferClose(f[i], c[i + 1]) /\ c[i + 1] \in S
    BY <1>1, <1>n, <2>1
  <2>3. Good(f[i])
    BY <1>5
  <2>4. Good(f[i + 1])
    BY <1>3, <2>2, <2>3
  <2>. QED  BY <2>1, <2>4
<1>6. Good(f[Len(c)])
  <2>1. \A i \in 0 .. Len(c) : i \in T
    <3> HIDE DEF T
    <3>. QED  BY <1>4, <1>5, <1>n DEF UpTo
  <2>2. Len(c) \in 0 .. Len(c)
    BY <1>n, SMT
  <2>. QED  BY <2>1, <2>2
<1>. QED  BY <1>1, <1>6 DEF Good

-----------------------------------------------------------------------------
(* Types, and the permits *)

\* What the deferred closes leave is of the same types.
DeferredKeeps ==
  \A M, S :
    /\ S \subseteq Nat /\ close_reg \in [Workers -> Seq(M)] /\ pending_closes \in Seq(S)
    /\ \A x \in S : Msg("Close", x) \in M
    /\ Covered(close_reg)
    => /\ Deferred.q \in [Workers -> Seq(M)] /\ Deferred.kept \in Seq(S)
       /\ Covered(Deferred.q)

\* What counting and induction say of every state.
Counted ==
  /\ ControlPermits \in Nat /\ \A w : CloseRegPermits(w) \in Nat
  /\ \A S \in SUBSET Ids : Cardinality(S) \in Nat
  /\ DeferredKeeps

Base == Callers /\ Types /\ PermitsCovered /\ Counted

NoMorePermits ==
  ControlPermits' <= ControlPermits /\ \A w : CloseRegPermits(w)' <= CloseRegPermits(w)

\* One more permit of p is counted.
OneReserved(p) ==
  /\ permits[p] < 2 => /\ ControlPermits' = ControlPermits + 1
                       /\ \A w : CloseRegPermits(w)' = CloseRegPermits(w)
  /\ permits[p] = 2 =>
       /\ ControlPermits' = ControlPermits
       /\ \A w : CloseRegPermits(w)' =
                   CloseRegPermits(w) + (IF WorkerOf(error_id[p]) = w THEN 1 ELSE 0)
  /\ permits[p] = 3 =>
       /\ ControlPermits' = ControlPermits
       /\ \A w : CloseRegPermits(w)' =
                   CloseRegPermits(w) + (IF WorkerOf(data_id(p)) = w THEN 1 ELSE 0)

\* The four of p are counted no more.
AllDropped(p) ==
  /\ ControlPermits' + 1 <= ControlPermits
  /\ \A w : CloseRegPermits(w)' + (IF WorkerOf(error_id[p]) = w THEN 1 ELSE 0)
              + (IF WorkerOf(data_id(p)) = w THEN 1 ELSE 0) = CloseRegPermits(w)

\* What counting says of a step.
Recounted ==
  /\ Counted'
  /\ /\ \A q \in Pairs : permits'[q] <= permits[q]
     /\ \A q \in Pairs : permits'[q] >= 3 => error_id'[q] = error_id[q]
     => NoMorePermits
  /\ \A p \in Pairs :
       error_id' = error_id =>
         /\ permits[p] < 4 /\ permits' = [permits EXCEPT ![p] = @ + 1] => OneReserved(p)
         /\ permits[p] = 4 /\ permits' = [permits EXCEPT ![p] = 0] => AllDropped(p)

ControlSet == {pi \in Pairs \X {1, 2} : permits[pi[1]] >= pi[2]}
ErrorSet(w) == {p \in Pairs : permits[p] >= 3 /\ WorkerOf(error_id[p]) = w}
DataSet(w) == {p \in Pairs : permits[p] = 4 /\ WorkerOf(data_id(p)) = w}

\* The counts are those of finite sets.
Counting ==
  /\ ControlPermits = Cardinality(ControlSet) /\ IsFiniteSet(ControlSet) /\ ControlPermits \in Nat
  /\ \A w : /\ CloseRegPermits(w) = Cardinality(ErrorSet(w)) + Cardinality(DataSet(w))
            /\ IsFiniteSet(ErrorSet(w)) /\ IsFiniteSet(DataSet(w))
            /\ Cardinality(ErrorSet(w)) \in Nat /\ Cardinality(DataSet(w)) \in Nat
            /\ CloseRegPermits(w) \in Nat

\* Whatever the permits are, they are counted.
LEMMA Counts ==
  ASSUME FiniteLaws
  PROVE  Counting
<1>1. IsFiniteSet(Pairs)
  BY LifecycleAssumption
<1>2. IsFiniteSet({1, 2})
  <2>1. {1, 2} = 1 .. 2
    BY SMT
  <2>2. 1 \in Int /\ 2 \in Int
    BY SMT
  <2>3. IsFiniteSet(1 .. 2)
    BY <2>2 DEF FiniteLaws
  <2>. QED  BY <2>1, <2>3
<1>3. IsFiniteSet(Pairs \X {1, 2})
  BY <1>1, <1>2 DEF FiniteLaws
<1>4. IsFiniteSet(ControlSet) /\ Cardinality(ControlSet) \in Nat
  <2>1. ControlSet \subseteq Pairs \X {1, 2}
    BY DEF ControlSet
  <2>. QED  BY <1>3, <2>1 DEF FiniteLaws
<1>5. ASSUME NEW w PROVE /\ IsFiniteSet(ErrorSet(w)) /\ Cardinality(ErrorSet(w)) \in Nat
                         /\ IsFiniteSet(DataSet(w)) /\ Cardinality(DataSet(w)) \in Nat
  <2>1. ErrorSet(w) \subseteq Pairs /\ DataSet(w) \subseteq Pairs
    BY DEF ErrorSet, DataSet
  <2>. QED  BY <1>1, <2>1 DEF FiniteLaws
<1>6. ControlPermits = Cardinality(ControlSet)
  BY DEF ControlPermits, ControlSet
<1>7. \A w : CloseRegPermits(w) = Cardinality(ErrorSet(w)) + Cardinality(DataSet(w))
  BY DEF CloseRegPermits, ErrorSet, DataSet
<1>8. \A w : CloseRegPermits(w) \in Nat
  BY <1>5, <1>7, SMT
<1>. QED  BY <1>4, <1>5, <1>6, <1>7, <1>8 DEF Counting

\* The same after a step.
LEMMA CountsNext ==
  ASSUME FiniteLaws
  PROVE  Counting'
<1>1. FiniteLaws => Counting
  BY Counts
<1>2. FiniteLaws' => Counting'
  BY <1>1, PTL
<1>3. FiniteLaws'
  BY DEF FiniteLaws
<1>. QED  BY <1>2, <1>3

\* Giving permits back makes room.
LEMMA PermitsFewer ==
  ASSUME FiniteLaws, CallerTypes, CallerTypes',
         \A q \in Pairs : permits'[q] <= permits[q],
         \A q \in Pairs : permits'[q] >= 3 => error_id'[q] = error_id[q]
  PROVE  NoMorePermits
<1>c. Counting /\ Counting'
  BY Counts, CountsNext
<1>t. \A q \in Pairs : permits[q] \in 0 .. 4 /\ permits'[q] \in 0 .. 4
  BY DEF CallerTypes
<1>1. ControlSet' \subseteq ControlSet
  BY <1>t, SMT DEF ControlSet
<1>2. ASSUME NEW w PROVE ErrorSet(w)' \subseteq ErrorSet(w) /\ DataSet(w)' \subseteq DataSet(w)
  <2>1. ErrorSet(w)' \subseteq ErrorSet(w)
    BY <1>t, SMT DEF ErrorSet
  <2>2. ASSUME NEW q \in Pairs, permits'[q] = 4
        PROVE  permits[q] = 4 /\ data_id(q)' = data_id(q)
    BY <1>t, <2>2, SMT DEF data_id
  <2>3. DataSet(w)' \subseteq DataSet(w)
    BY <2>2 DEF DataSet
  <2>. QED  BY <2>1, <2>3
<1>3. ControlPermits' <= ControlPermits
  BY <1>1, <1>c DEF FiniteLaws, Counting
<1>4. ASSUME NEW w PROVE CloseRegPermits(w)' <= CloseRegPermits(w)
  <2>1. /\ Cardinality(ErrorSet(w)') <= Cardinality(ErrorSet(w))
        /\ Cardinality(DataSet(w)') <= Cardinality(DataSet(w))
    BY <1>2, <1>c DEF FiniteLaws, Counting
  <2>2. /\ CloseRegPermits(w) = Cardinality(ErrorSet(w)) + Cardinality(DataSet(w))
        /\ CloseRegPermits(w)' = Cardinality(ErrorSet(w)') + Cardinality(DataSet(w)')
        /\ Cardinality(ErrorSet(w)) \in Nat /\ Cardinality(DataSet(w)) \in Nat
        /\ Cardinality(ErrorSet(w)') \in Nat /\ Cardinality(DataSet(w)') \in Nat
    BY <1>c DEF Counting
  <2>. QED  BY <2>1, <2>2, SMT
<1>. QED  BY <1>3, <1>4 DEF NoMorePermits

\* try_reserve_owned takes one place in the channel of the permit.
LEMMA PermitsReserved ==
  ASSUME FiniteLaws, CallerTypes, CallerTypes', NEW p \in Pairs, permits[p] < 4,
         permits' = [permits EXCEPT ![p] = @ + 1], error_id' = error_id
  PROVE  OneReserved(p)
<1> DEFINE k == permits[p]
<1>c. Counting /\ Counting'
  BY Counts, CountsNext
<1>k. k \in 0 .. 3 /\ permits'[p] = k + 1 /\ permits' \in [Pairs -> 0 .. 4]
  BY SMT DEF CallerTypes
<1>t. \A q \in Pairs : permits[q] \in 0 .. 4 /\ (q # p => permits'[q] = permits[q])
  BY DEF CallerTypes
<1>d. \A q : data_id(q)' = data_id(q)
  BY DEF data_id
<1> HIDE DEF k
<1>1. k < 2 => ControlPermits' = ControlPermits + 1
  <2> HAVE k < 2
  <2>1. <<p, k + 1>> \in Pairs \X {1, 2} /\ k \in {0, 1}
    BY <1>k, SMT
  <2>2. ASSUME NEW q \in Pairs, NEW n \in {1, 2}
        PROVE  permits'[q] >= n <=> permits[q] >= n \/ (q = p /\ n = k + 1)
    BY <1>t, <1>k, <2>1, SMT DEF k
  <2>3. ControlSet' = ControlSet \cup {<<p, k + 1>>} /\ <<p, k + 1>> \notin ControlSet
    BY <1>k, <2>1, <2>2, SMT DEF ControlSet, k
  <2>. QED  BY <1>c, <2>3 DEF FiniteLaws, Counting
<1>2. k >= 2 => ControlPermits' = ControlPermits
  <2> HAVE k >= 2
  <2>1. ASSUME NEW q \in Pairs, NEW n \in {1, 2} PROVE permits'[q] >= n <=> permits[q] >= n
    BY <1>t, <1>k, SMT DEF k
  <2>2. ControlSet' = ControlSet
    BY <2>1 DEF ControlSet
  <2>. QED  BY <1>c, <2>2 DEF Counting
<1>3. ASSUME NEW w
      PROVE  Cardinality(ErrorSet(w)') =
               Cardinality(ErrorSet(w)) + (IF k = 2 /\ WorkerOf(error_id[p]) = w THEN 1 ELSE 0)
  <2>1. ErrorSet(w)' = IF k = 2 /\ WorkerOf(error_id[p]) = w THEN ErrorSet(w) \cup {p}
                       ELSE ErrorSet(w)
    <3>1. \A q \in Pairs : permits'[q] >= 3 <=> permits[q] >= 3 \/ (q = p /\ k = 2)
      BY <1>t, <1>k, SMT DEF k
    <3>. QED  BY <3>1 DEF ErrorSet
  <2>2. k = 2 => p \notin ErrorSet(w)
    BY <1>k, SMT DEF ErrorSet, k
  <2>3. IsFiniteSet(ErrorSet(w)) /\ Cardinality(ErrorSet(w)) \in Nat
    BY <1>c DEF Counting
  <2>4. k = 2 => Cardinality(ErrorSet(w) \cup {p}) = Cardinality(ErrorSet(w)) + 1
    BY <2>2, <2>3 DEF FiniteLaws
  <2>. QED  BY <2>1, <2>3, <2>4, SMT
<1>4. ASSUME NEW w
      PROVE  Cardinality(DataSet(w)') =
               Cardinality(DataSet(w)) + (IF k = 3 /\ WorkerOf(data_id(p)) = w THEN 1 ELSE 0)
  <2>1. DataSet(w)' = IF k = 3 /\ WorkerOf(data_id(p)) = w THEN DataSet(w) \cup {p}
                      ELSE DataSet(w)
    <3>1. \A q \in Pairs : permits'[q] = 4 <=> permits[q] = 4 \/ (q = p /\ k = 3)
      BY <1>t, <1>k, SMT DEF k
    <3>. QED  BY <1>d, <3>1 DEF DataSet
  <2>2. k = 3 => p \notin DataSet(w)
    BY <1>k, SMT DEF DataSet, k
  <2>3. IsFiniteSet(DataSet(w)) /\ Cardinality(DataSet(w)) \in Nat
    BY <1>c DEF Counting
  <2>4. k = 3 => Cardinality(DataSet(w) \cup {p}) = Cardinality(DataSet(w)) + 1
    BY <2>2, <2>3 DEF FiniteLaws
  <2>. QED  BY <2>1, <2>3, <2>4, SMT
<1>5. ASSUME NEW w
      PROVE  /\ k < 2 => CloseRegPermits(w)' = CloseRegPermits(w)
             /\ k = 2 => CloseRegPermits(w)' =
                           CloseRegPermits(w) + (IF WorkerOf(error_id[p]) = w THEN 1 ELSE 0)
             /\ k = 3 => CloseRegPermits(w)' =
                           CloseRegPermits(w) + (IF WorkerOf(data_id(p)) = w THEN 1 ELSE 0)
  <2>1. /\ CloseRegPermits(w) = Cardinality(ErrorSet(w)) + Cardinality(DataSet(w))
        /\ CloseRegPermits(w)' = Cardinality(ErrorSet(w)') + Cardinality(DataSet(w)')
        /\ Cardinality(ErrorSet(w)) \in Nat /\ Cardinality(DataSet(w)) \in Nat
    BY <1>c DEF Counting
  <2> DEFINE a == Cardinality(ErrorSet(w))
             b == Cardinality(DataSet(w))
             e == WorkerOf(error_id[p]) = w
             d == WorkerOf(data_id(p)) = w
  <2>2. /\ Cardinality(ErrorSet(w)') = a + (IF k = 2 /\ e THEN 1 ELSE 0)
        /\ Cardinality(DataSet(w)') = b + (IF k = 3 /\ d THEN 1 ELSE 0)
    BY <1>3, <1>4
  <2> HIDE DEF a, b, e, d
  <2>3. /\ a \in Nat /\ b \in Nat /\ CloseRegPermits(w) = a + b
        /\ CloseRegPermits(w)' = (a + (IF k = 2 /\ e THEN 1 ELSE 0))
                                   + (b + (IF k = 3 /\ d THEN 1 ELSE 0))
    BY <2>1, <2>2 DEF a, b
  <2>4. /\ k < 2 => CloseRegPermits(w)' = a + b
        /\ k = 2 => CloseRegPermits(w)' = (a + b) + (IF e THEN 1 ELSE 0)
        /\ k = 3 => CloseRegPermits(w)' = (a + b) + (IF d THEN 1 ELSE 0)
    BY <1>k, <2>3, SMT
  <2>. QED  BY <2>3, <2>4 DEF e, d
<1>6. (k = 2 => k >= 2) /\ (k = 3 => k >= 2)
  BY <1>k, SMT
<1>. QED  BY <1>1, <1>2, <1>5, <1>6 DEF OneReserved, k

\* The drop of the guard gives all four back.
LEMMA PermitsDropped ==
  ASSUME FiniteLaws, CallerTypes, CallerTypes', NEW p \in Pairs, permits[p] = 4,
         permits' = [permits EXCEPT ![p] = 0], error_id' = error_id
  PROVE  AllDropped(p)
<1>c. Counting /\ Counting'
  BY Counts, CountsNext
<1>k. permits'[p] = 0 /\ permits' \in [Pairs -> 0 .. 4]
  BY DEF CallerTypes
<1>t. \A q \in Pairs : permits[q] \in 0 .. 4 /\ (q # p => permits'[q] = permits[q])
  BY DEF CallerTypes
<1>d. \A q : data_id(q)' = data_id(q)
  BY DEF data_id
<1>1. ControlPermits' + 1 <= ControlPermits
  <2>1. ControlSet' \subseteq ControlSet \ {<<p, 1>>} /\ <<p, 1>> \in ControlSet
    BY <1>k, <1>t, SMT DEF ControlSet
  <2>2. /\ IsFiniteSet(ControlSet \ {<<p, 1>>})
        /\ Cardinality(ControlSet \ {<<p, 1>>}) = Cardinality(ControlSet) - 1
    BY <1>c, <2>1 DEF FiniteLaws, Counting
  <2>3. Cardinality(ControlSet') <= Cardinality(ControlSet \ {<<p, 1>>})
    BY <2>1, <2>2 DEF FiniteLaws
  <2>4. /\ ControlPermits = Cardinality(ControlSet) /\ ControlPermits' = Cardinality(ControlSet')
        /\ ControlPermits \in Nat /\ ControlPermits' \in Nat
    BY <1>c DEF Counting
  <2>. QED  BY <2>2, <2>3, <2>4, SMT
<1>3. ASSUME NEW w
      PROVE  Cardinality(ErrorSet(w)') + (IF WorkerOf(error_id[p]) = w THEN 1 ELSE 0)
               = Cardinality(ErrorSet(w))
  <2>1. ErrorSet(w)' = ErrorSet(w) \ {p}
    <3>1. \A q \in Pairs : permits'[q] >= 3 <=> permits[q] >= 3 /\ q # p
      BY <1>t, <1>k, SMT
    <3>. QED  BY <3>1 DEF ErrorSet
  <2>2. p \in ErrorSet(w) <=> WorkerOf(error_id[p]) = w
    BY SMT DEF ErrorSet
  <2>3. IsFiniteSet(ErrorSet(w)) /\ Cardinality(ErrorSet(w)) \in Nat
    BY <1>c DEF Counting
  <2>4. Cardinality(ErrorSet(w) \ {p})
          = IF p \in ErrorSet(w) THEN Cardinality(ErrorSet(w)) - 1 ELSE Cardinality(ErrorSet(w))
    BY <2>3 DEF FiniteLaws
  <2>. QED  BY <2>1, <2>2, <2>3, <2>4, SMT
<1>4. ASSUME NEW w
      PROVE  Cardinality(DataSet(w)') + (IF WorkerOf(data_id(p)) = w THEN 1 ELSE 0)
               = Cardinality(DataSet(w))
  <2>1. DataSet(w)' = DataSet(w) \ {p}
    <3>1. \A q \in Pairs : permits'[q] = 4 <=> permits[q] = 4 /\ q # p
      BY <1>t, <1>k, SMT
    <3>. QED  BY <1>d, <3>1 DEF DataSet
  <2>2. p \in DataSet(w) <=> WorkerOf(data_id(p)) = w
    BY DEF DataSet
  <2>3. IsFiniteSet(DataSet(w)) /\ Cardinality(DataSet(w)) \in Nat
    BY <1>c DEF Counting
  <2>4. Cardinality(DataSet(w) \ {p})
          = IF p \in DataSet(w) THEN Cardinality(DataSet(w)) - 1 ELSE Cardinality(DataSet(w))
    BY <2>3 DEF FiniteLaws
  <2>. QED  BY <2>1, <2>2, <2>3, <2>4, SMT
<1>5. ASSUME NEW w
      PROVE  CloseRegPermits(w)' + (IF WorkerOf(error_id[p]) = w THEN 1 ELSE 0)
               + (IF WorkerOf(data_id(p)) = w THEN 1 ELSE 0) = CloseRegPermits(w)
  <2> DEFINE a == Cardinality(ErrorSet(w)')
             b == Cardinality(DataSet(w)')
             e == WorkerOf(error_id[p]) = w
             d == WorkerOf(data_id(p)) = w
  <2>1. /\ CloseRegPermits(w) = Cardinality(ErrorSet(w)) + Cardinality(DataSet(w))
        /\ CloseRegPermits(w)' = a + b /\ a \in Nat /\ b \in Nat
    BY <1>c DEF Counting
  <2>2. /\ Cardinality(ErrorSet(w)) = a + (IF e THEN 1 ELSE 0)
        /\ Cardinality(DataSet(w)) = b + (IF d THEN 1 ELSE 0)
    BY <1>3, <1>4
  <2> HIDE DEF a, b, e, d
  <2>3. (a + b) + (IF e THEN 1 ELSE 0) + (IF d THEN 1 ELSE 0) = CloseRegPermits(w)
    BY <2>1, <2>2, SMT
  <2>. QED  BY <2>1, <2>3 DEF e, d
<1>. QED  BY <1>1, <1>5 DEF AllDropped

\* Every state is counted.
LEMMA CountedHere ==
  ASSUME FiniteLaws, UpTo
  PROVE  Counted
<1>1. DeferredKeeps
  BY DeferredFacts DEF DeferredKeeps
<1>2. ASSUME NEW S \in SUBSET Ids PROVE Cardinality(S) \in Nat
  <2>1. 1 \in Int /\ MAX_STREAM_ID \in Int
    BY LifecycleAssumption, SMT
  <2>2. IsFiniteSet(Ids)
    BY <2>1 DEF FiniteLaws, Ids
  <2>3. IsFiniteSet(S)
    BY <2>2 DEF FiniteLaws
  <2>. QED  BY <2>3 DEF FiniteLaws
<1>3. ControlPermits \in Nat /\ \A w : CloseRegPermits(w) \in Nat
  BY Counts DEF Counting
<1>. QED  BY <1>1, <1>2, <1>3 DEF Counted

\* The same after a step.
LEMMA CountedNext ==
  ASSUME FiniteLaws, UpTo
  PROVE  Counted'
<1>1. FiniteLaws /\ UpTo => Counted
  BY CountedHere
<1>2. FiniteLaws' /\ UpTo' => Counted'
  BY <1>1, PTL
<1>3. FiniteLaws' /\ UpTo'
  BY DEF FiniteLaws, UpTo
<1>. QED  BY <1>2, <1>3

\* Every step is counted.
LEMMA StepCounted ==
  ASSUME FiniteLaws, UpTo, Callers, Callers'
  PROVE  Recounted
<1>0. CallerTypes /\ CallerTypes'
  BY DEF Callers
<1>1. Counted'
  BY CountedNext
<1>2. ASSUME NEW p \in Pairs, error_id' = error_id, permits[p] < 4,
             permits' = [permits EXCEPT ![p] = @ + 1]
      PROVE  OneReserved(p)
  BY <1>0, <1>2, PermitsReserved
<1>3. ASSUME NEW p \in Pairs, error_id' = error_id, permits[p] = 4,
             permits' = [permits EXCEPT ![p] = 0]
      PROVE  AllDropped(p)
  BY <1>0, <1>3, PermitsDropped
<1>4. ASSUME \A q \in Pairs : permits'[q] <= permits[q],
             \A q \in Pairs : permits'[q] >= 3 => error_id'[q] = error_id[q]
      PROVE  NoMorePermits
  BY <1>0, <1>4, PermitsFewer
<1>. QED  BY <1>1, <1>2, <1>3, <1>4 DEF Recounted

\* Control channels that respect the permits.
Roomy(c) ==
  c \in Seq(ControlMsg) /\ ControlPermits \in Nat /\ Len(c) + ControlPermits <= ControlCap

\* What the channels are before a step.
LEMMA BaseFacts ==
  ASSUME Base
  PROVE  /\ Roomy(control) /\ close_reg \in [Workers -> Seq(CloseRegMsg)] /\ Covered(close_reg)
         /\ ChannelTypes /\ WriterTypes /\ WorkerTypes /\ Callers
BY DEF Base, Counted, Types, ChannelTypes, PermitsCovered, Roomy, Covered

\* try_send to the control channel.
LEMMA TrySendControlFacts ==
  ASSUME Roomy(control), NEW m \in ControlMsg
  PROVE  /\ Roomy(TrySendControl(m))
         /\ TrySendControl(m) = control \/ TrySendControl(m) = Append(control, m)
<1>1. control \in Seq(ControlMsg) /\ Len(control) + ControlPermits <= ControlCap
  BY DEF Roomy
<1>2. ControlPermits \in Nat /\ ControlCap \in Nat /\ Len(control) \in Nat
  BY <1>1, LifecycleAssumption, SMT DEF Roomy
<1>3. \/ TrySendControl(m) = control
      \/ ControlCap - Len(control) - ControlPermits > 0 /\ TrySendControl(m) = Append(control, m)
  BY DEF TrySendControl, ControlRoom
<1>4. Append(control, m) \in Seq(ControlMsg) /\ Len(Append(control, m)) = Len(control) + 1
  BY <1>1, SMT
<1>5. ControlCap - Len(control) - ControlPermits > 0 =>
        Len(Append(control, m)) + ControlPermits <= ControlCap
  BY <1>2, <1>4, SMT
<1>. QED  BY <1>1, <1>2, <1>3, <1>4, <1>5 DEF Roomy

\* Taking a message leaves room.
LEMMA TakeControlFacts ==
  ASSUME Roomy(control), control # <<>>
  PROVE  Roomy(Tail(control)) /\ Head(control) \in ControlMsg
<1>1. control \in Seq(ControlMsg) /\ Len(control) + ControlPermits <= ControlCap
  BY DEF Roomy
<1>2. ControlPermits \in Nat /\ ControlCap \in Nat
  BY LifecycleAssumption DEF Roomy
<1>3. /\ Tail(control) \in Seq(ControlMsg) /\ Len(Tail(control)) = Len(control) - 1
      /\ Len(control) \in Nat /\ Head(control) \in ControlMsg
  BY <1>1, SMT
<1>4. Len(Tail(control)) + ControlPermits <= ControlCap
  BY <1>1, <1>2, <1>3, SMT
<1>. QED  BY <1>2, <1>3, <1>4 DEF Roomy

\* Registering a stream.
LEMMA RegisterFacts ==
  ASSUME ChannelTypes, NEW id \in Ids, Register(id)
  PROVE  /\ reg' \in [Workers -> Seq(RegMsg)]
         /\ \A w \in Workers : w # WorkerOf(id) => reg'[w] = reg[w]
         /\ Elems(reg'[WorkerOf(id)]) = Elems(reg[WorkerOf(id)]) \cup {Msg("Open", id)}
<1> DEFINE v == WorkerOf(id)
           m == Msg("Open", id)
<1>0. id \in Nat
  BY SMT DEF Ids
<1>1. v \in Workers
  BY <1>0, WorkerTypesOf
<1>2. m \in RegMsg
  BY DEF Msg, RegMsg
<1> HIDE DEF v, m
<1>3. reg \in [Workers -> Seq(RegMsg)] /\ reg[v] \in Seq(RegMsg)
  BY <1>1 DEF ChannelTypes
<1>4. Append(reg[v], m) \in Seq(RegMsg) /\ Elems(Append(reg[v], m)) = Elems(reg[v]) \cup {m}
  BY <1>2, <1>3, Sending DEF Sent
<1>5. reg' = [reg EXCEPT ![v] = Append(reg[v], m)]
  BY DEF Register, v, m
<1>6. /\ reg' \in [Workers -> Seq(RegMsg)] /\ reg'[v] = Append(reg[v], m)
      /\ \A w \in Workers : w # v => reg'[w] = reg[w]
  BY <1>1, <1>3, <1>4, <1>5
<1>. QED  BY <1>4, <1>6 DEF v, m

\* apply_registration of GoAway: the resets that fit in the control channel.
LEMMA BadResets ==
  ASSUME Base, NEW bad \in SUBSET streams,
         NEW order \in Bijection(1 .. Cardinality(bad), bad),
         NEW k, k = (IF ControlRoom < Cardinality(bad) THEN ControlRoom ELSE Cardinality(bad)),
         NEW b, b = [i \in 1 .. k |-> Msg("CloseStream", order[i])]
  PROVE  /\ Roomy(control \o b) /\ b \in Seq(ControlMsg)
         /\ Elems(b) \subseteq {Msg("CloseStream", id) : id \in bad}
<1>b. Roomy(control) /\ WorkerTypes
  BY BaseFacts
<1>1. bad \subseteq Nat /\ Cardinality(bad) \in Nat
  <2>1. streams \subseteq Ids /\ Ids \subseteq Nat
    BY <1>b, LifecycleAssumption, SMT DEF WorkerTypes, Ids
  <2>. QED  BY <2>1 DEF Base, Counted
<1>2. ControlRoom \in Nat /\ ControlRoom = ControlCap - Len(control) - ControlPermits
      /\ Len(control) \in Nat /\ ControlPermits \in Nat /\ ControlCap \in Nat
  <2>1. ControlPermits \in Nat
    BY <1>b DEF Roomy
  <2>2. control \in Seq(ControlMsg) /\ Len(control) + ControlPermits <= ControlCap
    BY <1>b DEF Roomy
  <2>3. Len(control) \in Nat
    BY <2>2, SMT
  <2>4. ControlCap \in Nat
    BY LifecycleAssumption
  <2>5. ControlRoom = ControlCap - Len(control) - ControlPermits
    BY DEF ControlRoom
  <2>6. Len(control) + ControlPermits <= ControlCap
    BY <2>2
  <2>. QED  BY <2>1, <2>3, <2>4, <2>5, <2>6, SMT
<1>3. k \in Nat /\ k <= ControlRoom /\ k <= Cardinality(bad)
  <2> DEFINE r == ControlRoom
             c == Cardinality(bad)
  <2>1. r \in Nat /\ c \in Nat /\ k = (IF r < c THEN r ELSE c)
    BY <1>1, <1>2
  <2> HIDE DEF r, c
  <2>2. k \in Nat /\ k <= r /\ k <= c
    BY <2>1, SMT
  <2>. QED  BY <2>2 DEF r, c
<1>4. \A i \in 1 .. k : order[i] \in bad
  <2>1. order \in [1 .. Cardinality(bad) -> bad]
    BY DEF Bijection, Injection, Surjection
  <2>2. \A i \in 1 .. k : i \in 1 .. Cardinality(bad)
    BY <1>1, <1>3, SMT
  <2>. QED  BY <2>1, <2>2
<1>5. \A id \in bad : Msg("CloseStream", id) \in ControlMsg
  BY <1>1, SMT DEF Msg, ControlMsg
<1>6. b \in Seq(ControlMsg) /\ Len(b) = k
  <2>1. \A i \in 1 .. k : Msg("CloseStream", order[i]) \in ControlMsg
    BY <1>4, <1>5
  <2> DEFINE g(i) == Msg("CloseStream", order[i])
  <2>2. b = [i \in 1 .. k |-> g(i)] /\ \A i \in 1 .. k : g(i) \in ControlMsg
    BY <2>1
  <2> HIDE DEF g
  <2>. QED  BY <1>3, <2>2, SMT
<1>7. control \in Seq(ControlMsg)
  BY <1>b DEF Roomy
<1>8. control \o b \in Seq(ControlMsg) /\ Len(control \o b) = Len(control) + k
  <2>1. \A q, r \in Seq(ControlMsg) : q \o r \in Seq(ControlMsg) /\ Len(q \o r) = Len(q) + Len(r)
    BY SMT
  <2>2. Len(control \o b) = Len(control) + Len(b) /\ control \o b \in Seq(ControlMsg)
    BY <1>6, <1>7, <2>1
  <2>. QED  BY <1>6, <2>2
<1>9. Len(control \o b) + ControlPermits <= ControlCap
  <2> DEFINE l == Len(control \o b)
             n == Len(control)
             c == ControlPermits
             r == ControlRoom
  <2>1. /\ l = n + k /\ n \in Nat /\ c \in Nat /\ k \in Nat /\ k <= r /\ r = ControlCap - n - c
        /\ ControlCap \in Nat
    BY <1>2, <1>3, <1>8
  <2> HIDE DEF l, n, c, r
  <2>2. l + c <= ControlCap
    BY <2>1, SMT
  <2>. QED  BY <2>2 DEF l, c
<1>10. Elems(b) \subseteq {Msg("CloseStream", id) : id \in bad}
  <2>1. ASSUME NEW i \in 1 .. Len(b) PROVE b[i] \in {Msg("CloseStream", id) : id \in bad}
    BY <1>4, <1>6
  <2>. QED  BY <2>1 DEF Elems
<1>. QED  BY <1>2, <1>6, <1>8, <1>9, <1>10 DEF Roomy

\* One message of worker w's close channel is taken.
LEMMA TakeClose ==
  ASSUME NEW M, close_reg \in [Workers -> Seq(M)], NEW w \in Workers, close_reg[w] # <<>>,
         close_reg' = [close_reg EXCEPT ![w] = Tail(@)]
  PROVE  /\ close_reg' \in [Workers -> Seq(M)] /\ Head(close_reg[w]) \in M
         /\ Covered(close_reg) => Covered(close_reg')
<1>1. close_reg[w] \in Seq(M)
  OBVIOUS
<1>2. Tail(close_reg[w]) \in Seq(M) /\ Head(close_reg[w]) \in M /\ Taken(close_reg[w])
  BY <1>1, Receiving
<1>3. /\ close_reg' \in [Workers -> Seq(M)] /\ close_reg'[w] = Tail(close_reg[w])
      /\ \A v \in Workers : v # w => close_reg'[v] = close_reg[v]
  BY <1>2
<1>4. ASSUME Covered(close_reg), NEW v \in Workers
      PROVE  CloseRegPermits(v) \in Nat /\ Len(close_reg'[v]) + CloseRegPermits(v) <= CloseRegCap
  <2>1. Len(close_reg[v]) + CloseRegPermits(v) <= CloseRegCap /\ CloseRegPermits(v) \in Nat
    BY <1>4 DEF Covered
  <2>2. CASE v # w
    BY <1>3, <2>1, <2>2
  <2>3. CASE v = w
    <3>1. Len(close_reg'[v]) = Len(close_reg[v]) - 1 /\ Len(close_reg[v]) \in Nat
      BY <1>2, <1>3, <2>3 DEF Taken
    <3>2. CloseRegCap \in Nat
      BY LifecycleAssumption
    <3>. QED  BY <2>1, <3>1, <3>2, SMT
  <2>. QED  BY <2>2, <2>3
<1>5. Covered(close_reg) => Covered(close_reg')
  BY <1>4 DEF Covered
<1>. QED  BY <1>2, <1>3, <1>5

\* What apply_registration of a close or a GOAWAY does.
ClosesApplied(w) ==
  LET m == Head(close_reg[w])
  IN /\ close_reg' \in [Workers -> Seq(CloseRegMsg)] /\ Covered(close_reg') /\ Roomy(control')
     /\ m \in CloseRegMsg /\ streams' \subseteq streams
     /\ \/ m.kind = "Close" /\ streams' = streams \ {m.id} /\ control' = control
        \/ /\ m.kind = "GoAway"
           /\ \A n \in Elems(control') : n \in Elems(control) \/ n.kind = "CloseStream"
           /\ Elems(control) \subseteq Elems(control')

\* worker.rs:266-325: taking one message off close_reg applies it as above.
LEMMA ApplyCloseFacts ==
  ASSUME Base, NEW w \in Workers, close_reg[w] # <<>>, ApplyClose(w)
  PROVE  ClosesApplied(w)
<1>b. /\ Roomy(control) /\ close_reg \in [Workers -> Seq(CloseRegMsg)] /\ Covered(close_reg)
  BY BaseFacts
<1> DEFINE m == Head(close_reg[w])
           bad == {id \in streams : WorkerOf(id) = w /\ id > m.id}
<1>0. close_reg' = [close_reg EXCEPT ![w] = Tail(@)]
  BY DEF ApplyClose
<1>1. close_reg' \in [Workers -> Seq(CloseRegMsg)] /\ m \in CloseRegMsg /\ Covered(close_reg')
  BY <1>0, <1>b, TakeClose
<1>2. \/ m.kind = "Close" /\ streams' = streams \ {m.id} /\ control' = control
      \/ /\ m.kind = "GoAway" /\ streams' = streams \ bad
         /\ \E order \in Bijection(1 .. Cardinality(bad), bad) :
              control' = control \o
                [i \in 1 .. (IF ControlRoom < Cardinality(bad) THEN ControlRoom
                             ELSE Cardinality(bad)) |-> Msg("CloseStream", order[i])]
  BY DEF ApplyClose
<1>3. bad \in SUBSET streams
  OBVIOUS
<1> HIDE DEF m, bad
<1>4. CASE m.kind = "Close" /\ streams' = streams \ {m.id} /\ control' = control
  <2>1. streams' \subseteq streams
    BY <1>4
  <2>. QED  BY <1>1, <1>4, <1>b, <2>1 DEF ClosesApplied, m
<1>5. CASE m.kind = "GoAway" /\ control' # control /\ streams' = streams \ bad
  <2> DEFINE k == IF ControlRoom < Cardinality(bad) THEN ControlRoom ELSE Cardinality(bad)
  <2>1. PICK order \in Bijection(1 .. Cardinality(bad), bad) :
          control' = control \o [i \in 1 .. k |-> Msg("CloseStream", order[i])]
    BY <1>2, <1>5
  <2> DEFINE b == [i \in 1 .. k |-> Msg("CloseStream", order[i])]
  <2>2. /\ Roomy(control \o b) /\ b \in Seq(ControlMsg)
        /\ Elems(b) \subseteq {Msg("CloseStream", id) : id \in bad}
    BY <1>3, BadResets
  <2>3. control' = control \o b
    BY <2>1
  <2> HIDE DEF b, k
  <2>4. Roomy(control')
    BY <2>2, <2>3
  <2>5. Elems(control') = Elems(control) \cup Elems(b)
    <3>1. control \in Seq(ControlMsg) /\ control' \in Seq(ControlMsg)
      BY <1>b, <2>4 DEF Roomy
    <3>. QED  BY <2>2, <2>3, <3>1, SendingAll, SMT
  <2>6. \A id : Msg("CloseStream", id).kind = "CloseStream"
    BY DEF Msg
  <2>7. streams' \subseteq streams
    BY <1>5
  <2>8. \A n \in Elems(control') : n \in Elems(control) \/ n.kind = "CloseStream"
    BY <2>2, <2>5, <2>6
  <2>9. Elems(control) \subseteq Elems(control')
    BY <2>5
  <2>. QED  BY <1>1, <1>5, <2>4, <2>7, <2>8, <2>9 DEF ClosesApplied, m
<1>6. CASE m.kind = "GoAway" /\ control' = control /\ streams' = streams \ bad
  <2>1. streams' \subseteq streams
    BY <1>6
  <2>. QED  BY <1>1, <1>6, <1>b, <2>1 DEF ClosesApplied, m
<1>. QED  BY <1>2, <1>4, <1>5, <1>6

\* The loop of a frame worker, by what it does to the channels.
LEMMA WorkerKinds ==
  ASSUME WorkerTypes, NEW w \in Workers, WorkerStep(w)
  PROVE  /\ UNCHANGED <<callers, cmd, writer, peer, cancelled>> /\ ~cancelled
         /\ workerAt' \in [Workers -> {"closes", "opens", "select"}]
         /\ \/ close_reg[w] # <<>> /\ ApplyClose(w) /\ UNCHANGED reg
            \/ reg[w] # <<>> /\ ApplyOpen(w) /\ UNCHANGED <<close_reg, control>>
            \/ UNCHANGED <<streams, reg, close_reg, control>>
<1>1. \/ workerAt' = workerAt \/ workerAt' = [workerAt EXCEPT ![w] = "opens"]
      \/ workerAt' = [workerAt EXCEPT ![w] = "select"]
      \/ workerAt' = [workerAt EXCEPT ![w] = "closes"]
  BY DEF WorkerStep, WorkerCloses, WorkerOpens, WorkerSelect, GoTo
<1>2. workerAt' \in [Workers -> {"closes", "opens", "select"}]
  BY <1>1 DEF WorkerTypes
<1>3. UNCHANGED <<callers, cmd, writer, peer, cancelled>> /\ ~cancelled
  BY DEF WorkerStep, WorkerCloses, WorkerOpens, WorkerSelect
<1>4. \/ close_reg[w] # <<>> /\ ApplyClose(w) /\ UNCHANGED reg
      \/ reg[w] # <<>> /\ ApplyOpen(w) /\ UNCHANGED <<close_reg, control>>
      \/ UNCHANGED <<streams, reg, close_reg, control>>
  BY DEF WorkerStep, WorkerCloses, WorkerOpens, WorkerSelect
<1>. QED  BY <1>2, <1>3, <1>4

\* apply_registration of Open.
LEMMA ApplyOpenFacts ==
  ASSUME ChannelTypes, NEW w \in Workers, reg[w] # <<>>, ApplyOpen(w)
  PROVE  /\ reg' \in [Workers -> Seq(RegMsg)] /\ Head(reg[w]) \in RegMsg
         /\ streams' = streams \cup {Head(reg[w]).id} /\ Head(reg[w]).id \in Ids
         /\ \A v \in Workers : v # w => reg'[v] = reg[v]
         /\ Elems(reg[w]) = {Head(reg[w])} \cup Elems(reg'[w])
<1>1. reg \in [Workers -> Seq(RegMsg)] /\ reg[w] \in Seq(RegMsg)
  BY DEF ChannelTypes
<1>2. Tail(reg[w]) \in Seq(RegMsg) /\ Head(reg[w]) \in RegMsg /\ Taken(reg[w])
  BY <1>1, Receiving
<1>3. reg' = [reg EXCEPT ![w] = Tail(reg[w])] /\ streams' = streams \cup {Head(reg[w]).id}
  BY DEF ApplyOpen
<1>4. /\ reg' \in [Workers -> Seq(RegMsg)] /\ reg'[w] = Tail(reg[w])
      /\ \A v \in Workers : v # w => reg'[v] = reg[v]
  BY <1>1, <1>2, <1>3
<1>5. Elems(reg[w]) = {Head(reg[w])} \cup Elems(reg'[w])
  BY <1>2, <1>4 DEF Taken
<1>6. Head(reg[w]).id \in Ids
  <2> DEFINE h == Head(reg[w])
  <2>1. h \in RegMsg
    BY <1>2
  <2> HIDE DEF h
  <2>2. h.id \in Ids
    BY <2>1 DEF RegMsg
  <2>. QED  BY <2>2 DEF h
<1>. QED  BY <1>2, <1>3, <1>4, <1>5, <1>6

\* dispatch_frame_in_worker, by what it does to the control channel.
LEMMA PeerKinds ==
  ASSUME Base, NEW w \in Workers, PeerFrame(w)
  PROVE  /\ UNCHANGED <<callers, cmd, reg, close_reg, writer, goaway_received, cancelled>>
         /\ frames' = frames + 1 /\ frames < MaxFrames /\ streams' \subseteq streams /\ ~cancelled
         /\ workerAt' \in [Workers -> {"closes", "opens", "select"}]
         /\ Roomy(control') /\ Elems(control) \subseteq Elems(control')
<1>b. Roomy(control) /\ WorkerTypes /\ Callers
  BY BaseFacts
<1>1. /\ UNCHANGED <<callers, cmd, reg, close_reg, writer, goaway_received, cancelled>>
      /\ frames' = frames + 1 /\ frames < MaxFrames /\ ~cancelled
      /\ workerAt' = [workerAt EXCEPT ![w] = "closes"]
  BY DEF PeerFrame, GoTo
<1>2. workerAt' \in [Workers -> {"closes", "opens", "select"}]
  BY <1>1, <1>b DEF WorkerTypes
<1>3. PICK p \in Pairs : \E id \in IdsOf(p) :
         /\ streams' = streams \ {id}
         /\ control' = control \/ control' = TrySendControl(Msg("CloseStream", id))
  BY DEF PeerFrame
<1>4. PICK id \in IdsOf(p) :
         /\ streams' = streams \ {id}
         /\ control' = control \/ control' = TrySendControl(Msg("CloseStream", id))
  BY <1>3
<1>5. id \in Nat
  BY <1>b, IdTypes DEF IdsOf
<1>6. Msg("CloseStream", id) \in ControlMsg
  BY <1>5, SMT DEF Msg, ControlMsg
<1>7. /\ Roomy(control')
      /\ control' = control \/ control' = Append(control, Msg("CloseStream", id))
  BY <1>4, <1>6, <1>b, TrySendControlFacts
<1>8. Elems(control) \subseteq Elems(control')
  <2>1. control \in Seq(ControlMsg)
    BY <1>b DEF Roomy
  <2>2. Elems(Append(control, Msg("CloseStream", id)))
          = Elems(control) \cup {Msg("CloseStream", id)}
    BY <1>6, <2>1, Sending DEF Sent
  <2>3. CASE control' = control
    BY <2>3
  <2>4. CASE control' = Append(control, Msg("CloseStream", id))
    BY <2>2, <2>4
  <2>. QED  BY <1>7, <2>3, <2>4
<1>9. streams' \subseteq streams
  BY <1>4
<1>. QED  BY <1>1, <1>2, <1>7, <1>8, <1>9

\* Every step keeps the types and the places of the permits.
LEMMA BaseStep ==
  ASSUME Base, Callers', Recounted, [Next]_vars
  PROVE  Base'

\* An open that fails, or the allocation of ids, gives permits back at most.
<1>GivenBack.
  ASSUME Callers, Recounted, NEW p \in Pairs,
         permits' = permits \/ permits' = [permits EXCEPT ![p] = 0],
         \/ error_id' = error_id
         \/ permits[p] = 0 /\ \A q \in Pairs : q # p => error_id'[q] = error_id[q]
  PROVE  NoMorePermits
  <2> USE <1>GivenBack
  <2>p. permits \in [Pairs -> 0 .. 4]
    BY DEF Callers, CallerTypes
  <2>1. \A q \in Pairs : permits'[q] <= permits[q]
    BY <2>p, SMT
  <2>2. \A q \in Pairs : permits'[q] >= 3 => error_id'[q] = error_id[q]
    <3>1. permits[p] = 0 => ~(permits'[p] >= 3)
      BY <2>p, SMT
    <3>. QED  BY <3>1
  <2>. QED  BY <2>1, <2>2 DEF Recounted

\* A step of the other tasks holds no permits.
<1>PermitsKept.
  ASSUME Base, UNCHANGED callers
  PROVE  NoMorePermits
  <2> USE <1>PermitsKept
  <2>1. permits' = permits /\ error_id' = error_id
    BY DEF callers
  <2>2. ControlPermits' = ControlPermits
    BY <2>1 DEF ControlPermits
  <2>3. \A w : CloseRegPermits(w)' = CloseRegPermits(w)
    BY <2>1 DEF CloseRegPermits, data_id
  <2>4. ControlPermits \in Nat /\ \A w : CloseRegPermits(w) \in Nat
    BY DEF Base, Counted
  <2>5. \A x \in Nat : x <= x
    BY SMT
  <2>. QED  BY <2>2, <2>3, <2>4, <2>5 DEF NoMorePermits

\* The permits stay covered when the channels respect them and none is added.
<1>CoveredKept.
  ASSUME Recounted, NoMorePermits, Roomy(control'), close_reg' \in [Workers -> Seq(CloseRegMsg)],
         Covered(close_reg')
  PROVE  PermitsCovered'
  <2> USE <1>CoveredKept
  <2>c. ControlPermits' \in Nat /\ \A w : CloseRegPermits(w)' \in Nat
    BY DEF Recounted, Counted
  <2>n. {ControlCap, CloseRegCap} \subseteq Nat
    BY LifecycleAssumption
  <2>1. Len(control') + ControlPermits' <= ControlCap
    <3>1. control' \in Seq(ControlMsg) /\ Len(control') + ControlPermits <= ControlCap
      BY DEF Roomy
    <3>2. Len(control') \in Nat
      BY <3>1, SMT
    <3>3. ControlPermits' <= ControlPermits /\ ControlPermits \in Nat /\ ControlPermits' \in Nat
      BY <2>c DEF NoMorePermits, Roomy
    <3>. QED  BY <2>n, <3>1, <3>2, <3>3, SMT
  <2>2. ASSUME NEW w \in Workers PROVE Len(close_reg'[w]) + CloseRegPermits(w)' <= CloseRegCap
    <3>1. /\ close_reg'[w] \in Seq(CloseRegMsg)
          /\ Len(close_reg'[w]) + CloseRegPermits(w) <= CloseRegCap
      BY DEF Covered
    <3>2. Len(close_reg'[w]) \in Nat
      BY <3>1, SMT
    <3>3. /\ CloseRegPermits(w)' <= CloseRegPermits(w)
          /\ CloseRegPermits(w) \in Nat /\ CloseRegPermits(w)' \in Nat
      BY <2>c DEF NoMorePermits, Covered
    <3>. QED  BY <2>n, <3>1, <3>2, <3>3, SMT
  <2>. QED  BY <2>1, <2>2 DEF PermitsCovered

\* The types after a step that leaves the writer, the workers and the peer alone.
<1>TypesKept.
  ASSUME Base, ChannelTypes', UNCHANGED <<writer, workers, peer, cancelled>>
  PROVE  Types'
  <2> USE <1>TypesKept
  <2>1. UNCHANGED <<writerAt, taken, pending_closes, wire, streams, workerAt, goaway_received,
                    frames, cancelled>>
    BY DEF writer, workers, peer
  <2>2. WriterTypes' /\ WorkerTypes'
    BY <2>1, BaseFacts DEF WriterTypes, WorkerTypes
  <2>. QED  BY <2>2 DEF Types

\* The types after a step that leaves the writer alone.
<1>WriterTypesKept.
  ASSUME WriterTypes, UNCHANGED writer
  PROVE  WriterTypes'
  <2> USE <1>WriterTypesKept
  <2>1. UNCHANGED <<writerAt, taken, pending_closes, wire>>
    BY DEF writer
  <2>. QED  BY <2>1 DEF WriterTypes

\* AllocateIds: GOAWAY takes a place only if there is one.
<1>AllocateBase.
  ASSUME Base, Callers', Recounted, NEW p \in Pairs, AllocateIds(p)
  PROVE  Types' /\ PermitsCovered'
  <2> USE <1>AllocateBase
  <2>b. /\ Roomy(control) /\ close_reg \in [Workers -> Seq(CloseRegMsg)] /\ Covered(close_reg)
        /\ ChannelTypes /\ Callers
    BY BaseFacts
  <2>0. /\ pc[p] = "unopened"
        /\ UNCHANGED <<cmd, reg, close_reg, writer, workers, peer, cancelled>>
        /\ control' = control \/ control' = TrySendControl(Msg("GoAway", next_stream_id - 2))
        /\ permits' = permits \/ permits' = [permits EXCEPT ![p] = 0]
        /\ error_id' = error_id \/ error_id' = [error_id EXCEPT ![p] = next_stream_id]
    BY DEF AllocateIds, Fail
  <2>1. permits[p] = 0
    BY <2>0, <2>b DEF Callers, Held, HeldBy
  <2>2. \A q \in Pairs : q # p => error_id'[q] = error_id[q]
    BY <2>0, <2>b DEF Callers, CallerTypes
  <2>3. NoMorePermits
    BY <2>0, <2>1, <2>2, <2>b, <1>GivenBack
  <2>4. Msg("GoAway", next_stream_id - 2) \in ControlMsg
    BY <2>b, SMT DEF Msg, ControlMsg, Callers, CallerTypes
  <2>5. Roomy(control')
    BY <2>0, <2>4, <2>b, TrySendControlFacts
  <2>6. PermitsCovered'
    BY <2>0, <2>3, <2>5, <2>b, <1>CoveredKept
  <2>7. ChannelTypes'
    BY <2>0, <2>5, <2>b DEF ChannelTypes, Roomy
  <2>. QED  BY <2>0, <2>6, <2>7, <1>TypesKept

\* The steps of realize_stream_pair.
<1>RealizeBase.
  ASSUME Base, Callers', Recounted, NEW p \in Pairs, Realize(p)
  PROVE  Types' /\ PermitsCovered'
  <2> USE <1>RealizeBase
  <2>b. /\ Roomy(control) /\ close_reg \in [Workers -> Seq(CloseRegMsg)] /\ Covered(close_reg)
        /\ ChannelTypes /\ Callers
    BY BaseFacts
  <2>s. pc[p] \in Section /\ UNCHANGED <<control, writer, workers, peer, cancelled, error_id>>
    BY DEF Realize, RegisterError, RegisterData, EnqueueOpen, ReservePermit,
                 CleanupRegistration, Section, Early, channels
  <2>e. error_id[p] # 0
    BY <2>b, <2>s DEF Callers, Held, HeldBy
  <2>i. error_id[p] \in Ids /\ data_id(p) \in Ids /\ error_id[p] \in Nat /\ data_id(p) \in Nat
    BY <2>b, <2>e, IdTypes
  <2>m. /\ Msg("Close", error_id[p]) \in CloseRegMsg /\ Msg("Close", data_id(p)) \in CloseRegMsg
        /\ Msg("OpenStreamPair", error_id[p]) \in CmdMsg
    BY <2>i DEF Msg, CloseRegMsg, CmdMsg, Kinds
  <2>1. reg' \in [Workers -> Seq(RegMsg)]
    <3>1. \/ reg' = reg \/ Register(error_id[p]) \/ Register(data_id(p))
      BY DEF Realize, RegisterError, RegisterData, EnqueueOpen, ReservePermit,
                   CleanupRegistration, channels
    <3>. QED  BY <2>b, <2>i, <3>1, RegisterFacts DEF ChannelTypes
  <2>2. cmd' \in Seq(CmdMsg)
    <3>1. cmd' = cmd \/ cmd' = Append(cmd, Msg("OpenStreamPair", error_id[p]))
      BY DEF Realize, RegisterError, RegisterData, EnqueueOpen, ReservePermit,
                   CleanupRegistration, channels
    <3>2. cmd \in Seq(CmdMsg)
      BY <2>b DEF ChannelTypes
    <3>. QED  BY <2>m, <3>1, <3>2, Sending
  <2>3. close_reg' \in [Workers -> Seq(CloseRegMsg)] /\ Covered(close_reg')
    <3>1. \/ close_reg' = close_reg \/ close_reg' = TrySendClose(close_reg, error_id[p])
          \/ close_reg' = TrySendClose(close_reg, data_id(p))
      BY DEF Realize, RegisterError, RegisterData, EnqueueOpen, ReservePermit,
                   CleanupRegistration, channels
    <3>2. /\ TrySendClose(close_reg, error_id[p]) \in [Workers -> Seq(CloseRegMsg)]
          /\ Covered(TrySendClose(close_reg, error_id[p]))
      BY <2>b, <2>i, <2>m, TrySendCloseFacts
    <3>3. /\ TrySendClose(close_reg, data_id(p)) \in [Workers -> Seq(CloseRegMsg)]
          /\ Covered(TrySendClose(close_reg, data_id(p)))
      BY <2>b, <2>i, <2>m, TrySendCloseFacts
    <3>. QED  BY <2>b, <3>1, <3>2, <3>3
  <2>4. ChannelTypes'
    BY <2>1, <2>2, <2>3, <2>b, <2>s DEF ChannelTypes
  <2>5. Types'
    BY <2>4, <2>s, <1>TypesKept
  <2>6. CASE permits' = permits \/ permits' = [permits EXCEPT ![p] = 0]
    <3>1. NoMorePermits
      BY <2>6, <2>b, <2>s, <1>GivenBack
    <3>2. PermitsCovered'
      BY <2>3, <2>b, <2>s, <3>1, <1>CoveredKept
    <3>. QED  BY <2>5, <3>2
  <2>7. CASE PermitRoom(p) /\ permits' = [permits EXCEPT ![p] = @ + 1] /\ pc[p] = "reserve"
             /\ UNCHANGED close_reg
    <3> DEFINE k == permits[p]
    <3>1. k \in 0 .. 4 /\ k < 4 /\ CallerTypes /\ CallerTypes'
      BY <2>7, <2>b DEF Callers, CallerTypes, Held, HeldBy
    <3>2. k \in 0 .. 3
      BY <3>1, SMT
    <3>c. ControlPermits \in Nat /\ \A w : CloseRegPermits(w) \in Nat
      BY DEF Base, Counted
    <3>n. {ControlCap, CloseRegCap} \subseteq Nat
      BY LifecycleAssumption
    <3>l. /\ control \in Seq(ControlMsg) /\ Len(control) + ControlPermits <= ControlCap
          /\ \A w \in Workers : /\ close_reg[w] \in Seq(CloseRegMsg)
                                /\ Len(close_reg[w]) + CloseRegPermits(w) <= CloseRegCap
      BY <2>b DEF Roomy, Covered
    <3> HIDE DEF k
    <3>r. /\ k < 2 => ControlCap - Len(control) - ControlPermits > 0
          /\ k = 2 => CloseRegCap - Len(close_reg[WorkerOf(error_id[p])])
                        - CloseRegPermits(WorkerOf(error_id[p])) > 0
          /\ k = 3 => CloseRegCap - Len(close_reg[WorkerOf(data_id(p))])
                        - CloseRegPermits(WorkerOf(data_id(p))) > 0
      <4>1. /\ k < 2 => ControlRoom > 0
            /\ k = 2 => CloseRegRoom(WorkerOf(error_id[p])) > 0
            /\ k = 3 => CloseRegRoom(WorkerOf(data_id(p))) > 0
        <5> DEFINE A == ControlRoom > 0
                   B == CloseRegRoom(WorkerOf(error_id[p])) > 0
                   C == CloseRegRoom(WorkerOf(data_id(p))) > 0
        <5>1. (CASE k < 2 -> A [] k = 2 -> B [] k = 3 -> C)
          BY <2>7 DEF PermitRoom, k
        <5> HIDE DEF A, B, C
        <5>2. (k < 2 => A) /\ (k = 2 => B) /\ (k = 3 => C)
          <6>1. CASE k < 2
            <7>1. k # 2 /\ k # 3
              BY <3>2, <6>1, SMT
            <7>. QED  BY <5>1, <6>1, <7>1
          <6>2. CASE k = 2
            BY <3>2, <5>1, <6>2, SMT
          <6>3. CASE k = 3
            BY <3>2, <5>1, <6>3, SMT
          <6>. QED  BY <3>2, <6>1, <6>2, <6>3
        <5>. QED  BY <5>2 DEF A, B, C
      <4>. QED  BY <4>1 DEF ControlRoom, CloseRegRoom
    <3>p. /\ k < 2 => /\ ControlPermits' = ControlPermits + 1
                      /\ \A w : CloseRegPermits(w)' = CloseRegPermits(w)
          /\ k = 2 => /\ ControlPermits' = ControlPermits
                      /\ \A w : CloseRegPermits(w)' =
                           CloseRegPermits(w) + (IF WorkerOf(error_id[p]) = w THEN 1 ELSE 0)
          /\ k = 3 => /\ ControlPermits' = ControlPermits
                      /\ \A w : CloseRegPermits(w)' =
                           CloseRegPermits(w) + (IF WorkerOf(data_id(p)) = w THEN 1 ELSE 0)
      BY <2>7, <2>s, <3>1 DEF Recounted, OneReserved, k
    <3>3. Len(control') + ControlPermits' <= ControlCap
      <4>1. /\ Len(control) \in Nat /\ ControlPermits \in Nat /\ ControlCap \in Nat
            /\ control' = control /\ Len(control) + ControlPermits <= ControlCap
        BY <2>s, <3>c, <3>l, <3>n, SMT
      <4>2. CASE k < 2
        <5>1. ControlPermits' = ControlPermits + 1 /\ ControlCap - Len(control) - ControlPermits > 0
          BY <3>p, <3>r, <4>2
        <5>. QED  BY <4>1, <5>1, SMT
      <4>3. CASE k = 2 \/ k = 3
        <5>1. ControlPermits' = ControlPermits
          BY <3>p, <4>3
        <5>. QED  BY <4>1, <5>1
      <4>. QED  BY <3>2, <4>2, <4>3, SMT
    <3>4. ASSUME NEW w \in Workers PROVE Len(close_reg'[w]) + CloseRegPermits(w)' <= CloseRegCap
      <4>1. /\ close_reg[w] \in Seq(CloseRegMsg) /\ CloseRegPermits(w) \in Nat
            /\ close_reg'[w] = close_reg[w] /\ Len(close_reg[w]) + CloseRegPermits(w) <= CloseRegCap
        BY <2>7, <3>c, <3>l
      <4>2. Len(close_reg[w]) \in Nat /\ CloseRegCap \in Nat
        BY <3>n, <4>1, SMT
      <4>3. CASE CloseRegPermits(w)' = CloseRegPermits(w)
        BY <4>1, <4>3
      <4>4. CASE /\ CloseRegPermits(w)' = CloseRegPermits(w) + 1
                 /\ CloseRegCap - Len(close_reg[w]) - CloseRegPermits(w) > 0
        BY <4>1, <4>2, <4>4, SMT
      <4>5. CloseRegPermits(w) + 0 = CloseRegPermits(w)
        BY <4>1, SMT
      <4>6. k < 2 \/ k = 2 \/ k = 3
        BY <3>2, SMT
      <4>7. CASE k < 2
        BY <3>p, <4>3, <4>7
      <4>8. CASE k = 2
        BY <3>p, <3>r, <4>3, <4>4, <4>5, <4>8
      <4>9. CASE k = 3
        BY <3>p, <3>r, <4>3, <4>4, <4>5, <4>9
      <4>. QED  BY <4>6, <4>7, <4>8, <4>9
    <3>5. PermitsCovered'
      BY <3>3, <3>4 DEF PermitsCovered
    <3>. QED  BY <2>5, <3>5
  <2>8. \/ permits' = permits \/ permits' = [permits EXCEPT ![p] = 0]
        \/ /\ PermitRoom(p) /\ permits' = [permits EXCEPT ![p] = @ + 1] /\ pc[p] = "reserve"
           /\ UNCHANGED close_reg
    BY DEF Realize, RegisterError, RegisterData, EnqueueOpen, ReservePermit,
                 CleanupRegistration, channels, Fail
  <2>. QED  BY <2>6, <2>7, <2>8

\* poll_write and poll_shutdown use cmd_tx, for which nothing is reserved.
<1>WriteBase.
  ASSUME Base, Callers', Recounted, NEW p \in Pairs, Write(p) \/ Shutdown(p)
  PROVE  Types' /\ PermitsCovered'
  <2> USE <1>WriteBase
  <2>b. /\ Roomy(control) /\ close_reg \in [Workers -> Seq(CloseRegMsg)] /\ Covered(close_reg)
        /\ ChannelTypes /\ Callers
    BY BaseFacts
  <2>0. /\ pc[p] = "opened"
        /\ UNCHANGED <<error_id, permits, control, reg, close_reg, writer, workers, peer,
                       cancelled>>
        /\ \/ cmd' = Append(cmd, Msg("Data", data_id(p)))
           \/ cmd' = Append(cmd, Msg("Fin", data_id(p)))
    BY DEF Write, Shutdown
  <2>1. data_id(p) \in Ids
    BY <2>0, <2>b, IdTypes DEF Callers, Held, HeldBy
  <2>2. Msg("Data", data_id(p)) \in CmdMsg /\ Msg("Fin", data_id(p)) \in CmdMsg
    BY <2>1 DEF Msg, CmdMsg, Kinds
  <2>3. cmd' \in Seq(CmdMsg)
    <3>1. cmd \in Seq(CmdMsg)
      BY <2>b DEF ChannelTypes
    <3>. QED  BY <2>0, <2>2, <3>1, Sending
  <2>4. ChannelTypes'
    BY <2>0, <2>3, <2>b DEF ChannelTypes
  <2>5. NoMorePermits
    BY <2>0, <2>b, <1>GivenBack
  <2>6. PermitsCovered'
    BY <2>0, <2>5, <2>b, <1>CoveredKept
  <2>. QED  BY <2>0, <2>4, <2>6, <1>TypesKept

\* StreamGuard::drop: each message it sends takes the place of a permit of its own.
<1>DropBase.
  ASSUME Base, Callers', Recounted, NEW p \in Pairs, StreamGuardDrop(p)
  PROVE  Types' /\ PermitsCovered'
  <2> USE <1>DropBase
  <2>b. /\ Roomy(control) /\ close_reg \in [Workers -> Seq(CloseRegMsg)] /\ Covered(close_reg)
        /\ ChannelTypes /\ Callers /\ CallerTypes /\ CallerTypes'
    BY BaseFacts DEF Callers
  <2>0. /\ pc[p] = "opened" /\ permits' = [permits EXCEPT ![p] = 0]
        /\ UNCHANGED <<error_id, cmd, reg, writer, workers, peer, cancelled>>
        /\ control' = control \/ control' = Append(control, Msg("CloseStream", data_id(p)))
        /\ \/ close_reg' = close_reg
           \/ close_reg' = SendClose(SendClose(close_reg, error_id[p]), data_id(p))
    BY DEF StreamGuardDrop
  <2>1. permits[p] = 4 /\ error_id[p] # 0
    BY <2>0, <2>b DEF Callers, Held, HeldBy
  <2>i. error_id[p] \in Nat /\ data_id(p) \in Nat
    BY <2>b, <2>1, IdTypes
  <2>m. /\ Msg("Close", error_id[p]) \in CloseRegMsg /\ Msg("Close", data_id(p)) \in CloseRegMsg
        /\ Msg("CloseStream", data_id(p)) \in ControlMsg
    BY <2>i, SMT DEF Msg, CloseRegMsg, ControlMsg
  <2> DEFINE q1 == SendClose(close_reg, error_id[p])
             q2 == SendClose(q1, data_id(p))
             e(w) == IF WorkerOf(error_id[p]) = w THEN 1 ELSE 0
             d(w) == IF WorkerOf(data_id(p)) = w THEN 1 ELSE 0
  <2>2. q1 \in [Workers -> Seq(CloseRegMsg)] /\ CloseSent(close_reg, error_id[p])
    BY <2>b, <2>i, <2>m, SendCloseFacts
  <2> HIDE DEF q1
  <2>3. q2 \in [Workers -> Seq(CloseRegMsg)] /\ CloseSent(q1, data_id(p))
    BY <2>2, <2>i, <2>m, SendCloseFacts
  <2>4. /\ ControlPermits' + 1 <= ControlPermits
        /\ \A w : CloseRegPermits(w)' + e(w) + d(w) = CloseRegPermits(w)
    BY <2>0, <2>1 DEF Recounted, AllDropped
  <2>c. ControlPermits' \in Nat /\ \A w : CloseRegPermits(w)' \in Nat
    BY DEF Recounted, Counted
  <2>n. ControlCap \in Nat /\ CloseRegCap \in Nat
    BY LifecycleAssumption
  <2>5. control' \in Seq(ControlMsg) /\ Len(control') \in {Len(control), Len(control) + 1}
        /\ Len(control) \in Nat
    <3>1. control \in Seq(ControlMsg)
      BY <2>b DEF Roomy
    <3>2. Len(control) \in Nat
      BY <3>1, SMT
    <3>3. CASE control' = control
      BY <3>1, <3>2, <3>3
    <3>4. CASE control' = Append(control, Msg("CloseStream", data_id(p)))
      BY <2>m, <3>1, <3>4, Sending DEF Sent
    <3>. QED  BY <2>0, <3>3, <3>4
  <2>6. Len(control') + ControlPermits' <= ControlCap
    <3>1. /\ ControlPermits \in Nat /\ ControlPermits' \in Nat
          /\ Len(control) + ControlPermits <= ControlCap
          /\ ControlPermits' + 1 <= ControlPermits
      BY <2>4, <2>b, <2>c DEF Roomy
    <3>2. Len(control') \in {Len(control), Len(control) + 1} /\ Len(control) \in Nat
      BY <2>5
    <3> DEFINE l == Len(control)
               l2 == Len(control')
               c == ControlPermits
               c2 == ControlPermits'
    <3>3. /\ c \in Nat /\ c2 \in Nat /\ l + c <= ControlCap /\ c2 + 1 <= c
          /\ l2 \in {l, l + 1} /\ l \in Nat
      BY <3>1, <3>2
    <3> HIDE DEF l, l2, c, c2
    <3>4. l2 + c2 <= ControlCap
      BY <2>n, <3>3, SMT
    <3>. QED  BY <3>4 DEF l2, c2
  <2>7. close_reg' \in [Workers -> Seq(CloseRegMsg)]
    BY <2>0, <2>3, <2>b DEF q1
  <2>8. ASSUME NEW w \in Workers PROVE Len(close_reg'[w]) + CloseRegPermits(w)' <= CloseRegCap
    <3>1. /\ Len(q1[w]) = Len(close_reg[w]) + e(w) /\ Len(close_reg[w]) \in Nat
          /\ Len(q2[w]) = Len(q1[w]) + d(w)
      BY <2>2, <2>3 DEF CloseSent, q1
    <3>2. /\ CloseRegPermits(w) \in Nat /\ CloseRegPermits(w)' \in Nat
          /\ Len(close_reg[w]) + CloseRegPermits(w) <= CloseRegCap
          /\ CloseRegPermits(w)' + e(w) + d(w) = CloseRegPermits(w)
      BY <2>4, <2>b, <2>c DEF Covered
    <3>3. e(w) \in Nat /\ d(w) \in Nat
      OBVIOUS
    <3> HIDE DEF e, d, q2
    <3>4. CASE close_reg' = close_reg
      <4>1. Len(close_reg'[w]) = Len(close_reg[w])
        BY <3>4
      <4>. QED  BY <2>n, <3>1, <3>2, <3>3, <4>1, SMT
    <3>5. CASE close_reg' = q2
      <4>1. Len(close_reg'[w]) = Len(close_reg[w]) + e(w) + d(w)
        BY <3>1, <3>5
      <4>. QED  BY <2>n, <3>1, <3>2, <3>3, <4>1, SMT
    <3>. QED  BY <2>0, <3>4, <3>5 DEF q1, q2
  <2>9. PermitsCovered'
    BY <2>6, <2>8 DEF PermitsCovered
  <2>10. ChannelTypes'
    BY <2>0, <2>5, <2>7, <2>b DEF ChannelTypes
  <2>. QED  BY <2>0, <2>9, <2>10, <1>TypesKept

\* The frames of a message.
<1>FrameTypes.
  ASSUME NEW w \in Seq(Frame), NEW m, m \in CmdMsg \/ m \in ControlMsg
  PROVE  w \o FramesOf(m) \in Seq(Frame)
  <2> USE <1>FrameTypes
  <2>1. CASE IsOpen(m)
    <3>1. m.id \in Int /\ m.id + 2 \in Int
      BY SMT DEF CmdMsg, ControlMsg, Ids
    <3>2. {Msg("SynStream", m.id), Msg("SynStream", m.id + 2), Msg("Fin", m.id)} \subseteq Frame
      BY <3>1, SMT DEF Msg, Frame
    <3>3. w \o FramesOf(m) = Append(Append(Append(w, Msg("SynStream", m.id)),
                                           Msg("SynStream", m.id + 2)), Msg("Fin", m.id))
      BY <2>1, FramesSent
    <3>4. Append(w, Msg("SynStream", m.id)) \in Seq(Frame)
      BY <3>2, Sending
    <3>5. Append(Append(w, Msg("SynStream", m.id)), Msg("SynStream", m.id + 2)) \in Seq(Frame)
      BY <3>2, <3>4, Sending
    <3>. QED  BY <3>2, <3>3, <3>5, Sending
  <2>2. CASE m.kind = "CloseStream"
    <3>1. Msg("RstStream", m.id) \in Frame
      BY SMT DEF Msg, Frame, CmdMsg, ControlMsg, Ids
    <3>2. w \o FramesOf(m) = Append(w, Msg("RstStream", m.id))
      BY <2>2, FramesSent
    <3>. QED  BY <3>1, <3>2, Sending
  <2>3. CASE ~IsOpen(m) /\ m.kind # "CloseStream"
    <3>1. m \in Frame
      BY <2>3, SMT DEF Frame, CmdMsg, ControlMsg, Ids, Kinds, IsOpen
    <3>2. w \o FramesOf(m) = Append(w, m)
      BY <2>3, FramesSent
    <3>. QED  BY <3>1, <3>2, Sending
  <2>. QED  BY <2>1, <2>2, <2>3

\* write_frame and pending_closes.
<1>EmitTypes.
  ASSUME Base, NEW m, m \in CmdMsg \/ m \in ControlMsg, Emit(m)
  PROVE  wire' \in Seq(Frame) /\ pending_closes' \in Seq(Nat)
  <2> USE <1>EmitTypes
  <2>1. wire \in Seq(Frame) /\ pending_closes \in Seq(Nat)
    BY BaseFacts DEF WriterTypes
  <2>2. wire' \in Seq(Frame)
    BY <2>1, <1>FrameTypes DEF Emit
  <2>3. m.kind = "CloseStream" => m.id \in Nat
    BY SMT DEF CmdMsg, ControlMsg, Ids
  <2>4. pending_closes' \in Seq(Nat)
    BY <2>1, <2>3, Sending DEF Emit
  <2>. QED  BY <2>2, <2>4

\* The writer only frees places, but for the deferred closes, which it try_sends.
<1>WriterBase.
  ASSUME Base, Recounted, WriterStep
  PROVE  Types' /\ PermitsCovered'
  <2> USE <1>WriterBase
  <2>b. /\ Roomy(control) /\ close_reg \in [Workers -> Seq(CloseRegMsg)] /\ Covered(close_reg)
        /\ ChannelTypes /\ WriterTypes /\ WorkerTypes /\ Callers
    BY BaseFacts
  <2>u. UNCHANGED <<callers, workers, peer, cancelled, reg>>
    BY DEF WriterStep, WriterControl, WriterTake, WriterDrain, WriterRunTaken, WriterBatch,
                 WriterFlush, channels
  <2>w. WorkerTypes'
    <3>1. UNCHANGED <<streams, workerAt, goaway_received, frames, cancelled>>
      BY <2>u DEF workers, peer
    <3>. QED  BY <2>b, <3>1 DEF WorkerTypes
  <2>1. NoMorePermits
    BY <2>u, <1>PermitsKept
  <2>2. CASE \/ WriterControl \/ WriterDrain
    <3>0. /\ control # <<>> /\ Emit(Head(control)) /\ control' = Tail(control)
          /\ UNCHANGED <<cmd, close_reg, taken>>
          /\ (writerAt' = "control" /\ writerAt # "drain") \/ writerAt' = writerAt
      BY <2>2 DEF WriterControl, WriterDrain
    <3>1. Roomy(control') /\ Head(control) \in ControlMsg
      BY <2>b, <3>0, TakeControlFacts
    <3>2. wire' \in Seq(Frame) /\ pending_closes' \in Seq(Nat)
      BY <3>0, <3>1, <1>EmitTypes
    <3>3. WriterTypes'
      <4>1. CASE writerAt' = writerAt
        BY <2>b, <3>0, <3>2, <4>1 DEF WriterTypes
      <4>2. CASE writerAt' = "control" /\ writerAt # "drain"
        <5>1. "control" # "drain"
          OBVIOUS
        <5>2. taken' = Msg(None, 0)
          BY <2>b, <3>0, <4>2 DEF WriterTypes
        <5>. QED  BY <3>2, <4>2, <5>1, <5>2 DEF WriterTypes
      <4>. QED  BY <3>0, <4>1, <4>2
    <3>4. ChannelTypes'
      BY <2>b, <2>u, <3>0, <3>1 DEF ChannelTypes, Roomy
    <3>5. PermitsCovered'
      BY <2>1, <2>b, <3>0, <3>1, <1>CoveredKept
    <3>. QED  BY <2>w, <3>3, <3>4, <3>5 DEF Types
  <2>3. CASE WriterTake \/ WriterRunTaken \/ WriterBatch
    <3>0. UNCHANGED <<control, close_reg>>
      BY <2>3 DEF WriterTake, WriterRunTaken, WriterBatch, channels
    <3>1. PermitsCovered'
      BY <2>1, <2>b, <3>0, <1>CoveredKept
    <3>c. cmd \in Seq(CmdMsg) /\ wire \in Seq(Frame) /\ pending_closes \in Seq(Nat)
      BY <2>b DEF ChannelTypes, WriterTypes
    <3>2. cmd' \in Seq(CmdMsg)
      <4>1. cmd' = cmd \/ (cmd # <<>> /\ cmd' = Tail(cmd))
        BY <2>3 DEF WriterTake, WriterRunTaken, WriterBatch, channels
      <4>. QED  BY <3>c, <4>1, Receiving
    <3>3. ChannelTypes'
      BY <2>b, <2>u, <3>0, <3>2 DEF ChannelTypes
    <3>4. WriterTypes'
      <4>1. CASE WriterTake
        <5>1. taken' \in CmdMsg
          BY <3>c, <4>1, Receiving DEF WriterTake
        <5>. QED  BY <3>c, <4>1, <5>1 DEF WriterTypes, WriterTake
      <4>2. CASE WriterRunTaken
        <5>1. taken \in CmdMsg
          BY <2>b, <4>2 DEF WriterTypes, WriterRunTaken
        <5>2. wire' \in Seq(Frame) /\ pending_closes' \in Seq(Nat)
          BY <4>2, <5>1, <1>EmitTypes DEF WriterRunTaken
        <5>3. "batch" # "drain"
          OBVIOUS
        <5>. QED  BY <4>2, <5>2, <5>3 DEF WriterTypes, WriterRunTaken
      <4>3. CASE WriterBatch
        <5>1. Head(cmd) \in CmdMsg
          BY <3>c, <4>3, Receiving DEF WriterBatch
        <5>2. wire' \in Seq(Frame) /\ pending_closes' \in Seq(Nat)
          BY <4>3, <5>1, <1>EmitTypes DEF WriterBatch
        <5>. QED  BY <2>b, <4>3, <5>2 DEF WriterTypes, WriterBatch
      <4>. QED  BY <2>3, <4>1, <4>2, <4>3
    <3>. QED  BY <2>w, <3>1, <3>3, <3>4 DEF Types
  <2>4. CASE WriterFlush
    <3>0. /\ close_reg' = Deferred.q /\ pending_closes' = Deferred.kept /\ writerAt' = "select"
          /\ UNCHANGED <<cmd, control, taken, wire>> /\ writerAt # "drain"
      BY <2>4 DEF WriterFlush
    <3>1. \A x \in Nat : Msg("Close", x) \in CloseRegMsg
      BY DEF Msg, CloseRegMsg
    <3>2. pending_closes \in Seq(Nat)
      BY <2>b DEF WriterTypes
    <3>3. /\ close_reg' \in [Workers -> Seq(CloseRegMsg)] /\ pending_closes' \in Seq(Nat)
          /\ Covered(close_reg')
      <4>1. Nat \subseteq Nat
        OBVIOUS
      <4>. QED  BY <2>b, <3>0, <3>1, <3>2, <4>1 DEF Base, Counted, DeferredKeeps
    <3>4. ChannelTypes'
      BY <2>b, <2>u, <3>0, <3>3 DEF ChannelTypes
    <3>5. WriterTypes'
      <4>1. "select" # "drain"
        OBVIOUS
      <4>. QED  BY <2>b, <3>0, <3>3, <4>1 DEF WriterTypes
    <3>6. PermitsCovered'
      BY <2>1, <2>b, <3>0, <3>3, <1>CoveredKept
    <3>. QED  BY <2>w, <3>4, <3>5, <3>6 DEF Types
  <2>. QED  BY <2>2, <2>3, <2>4 DEF WriterStep

\* A step of a worker's loop (worker.rs:49-91) keeps the types and the permits.
<1>WorkerBase.
  ASSUME Base, Recounted, NEW w \in Workers, WorkerStep(w)
  PROVE  Types' /\ PermitsCovered'
  <2> USE <1>WorkerBase
  <2>b. /\ Roomy(control) /\ close_reg \in [Workers -> Seq(CloseRegMsg)] /\ Covered(close_reg)
        /\ ChannelTypes /\ WriterTypes /\ WorkerTypes /\ Callers
    BY BaseFacts
  <2>0. /\ UNCHANGED <<callers, cmd, writer, peer, cancelled>>
        /\ workerAt' \in [Workers -> {"closes", "opens", "select"}]
        /\ \/ close_reg[w] # <<>> /\ ApplyClose(w) /\ UNCHANGED reg
           \/ reg[w] # <<>> /\ ApplyOpen(w) /\ UNCHANGED <<close_reg, control>>
           \/ UNCHANGED <<streams, reg, close_reg, control>>
    BY <2>b, WorkerKinds
  <2>1. NoMorePermits
    BY <2>0, <1>PermitsKept
  <2>2. WriterTypes'
    BY <2>0, <2>b, <1>WriterTypesKept
  <2>3. /\ close_reg' \in [Workers -> Seq(CloseRegMsg)] /\ Covered(close_reg') /\ Roomy(control')
        /\ reg' \in [Workers -> Seq(RegMsg)] /\ streams' \subseteq Ids
    <3>0. reg \in [Workers -> Seq(RegMsg)] /\ streams \subseteq Ids
      BY <2>b DEF ChannelTypes, WorkerTypes
    <3>1. CASE close_reg[w] # <<>> /\ ApplyClose(w) /\ UNCHANGED reg
      <4>1. /\ close_reg' \in [Workers -> Seq(CloseRegMsg)] /\ Covered(close_reg')
            /\ Roomy(control') /\ streams' \subseteq streams
        BY <3>1, ApplyCloseFacts DEF ClosesApplied
      <4>. QED  BY <3>0, <3>1, <4>1
    <3>2. CASE reg[w] # <<>> /\ ApplyOpen(w) /\ UNCHANGED <<close_reg, control>>
      <4>1. /\ reg' \in [Workers -> Seq(RegMsg)]
            /\ streams' = streams \cup {Head(reg[w]).id} /\ Head(reg[w]).id \in Ids
        BY <2>b, <3>2, ApplyOpenFacts
      <4>2. streams' \subseteq Ids
        BY <3>0, <4>1
      <4>. QED  BY <2>b, <3>2, <4>1, <4>2
    <3>3. CASE UNCHANGED <<streams, reg, close_reg, control>>
      BY <2>b, <3>0, <3>3
    <3>. QED  BY <2>0, <3>1, <3>2, <3>3
  <2>4. ChannelTypes'
    BY <2>0, <2>3, <2>b DEF ChannelTypes, Roomy
  <2>5. WorkerTypes'
    BY <2>0, <2>3, <2>b DEF WorkerTypes, peer
  <2>6. PermitsCovered'
    BY <2>1, <2>3, <1>CoveredKept
  <2>. QED  BY <2>2, <2>4, <2>5, <2>6 DEF Types

\* A frame of the peer, which may reset streams, keeps the types and the permits.
<1>PeerBase.
  ASSUME Base, Recounted, NEW w \in Workers, PeerFrame(w)
  PROVE  Types' /\ PermitsCovered'
  <2> USE <1>PeerBase
  <2>b. /\ close_reg \in [Workers -> Seq(CloseRegMsg)] /\ Covered(close_reg)
        /\ ChannelTypes /\ WriterTypes /\ WorkerTypes
    BY BaseFacts
  <2>0. /\ UNCHANGED <<callers, cmd, reg, close_reg, writer, goaway_received, cancelled>>
        /\ frames' = frames + 1 /\ frames < MaxFrames /\ streams' \subseteq streams
        /\ workerAt' \in [Workers -> {"closes", "opens", "select"}] /\ Roomy(control')
    BY PeerKinds
  <2>1. NoMorePermits
    BY <2>0, <1>PermitsKept
  <2>2. WriterTypes'
    BY <2>0, <2>b, <1>WriterTypesKept
  <2>3. frames' \in 0 .. MaxFrames
    <3>1. frames \in 0 .. MaxFrames /\ MaxFrames \in Nat
      BY <2>b, LifecycleAssumption DEF WorkerTypes
    <3>. QED  BY <2>0, <3>1, SMT
  <2>4. WorkerTypes'
    BY <2>0, <2>3, <2>b DEF WorkerTypes
  <2>5. ChannelTypes'
    BY <2>0, <2>b DEF ChannelTypes, Roomy
  <2>6. PermitsCovered'
    BY <2>0, <2>1, <2>b, <1>CoveredKept
  <2>. QED  BY <2>2, <2>4, <2>5, <2>6 DEF Types

\* route_frame of GOAWAY: a message for each worker that has room.
<1>GoAwayBase.
  ASSUME Base, Recounted, GoAway
  PROVE  Types' /\ PermitsCovered'
  <2> USE <1>GoAwayBase
  <2>b. /\ Roomy(control) /\ close_reg \in [Workers -> Seq(CloseRegMsg)] /\ Covered(close_reg)
        /\ ChannelTypes /\ WriterTypes /\ WorkerTypes /\ Callers
    BY BaseFacts
  <2>0. /\ UNCHANGED <<callers, cmd, control, reg, writer, workers, cancelled>>
        /\ frames' = frames + 1 /\ frames < MaxFrames /\ goaway_received' = TRUE
    BY DEF GoAway
  <2>1. PICK last_good \in {0} \cup UNION {IdsOf(p) : p \in Pairs} :
         close_reg' = [w \in Workers |-> IF CloseRegRoom(w) > 0
                                         THEN Append(close_reg[w], Msg("GoAway", last_good))
                                         ELSE close_reg[w]]
    BY DEF GoAway
  <2>2. last_good \in Nat
    <3>1. 0 \in Nat
      OBVIOUS
    <3>2. ASSUME NEW p \in Pairs, last_good \in IdsOf(p) PROVE last_good \in Nat
      <4>1. error_id[p] # 0 /\ last_good \in {error_id[p], data_id(p)}
        BY <3>2 DEF IdsOf
      <4>. QED  BY <2>b, <4>1, IdTypes
    <3>. QED  BY <2>1, <3>1, <3>2
  <2> DEFINE m == Msg("GoAway", last_good)
  <2>3. m \in CloseRegMsg
    BY <2>2 DEF Msg, CloseRegMsg
  <2> HIDE DEF m
  <2>4. ASSUME NEW w \in Workers
        PROVE  /\ close_reg'[w] \in Seq(CloseRegMsg)
               /\ CloseRegPermits(w) \in Nat
               /\ Len(close_reg'[w]) + CloseRegPermits(w) <= CloseRegCap
    <3>1. /\ close_reg[w] \in Seq(CloseRegMsg) /\ CloseRegPermits(w) \in Nat
          /\ Len(close_reg[w]) + CloseRegPermits(w) <= CloseRegCap
      BY <2>b DEF Covered
    <3>2. /\ Append(close_reg[w], m) \in Seq(CloseRegMsg) /\ Len(close_reg[w]) \in Nat
          /\ Len(Append(close_reg[w], m)) = Len(close_reg[w]) + 1
      BY <2>3, <3>1, Sending DEF Sent
    <3>3. close_reg'[w] = IF CloseRegRoom(w) > 0 THEN Append(close_reg[w], m) ELSE close_reg[w]
      BY <2>1 DEF m
    <3>4. CASE CloseRegRoom(w) > 0
      <4> DEFINE l == Len(close_reg[w])
                 l2 == Len(close_reg'[w])
                 c == CloseRegPermits(w)
      <4>1. l2 = l + 1 /\ l \in Nat /\ c \in Nat /\ CloseRegCap - l - c > 0
        BY <3>1, <3>2, <3>3, <3>4 DEF CloseRegRoom
      <4> HIDE DEF l, l2, c
      <4>2. CloseRegCap \in Nat
        BY LifecycleAssumption
      <4>3. l2 + c <= CloseRegCap
        BY <4>1, <4>2, SMT
      <4>. QED  BY <3>1, <3>2, <3>3, <3>4, <4>3 DEF l2, c
    <3>5. CASE ~(CloseRegRoom(w) > 0)
      BY <3>1, <3>3, <3>5
    <3>. QED  BY <3>4, <3>5
  <2>5. close_reg' \in [Workers -> Seq(CloseRegMsg)] /\ Covered(close_reg')
    BY <2>1, <2>4 DEF Covered
  <2>6. NoMorePermits
    BY <2>0, <1>PermitsKept
  <2>7. WriterTypes'
    BY <2>0, <2>b, <1>WriterTypesKept
  <2>8. frames' \in 0 .. MaxFrames
    <3>1. frames \in 0 .. MaxFrames /\ MaxFrames \in Nat
      BY <2>b, LifecycleAssumption DEF WorkerTypes
    <3>. QED  BY <2>0, <3>1, SMT
  <2>9. WorkerTypes'
    BY <2>0, <2>8, <2>b DEF WorkerTypes, workers
  <2>10. ChannelTypes'
    BY <2>0, <2>5, <2>b DEF ChannelTypes
  <2>11. PermitsCovered'
    BY <2>0, <2>5, <2>6, <2>b, <1>CoveredKept
  <2>. QED  BY <2>7, <2>9, <2>10, <2>11 DEF Types

\* The end of the session empties every channel.
<1>CancelBase.
  ASSUME Base, Recounted, Cancel
  PROVE  Types' /\ PermitsCovered'
  <2> USE <1>CancelBase
  <2>b. /\ Roomy(control) /\ close_reg \in [Workers -> Seq(CloseRegMsg)] /\ Covered(close_reg)
        /\ ChannelTypes /\ WriterTypes /\ WorkerTypes
    BY BaseFacts
  <2>0. /\ cmd' = <<>> /\ control' = <<>> /\ reg' = [w \in Workers |-> <<>>]
        /\ close_reg' = [w \in Workers |-> <<>>] /\ streams' = {} /\ cancelled' = TRUE
        /\ UNCHANGED <<callers, writer, workerAt, peer>>
    BY DEF Cancel
  <2>1. NoMorePermits
    BY <2>0, <1>PermitsKept
  <2>2. \A S : <<>> \in Seq(S)
    BY SMT
  <2>3. Len(<<>>) = 0
    OBVIOUS
  <2>4. Roomy(control')
    <3>1. 0 + ControlPermits <= ControlCap
      <4>1. ControlPermits \in Nat /\ Len(control) + ControlPermits <= ControlCap
            /\ control \in Seq(ControlMsg)
        BY <2>b DEF Roomy
      <4>2. Len(control) \in Nat /\ ControlCap \in Nat
        BY <4>1, LifecycleAssumption, SMT
      <4>. QED  BY <4>1, <4>2, SMT
    <3>. QED  BY <2>0, <2>2, <2>3, <2>b, <3>1 DEF Roomy
  <2>5. Covered(close_reg')
    <3>1. ASSUME NEW w \in Workers PROVE 0 + CloseRegPermits(w) <= CloseRegCap
      <4>1. CloseRegPermits(w) \in Nat /\ Len(close_reg[w]) + CloseRegPermits(w) <= CloseRegCap
            /\ close_reg[w] \in Seq(CloseRegMsg)
        BY <2>b DEF Covered
      <4>2. Len(close_reg[w]) \in Nat /\ CloseRegCap \in Nat
        BY <4>1, LifecycleAssumption, SMT
      <4>. QED  BY <4>1, <4>2, SMT
    <3>. QED  BY <2>0, <2>3, <2>b, <3>1 DEF Covered
  <2>6. close_reg' \in [Workers -> Seq(CloseRegMsg)] /\ reg' \in [Workers -> Seq(RegMsg)]
    BY <2>0, <2>2
  <2>7. WriterTypes'
    BY <2>0, <2>b, <1>WriterTypesKept
  <2>8. WorkerTypes'
    BY <2>0, <2>b DEF WorkerTypes, peer
  <2>9. ChannelTypes'
    BY <2>0, <2>2, <2>6 DEF ChannelTypes
  <2>10. PermitsCovered'
    BY <2>1, <2>4, <2>5, <2>6, <1>CoveredKept
  <2>. QED  BY <2>7, <2>8, <2>9, <2>10 DEF Types
<1>1. Counted'
  BY DEF Recounted
<1>2. CASE UNCHANGED vars
  <2>1. UNCHANGED <<callers, cmd, control, reg, close_reg, writer, workers, peer, cancelled>>
    BY <1>2 DEF vars, channels
  <2>b. /\ Roomy(control) /\ close_reg \in [Workers -> Seq(CloseRegMsg)] /\ Covered(close_reg)
        /\ ChannelTypes
    BY BaseFacts
  <2>2. NoMorePermits
    BY <2>1, <1>PermitsKept
  <2>3. PermitsCovered'
    BY <2>1, <2>2, <2>b, <1>CoveredKept
  <2>4. ChannelTypes'
    BY <2>1, <2>b DEF ChannelTypes
  <2>5. Types'
    BY <2>1, <2>4, <1>TypesKept
  <2>. QED  BY <1>1, <2>3, <2>5 DEF Base
<1>3. ASSUME Next PROVE Types' /\ PermitsCovered'
  <2>1. ASSUME NEW p \in Pairs,
               AllocateIds(p) \/ Realize(p) \/ Write(p) \/ Shutdown(p) \/ StreamGuardDrop(p)
        PROVE  Types' /\ PermitsCovered'
    BY <2>1, <1>AllocateBase, <1>RealizeBase, <1>WriteBase, <1>DropBase
  <2>2. ASSUME NEW w \in Workers, WorkerStep(w) \/ PeerFrame(w)
        PROVE  Types' /\ PermitsCovered'
    BY <2>2, <1>WorkerBase, <1>PeerBase
  <2>. QED  BY <1>3, <2>1, <2>2, <1>WriterBase, <1>GoAwayBase, <1>CancelBase DEF Next
<1>. QED  BY <1>1, <1>2, <1>3 DEF Base

-----------------------------------------------------------------------------
(* The order of the frames *)

\* No pair goes back: ids are given once and from next_stream_id, an open pair stays
\* open until it is dropped, and a pair that is gone stays gone.
OnwardBy(p) ==
  /\ error_id[p] # 0 => error_id'[p] = error_id[p]
  /\ error_id'[p] = error_id[p] \/ error_id'[p] = next_stream_id
  /\ pc'[p] \in Early => pc[p] \in Early \/ error_id'[p] = next_stream_id
  /\ pc[p] \in {"opened", "dropped"} => pc'[p] \in {"opened", "dropped"}
  /\ pc[p] \in Gone => pc'[p] \in Gone
  /\ graceful[p] => graceful'[p]
Onward == next_stream_id <= next_stream_id' /\ \A p \in Pairs : OnwardBy(p)

\* A pair a step leaves alone goes nowhere.
LEMMA SamePair ==
  ASSUME NEW p \in Pairs, error_id'[p] = error_id[p], pc'[p] = pc[p],
         graceful[p] => graceful'[p]
  PROVE  OnwardBy(p)
BY DEF OnwardBy

\* Every step moves every pair onward, and next_stream_id never falls.
LEMMA OnwardStep ==
  ASSUME Callers, [Next]_vars
  PROVE  Onward
<1>n. next_stream_id \in Nat
  BY DEF Callers, CallerTypes
<1>l. next_stream_id <= next_stream_id
  BY <1>n, SMT
<1>t. /\ pc \in [Pairs -> Pcs] /\ error_id \in [Pairs -> 0 .. MAX_STREAM_ID]
      /\ graceful \in [Pairs -> BOOLEAN]
  BY DEF Callers, CallerTypes
<1>h. \A q \in Pairs : HeldBy(q)
  BY DEF Callers, Held
<1>g. /\ "unopened" \notin Early \cup Gone \cup {"opened", "dropped"}
      /\ Section \cap {"opened", "dropped", "broken"} = {} /\ "broken" \in Gone
      /\ "broken" \notin Early /\ "opened" \notin Early /\ "dropped" \notin Early
      /\ "dropped" \in Gone /\ "opened" \notin Gone
      /\ "closeData" \in Gone /\ "closeError" \notin Gone
  BY DEF Early, Section, Gone
<1>1. ASSUME NEW p \in Pairs, AllocateIds(p) PROVE Onward
  <2>0. pc[p] = "unopened" /\ UNCHANGED graceful
    BY <1>1 DEF AllocateIds
  <2>1. error_id[p] = 0
    BY <1>h, <2>0 DEF HeldBy
  <2>2. CASE pc' = [pc EXCEPT ![p] = "broken"] /\ UNCHANGED <<error_id, next_stream_id>>
    <3>1. OnwardBy(p)
      BY <1>g, <1>t, <2>0, <2>2 DEF OnwardBy
    <3>2. ASSUME NEW q \in Pairs, q # p PROVE OnwardBy(q)
      <4>1. pc'[q] = pc[q]
        BY <1>t, <2>2, <3>2
      <4>. QED  BY <2>0, <2>2, <4>1, SamePair
    <3>. QED  BY <1>l, <2>2, <3>1, <3>2 DEF Onward
  <2>3. CASE /\ error_id' = [error_id EXCEPT ![p] = next_stream_id]
             /\ next_stream_id' = next_stream_id + 4
             /\ pc' = [pc EXCEPT ![p] = "registerError"]
    <3>0. next_stream_id <= next_stream_id'
      BY <1>n, <2>3, SMT
    <3>1. OnwardBy(p)
      BY <1>g, <1>t, <2>0, <2>1, <2>3 DEF OnwardBy
    <3>2. ASSUME NEW q \in Pairs, q # p PROVE OnwardBy(q)
      <4>1. pc'[q] = pc[q] /\ error_id'[q] = error_id[q]
        BY <1>t, <2>3, <3>2
      <4>. QED  BY <2>0, <4>1, SamePair
    <3>. QED  BY <3>0, <3>1, <3>2 DEF Onward
  <2>. QED  BY <1>1, <2>2, <2>3 DEF AllocateIds, Fail, Goto
<1>2. ASSUME NEW p \in Pairs, Realize(p) PROVE Onward
  <2>0. /\ pc[p] \in Section /\ UNCHANGED <<error_id, graceful, next_stream_id>>
        /\ \/ pc' = pc
           \/ \E l : pc' = [pc EXCEPT ![p] = l] /\ (l \in Early => pc[p] \in Early)
                     /\ (pc[p] \in Gone => l \in Gone)
    <3>1. pc[p] \in Section
      BY <1>2 DEF Realize, RegisterError, RegisterData, EnqueueOpen, ReservePermit,
                         CleanupRegistration, Section, Early
    <3>2. UNCHANGED <<error_id, graceful, next_stream_id>>
      BY <1>2 DEF Realize, RegisterError, RegisterData, EnqueueOpen, ReservePermit,
                         CleanupRegistration
    <3>3. /\ {"registerError", "registerData", "enqueueOpen", "reserve"} \cap Gone = {}
          /\ {"registerError", "registerData", "enqueueOpen"} \subseteq Early
          /\ {"reserve", "closeError"} \cap Early = {} /\ "closeData" \notin Early
      BY DEF Gone, Early
    <3>4. CASE RegisterError(p) \/ RegisterData(p) \/ EnqueueOpen(p)
      BY <1>g, <3>1, <3>2, <3>3, <3>4
         DEF RegisterError, RegisterData, EnqueueOpen, Goto, Fail
    <3>5. CASE ReservePermit(p) \/ CleanupRegistration(p)
      BY <1>g, <3>1, <3>2, <3>3, <3>5 DEF ReservePermit, CleanupRegistration, Goto, Fail
    <3>. QED  BY <1>2, <3>4, <3>5 DEF Realize
  <2>1. CASE pc' = pc
    <3>1. \A q \in Pairs : OnwardBy(q)
      BY <2>0, <2>1, SamePair
    <3>. QED  BY <1>l, <2>0, <3>1 DEF Onward
  <2>2. ASSUME NEW l, pc' = [pc EXCEPT ![p] = l], l \in Early => pc[p] \in Early,
               pc[p] \in Gone => l \in Gone
        PROVE  Onward
    <3>1. OnwardBy(p)
      BY <1>g, <1>t, <2>0, <2>2 DEF OnwardBy
    <3>2. ASSUME NEW q \in Pairs, q # p PROVE OnwardBy(q)
      <4>1. pc'[q] = pc[q]
        BY <1>t, <2>2, <3>2
      <4>. QED  BY <2>0, <4>1, SamePair
    <3>. QED  BY <1>l, <2>0, <3>1, <3>2 DEF Onward
  <2>. QED  BY <2>0, <2>1, <2>2
<1>3. ASSUME NEW p \in Pairs, Write(p) \/ Shutdown(p) PROVE Onward
  <2>0. /\ UNCHANGED <<pc, error_id, next_stream_id>>
        /\ graceful' = graceful \/ graceful' = [graceful EXCEPT ![p] = TRUE]
    BY <1>3 DEF Write, Shutdown
  <2>1. \A q \in Pairs : OnwardBy(q)
    BY <1>t, <2>0, SamePair
  <2>. QED  BY <1>l, <2>0, <2>1 DEF Onward
<1>4. ASSUME NEW p \in Pairs, StreamGuardDrop(p) PROVE Onward
  <2>0. /\ pc[p] = "opened" /\ pc' = [pc EXCEPT ![p] = "dropped"]
        /\ UNCHANGED <<error_id, graceful, next_stream_id>>
    BY <1>4 DEF StreamGuardDrop, Goto
  <2>1. OnwardBy(p)
    BY <1>g, <1>t, <2>0 DEF OnwardBy
  <2>2. ASSUME NEW q \in Pairs, q # p PROVE OnwardBy(q)
    <3>1. pc'[q] = pc[q]
      BY <1>t, <2>0, <2>2
    <3>. QED  BY <2>0, <3>1, SamePair
  <2>. QED  BY <1>l, <2>0, <2>1, <2>2 DEF Onward
<1>5. CASE UNCHANGED callers
  <2>1. UNCHANGED <<pc, error_id, graceful, next_stream_id>>
    BY <1>5 DEF callers
  <2>2. \A q \in Pairs : OnwardBy(q)
    BY <2>1, SamePair
  <2>. QED  BY <1>l, <2>1, <2>2 DEF Onward
<1>6. CASE WriterStep
  BY <1>5, <1>6 DEF WriterStep, WriterControl, WriterTake, WriterDrain, WriterRunTaken,
                          WriterBatch, WriterFlush
<1>7. ASSUME NEW w \in Workers, WorkerStep(w) \/ PeerFrame(w) PROVE Onward
  BY <1>5, <1>7 DEF WorkerStep, WorkerCloses, WorkerOpens, WorkerSelect, PeerFrame
<1>8. CASE GoAway \/ Cancel \/ UNCHANGED vars
  BY <1>5, <1>8 DEF GoAway, Cancel, vars
<1>. QED  BY <1>1, <1>2, <1>3, <1>4, <1>6, <1>7, <1>8 DEF Next

\* The types of the commands.
LEMMA CmdsTypes ==
  ASSUME Base
  PROVE  /\ Cmds \in Seq(CmdMsg) /\ wire \in Seq(Frame)
         /\ \A m \in Elems(Cmds) : m \in CmdMsg /\ m.id \in Nat
         /\ \A f \in Elems(wire) : f \in Frame /\ f.id \in Int
<1>1. cmd \in Seq(CmdMsg) /\ wire \in Seq(Frame)
  BY BaseFacts DEF ChannelTypes, WriterTypes
<1>2. Cmds \in Seq(CmdMsg)
  <2>1. CASE writerAt = "drain"
    <3>1. taken \in CmdMsg
      BY <2>1, BaseFacts DEF WriterTypes
    <3>2. <<taken>> \in Seq(CmdMsg)
      BY <3>1, SMT
    <3>3. <<taken>> \o cmd \in Seq(CmdMsg)
      BY <1>1, <3>2, SendingAll
    <3>. QED  BY <2>1, <3>3 DEF Cmds
  <2>2. CASE writerAt # "drain"
    BY <1>1, <2>2 DEF Cmds
  <2>. QED  BY <2>1, <2>2
<1>3. \A m \in CmdMsg : m.id \in Nat
  BY SMT DEF CmdMsg, Ids
<1>4. \A f \in Frame : f.id \in Int
  BY DEF Frame
<1>5. Elems(Cmds) \subseteq CmdMsg /\ Elems(wire) \subseteq Frame
  BY <1>1, <1>2, Messages
<1>. QED  BY <1>1, <1>2, <1>3, <1>4, <1>5

\* The pairs a frame or a command belongs to stay as far as they are.
LEMMA Belonging ==
  ASSUME Base, Onward
  PROVE  /\ \A x : Finished(x) => Finished(x)'
         /\ \A p \in Pairs : error_id[p] # 0 =>
              error_id'[p] = error_id[p] /\ data_id(p)' = data_id(p)
         /\ \A p \in Pairs : pc[p] \in Known => error_id[p] # 0
<1>1. \A p \in Pairs : OnwardBy(p) /\ HeldBy(p)
  BY BaseFacts DEF Onward, Callers, Held
<1>2. \A p \in Pairs : error_id[p] # 0 =>
        error_id'[p] = error_id[p] /\ data_id(p)' = data_id(p)
  BY <1>1 DEF OnwardBy, data_id
<1>3. \A p \in Pairs : graceful[p] => graceful'[p]
  BY <1>1 DEF OnwardBy
<1>4. \A x : Finished(x) => Finished(x)'
  <2> SUFFICES ASSUME NEW x, Finished(x) PROVE Finished(x)'
    OBVIOUS
  <2>1. PICK p \in Pairs : error_id[p] # 0 /\ (x = error_id[p] \/ (x = data_id(p) /\ graceful[p]))
    BY DEF Finished
  <2>. QED  BY <1>2, <1>3, <2>1 DEF Finished
<1>5. \A p \in Pairs : pc[p] \in Known => error_id[p] # 0
  BY <1>1 DEF HeldBy, Known, Section
<1>. QED  BY <1>2, <1>4, <1>5

\* The writer's loop, by what it does to the commands and to the wire.
LEMMA WriterKinds ==
  ASSUME Base, WriterStep
  PROVE  /\ UNCHANGED <<callers, workers, peer, cancelled, reg>> /\ ~cancelled
         /\ \/ /\ control # <<>> /\ Emit(Head(control)) /\ control' = Tail(control)
               /\ Cmds' = Cmds /\ UNCHANGED close_reg
            \/ /\ Cmds' = Cmds /\ UNCHANGED <<control, wire, close_reg, pending_closes>>
            \/ /\ Cmds # <<>> /\ Emit(Head(Cmds)) /\ Cmds' = Tail(Cmds)
               /\ UNCHANGED <<control, close_reg>>
            \/ /\ Cmds' = Cmds /\ UNCHANGED <<control, wire>>
               /\ close_reg' = Deferred.q /\ pending_closes' = Deferred.kept
<1>b. cmd \in Seq(CmdMsg) /\ (writerAt = "drain" => taken \in CmdMsg)
  BY BaseFacts DEF ChannelTypes, WriterTypes
<1>0. UNCHANGED <<callers, workers, peer, cancelled, reg>> /\ ~cancelled
  BY DEF WriterStep, WriterControl, WriterTake, WriterDrain, WriterRunTaken, WriterBatch,
               WriterFlush, channels
<1>k. "control" # "drain" /\ "select" # "drain" /\ "batch" # "drain"
  OBVIOUS
<1>1. CASE WriterControl \/ WriterDrain
  <2>1. /\ control # <<>> /\ Emit(Head(control)) /\ control' = Tail(control)
        /\ UNCHANGED <<cmd, close_reg, taken>>
        /\ writerAt' = "drain" <=> writerAt = "drain"
    BY <1>1 DEF WriterControl, WriterDrain
  <2>2. Cmds' = Cmds
    BY <2>1 DEF Cmds
  <2>. QED  BY <1>0, <2>1, <2>2
<1>2. CASE WriterTake
  <2>1. /\ writerAt = "select" /\ writerAt' = "drain" /\ cmd # <<>> /\ taken' = Head(cmd)
        /\ cmd' = Tail(cmd) /\ UNCHANGED <<control, wire, close_reg, pending_closes>>
    BY <1>2 DEF WriterTake
  <2>2. <<Head(cmd)>> \o Tail(cmd) = cmd
    BY <1>b, <2>1, SMT
  <2>3. Cmds' = Cmds
    BY <1>k, <2>1, <2>2 DEF Cmds
  <2>. QED  BY <1>0, <2>1, <2>3
<1>3. CASE WriterRunTaken
  <2>1. /\ writerAt = "drain" /\ writerAt' = "batch" /\ Emit(taken)
        /\ UNCHANGED <<cmd, control, close_reg>>
    BY <1>3 DEF WriterRunTaken, channels
  <2>2. <<taken>> \o cmd # <<>> /\ Head(<<taken>> \o cmd) = taken /\ Tail(<<taken>> \o cmd) = cmd
    BY <1>b, <2>1, SMT
  <2>3. Cmds = <<taken>> \o cmd /\ Cmds' = cmd
    BY <1>k, <2>1 DEF Cmds
  <2>. QED  BY <1>0, <2>1, <2>2, <2>3
<1>4. CASE WriterBatch
  <2>1. /\ writerAt = "batch" /\ writerAt' = "batch" /\ cmd # <<>> /\ Emit(Head(cmd))
        /\ cmd' = Tail(cmd) /\ UNCHANGED <<control, close_reg>>
    BY <1>4 DEF WriterBatch
  <2>2. Cmds = cmd /\ Cmds' = cmd'
    BY <1>k, <2>1 DEF Cmds
  <2>. QED  BY <1>0, <2>1, <2>2
<1>5. CASE WriterFlush
  <2>1. /\ writerAt # "drain" /\ writerAt' = "select" /\ UNCHANGED <<cmd, control, wire>>
        /\ close_reg' = Deferred.q /\ pending_closes' = Deferred.kept
    BY <1>5, <1>k DEF WriterFlush
  <2>2. Cmds' = Cmds
    BY <1>k, <2>1 DEF Cmds
  <2>. QED  BY <1>0, <2>1, <2>2
<1>. QED  BY <1>1, <1>2, <1>3, <1>4, <1>5 DEF WriterStep

\* Every step keeps the order of the wire and of what is to follow.
LEMMA OrderStep ==
  ASSUME Base, Callers', InOrder(wire), OpensOrdered, DataOrdered, [Next]_vars
  PROVE  InOrder(wire)' /\ OpensOrdered' /\ DataOrdered'

\* write_frame: one more frame.
<1>FrameInOrder.
  ASSUME NEW w \in Seq(Frame), NEW f \in Frame, InOrder(w), MayFollow(w, f)
  PROVE  InOrder(Append(w, f))
  <2> USE <1>FrameInOrder
  <2> DEFINE r == Append(w, f)
  <2>1. /\ r \in Seq(Frame) /\ Len(r) = Len(w) + 1 /\ Len(w) \in Nat
        /\ \A i \in 1 .. Len(w) : r[i] = w[i]
        /\ r[Len(w) + 1] = f
    BY SMT
  <2> HIDE DEF r
  <2>e. \A i \in 1 .. Len(w) : w[i] \in Elems(w)
    BY DEF Elems
  <2>2. ASSUME NEW i \in 1 .. Len(r), NEW j \in 1 .. Len(r), i < j, IsSyn(r[i]), IsSyn(r[j])
        PROVE  r[i].id < r[j].id
    <3>1. i \in 1 .. Len(w) /\ r[i] = w[i]
      BY <2>1, <2>2, SMT
    <3>2. CASE j \in 1 .. Len(w)
      <4>1. r[j] = w[j]
        BY <2>1, <3>2
      <4>. QED  BY <2>2, <3>1, <3>2, <4>1 DEF InOrder
    <3>3. CASE j = Len(w) + 1
      <4>1. r[j] = f
        BY <2>1, <3>3
      <4>. QED  BY <2>2, <2>e, <3>1, <4>1 DEF MayFollow
    <3>. QED  BY <2>1, <2>2, <3>2, <3>3, SMT
  <2>3. ASSUME NEW i \in 1 .. Len(r)
        PROVE  /\ r[i].kind \in {"Data", "Fin"} =>
                    \E j \in 1 .. i-1 : r[j] = Msg("SynStream", r[i].id)
               /\ r[i].kind = "Data" => \A j \in 1 .. i-1 : r[j] # Msg("Fin", r[i].id)
    <3>0. \A j \in 1 .. i-1 : j \in 1 .. Len(w) /\ r[j] = w[j]
      BY <2>1, SMT
    <3>1. CASE i \in 1 .. Len(w)
      <4>1. r[i] = w[i]
        BY <2>1, <3>1
      <4>2. /\ w[i].kind \in {"Data", "Fin"} =>
                 \E j \in 1 .. i-1 : w[j] = Msg("SynStream", w[i].id)
            /\ w[i].kind = "Data" => \A j \in 1 .. i-1 : w[j] # Msg("Fin", w[i].id)
        BY <3>1 DEF InOrder
      <4>. QED  BY <3>0, <4>1, <4>2
    <3>2. CASE i = Len(w) + 1
      <4>1. r[i] = f /\ 1 .. i-1 = 1 .. Len(w)
        BY <2>1, <3>2, SMT
      <4>2. \A x : x \in Elems(w) <=> \E j \in 1 .. Len(w) : w[j] = x
        BY DEF Elems
      <4>3. /\ f.kind \in {"Data", "Fin"} => \E j \in 1 .. Len(w) : w[j] = Msg("SynStream", f.id)
            /\ f.kind = "Data" => \A j \in 1 .. Len(w) : w[j] # Msg("Fin", f.id)
        BY <4>2 DEF MayFollow
      <4>. QED  BY <3>0, <4>1, <4>3
    <3>. QED  BY <2>1, <3>1, <3>2, SMT
  <2>. QED  BY <2>2, <2>3 DEF InOrder, r

\* The ids of two pairs do not meet.
<1>Distinct.
  ASSUME Callers, NEW p \in Pairs, NEW q \in Pairs, error_id[p] # 0, error_id[q] # 0
  PROVE  /\ data_id(p) # error_id[q] /\ data_id(p) = error_id[p] + 2
         /\ data_id(p) = data_id(q) => p = q
         /\ error_id[p] = error_id[q] => p = q
  <2> USE <1>Distinct
  <2>1. error_id[p] \in Nat /\ error_id[q] \in Nat
    BY IdTypes
  <2>2. p # q => error_id[p] + 4 <= error_id[q] \/ error_id[q] + 4 <= error_id[p]
    BY DEF Callers, Apart
  <2>3. data_id(p) = error_id[p] + 2 /\ data_id(q) = error_id[q] + 2
    BY DEF data_id
  <2>4. CASE p = q
    BY <2>1, <2>3, <2>4, SMT
  <2>5. CASE p # q
    <3> DEFINE a == error_id[p]
               b == error_id[q]
    <3>1. a \in Nat /\ b \in Nat /\ (a + 4 <= b \/ b + 4 <= a)
      BY <2>1, <2>2, <2>5
    <3> HIDE DEF a, b
    <3>2. a + 2 # b /\ a + 2 # b + 2 /\ a # b
      BY <3>1, SMT
    <3>. QED  BY <2>3, <3>2 DEF a, b
  <2>. QED  BY <2>4, <2>5

\* A larger bound.
<1>BelowMore.
  ASSUME Base, NEW b \in Nat, NEW c \in Nat, b <= c, Below(b)
  PROVE  Below(c)
  <2> USE <1>BelowMore
  <2>1. ASSUME NEW f \in Elems(wire), IsSyn(f) PROVE f.id < c
    <3>1. f.id \in Int /\ f.id < b
      BY <2>1, CmdsTypes DEF Below
    <3>. QED  BY <3>1, SMT
  <2>2. ASSUME NEW m \in Elems(Cmds), IsOpen(m) PROVE m.id + 2 < c
    <3>1. m.id \in Nat /\ m.id + 2 < b
      BY <2>2, CmdsTypes DEF Below
    <3>. QED  BY <3>1, SMT
  <2>. QED  BY <2>1, <2>2 DEF Below

\* The bounds the new state asks for, on the frames and commands of the old one.
<1>BelowNext.
  ASSUME Base, Callers', Onward, OpensOrdered, ~cancelled
  PROVE  /\ Below(next_stream_id')
         /\ \A p \in Pairs : pc'[p] \in Early => Below(error_id'[p])
  <2> USE <1>BelowNext
  <2>1. /\ Below(next_stream_id) /\ \A p \in Pairs : pc[p] \in Early => Below(error_id[p])
    BY DEF OpensOrdered
  <2>2. next_stream_id \in Nat /\ next_stream_id' \in Nat /\ next_stream_id <= next_stream_id'
    BY BaseFacts DEF Callers, CallerTypes, Onward
  <2>3. Below(next_stream_id')
    BY <2>1, <2>2, <1>BelowMore
  <2>4. ASSUME NEW p \in Pairs, pc'[p] \in Early PROVE Below(error_id'[p])
    <3>1. OnwardBy(p) /\ HeldBy(p)
      BY BaseFacts DEF Onward, Callers, Held
    <3>2. CASE error_id'[p] = next_stream_id
      BY <2>1, <3>2
    <3>3. CASE pc[p] \in Early
      <4>1. error_id[p] # 0
        BY <3>1, <3>3 DEF HeldBy, Section
      <4>. QED  BY <2>1, <3>1, <3>3, <4>1 DEF OnwardBy
    <3>. QED  BY <2>4, <3>1, <3>2, <3>3 DEF OnwardBy
  <2>. QED  BY <2>3, <2>4

\* The sender of a command only goes on.
<1>OwnedStays.
  ASSUME Base, Onward, NEW m, Owned(m)
  PROVE  Owned(m)'
  <2> USE <1>OwnedStays
  <2>0. /\ \A p \in Pairs : error_id[p] # 0 =>
             error_id'[p] = error_id[p] /\ data_id(p)' = data_id(p)
        /\ \A p \in Pairs : pc[p] \in Known => error_id[p] # 0
    BY Belonging
  <2>1. CASE IsOpen(m)
    <3>1. PICK p \in Pairs : error_id[p] # 0 /\ m.id = error_id[p]
      BY <2>1 DEF Owned
    <3>. QED  BY <2>0, <2>1, <3>1 DEF Owned
  <2>2. CASE ~IsOpen(m)
    <3>1. PICK p \in Pairs : /\ pc[p] \in {"opened", "dropped"} /\ m.id = data_id(p)
                             /\ m.kind = "Fin" => graceful[p]
      BY <2>2 DEF Owned
    <3>2. error_id[p] # 0
      BY <2>0, <3>1 DEF Known
    <3>3. pc'[p] \in {"opened", "dropped"} /\ (graceful[p] => graceful'[p])
      BY <3>1 DEF Onward, OnwardBy
    <3>. QED  BY <2>0, <2>2, <3>1, <3>2, <3>3 DEF Owned
  <2>. QED  BY <2>1, <2>2

\* A step that neither queues nor runs a command, and sends no frame.
<1>OrderKept.
  ASSUME Base, Callers', Onward, OpensOrdered, DataOrdered, Cmds' = Cmds, wire' = wire,
         ~cancelled' => ~cancelled,
         \A p \in Pairs : pc'[p] \in Known => pc[p] \in Known
  PROVE  OpensOrdered' /\ DataOrdered'
  <2> USE <1>OrderKept
  <2>1. CASE cancelled'
    BY <2>1 DEF OpensOrdered, DataOrdered
  <2>2. CASE ~cancelled'
    <3>0. ~cancelled
      BY <2>2
    <3>1. OpensOrdered'
      <4>1. /\ Below(next_stream_id') /\ \A p \in Pairs : pc'[p] \in Early => Below(error_id'[p])
        BY <3>0, <1>BelowNext
      <4>2. /\ Below(next_stream_id)'
            /\ \A p \in Pairs : pc'[p] \in Early => Below(error_id[p])'
        BY <4>1 DEF Below
      <4>. QED  BY <3>0, <4>2 DEF OpensOrdered
    <3>2. \A f \in Elems(wire) : f.kind = "Fin" => Finished(f.id)'
      BY <3>0, Belonging DEF DataOrdered
    <3>3. \A m \in Elems(Cmds) : Owned(m)'
      BY <3>0, <1>OwnedStays DEF DataOrdered
    <3>4. ASSUME NEW p \in Pairs, pc'[p] \in Known PROVE Announced(p)'
      <4>1. pc[p] \in Known /\ Announced(p)
        BY <3>0, <3>4 DEF DataOrdered
      <4>2. error_id'[p] = error_id[p] /\ data_id(p)' = data_id(p)
        BY <4>1, Belonging
      <4>. QED  BY <4>1, <4>2 DEF Announced
    <3>5. DataOrdered'
      BY <3>0, <3>2, <3>3, <3>4 DEF DataOrdered
    <3>. QED  BY <3>1, <3>5
  <2>. QED  BY <2>1, <2>2

\* A control frame leaves.
<1>OrderReset.
  ASSUME Base, UNCHANGED <<callers, cancelled>>, OpensOrdered, DataOrdered, InOrder(wire),
         Cmds' = Cmds, NEW f \in Frame, f.kind \in {"RstStream", "GoAway"},
         wire' = Append(wire, f)
  PROVE  OpensOrdered' /\ DataOrdered' /\ InOrder(wire)'
  <2> USE <1>OrderReset
  <2>0. wire \in Seq(Frame)
    BY CmdsTypes
  <2>1. Elems(wire') = Elems(wire) \cup {f}
    BY <2>0, Sending DEF Sent
  <2>2. f.kind # "Fin" /\ f.kind # "Data" /\ ~IsSyn(f)
    BY DEF IsSyn
  <2>3. InOrder(wire)'
    <3>1. MayFollow(wire, f)
      BY <2>2 DEF MayFollow
    <3>. QED  BY <2>0, <3>1, <1>FrameInOrder
  <2>4. UNCHANGED <<pc, error_id, graceful, next_stream_id>>
    BY DEF callers
  <2>5. \A b : Below(b) => Below(b)'
    BY <2>1, <2>2 DEF Below
  <2>6. OpensOrdered'
    <3>1. Below(next_stream_id) => Below(next_stream_id)'
      BY <2>4, <2>5 DEF Below
    <3>2. \A p \in Pairs : Below(error_id[p]) => Below(error_id[p])'
      BY <2>1, <2>2, <2>4 DEF Below
    <3>. QED  BY <2>1, <2>2, <2>4, <3>1, <3>2 DEF OpensOrdered
  <2>7. \A x : Finished(x)' <=> Finished(x)
    BY <2>4 DEF Finished, data_id
  <2>8. \A m : Owned(m)' <=> Owned(m)
    BY <2>4 DEF Owned, data_id
  <2>9. \A p \in Pairs : Announced(p) => Announced(p)'
    BY <2>1, <2>4 DEF Announced, data_id
  <2>10. \A x : Msg("Fin", x) # f
    <3>1. \A x : Msg("Fin", x).kind = "Fin"
      BY DEF Msg
    <3>. QED  BY <2>2, <3>1
  <2>11. ASSUME ~cancelled PROVE DataOrdered'
    <3>1. \A g \in Elems(wire') : g.kind = "Fin" => Finished(g.id)'
      BY <2>1, <2>2, <2>7, <2>11 DEF DataOrdered
    <3>2. \A p \in Pairs : pc'[p] \in Known => Announced(p)'
      BY <2>4, <2>9, <2>11 DEF DataOrdered
    <3>3. \A m \in Elems(Cmds') : /\ Owned(m)'
                                  /\ m.kind = "Data" => Msg("Fin", m.id) \notin Elems(wire')
      BY <2>1, <2>8, <2>10, <2>11 DEF DataOrdered
    <3>4. \A m, n \in Elems(Cmds') : Precedes(Cmds', m, n) =>
           /\ IsOpen(n) /\ ~IsOpen(m) => m.id # n.id + 2
           /\ n.kind = "Data" /\ m.kind = "Fin" => m.id # n.id
      BY <2>11 DEF DataOrdered
    <3>. QED  BY <3>1, <3>2, <3>3, <3>4 DEF DataOrdered
  <2>12. DataOrdered'
    BY <2>11 DEF DataOrdered
  <2>. QED  BY <2>3, <2>6, <2>12

\* A command is queued.
<1>OrderQueued.
  ASSUME Base, Callers', Onward, OpensOrdered, DataOrdered, wire' = wire, ~cancelled,
         NEW m \in CmdMsg, Cmds' = Append(Cmds, m),
         IsOpen(m) => /\ \A p \in Pairs : pc'[p] \notin Early
                      /\ m.id + 2 < next_stream_id' /\ Below(m.id),
         Owned(m)', m.kind = "Data" => Msg("Fin", m.id) \notin Elems(wire),
         \A x \in Elems(Cmds) : /\ IsOpen(m) /\ ~IsOpen(x) => x.id # m.id + 2
                                /\ m.kind = "Data" /\ x.kind = "Fin" => x.id # m.id,
         \A p \in Pairs : pc'[p] \in Known =>
           pc[p] \in Known \/ m = Msg("OpenStreamPair", error_id'[p])
  PROVE  OpensOrdered' /\ DataOrdered'
  <2> USE <1>OrderQueued
  <2>0. Cmds \in Seq(CmdMsg)
    BY CmdsTypes
  <2>1. /\ Elems(Cmds') = Elems(Cmds) \cup {m}
        /\ \A x, n : Precedes(Cmds', x, n) => Precedes(Cmds, x, n) \/ (n = m /\ x \in Elems(Cmds))
    BY <2>0, Sending DEF Sent
  <2>2. /\ Below(next_stream_id') /\ \A p \in Pairs : pc'[p] \in Early => Below(error_id'[p])
    BY <1>BelowNext
  <2>3. Below(next_stream_id)'
    BY <2>1, <2>2 DEF Below
  <2>4. ASSUME NEW p \in Pairs, pc'[p] \in Early PROVE Below(error_id[p])'
    BY <2>1, <2>2, <2>4 DEF Below
  <2>5. \A x \in Elems(Cmds') : IsOpen(x) => \A f \in Elems(wire') : IsSyn(f) => f.id < x.id
    BY <2>1 DEF OpensOrdered, Below
  <2>p. \A x, n : Precedes(Cmds, x, n) => x \in Elems(Cmds) /\ n \in Elems(Cmds)
    BY DEF Precedes, Elems
  <2>6. \A x, n \in Elems(Cmds') :
          Precedes(Cmds', x, n) /\ IsOpen(x) /\ IsOpen(n) => x.id + 2 < n.id
    BY <2>1, <2>p DEF OpensOrdered, Below
  <2>7. OpensOrdered'
    BY <2>3, <2>4, <2>5, <2>6 DEF OpensOrdered
  <2>8. \A f \in Elems(wire') : f.kind = "Fin" => Finished(f.id)'
    BY Belonging DEF DataOrdered
  <2>9. ASSUME NEW p \in Pairs, pc'[p] \in Known PROVE Announced(p)'
    <3>1. CASE m = Msg("OpenStreamPair", error_id'[p])
      BY <2>1, <3>1 DEF Announced
    <3>2. CASE pc[p] \in Known
      <4>1. Announced(p) /\ error_id'[p] = error_id[p] /\ data_id(p)' = data_id(p)
        BY <3>2, Belonging DEF DataOrdered
      <4>. QED  BY <2>1, <4>1 DEF Announced
    <3>. QED  BY <2>9, <3>1, <3>2
  <2>10. \A x \in Elems(Cmds) : Owned(x)'
    BY <1>OwnedStays DEF DataOrdered
  <2>11. \A x \in Elems(Cmds') : /\ Owned(x)'
                                 /\ x.kind = "Data" => Msg("Fin", x.id) \notin Elems(wire')
    BY <2>1, <2>10 DEF DataOrdered
  <2>12. \A x, n \in Elems(Cmds') : Precedes(Cmds', x, n) =>
           /\ IsOpen(n) /\ ~IsOpen(x) => x.id # n.id + 2
           /\ n.kind = "Data" /\ x.kind = "Fin" => x.id # n.id
    <3> SUFFICES ASSUME NEW x \in Elems(Cmds'), NEW n \in Elems(Cmds'), Precedes(Cmds', x, n)
                 PROVE  /\ IsOpen(n) /\ ~IsOpen(x) => x.id # n.id + 2
                        /\ n.kind = "Data" /\ x.kind = "Fin" => x.id # n.id
      OBVIOUS
    <3>1. CASE Precedes(Cmds, x, n)
      <4>1. x \in Elems(Cmds) /\ n \in Elems(Cmds)
        BY <2>p, <3>1
      <4>. QED  BY <3>1, <4>1 DEF DataOrdered
    <3>2. CASE n = m /\ x \in Elems(Cmds)
      BY <3>2
    <3>. QED  BY <2>1, <3>1, <3>2
  <2>13. DataOrdered'
    BY <2>8, <2>9, <2>11, <2>12 DEF DataOrdered
  <2>. QED  BY <2>7, <2>13

\* The writer runs OpenStreamPair: two SYN_STREAM and the FIN of the error stream.
<1>OrderOpen.
  ASSUME Base, UNCHANGED <<callers, cancelled>>, ~cancelled, OpensOrdered, DataOrdered,
         InOrder(wire), NEW h, h = Head(Cmds), IsOpen(h), Cmds # <<>>, Cmds' = Tail(Cmds),
         wire' = wire \o FramesOf(h)
  PROVE  OpensOrdered' /\ DataOrdered' /\ InOrder(wire)'
  <2> USE <1>OrderOpen
  <2> DEFINE s1 == Msg("SynStream", h.id)
             s2 == Msg("SynStream", h.id + 2)
             s3 == Msg("Fin", h.id)
             w1 == Append(wire, s1)
             w2 == Append(w1, s2)
  <2>0. /\ Cmds \in Seq(CmdMsg) /\ wire \in Seq(Frame)
        /\ \A m \in Elems(Cmds) : m \in CmdMsg /\ m.id \in Nat
        /\ \A f \in Elems(wire) : f \in Frame /\ f.id \in Int
    BY CmdsTypes
  <2>1. /\ Elems(Cmds) = {h} \cup Elems(Cmds')
        /\ \A m, n : Precedes(Cmds', m, n) => Precedes(Cmds, m, n)
        /\ \A n \in Elems(Cmds') : Precedes(Cmds, h, n)
    BY <2>0, Receiving DEF Taken
  <2>2. h \in Elems(Cmds) /\ h.id \in Nat /\ h.id + 2 \in Nat /\ h.kind = "OpenStreamPair"
    <3>1. h \in Elems(Cmds) /\ h.id \in Nat /\ h.kind = "OpenStreamPair"
      BY <2>0, <2>1 DEF IsOpen
    <3>. QED  BY <3>1, SMT
  <2>3. /\ s1 \in Frame /\ s2 \in Frame /\ s3 \in Frame
        /\ IsSyn(s1) /\ IsSyn(s2) /\ ~IsSyn(s3) /\ s1.kind = "SynStream" /\ s2.kind = "SynStream"
        /\ s3.kind = "Fin" /\ s1.id = h.id /\ s2.id = h.id + 2 /\ s3.id = h.id
    BY <2>2, SMT DEF Msg, Frame, IsSyn
  <2>4. wire' = Append(w2, s3)
    BY FramesSent, <2>0
  <2>k. "SynStream" # "Fin" /\ "SynStream" # "Data" /\ "Fin" # "Data"
    OBVIOUS
  <2>a. /\ h.id < h.id + 2 /\ \A f \in Elems(wire) : IsSyn(f) => f.id < h.id
        /\ \A f \in Elems(wire) : IsSyn(f) => f.id < h.id + 2
    <3>1. \A f \in Elems(wire) : IsSyn(f) => f.id < h.id
      BY <2>2 DEF OpensOrdered
    <3>2. h.id < h.id + 2
      BY <2>2, SMT
    <3>3. ASSUME NEW f \in Elems(wire), IsSyn(f) PROVE f.id < h.id + 2
      <4>1. f.id \in Int /\ f.id < h.id /\ h.id \in Nat
        BY <2>0, <2>2, <3>1, <3>3
      <4>. QED  BY <4>1, SMT
    <3>. QED  BY <3>1, <3>2, <3>3
  <2> HIDE DEF s1, s2, s3, w1, w2
  <2>5. w1 \in Seq(Frame) /\ Elems(w1) = Elems(wire) \cup {s1} /\ InOrder(w1)
    <3>1. MayFollow(wire, s1)
      BY <2>3, <2>a, <2>k DEF MayFollow
    <3>. QED  BY <2>0, <2>3, <3>1, <1>FrameInOrder, Sending DEF Sent, w1
  <2>6. w2 \in Seq(Frame) /\ Elems(w2) = Elems(wire) \cup {s1, s2} /\ InOrder(w2)
    <3>1. MayFollow(w1, s2)
      BY <2>3, <2>5, <2>a, <2>k DEF MayFollow
    <3>2. w2 \in Seq(Frame) /\ Elems(w2) = Elems(w1) \cup {s2} /\ InOrder(w2)
      <4>1. w2 \in Seq(Frame) /\ Elems(w2) = Elems(w1) \cup {s2}
        BY <2>3, <2>5, Sending DEF Sent, w2
      <4>. QED  BY <2>3, <2>5, <3>1, <4>1, <1>FrameInOrder DEF w2
    <3>. QED  BY <2>5, <3>2
  <2>7. Elems(wire') = Elems(wire) \cup {s1, s2, s3} /\ InOrder(wire)'
    <3>0. Msg("SynStream", s3.id) = s1
      BY <2>3 DEF s1
    <3>1. MayFollow(w2, s3)
      BY <2>3, <2>6, <2>k, <3>0 DEF MayFollow
    <3>2. Elems(Append(w2, s3)) = Elems(w2) \cup {s3} /\ InOrder(Append(w2, s3))
      BY <2>3, <2>6, <3>1, <1>FrameInOrder, Sending DEF Sent
    <3>. QED  BY <2>4, <2>6, <3>2
  <2>8. UNCHANGED <<pc, error_id, graceful, next_stream_id>>
    BY DEF callers
  <2>9. ASSUME NEW b \in Nat, Below(b)
        PROVE  /\ \A f \in Elems(wire') : IsSyn(f) => f.id < b
               /\ \A m \in Elems(Cmds') : IsOpen(m) => m.id + 2 < b
    <3>1. h.id + 2 < b
      BY <2>2, <2>9 DEF Below
    <3>2. h.id < b
      BY <2>2, <3>1, SMT
    <3>. QED  BY <2>1, <2>3, <2>7, <2>9, <3>1, <3>2 DEF Below
  <2>10. OpensOrdered'
    <3>1. next_stream_id \in Nat /\ \A p \in Pairs : pc[p] \in Early => error_id[p] \in Nat
      <4>1. Callers /\ next_stream_id \in Nat /\ \A p \in Pairs : HeldBy(p)
        BY BaseFacts DEF Callers, CallerTypes, Held
      <4>. QED  BY <4>1, IdTypes DEF HeldBy, Section
    <3>2. Below(next_stream_id)'
      BY <2>8, <2>9, <3>1 DEF OpensOrdered, Below
    <3>3. ASSUME NEW p \in Pairs, pc'[p] \in Early PROVE Below(error_id[p])'
      <4>1. Below(error_id[p]) /\ error_id[p] \in Nat /\ error_id'[p] = error_id[p]
        BY <2>8, <3>1, <3>3 DEF OpensOrdered
      <4>. QED  BY <2>9, <4>1 DEF Below
    <3>4. ASSUME NEW m \in Elems(Cmds'), IsOpen(m), NEW f \in Elems(wire'), IsSyn(f)
          PROVE  f.id < m.id
      <4>1. m \in Elems(Cmds) /\ m.id \in Nat /\ h.id + 2 < m.id
        BY <2>0, <2>1, <2>2, <3>4 DEF OpensOrdered
      <4>2. h.id < m.id
        BY <2>2, <4>1, SMT
      <4>. QED  BY <2>3, <2>7, <3>4, <4>1, <4>2 DEF OpensOrdered
    <3>5. \A m, n \in Elems(Cmds') :
            Precedes(Cmds', m, n) /\ IsOpen(m) /\ IsOpen(n) => m.id + 2 < n.id
      BY <2>1 DEF OpensOrdered
    <3>. QED  BY <3>2, <3>3, <3>4, <3>5 DEF OpensOrdered
  <2>11. PICK q \in Pairs : error_id[q] # 0 /\ h.id = error_id[q]
    BY <2>2 DEF DataOrdered, Owned
  <2>12. \A f \in Elems(wire') : f.kind = "Fin" => Finished(f.id)'
    <3>1. \A x : Finished(x)' <=> Finished(x)
      BY <2>8 DEF Finished, data_id
    <3>2. Finished(h.id)
      BY <2>11 DEF Finished
    <3>. QED  BY <2>3, <2>7, <2>k, <3>1, <3>2 DEF DataOrdered
  <2>13. ASSUME NEW p \in Pairs, pc'[p] \in Known PROVE Announced(p)'
    <3>1. Announced(p) /\ error_id'[p] = error_id[p] /\ data_id(p)' = data_id(p)
      BY <2>8, <2>13 DEF DataOrdered, data_id
    <3>2. CASE Msg("OpenStreamPair", error_id[p]) = h
      <4>1. h.id = error_id[p]
        BY <3>2, SMT DEF Msg
      <4>2. Msg("SynStream", data_id(p)) = s2
        BY <4>1 DEF s2, data_id
      <4>. QED  BY <2>7, <3>1, <4>2 DEF Announced
    <3>3. CASE Msg("OpenStreamPair", error_id[p]) # h
      BY <2>1, <2>7, <3>1, <3>3 DEF Announced
    <3>. QED  BY <3>2, <3>3
  <2>14. ASSUME NEW m \in Elems(Cmds')
         PROVE  Owned(m)' /\ (m.kind = "Data" => Msg("Fin", m.id) \notin Elems(wire'))
    <3>1. m \in Elems(Cmds) /\ Owned(m)
      BY <2>1 DEF DataOrdered
    <3>2. Owned(m)'
      BY <2>8, <3>1 DEF Owned, data_id
    <3>3. ASSUME m.kind = "Data" PROVE m.id # h.id
      <4>1. ~IsOpen(m)
        BY <3>3 DEF IsOpen
      <4>2. PICK p \in Pairs : pc[p] \in {"opened", "dropped"} /\ m.id = data_id(p)
        BY <3>1, <4>1 DEF Owned
      <4>3. error_id[p] # 0 /\ Callers
        BY <4>2, BaseFacts DEF Callers, Held, HeldBy
      <4>. QED  BY <2>11, <4>2, <4>3, <1>Distinct
    <3>4. ASSUME m.kind = "Data" PROVE Msg("Fin", m.id) \notin {s1, s2, s3}
      <4>1. Msg("Fin", m.id).kind = "Fin" /\ Msg("Fin", m.id).id = m.id
        BY DEF Msg
      <4>. QED  BY <2>3, <2>k, <3>3, <3>4, <4>1
    <3>. QED  BY <2>7, <3>1, <3>2, <3>4 DEF DataOrdered
  <2>15. \A x, n \in Elems(Cmds') : Precedes(Cmds', x, n) =>
           /\ IsOpen(n) /\ ~IsOpen(x) => x.id # n.id + 2
           /\ n.kind = "Data" /\ x.kind = "Fin" => x.id # n.id
    BY <2>1, SMT DEF DataOrdered
  <2>16. DataOrdered'
    BY <2>12, <2>13, <2>14, <2>15 DEF DataOrdered
  <2>. QED  BY <2>7, <2>10, <2>16

\* The writer runs a command that is one frame: DATA, or DATA with FIN.
<1>OrderSend.
  ASSUME Base, UNCHANGED <<callers, cancelled>>, ~cancelled, OpensOrdered, DataOrdered,
         InOrder(wire), NEW h, h = Head(Cmds), ~IsOpen(h), Cmds # <<>>, Cmds' = Tail(Cmds),
         wire' = wire \o FramesOf(h)
  PROVE  OpensOrdered' /\ DataOrdered' /\ InOrder(wire)'
  <2> USE <1>OrderSend
  <2>0. /\ Cmds \in Seq(CmdMsg) /\ wire \in Seq(Frame)
        /\ \A m \in Elems(Cmds) : m \in CmdMsg /\ m.id \in Nat
    BY CmdsTypes
  <2>1. /\ Elems(Cmds) = {h} \cup Elems(Cmds')
        /\ \A m, n : Precedes(Cmds', m, n) => Precedes(Cmds, m, n)
        /\ \A n \in Elems(Cmds') : Precedes(Cmds, h, n)
    BY <2>0, Receiving DEF Taken
  <2>2. h \in Elems(Cmds) /\ h \in CmdMsg
    BY <2>0, <2>1
  <2>3. /\ h.kind \in {"Data", "Fin"} /\ h \in Frame /\ ~IsSyn(h) /\ h.kind # "CloseStream"
        /\ h = Msg(h.kind, h.id)
    BY <2>2, SMT DEF CmdMsg, Kinds, Frame, Ids, IsOpen, IsSyn, Msg
  <2>4. wire' = Append(wire, h)
    BY <2>0, <2>3, FramesSent
  <2>5. Elems(wire') = Elems(wire) \cup {h}
    BY <2>0, <2>3, <2>4, Sending DEF Sent
  <2>8. UNCHANGED <<pc, error_id, graceful, next_stream_id>>
    BY DEF callers
  <2>6. PICK p \in Pairs : /\ pc[p] \in {"opened", "dropped"} /\ h.id = data_id(p)
                           /\ h.kind = "Fin" => graceful[p]
    BY <2>2 DEF DataOrdered, Owned
  <2>e. error_id[p] # 0
    BY <2>6, BaseFacts DEF Callers, Held, HeldBy
  <2>7. Msg("SynStream", h.id) \in Elems(wire)
    <3> DEFINE o == Msg("OpenStreamPair", error_id[p])
    <3>1. Msg("SynStream", data_id(p)) \in Elems(wire) \/ o \in Elems(Cmds)
      BY <2>6 DEF DataOrdered, Known, Announced
    <3>2. o.id = error_id[p] /\ IsOpen(o)
      BY DEF Msg, IsOpen
    <3> HIDE DEF o
    <3>3. ASSUME o \in Elems(Cmds) PROVE FALSE
      <4>1. o # h
        BY <3>2
      <4>2. o \in Elems(Cmds')
        BY <2>1, <3>3, <4>1
      <4>3. Precedes(Cmds, h, o)
        BY <2>1, <4>2
      <4>4. h.id # o.id + 2
        BY <2>2, <3>2, <3>3, <4>3 DEF DataOrdered
      <4>. QED  BY <2>6, <3>2, <4>4 DEF data_id
    <3>. QED  BY <2>6, <3>1, <3>3
  <2>9. InOrder(wire)'
    <3>1. h.kind = "Data" => Msg("Fin", h.id) \notin Elems(wire)
      BY <2>2 DEF DataOrdered
    <3>2. MayFollow(wire, h)
      BY <2>3, <2>7, <3>1 DEF MayFollow
    <3>. QED  BY <2>0, <2>3, <2>4, <3>2, <1>FrameInOrder
  <2>10. OpensOrdered'
    <3>1. \A m \in Elems(Cmds') : m \in Elems(Cmds)
      BY <2>1
    <3>2. \A f \in Elems(wire') : IsSyn(f) => f \in Elems(wire)
      BY <2>3, <2>5
    <3>3. Below(next_stream_id)'
      BY <2>8, <3>1, <3>2 DEF OpensOrdered, Below
    <3>4. ASSUME NEW q \in Pairs, pc'[q] \in Early PROVE Below(error_id[q])'
      <4>1. Below(error_id[q]) /\ error_id'[q] = error_id[q]
        BY <2>8, <3>4 DEF OpensOrdered
      <4>. QED  BY <3>1, <3>2, <4>1 DEF Below
    <3>5. ASSUME NEW m \in Elems(Cmds'), IsOpen(m), NEW f \in Elems(wire'), IsSyn(f)
          PROVE  f.id < m.id
      BY <3>1, <3>2, <3>5 DEF OpensOrdered
    <3>6. \A m, n \in Elems(Cmds') :
            Precedes(Cmds', m, n) /\ IsOpen(m) /\ IsOpen(n) => m.id + 2 < n.id
      BY <2>1, <3>1 DEF OpensOrdered
    <3>. QED  BY <3>3, <3>4, <3>5, <3>6 DEF OpensOrdered
  <2>12. \A f \in Elems(wire') : f.kind = "Fin" => Finished(f.id)'
    <3>1. \A x : Finished(x)' <=> Finished(x)
      BY <2>8 DEF Finished, data_id
    <3>2. h.kind = "Fin" => Finished(h.id)
      BY <2>6, <2>e DEF Finished
    <3>. QED  BY <2>5, <3>1, <3>2 DEF DataOrdered
  <2>13. ASSUME NEW q \in Pairs, pc'[q] \in Known PROVE Announced(q)'
    <3>1. Announced(q) /\ error_id'[q] = error_id[q] /\ data_id(q)' = data_id(q)
      BY <2>8, <2>13 DEF DataOrdered, data_id
    <3>2. IsOpen(Msg("OpenStreamPair", error_id[q]))
      BY DEF Msg, IsOpen
    <3>3. Msg("OpenStreamPair", error_id[q]) # h
      BY <3>2
    <3>. QED  BY <2>1, <2>5, <3>1, <3>3 DEF Announced
  <2>14. ASSUME NEW m \in Elems(Cmds')
         PROVE  Owned(m)' /\ (m.kind = "Data" => Msg("Fin", m.id) \notin Elems(wire'))
    <3>1. m \in Elems(Cmds) /\ Owned(m)
      BY <2>1 DEF DataOrdered
    <3>2. Owned(m)'
      BY <2>8, <3>1 DEF Owned, data_id
    <3>3. ASSUME m.kind = "Data", Msg("Fin", m.id) = h PROVE FALSE
      <4>1. h.kind = "Fin" /\ h.id = m.id
        BY <3>3, SMT DEF Msg
      <4>2. Precedes(Cmds, h, m)
        BY <2>1
      <4>3. h.id # m.id
        BY <2>2, <3>1, <3>3, <4>1, <4>2 DEF DataOrdered
      <4>. QED  BY <4>1, <4>3
    <3>4. m.kind = "Data" => Msg("Fin", m.id) \notin Elems(wire)
      BY <3>1 DEF DataOrdered
    <3>. QED  BY <2>5, <3>2, <3>3, <3>4
  <2>15. \A x, n \in Elems(Cmds') : Precedes(Cmds', x, n) =>
           /\ IsOpen(n) /\ ~IsOpen(x) => x.id # n.id + 2
           /\ n.kind = "Data" /\ x.kind = "Fin" => x.id # n.id
    BY <2>1, SMT DEF DataOrdered
  <2>16. DataOrdered'
    BY <2>12, <2>13, <2>14, <2>15 DEF DataOrdered
  <2>. QED  BY <2>9, <2>10, <2>16

\* The frames of the writer's step.
<1>OrderWriter.
  ASSUME Base, Callers', Onward, InOrder(wire), OpensOrdered, DataOrdered, WriterStep
  PROVE  OpensOrdered' /\ DataOrdered' /\ InOrder(wire)'
  <2> USE <1>OrderWriter
  <2>0. /\ UNCHANGED <<callers, cancelled>> /\ ~cancelled
        /\ \/ /\ control # <<>> /\ Emit(Head(control)) /\ Cmds' = Cmds
           \/ /\ Cmds # <<>> /\ Emit(Head(Cmds)) /\ Cmds' = Tail(Cmds)
           \/ /\ Cmds' = Cmds /\ UNCHANGED wire
    BY WriterKinds
  <2>1. CASE control # <<>> /\ Emit(Head(control)) /\ Cmds' = Cmds
    <3> DEFINE h == Head(control)
    <3>1. h \in ControlMsg /\ wire' = wire \o FramesOf(h) /\ wire \in Seq(Frame)
      BY <2>1, BaseFacts, TakeControlFacts, CmdsTypes DEF Emit
    <3> HIDE DEF h
    <3>2. /\ h.kind \in {"CloseStream", "GoAway"} /\ ~IsOpen(h)
          /\ h.kind = "GoAway" => h \in Frame
          /\ Msg("RstStream", h.id) \in Frame /\ Msg("RstStream", h.id).kind = "RstStream"
      BY <3>1 DEF ControlMsg, Frame, Msg, IsOpen
    <3>3. CASE h.kind = "CloseStream"
      <4>1. wire' = Append(wire, Msg("RstStream", h.id))
        BY <3>1, <3>3, FramesSent
      <4>. QED  BY <2>0, <2>1, <3>2, <4>1, <1>OrderReset
    <3>4. CASE h.kind = "GoAway"
      <4>0. h.kind # "CloseStream"
        BY <3>4
      <4>1. wire' = Append(wire, h)
        BY <3>1, <3>2, <4>0, FramesSent
      <4>. QED  BY <2>0, <2>1, <3>2, <3>4, <4>1, <1>OrderReset
    <3>. QED  BY <3>2, <3>3, <3>4
  <2>2. CASE Cmds # <<>> /\ Emit(Head(Cmds)) /\ Cmds' = Tail(Cmds)
    <3>1. wire' = wire \o FramesOf(Head(Cmds))
      BY <2>2 DEF Emit
    <3>2. CASE IsOpen(Head(Cmds))
      BY <2>0, <2>2, <3>1, <3>2, <1>OrderOpen
    <3>3. CASE ~IsOpen(Head(Cmds))
      BY <2>0, <2>2, <3>1, <3>3, <1>OrderSend
    <3>. QED  BY <3>2, <3>3
  <2>3. CASE Cmds' = Cmds /\ UNCHANGED wire
    <3>1. UNCHANGED pc
      BY <2>0 DEF callers
    <3>. QED  BY <2>0, <2>3, <3>1, <1>OrderKept
  <2>. QED  BY <2>0, <2>1, <2>2, <2>3

\* A caller sends on cmd_tx.
<1>CmdSent.
  ASSUME Base, NEW m \in CmdMsg, cmd' = Append(cmd, m), UNCHANGED writer
  PROVE  Cmds' = Append(Cmds, m) /\ wire' = wire
  <2> USE <1>CmdSent
  <2>1. cmd \in Seq(CmdMsg) /\ (writerAt = "drain" => taken \in CmdMsg)
    BY BaseFacts DEF ChannelTypes, WriterTypes
  <2>2. UNCHANGED <<writerAt, taken, wire>>
    BY DEF writer
  <2>3. CASE writerAt = "drain"
    <3>1. <<taken>> \in Seq(CmdMsg)
      BY <2>1, <2>3, SMT
    <3>2. <<taken>> \o Append(cmd, m) = Append(<<taken>> \o cmd, m)
      BY <2>1, <3>1, SMT
    <3>. QED  BY <2>2, <2>3, <3>2 DEF Cmds
  <2>4. CASE writerAt # "drain"
    BY <2>2, <2>4 DEF Cmds
  <2>. QED  BY <2>3, <2>4

\* EnqueueOpen: under the lock, the ids follow those of everything queued before.
<1>OrderEnqueue.
  ASSUME Base, Callers', Onward, OpensOrdered, DataOrdered, ~cancelled, NEW p \in Pairs,
         pc[p] = "enqueueOpen", pc' = [pc EXCEPT ![p] = "reserve"],
         cmd' = Append(cmd, Msg("OpenStreamPair", error_id[p])),
         UNCHANGED <<error_id, next_stream_id, writer>>
  PROVE  OpensOrdered' /\ DataOrdered' /\ wire' = wire
  <2> USE <1>OrderEnqueue
  <2>b. Callers /\ HeldBy(p) /\ pc \in [Pairs -> Pcs]
        /\ \A q \in Pairs : pc[q] \in Section => open_seq = q
    BY BaseFacts DEF Callers, Held, HeldBy, CallerTypes
  <2>g. /\ "enqueueOpen" \in Early /\ Early \subseteq Section /\ "reserve" \notin Early
        /\ {"opened", "dropped"} \cap Section = {}
    BY DEF Early, Section
  <2>1. error_id[p] # 0
    BY <2>b, <2>g DEF HeldBy
  <2>i. /\ error_id[p] \in Ids /\ error_id[p] \in Nat /\ error_id[p] + 4 <= next_stream_id
        /\ next_stream_id \in Nat
    BY <2>1, <2>b, IdTypes DEF Callers, Apart, CallerTypes
  <2>m. PICK m : m = Msg("OpenStreamPair", error_id[p])
    OBVIOUS
  <2>2. m \in CmdMsg /\ IsOpen(m) /\ m.id = error_id[p] /\ m.kind = "OpenStreamPair"
    BY <2>i, <2>m DEF Msg, CmdMsg, Kinds, IsOpen
  <2>3. cmd' = Append(cmd, m)
    BY <2>m
  <2>4. Cmds' = Append(Cmds, m) /\ wire' = wire
    BY <2>2, <2>3, <1>CmdSent
  <2>5. \A q \in Pairs : pc'[q] \notin Early
    <3>1. pc'[p] = "reserve" /\ \A q \in Pairs : q # p => pc'[q] = pc[q]
      BY <2>b
    <3>2. open_seq = p
      BY <2>b, <2>g
    <3>3. \A q \in Pairs : q # p => pc[q] \notin Section
      BY <2>b, <3>2
    <3>. QED  BY <2>g, <3>1, <3>3
  <2>6. m.id + 2 < next_stream_id'
    <3>1. error_id[p] + 2 < next_stream_id
      BY <2>i, SMT
    <3>. QED  BY <2>2, <3>1
  <2>7. Below(m.id)
    BY <2>2, <2>g DEF OpensOrdered
  <2>8. Owned(m)'
    BY <2>1, <2>2 DEF Owned
  <2>9. ASSUME NEW x \in Elems(Cmds), ~IsOpen(x) PROVE x.id # m.id + 2
    <3>1. PICK q \in Pairs : pc[q] \in {"opened", "dropped"} /\ x.id = data_id(q)
      BY <2>9 DEF DataOrdered, Owned
    <3>2. error_id[q] # 0
      BY <3>1, BaseFacts DEF Callers, Held, HeldBy
    <3>3. q # p
      BY <2>g, <3>1
    <3>4. data_id(q) # data_id(p) /\ data_id(p) = error_id[p] + 2
      BY <2>1, <2>b, <3>2, <3>3, <1>Distinct
    <3>. QED  BY <2>2, <3>1, <3>4
  <2>10. m.kind # "Data"
    BY <2>2
  <2>11. ASSUME NEW q \in Pairs, pc'[q] \in Known
         PROVE  pc[q] \in Known \/ m = Msg("OpenStreamPair", error_id'[q])
    BY <2>11, <2>b, <2>m
  <2>12. OpensOrdered' /\ DataOrdered'
    BY <2>2, <2>4, <2>5, <2>6, <2>7, <2>8, <2>9, <2>10, <2>11, <1>OrderQueued
  <2>. QED  BY <2>4, <2>12

\* poll_write and poll_shutdown: the streams are announced, and not shut down.
<1>OrderWrite.
  ASSUME Base, Callers', Onward, OpensOrdered, DataOrdered, NEW p \in Pairs,
         Write(p) \/ Shutdown(p)
  PROVE  OpensOrdered' /\ DataOrdered' /\ wire' = wire
  <2> USE <1>OrderWrite
  <2>b. Callers /\ HeldBy(p) /\ graceful \in [Pairs -> BOOLEAN]
    BY BaseFacts DEF Callers, Held, CallerTypes
  <2>0. /\ pc[p] = "opened" /\ ~graceful[p] /\ ~cancelled
        /\ UNCHANGED <<pc, error_id, next_stream_id, writer, cancelled>>
        /\ \/ cmd' = Append(cmd, Msg("Data", data_id(p)))
           \/ /\ cmd' = Append(cmd, Msg("Fin", data_id(p)))
              /\ graceful' = [graceful EXCEPT ![p] = TRUE]
    BY DEF Write, Shutdown, CmdRoom
  <2>1. error_id[p] # 0 /\ data_id(p) \in Ids /\ data_id(p)' = data_id(p)
    BY <2>0, <2>b, IdTypes DEF HeldBy, data_id
  <2>2. PICK k \in {"Data", "Fin"} : /\ cmd' = Append(cmd, Msg(k, data_id(p)))
                                     /\ k = "Fin" => graceful' = [graceful EXCEPT ![p] = TRUE]
    BY <2>0
  <2>m. PICK m : m = Msg(k, data_id(p))
    OBVIOUS
  <2>3. m \in CmdMsg /\ ~IsOpen(m) /\ m.kind = k /\ m.id = data_id(p)
    BY <2>1, <2>2, <2>m DEF Msg, CmdMsg, Kinds, IsOpen
  <2>4. cmd' = Append(cmd, m)
    BY <2>2, <2>m
  <2>5. Cmds' = Append(Cmds, m) /\ wire' = wire
    BY <2>0, <2>3, <2>4, <1>CmdSent
  <2>6. Owned(m)'
    <3>1. m.kind = "Fin" => graceful'[p]
      BY <2>2, <2>3, <2>b
    <3>. QED  BY <2>0, <2>1, <2>3, <3>1 DEF Owned
  <2>7. Msg("Fin", m.id) \notin Elems(wire)
    <3>1. SUFFICES ASSUME Msg("Fin", m.id) \in Elems(wire) PROVE FALSE
      OBVIOUS
    <3>2. Msg("Fin", m.id).kind = "Fin" /\ Msg("Fin", m.id).id = m.id
      BY DEF Msg
    <3>3. Finished(m.id)
      BY <2>0, <3>1, <3>2 DEF DataOrdered
    <3>4. PICK q \in Pairs :
            error_id[q] # 0 /\ (m.id = error_id[q] \/ (m.id = data_id(q) /\ graceful[q]))
      BY <3>3 DEF Finished
    <3>. QED  BY <2>0, <2>1, <2>3, <2>b, <3>4, <1>Distinct
  <2>8. ASSUME NEW x \in Elems(Cmds), x.kind = "Fin" PROVE x.id # m.id
    <3>0. ~IsOpen(x)
      BY <2>8 DEF IsOpen
    <3>1. PICK q \in Pairs : pc[q] \in {"opened", "dropped"} /\ x.id = data_id(q) /\ graceful[q]
      BY <2>0, <2>8, <3>0 DEF DataOrdered, Owned
    <3>2. error_id[q] # 0
      BY <3>1, BaseFacts DEF Callers, Held, HeldBy
    <3>3. data_id(p) = data_id(q) => p = q
      BY <2>1, <2>b, <3>1, <3>2, <1>Distinct
    <3>. QED  BY <2>0, <2>1, <2>3, <3>1, <3>3
  <2>9. OpensOrdered' /\ DataOrdered'
    BY <2>0, <2>3, <2>5, <2>6, <2>7, <2>8, <1>OrderQueued
  <2>. QED  BY <2>5, <2>9
<1>b. Callers /\ Onward /\ pc \in [Pairs -> Pcs]
  BY BaseFacts, OnwardStep DEF Callers, CallerTypes
<1>1. ASSUME UNCHANGED <<cmd, writer>>, ~cancelled' => ~cancelled,
             \A p \in Pairs : pc'[p] \in Known => pc[p] \in Known
      PROVE  InOrder(wire)' /\ OpensOrdered' /\ DataOrdered'
  <2>1. UNCHANGED <<cmd, writerAt, taken, wire>>
    BY <1>1 DEF writer
  <2>2. Cmds' = Cmds
    BY <2>1 DEF Cmds
  <2>3. InOrder(wire)'
    BY <2>1
  <2>. QED  BY <1>1, <1>b, <2>1, <2>2, <2>3, <1>OrderKept
<1>k. {"broken", "registerError", "registerData", "enqueueOpen", "closeError", "closeData"}
        \cap Known = {} /\ {"reserve", "opened"} \subseteq Known
  BY DEF Known
<1>2. ASSUME NEW p \in Pairs, AllocateIds(p)
      PROVE  InOrder(wire)' /\ OpensOrdered' /\ DataOrdered'
  <2>1. /\ UNCHANGED <<cmd, writer, cancelled>>
        /\ pc' = [pc EXCEPT ![p] = "broken"] \/ pc' = [pc EXCEPT ![p] = "registerError"]
    BY <1>2 DEF AllocateIds, Fail, Goto
  <2>2. \A q \in Pairs : pc'[q] \in Known => pc[q] \in Known
    BY <1>b, <1>k, <2>1
  <2>. QED  BY <1>1, <2>1, <2>2
<1>3. ASSUME NEW p \in Pairs, Realize(p)
      PROVE  InOrder(wire)' /\ OpensOrdered' /\ DataOrdered'
  <2>1. CASE UNCHANGED cmd
    <3>1. /\ UNCHANGED <<writer, cancelled>>
          /\ \/ pc' = pc
             \/ pc[p] \in Known
             \/ \E l : l \notin Known /\ pc' = [pc EXCEPT ![p] = l]
      <4>1. UNCHANGED <<writer, cancelled>>
        BY <1>3 DEF Realize, RegisterError, RegisterData, EnqueueOpen, ReservePermit,
                           CleanupRegistration
      <4>2. CASE RegisterError(p) \/ RegisterData(p)
        BY <1>k, <4>1, <4>2 DEF RegisterError, RegisterData, Goto, Fail
      <4>3. CASE EnqueueOpen(p)
        <5>1. cmd \in Seq(CmdMsg)
          BY BaseFacts DEF ChannelTypes
        <5>2. \A m : Append(cmd, m) # cmd
          BY <5>1, SMT
        <5>3. pc' = [pc EXCEPT ![p] = "closeError"]
          BY <2>1, <4>3, <5>2 DEF EnqueueOpen, Goto
        <5>. QED  BY <1>k, <4>1, <5>3
      <4>4. CASE ReservePermit(p)
        BY <1>k, <4>1, <4>4 DEF ReservePermit
      <4>5. CASE CleanupRegistration(p)
        BY <1>k, <4>1, <4>5 DEF CleanupRegistration, Goto, Fail
      <4>. QED  BY <1>3, <4>2, <4>3, <4>4, <4>5 DEF Realize
    <3>2. ASSUME NEW q \in Pairs, pc'[q] \in Known PROVE pc[q] \in Known
      <4>1. CASE q = p
        BY <1>b, <3>1, <3>2, <4>1
      <4>2. CASE q # p
        <5>1. pc' = pc \/ \E l : pc' = [pc EXCEPT ![p] = l]
          BY <1>3 DEF Realize, RegisterError, RegisterData, EnqueueOpen, ReservePermit,
                             CleanupRegistration, Goto, Fail
        <5>. QED  BY <1>b, <3>2, <4>2, <5>1
      <4>. QED  BY <4>1, <4>2
    <3>. QED  BY <1>1, <2>1, <3>1, <3>2
  <2>2. CASE EnqueueOpen(p) /\ cmd' # cmd
    <3>1. /\ pc[p] = "enqueueOpen" /\ pc' = [pc EXCEPT ![p] = "reserve"] /\ ~cancelled
          /\ cmd' = Append(cmd, Msg("OpenStreamPair", error_id[p]))
          /\ UNCHANGED <<error_id, next_stream_id, writer>>
      BY <2>2 DEF EnqueueOpen, Goto, CmdRoom
    <3>2. OpensOrdered' /\ DataOrdered' /\ wire' = wire
      BY <1>b, <3>1, <1>OrderEnqueue
    <3>. QED  BY <3>2
  <2>. QED  BY <1>3, <2>1, <2>2 DEF Realize, RegisterError, RegisterData, ReservePermit,
                                           CleanupRegistration, channels
<1>4. ASSUME NEW p \in Pairs, Write(p) \/ Shutdown(p)
      PROVE  InOrder(wire)' /\ OpensOrdered' /\ DataOrdered'
  <2>1. OpensOrdered' /\ DataOrdered' /\ wire' = wire
    BY <1>4, <1>b, <1>OrderWrite
  <2>. QED  BY <2>1
<1>5. ASSUME NEW p \in Pairs, StreamGuardDrop(p)
      PROVE  InOrder(wire)' /\ OpensOrdered' /\ DataOrdered'
  <2>1. /\ UNCHANGED <<cmd, writer, cancelled>> /\ pc[p] = "opened"
        /\ pc' = [pc EXCEPT ![p] = "dropped"]
    BY <1>5 DEF StreamGuardDrop, Goto
  <2>2. \A q \in Pairs : pc'[q] \in Known => pc[q] \in Known
    BY <1>b, <1>k, <2>1
  <2>. QED  BY <1>1, <2>1, <2>2
<1>6. CASE WriterStep
  BY <1>6, <1>b, <1>OrderWriter
<1>7. ASSUME UNCHANGED <<callers, cmd, writer>>, ~cancelled' => ~cancelled
      PROVE  InOrder(wire)' /\ OpensOrdered' /\ DataOrdered'
  <2>1. UNCHANGED pc
    BY <1>7 DEF callers
  <2>. QED  BY <1>1, <1>7, <2>1
<1>8. ASSUME NEW w \in Workers, WorkerStep(w) \/ PeerFrame(w)
      PROVE  InOrder(wire)' /\ OpensOrdered' /\ DataOrdered'
  BY <1>7, <1>8 DEF WorkerStep, WorkerCloses, WorkerOpens, WorkerSelect, PeerFrame
<1>9. CASE GoAway \/ UNCHANGED vars
  <2>1. UNCHANGED <<callers, cmd, writer>> /\ (~cancelled' => ~cancelled)
    BY <1>9, SMT DEF GoAway, vars, channels
  <2>. QED  BY <1>7, <2>1
<1>10. CASE Cancel
  <2>1. wire' = wire /\ cancelled'
    BY <1>10 DEF Cancel, writer
  <2>2. OpensOrdered' /\ DataOrdered'
    BY <2>1 DEF OpensOrdered, DataOrdered
  <2>. QED  BY <2>1, <2>2
<1>. QED  BY <1>2, <1>3, <1>4, <1>5, <1>6, <1>8, <1>9, <1>10 DEF Next

-----------------------------------------------------------------------------
(* The resets *)

\* Every step keeps the resets.
LEMMA ResetsStep ==
  ASSUME Base, ResetsSent, [Next]_vars
  PROVE  ResetsSent'

\* The frames of a message are added to the wire.
<1>EmitElems.
  ASSUME Base, NEW m, m \in CmdMsg \/ m \in ControlMsg, Emit(m)
  PROVE  /\ Elems(wire) \subseteq Elems(wire')
         /\ m.kind = "CloseStream" => Msg("RstStream", m.id) \in Elems(wire')
  <2> USE <1>EmitElems
  <2>0. wire \in Seq(Frame) /\ wire' = wire \o FramesOf(m)
    BY CmdsTypes DEF Emit
  <2>1. CASE m.kind = "CloseStream"
    <3>1. Msg("RstStream", m.id) \in Frame
      BY SMT DEF Msg, Frame, CmdMsg, ControlMsg, Ids
    <3>2. wire' = Append(wire, Msg("RstStream", m.id))
      BY <2>0, <2>1, FramesSent
    <3>3. Elems(wire') = Elems(wire) \cup {Msg("RstStream", m.id)}
      <4>1. Sent(wire, Msg("RstStream", m.id))
        BY <2>0, <3>1, Sending
      <4>. QED  BY <3>2, <4>1 DEF Sent
    <3>. QED  BY <3>3
  <2>2. CASE m.kind # "CloseStream"
    <3>1. FramesOf(m) \in Seq(Frame)
      <4>1. CASE IsOpen(m)
        <5>1. m.id \in Int /\ m.id + 2 \in Int
          BY SMT DEF CmdMsg, ControlMsg, Ids
        <5>2. {Msg("SynStream", m.id), Msg("SynStream", m.id + 2), Msg("Fin", m.id)} \subseteq Frame
          BY <5>1, SMT DEF Msg, Frame
        <5>3. FramesOf(m) = <<Msg("SynStream", m.id), Msg("SynStream", m.id + 2), Msg("Fin", m.id)>>
          BY <4>1 DEF FramesOf, IsOpen
        <5>. QED  BY <5>2, <5>3, SMT
      <4>2. CASE ~IsOpen(m)
        <5>1. m \in Frame /\ FramesOf(m) = <<m>>
          BY <2>2, <4>2, SMT DEF Frame, CmdMsg, ControlMsg, Ids, Kinds, IsOpen, FramesOf
        <5>. QED  BY <5>1, SMT
      <4>. QED  BY <4>1, <4>2
    <3>2. Elems(wire \o FramesOf(m)) = Elems(wire) \cup Elems(FramesOf(m))
      <4>1. \A q, r \in Seq(Frame) : Elems(q \o r) = Elems(q) \cup Elems(r)
        BY SendingAll, SMT
      <4>. QED  BY <2>0, <3>1, <4>1
    <3>. QED  BY <2>0, <2>2, <3>2
  <2>. QED  BY <2>1, <2>2

\* A step that drops nothing and loses no reset.
<1>ResetsKept.
  ASSUME Base, Onward, ResetsSent, ~cancelled' => ~cancelled,
         \A p \in Pairs : pc'[p] = "dropped" => pc[p] = "dropped",
         Elems(wire) \subseteq Elems(wire'),
         \A x : Msg("CloseStream", x) \in Elems(control) =>
           Msg("CloseStream", x) \in Elems(control') \/ Msg("RstStream", x) \in Elems(wire')
  PROVE  ResetsSent'
  <2> USE <1>ResetsKept
  <2>1. ASSUME ~cancelled', NEW p \in Pairs, Abandoned(p)'
        PROVE  \/ Msg("CloseStream", data_id(p)') \in Elems(control')
               \/ Msg("RstStream", data_id(p)') \in Elems(wire')
    <3>1. pc[p] = "dropped" /\ ~graceful[p]
      BY <2>1 DEF Abandoned, Onward, OnwardBy
    <3>2. \/ Msg("CloseStream", data_id(p)) \in Elems(control)
          \/ Msg("RstStream", data_id(p)) \in Elems(wire)
      BY <2>1, <3>1 DEF ResetsSent, Abandoned
    <3>3. data_id(p)' = data_id(p)
      BY <3>1, Belonging DEF Known
    <3>. QED  BY <3>2, <3>3
  <2>. QED  BY <2>1 DEF ResetsSent

\* The control channel when nothing is taken from it.
<1>ControlMore.
  ASSUME Base, NEW m \in ControlMsg, control' = control \/ control' = Append(control, m)
  PROVE  Elems(control) \subseteq Elems(control')
  <2> USE <1>ControlMore
  <2>1. control \in Seq(ControlMsg)
    BY BaseFacts DEF Roomy
  <2>2. Elems(Append(control, m)) = Elems(control) \cup {m}
    BY <2>1, Sending DEF Sent
  <2>3. CASE control' = control
    BY <2>3
  <2>4. CASE control' = Append(control, m)
    BY <2>2, <2>4
  <2>. QED  BY <2>3, <2>4

\* StreamGuard::drop puts the reset in the control channel.
<1>ResetsDrop.
  ASSUME Base, Onward, ResetsSent, NEW p \in Pairs, StreamGuardDrop(p)
  PROVE  ResetsSent'
  <2> USE <1>ResetsDrop
  <2>b. Callers /\ pc \in [Pairs -> Pcs] /\ HeldBy(p) /\ control \in Seq(ControlMsg)
    BY BaseFacts DEF Callers, CallerTypes, Held, Roomy
  <2>0. /\ pc[p] = "opened" /\ pc' = [pc EXCEPT ![p] = "dropped"]
        /\ control' = IF graceful[p] \/ cancelled THEN control
                      ELSE Append(control, Msg("CloseStream", data_id(p)))
        /\ UNCHANGED <<error_id, graceful, writer, cancelled>>
    BY DEF StreamGuardDrop, Goto
  <2>1. error_id[p] # 0 /\ wire' = wire
    BY <2>0, <2>b DEF HeldBy, writer
  <2>2. data_id(p) \in Nat
    BY <2>1, <2>b, IdTypes
  <2>3. Msg("CloseStream", data_id(p)) \in ControlMsg
    BY <2>2, SMT DEF Msg, ControlMsg
  <2>4. Elems(control) \subseteq Elems(control')
    <3>1. control' = control \/ control' = Append(control, Msg("CloseStream", data_id(p)))
      BY <2>0
    <3>. QED  BY <2>3, <3>1, <1>ControlMore
  <2>5. ASSUME ~cancelled, ~graceful[p] PROVE Msg("CloseStream", data_id(p)) \in Elems(control')
    <3>1. control' = Append(control, Msg("CloseStream", data_id(p)))
      BY <2>0, <2>5
    <3>2. Elems(control') = Elems(control) \cup {Msg("CloseStream", data_id(p))}
      BY <2>3, <2>b, <3>1, Sending DEF Sent
    <3>. QED  BY <3>2
  <2>6. ASSUME ~cancelled', NEW q \in Pairs, Abandoned(q)'
        PROVE  \/ Msg("CloseStream", data_id(q)') \in Elems(control')
               \/ Msg("RstStream", data_id(q)') \in Elems(wire')
    <3>0. data_id(q)' = data_id(q) /\ ~cancelled /\ ~graceful[q]
      BY <2>0, <2>6 DEF data_id, Abandoned
    <3>1. CASE q = p
      BY <2>5, <3>0, <3>1
    <3>2. CASE q # p
      <4>1. Abandoned(q)
        BY <2>0, <2>6, <2>b, <3>0, <3>2 DEF Abandoned
      <4>. QED  BY <2>1, <2>4, <3>0, <4>1 DEF ResetsSent
    <3>. QED  BY <3>1, <3>2
  <2>. QED  BY <2>6 DEF ResetsSent
<1>b. Callers /\ Onward /\ pc \in [Pairs -> Pcs] /\ Roomy(control)
  BY BaseFacts, OnwardStep DEF Callers, CallerTypes
<1>k. "broken" # "dropped" /\ "registerError" # "dropped"
  OBVIOUS
<1>1. ASSUME \A p \in Pairs : pc'[p] = "dropped" => pc[p] = "dropped",
             UNCHANGED <<writer, cancelled>>, Elems(control) \subseteq Elems(control')
      PROVE  ResetsSent'
  <2>1. Elems(wire) \subseteq Elems(wire')
    BY <1>1 DEF writer
  <2>. QED  BY <1>1, <1>b, <2>1, <1>ResetsKept
<1>2. ASSUME NEW p \in Pairs, AllocateIds(p) PROVE ResetsSent'
  <2>1. /\ UNCHANGED <<writer, cancelled>>
        /\ control' = control \/ control' = TrySendControl(Msg("GoAway", next_stream_id - 2))
        /\ pc' = [pc EXCEPT ![p] = "broken"] \/ pc' = [pc EXCEPT ![p] = "registerError"]
    BY <1>2 DEF AllocateIds, Fail, Goto
  <2>2. Msg("GoAway", next_stream_id - 2) \in ControlMsg
    BY <1>b, SMT DEF Msg, ControlMsg, Callers, CallerTypes
  <2>3. Elems(control) \subseteq Elems(control')
    BY <1>b, <2>1, <2>2, TrySendControlFacts, <1>ControlMore
  <2>4. \A q \in Pairs : pc'[q] = "dropped" => pc[q] = "dropped"
    BY <1>b, <1>k, <2>1
  <2>. QED  BY <1>1, <2>1, <2>3, <2>4
<1>3. ASSUME NEW p \in Pairs, Realize(p) PROVE ResetsSent'
  <2>1. /\ UNCHANGED <<writer, cancelled, control>>
        /\ pc' = pc \/ \E l : pc' = [pc EXCEPT ![p] = l] /\ l # "dropped"
    <3>1. UNCHANGED <<writer, cancelled, control>>
      BY <1>3 DEF Realize, RegisterError, RegisterData, EnqueueOpen, ReservePermit,
                         CleanupRegistration, channels
    <3>2. pc' = pc \/ \E l \in Pcs \ {"dropped"} : pc' = [pc EXCEPT ![p] = l]
      BY <1>3 DEF Realize, RegisterError, RegisterData, EnqueueOpen, ReservePermit,
                         CleanupRegistration, Goto, Fail, Pcs
    <3>. QED  BY <3>1, <3>2
  <2>2. \A q \in Pairs : pc'[q] = "dropped" => pc[q] = "dropped"
    BY <1>b, <2>1
  <2>. QED  BY <1>1, <2>1, <2>2
<1>4. ASSUME NEW p \in Pairs, Write(p) \/ Shutdown(p) PROVE ResetsSent'
  <2>1. UNCHANGED <<pc, writer, cancelled, control>>
    BY <1>4 DEF Write, Shutdown
  <2>. QED  BY <1>1, <2>1
<1>5. ASSUME NEW p \in Pairs, StreamGuardDrop(p) PROVE ResetsSent'
  BY <1>5, <1>b, <1>ResetsDrop
<1>6. CASE WriterStep
  <2>1. /\ UNCHANGED <<callers, cancelled>>
        /\ \/ control # <<>> /\ Emit(Head(control)) /\ control' = Tail(control)
           \/ UNCHANGED control /\ (wire' = wire \/ (Cmds # <<>> /\ Emit(Head(Cmds))))
    BY <1>6, WriterKinds
  <2>2. UNCHANGED pc
    BY <2>1 DEF callers
  <2>3. CASE control # <<>> /\ Emit(Head(control)) /\ control' = Tail(control)
    <3>1. PICK h : h = Head(control)
      OBVIOUS
    <3>2. h \in ControlMsg /\ Emit(h)
      BY <1>b, <2>3, <3>1, TakeControlFacts
    <3>3. /\ Elems(wire) \subseteq Elems(wire')
          /\ h.kind = "CloseStream" => Msg("RstStream", h.id) \in Elems(wire')
      BY <3>2, <1>EmitElems
    <3>4. Elems(control) = {h} \cup Elems(control')
      BY <1>b, <2>3, <3>1, Receiving DEF Taken, Roomy
    <3>5. ASSUME NEW x, Msg("CloseStream", x) \in Elems(control)
          PROVE  \/ Msg("CloseStream", x) \in Elems(control')
                 \/ Msg("RstStream", x) \in Elems(wire')
      <4>1. CASE Msg("CloseStream", x) = h
        <5>1. h.kind = "CloseStream" /\ h.id = x
          BY <4>1 DEF Msg
        <5>. QED  BY <3>3, <5>1
      <4>2. CASE Msg("CloseStream", x) # h
        BY <3>4, <3>5, <4>2
      <4>. QED  BY <4>1, <4>2
    <3>. QED  BY <1>b, <2>1, <2>2, <3>3, <3>5, <1>ResetsKept
  <2>4. CASE UNCHANGED control /\ wire' = wire
    BY <1>b, <2>1, <2>2, <2>4, <1>ResetsKept
  <2>5. CASE UNCHANGED control /\ Cmds # <<>> /\ Emit(Head(Cmds))
    <3>1. Head(Cmds) \in CmdMsg
      BY <2>5, CmdsTypes, Receiving
    <3>2. Elems(wire) \subseteq Elems(wire')
      BY <2>5, <3>1, <1>EmitElems
    <3>. QED  BY <1>b, <2>1, <2>2, <2>5, <3>2, <1>ResetsKept
  <2>. QED  BY <2>1, <2>3, <2>4, <2>5
<1>7. ASSUME NEW w \in Workers, WorkerStep(w) PROVE ResetsSent'
  <2>1. /\ UNCHANGED <<callers, writer, cancelled>>
        /\ (close_reg[w] # <<>> /\ ApplyClose(w)) \/ UNCHANGED control
    BY <1>7, BaseFacts, WorkerKinds
  <2>2. UNCHANGED pc
    BY <2>1 DEF callers
  <2>3. Elems(control) \subseteq Elems(control')
    <3>1. CASE UNCHANGED control
      BY <3>1
    <3>2. CASE close_reg[w] # <<>> /\ ApplyClose(w)
      <4>1. control' = control \/ Elems(control) \subseteq Elems(control')
        BY <3>2, ApplyCloseFacts DEF ClosesApplied
      <4>. QED  BY <4>1
    <3>. QED  BY <2>1, <3>1, <3>2
  <2>. QED  BY <1>1, <2>1, <2>2, <2>3
<1>8. ASSUME NEW w \in Workers, PeerFrame(w) PROVE ResetsSent'
  <2>1. UNCHANGED <<callers, writer, cancelled>> /\ Elems(control) \subseteq Elems(control')
    BY <1>8, PeerKinds
  <2>2. UNCHANGED pc
    BY <2>1 DEF callers
  <2>. QED  BY <1>1, <2>1, <2>2
<1>9. CASE GoAway \/ UNCHANGED vars
  <2>1. UNCHANGED <<pc, writer, cancelled, control>>
    BY <1>9 DEF GoAway, vars, callers, channels
  <2>. QED  BY <1>1, <2>1
<1>10. CASE Cancel
  BY <1>10 DEF Cancel, ResetsSent
<1>. QED  BY <1>2, <1>3, <1>4, <1>5, <1>6, <1>7, <1>8, <1>9, <1>10 DEF Next

-----------------------------------------------------------------------------
(* The entries of the workers *)

\* The ids a Close may name.
DeadIds == {x \in Nat : Dead(x)}

\* Until a frame of the peer arrives, every live pair keeps its entries.
LEMMA LiveStep ==
  ASSUME Base, ClosesDead, LiveEntered, [Next]_vars, frames' = frames, ~cancelled'
  PROVE  LiveEntered'

\* A step that takes no entry from a live pair.
<1>LiveKept.
  ASSUME Base, Onward, LiveEntered,
         \A p \in Pairs : /\ pc'[p] \in HasError => pc[p] \in HasError \/ Entered(error_id[p])'
                          /\ pc'[p] \in HasData => pc[p] \in HasData \/ Entered(data_id(p))',
         \A p \in Pairs : \A id \in IdsOf(p) : pc[p] \notin Gone /\ Entered(id) => Entered(id)'
  PROVE  LiveEntered'
  <2> USE <1>LiveKept
  <2>1. \A p \in Pairs : HeldBy(p) /\ OnwardBy(p)
    BY BaseFacts DEF Callers, Held, Onward
  <2>2. /\ HasData \subseteq HasError /\ HasError \cap Gone = {}
        /\ HasError \subseteq Section \cup {"opened", "dropped"}
    BY DEF HasData, HasError, Gone, Section, Early
  <2>3. ASSUME NEW p \in Pairs, pc[p] \in HasError
        PROVE  /\ error_id[p] # 0 /\ error_id'[p] = error_id[p] /\ data_id(p)' = data_id(p)
               /\ pc[p] \notin Gone /\ error_id[p] \in IdsOf(p) /\ data_id(p) \in IdsOf(p)
    <3>1. error_id[p] # 0 /\ pc[p] \notin Gone
      BY <2>1, <2>2, <2>3 DEF HeldBy
    <3>2. error_id'[p] = error_id[p]
      BY <2>1, <3>1 DEF OnwardBy
    <3>. QED  BY <3>1, <3>2 DEF data_id, IdsOf
  <2>4. ASSUME NEW p \in Pairs, pc[p] \in HasError PROVE Entered(error_id[p])'
    <3>1. PICK id : id = error_id[p]
      OBVIOUS
    <3>e. Entered(id)
      <4>1. Entered(error_id[p])
        BY <2>4 DEF LiveEntered
      <4>. QED  BY <3>1, <4>1 DEF Entered
    <3>2. Entered(id)'
      BY <2>3, <2>4, <3>1, <3>e
    <3>. QED  BY <2>3, <2>4, <3>1, <3>2 DEF Entered
  <2>5. ASSUME NEW p \in Pairs, pc[p] \in HasData PROVE Entered(data_id(p))'
    <3>0. pc[p] \in HasError
      BY <2>2, <2>5
    <3>1. PICK id : id = data_id(p)
      OBVIOUS
    <3>e. Entered(id)
      <4>1. Entered(data_id(p))
        BY <2>5 DEF LiveEntered
      <4>. QED  BY <3>1, <4>1 DEF Entered
    <3>2. Entered(id)'
      BY <2>3, <3>0, <3>1, <3>e
    <3>. QED  BY <2>3, <3>0, <3>1, <3>2 DEF Entered
  <2>. QED  BY <2>4, <2>5 DEF LiveEntered

\* Registering a stream enters it and keeps the others.
<1>EnteredMore.
  ASSUME ChannelTypes, NEW n \in Ids, Register(n), streams' = streams
  PROVE  /\ Entered(n)' /\ \A x \in Nat : Entered(x) => Entered(x)'
  <2> USE <1>EnteredMore
  <2>1. /\ \A w \in Workers : w # WorkerOf(n) => reg'[w] = reg[w]
        /\ Elems(reg'[WorkerOf(n)]) = Elems(reg[WorkerOf(n)]) \cup {Msg("Open", n)}
    BY RegisterFacts
  <2>2. Entered(n)'
    BY <2>1 DEF Entered
  <2>3. ASSUME NEW x \in Nat, Entered(x) PROVE Entered(x)'
    <3>1. WorkerOf(x) \in Workers
      BY WorkerTypesOf
    <3>2. Elems(reg[WorkerOf(x)]) \subseteq Elems(reg'[WorkerOf(x)])
      BY <2>1, <3>1
    <3>. QED  BY <2>3, <3>2 DEF Entered
  <2>. QED  BY <2>2, <2>3

\* The ids of a pair are ids.
<1>IdsOfNat.
  ASSUME Callers, NEW p \in Pairs, NEW id \in IdsOf(p)
  PROVE  id \in Nat
  BY <1>IdsOfNat, IdTypes DEF IdsOf

\* realize_stream_pair on the entries.
<1>LiveRealize.
  ASSUME Base, Onward, LiveEntered, NEW p \in Pairs, Realize(p)
  PROVE  LiveEntered'
  <2> USE <1>LiveRealize
  <2>b. Callers /\ pc \in [Pairs -> Pcs] /\ HeldBy(p) /\ ChannelTypes
    BY BaseFacts DEF Callers, CallerTypes, Held
  <2>s. pc[p] \in Section /\ UNCHANGED <<streams, error_id>>
    BY DEF Realize, RegisterError, RegisterData, EnqueueOpen, ReservePermit,
                 CleanupRegistration, Section, Early, workers
  <2>i. error_id[p] \in Ids /\ data_id(p) \in Ids /\ data_id(p)' = data_id(p)
    BY <2>b, <2>s, IdTypes DEF HeldBy, data_id
  <2>k. /\ {"broken", "closeError", "closeData"} \cap (HasError \cup HasData) = {}
        /\ "registerData" \notin HasData /\ "registerData" \in HasError
        /\ "reserve" \in HasData /\ "reserve" \in HasError
        /\ "enqueueOpen" \in HasData /\ "enqueueOpen" \in HasError
    BY DEF HasData, HasError
  <2>n. \A q \in Pairs : \A id \in IdsOf(q) : id \in Nat
    BY <2>b, <1>IdsOfNat
  <2>1. CASE Register(error_id[p]) /\ pc' = [pc EXCEPT ![p] = "registerData"]
    <3>1. PICK n : n = error_id[p]
      OBVIOUS
    <3>2. Entered(n)' /\ \A x \in Nat : Entered(x) => Entered(x)'
      BY <2>1, <2>b, <2>i, <2>s, <3>1, <1>EnteredMore
    <3>3. Entered(error_id[p])'
      BY <2>s, <3>1, <3>2 DEF Entered
    <3>4. /\ \A q \in Pairs : pc'[q] \in HasError => pc[q] \in HasError \/ Entered(error_id[q])'
          /\ \A q \in Pairs : pc'[q] \in HasData => pc[q] \in HasData
      BY <2>1, <2>b, <2>k, <3>3
    <3>. QED  BY <2>n, <3>2, <3>4, <1>LiveKept
  <2>2. CASE /\ Register(data_id(p)) /\ pc' = [pc EXCEPT ![p] = "enqueueOpen"]
             /\ pc[p] = "registerData"
    <3>1. PICK n : n = data_id(p)
      OBVIOUS
    <3>2. Entered(n)' /\ \A x \in Nat : Entered(x) => Entered(x)'
      BY <2>2, <2>b, <2>i, <2>s, <3>1, <1>EnteredMore
    <3>3. Entered(data_id(p))'
      BY <2>i, <3>1, <3>2 DEF Entered
    <3>4. /\ \A q \in Pairs : pc'[q] \in HasError => pc[q] \in HasError
          /\ \A q \in Pairs : pc'[q] \in HasData => pc[q] \in HasData \/ Entered(data_id(q))'
      BY <2>2, <2>b, <2>k, <3>3
    <3>. QED  BY <2>n, <3>2, <3>4, <1>LiveKept
  <2>3. CASE /\ UNCHANGED reg
             /\ \/ pc' = pc
                \/ /\ pc[p] \in HasData /\ pc[p] \in HasError
                   /\ \E l : pc' = [pc EXCEPT ![p] = l]
                \/ \E l : l \notin HasError \cup HasData /\ pc' = [pc EXCEPT ![p] = l]
    <3>1. \A x : Entered(x) => Entered(x)'
      BY <2>3, <2>s DEF Entered
    <3>2. ASSUME NEW q \in Pairs
          PROVE  /\ pc'[q] \in HasError => pc[q] \in HasError
                 /\ pc'[q] \in HasData => pc[q] \in HasData
      <4>1. CASE q = p
        BY <2>3, <2>b, <4>1
      <4>2. CASE q # p
        BY <2>3, <2>b, <4>2
      <4>. QED  BY <4>1, <4>2
    <3>. QED  BY <3>1, <3>2, <1>LiveKept
  <2>4. CASE RegisterError(p) \/ RegisterData(p)
    BY <2>1, <2>2, <2>3, <2>4, <2>k DEF RegisterError, RegisterData, Goto, Fail
  <2>5. CASE EnqueueOpen(p) \/ ReservePermit(p) \/ CleanupRegistration(p)
    BY <2>3, <2>5, <2>k DEF EnqueueOpen, ReservePermit, CleanupRegistration, Goto, Fail,
                                   channels
  <2>. QED  BY <2>4, <2>5 DEF Realize

\* The worker removes no entry of a live pair.
<1>LiveWorker.
  ASSUME Base, Onward, ClosesDead, LiveEntered, NEW w \in Workers, WorkerStep(w)
  PROVE  LiveEntered'
  <2> USE <1>LiveWorker
  <2>b. /\ Callers /\ ChannelTypes /\ WorkerTypes
        /\ close_reg \in [Workers -> Seq(CloseRegMsg)]
    BY BaseFacts
  <2>0. /\ UNCHANGED <<callers, cmd, writer, peer, cancelled>>
        /\ \/ close_reg[w] # <<>> /\ ApplyClose(w) /\ UNCHANGED reg
           \/ reg[w] # <<>> /\ ApplyOpen(w) /\ UNCHANGED <<close_reg, control>>
           \/ UNCHANGED <<streams, reg, close_reg, control>>
    BY <2>b, WorkerKinds
  <2>1. UNCHANGED pc
    BY <2>0 DEF callers
  <2>2. CASE close_reg[w] # <<>> /\ ApplyClose(w) /\ UNCHANGED reg
    <3>1. PICK m : m = Head(close_reg[w])
      OBVIOUS
    <3>2. m \in Elems(close_reg[w])
      <4>1. close_reg[w] \in Seq(CloseRegMsg)
        BY <2>b
      <4>. QED  BY <2>2, <3>1, <4>1, Receiving DEF Taken
    <3>3. m.kind = "Close" /\ Dead(m.id)
      BY <3>2 DEF ClosesDead
    <3>4. m.kind # "GoAway"
      BY <3>3
    <3>5. streams' = streams \ {m.id}
      BY <2>2, <3>1, <3>4, ApplyCloseFacts DEF ClosesApplied
    <3>6. ASSUME NEW p \in Pairs, NEW id \in IdsOf(p), pc[p] \notin Gone, Entered(id)
          PROVE  Entered(id)'
      <4>1. id # m.id
        BY <3>3, <3>6 DEF Dead
      <4>. QED  BY <2>2, <3>5, <3>6, <4>1 DEF Entered
    <3>. QED  BY <2>1, <3>6, <1>LiveKept
  <2>3. CASE reg[w] # <<>> /\ ApplyOpen(w) /\ UNCHANGED <<close_reg, control>>
    <3>1. PICK m : m = Head(reg[w])
      OBVIOUS
    <3>2. /\ streams' = streams \cup {m.id}
          /\ \A v \in Workers : v # w => reg'[v] = reg[v]
          /\ Elems(reg[w]) = {m} \cup Elems(reg'[w])
      BY <2>3, <2>b, <3>1, ApplyOpenFacts
    <3>3. ASSUME NEW id \in Nat, Entered(id) PROVE Entered(id)'
      <4>1. CASE id \in streams
        BY <3>2, <4>1 DEF Entered
      <4>2. CASE Msg("Open", id) \in Elems(reg[WorkerOf(id)]) /\ Msg("Open", id) = m
        <5>1. id = m.id
          BY <4>2 DEF Msg
        <5>. QED  BY <3>2, <5>1 DEF Entered
      <4>3. CASE Msg("Open", id) \in Elems(reg[WorkerOf(id)]) /\ Msg("Open", id) # m
        <5>1. WorkerOf(id) \in Workers
          BY WorkerTypesOf
        <5>2. Msg("Open", id) \in Elems(reg'[WorkerOf(id)])
          BY <3>2, <4>3, <5>1
        <5>. QED  BY <5>2 DEF Entered
      <4>. QED  BY <3>3, <4>1, <4>2, <4>3 DEF Entered
    <3>4. \A q \in Pairs : \A id \in IdsOf(q) : id \in Nat
      BY <2>b, <1>IdsOfNat
    <3>. QED  BY <2>1, <3>3, <3>4, <1>LiveKept
  <2>4. CASE UNCHANGED <<streams, reg, close_reg, control>>
    <3>1. \A x : Entered(x) => Entered(x)'
      BY <2>4 DEF Entered
    <3>. QED  BY <2>1, <3>1, <1>LiveKept
  <2>. QED  BY <2>0, <2>2, <2>3, <2>4
<1>b. Callers /\ Onward /\ pc \in [Pairs -> Pcs] /\ frames \in Nat
  <2>1. frames \in 0 .. MaxFrames
    BY BaseFacts DEF WorkerTypes
  <2>2. frames \in Nat
    BY <2>1, LifecycleAssumption, SMT
  <2>. QED  BY <2>2, BaseFacts, OnwardStep DEF Callers, CallerTypes
<1>k. {"broken", "registerError", "dropped"} \cap (HasError \cup HasData) = {}
  BY DEF HasError, HasData
<1>1. ASSUME UNCHANGED <<workers, reg>>,
             \A p \in Pairs : /\ pc'[p] \in HasError => pc[p] \in HasError
                              /\ pc'[p] \in HasData => pc[p] \in HasData
      PROVE  LiveEntered'
  <2>1. \A x : Entered(x) => Entered(x)'
    BY <1>1 DEF Entered, workers
  <2>. QED  BY <1>1, <1>b, <2>1, <1>LiveKept
<1>2. ASSUME NEW p \in Pairs, AllocateIds(p) PROVE LiveEntered'
  <2>1. /\ UNCHANGED <<workers, reg>>
        /\ pc' = [pc EXCEPT ![p] = "broken"] \/ pc' = [pc EXCEPT ![p] = "registerError"]
    BY <1>2 DEF AllocateIds, Fail, Goto
  <2>2. \A q \in Pairs : /\ pc'[q] \in HasError => pc[q] \in HasError
                         /\ pc'[q] \in HasData => pc[q] \in HasData
    BY <1>b, <1>k, <2>1
  <2>. QED  BY <1>1, <2>1, <2>2
<1>3. ASSUME NEW p \in Pairs, StreamGuardDrop(p) PROVE LiveEntered'
  <2>1. UNCHANGED <<workers, reg>> /\ pc' = [pc EXCEPT ![p] = "dropped"]
    BY <1>3 DEF StreamGuardDrop, Goto
  <2>2. \A q \in Pairs : /\ pc'[q] \in HasError => pc[q] \in HasError
                         /\ pc'[q] \in HasData => pc[q] \in HasData
    BY <1>b, <1>k, <2>1
  <2>. QED  BY <1>1, <2>1, <2>2
<1>4. ASSUME NEW p \in Pairs, Write(p) \/ Shutdown(p) PROVE LiveEntered'
  BY <1>1, <1>4 DEF Write, Shutdown
<1>5. ASSUME NEW p \in Pairs, Realize(p) PROVE LiveEntered'
  BY <1>5, <1>b, <1>LiveRealize
<1>6. CASE WriterStep
  <2>1. UNCHANGED <<callers, workers, reg>>
    BY <1>6, WriterKinds
  <2>. QED  BY <1>1, <2>1 DEF callers
<1>7. ASSUME NEW w \in Workers, WorkerStep(w) PROVE LiveEntered'
  BY <1>7, <1>b, <1>LiveWorker
<1>8. frames' # frames + 1
  BY <1>b, SMT
<1>9. CASE UNCHANGED vars
  <2>1. UNCHANGED <<callers, workers, reg>>
    BY <1>9 DEF vars, channels
  <2>. QED  BY <1>1, <2>1 DEF callers
<1>10. ~GoAway /\ ~Cancel /\ \A w \in Workers : ~PeerFrame(w)
  BY <1>8 DEF GoAway, Cancel, PeerFrame
<1>. QED  BY <1>2, <1>3, <1>4, <1>5, <1>6, <1>7, <1>9, <1>10 DEF Next

\* Until a frame of the peer arrives, only dead streams are closed.
LEMMA ClosesStep ==
  ASSUME Base, Base', ClosesDead, [Next]_vars, frames' = frames, ~cancelled'
  PROVE  ClosesDead'

\* A dead stream stays dead: its id is not given again.
<1>DeadStays.
  ASSUME Callers, Callers', Onward, NEW id \in Nat, Dead(id)
  PROVE  Dead(id)'
  <2> USE <1>DeadStays
  <2>0. next_stream_id \in Nat /\ next_stream_id' \in Nat /\ next_stream_id <= next_stream_id'
        /\ id < next_stream_id
    BY DEF Callers, CallerTypes, Onward, Dead
  <2>1. id < next_stream_id'
    BY <2>0, SMT
  <2>2. ASSUME NEW p \in Pairs, id \in IdsOf(p)' PROVE pc'[p] \in Gone
    <3>0. OnwardBy(p)
      BY DEF Onward
    <3>1. error_id'[p] # 0 /\ (id = error_id'[p] \/ id = error_id'[p] + 2)
      BY <2>2 DEF IdsOf, data_id
    <3>2. error_id'[p] # next_stream_id
      BY <2>0, <3>1, SMT
    <3>3. error_id'[p] = error_id[p]
      BY <3>0, <3>2 DEF OnwardBy
    <3>4. id \in IdsOf(p)
      BY <3>1, <3>3 DEF IdsOf, data_id
    <3>. QED  BY <3>0, <3>4 DEF Dead, OnwardBy
  <2>. QED  BY <2>1, <2>2 DEF Dead

\* The streams of a pair that is gone are dead.
<1>DeadNow.
  ASSUME Callers', NEW p \in Pairs, error_id'[p] # 0, pc'[p] \in Gone,
         NEW id, id = error_id'[p] \/ id = error_id'[p] + 2
  PROVE  Dead(id)'
  <2> USE <1>DeadNow
  <2>1. /\ error_id' \in [Pairs -> 0 .. MAX_STREAM_ID] /\ next_stream_id' \in Nat
        /\ error_id'[p] + 4 <= next_stream_id'
        /\ \A q \in Pairs : p # q /\ error_id'[q] # 0 =>
             error_id'[p] + 4 <= error_id'[q] \/ error_id'[q] + 4 <= error_id'[p]
    BY DEF Callers, CallerTypes, Apart
  <2>2. error_id'[p] \in Nat
    BY <2>1, SMT
  <2>3. id < next_stream_id'
    <3>1. error_id'[p] + 4 <= next_stream_id' /\ next_stream_id' \in Nat
      BY <2>1
    <3>. QED  BY <2>2, <3>1, SMT
  <2>4. ASSUME NEW q \in Pairs, id \in IdsOf(q)', q # p PROVE FALSE
    <3>1. error_id'[q] # 0 /\ (id = error_id'[q] \/ id = error_id'[q] + 2)
      BY <2>4 DEF IdsOf, data_id
    <3>2. error_id'[q] \in Nat
      BY <2>1, SMT
    <3>3. error_id'[p] + 4 <= error_id'[q] \/ error_id'[q] + 4 <= error_id'[p]
      BY <2>1, <2>4, <3>1
    <3>. QED  BY <2>2, <3>1, <3>2, <3>3, SMT
  <2>5. \A q \in Pairs : id \in IdsOf(q)' => pc'[q] \in Gone
    BY <2>4
  <2>. QED  BY <2>3, <2>5 DEF Dead

\* What ClosesDead says of the channels and of pending_closes, as a type.
<1>DeadTyped.
  ASSUME Base, ClosesDead, NEW D, DeadIds \subseteq D,
         NEW M, M = {m \in CloseRegMsg : m.kind = "Close" /\ m.id \in D}
  PROVE  /\ close_reg \in [Workers -> Seq(M)] /\ pending_closes \in Seq(D)
         /\ \A m \in Elems(control) : m.kind = "CloseStream" => m.id \in D
  <2> USE <1>DeadTyped
  <2>b. /\ close_reg \in [Workers -> Seq(CloseRegMsg)] /\ pending_closes \in Seq(Nat)
        /\ control \in Seq(ControlMsg)
    BY BaseFacts DEF WriterTypes, Roomy
  <2>1. ASSUME NEW w \in Workers PROVE close_reg[w] \in Seq(M)
    <3>1. close_reg[w] \in Seq(CloseRegMsg)
      BY <2>b
    <3>2. Elems(close_reg[w]) \subseteq CloseRegMsg
      BY <3>1, Messages
    <3>3. \A m \in CloseRegMsg : m.id \in Nat
      BY DEF CloseRegMsg
    <3>4. Elems(close_reg[w]) \subseteq M
      BY <3>2, <3>3 DEF ClosesDead, DeadIds
    <3>. QED  BY <3>1, <3>4, Typed
  <2>2. close_reg \in [Workers -> Seq(M)]
    BY <2>1, <2>b
  <2>3. pending_closes \in Seq(D)
    <3>1. Elems(pending_closes) \subseteq Nat
      BY <2>b, Messages
    <3>2. Elems(pending_closes) \subseteq D
      BY <3>1 DEF ClosesDead, DeadIds
    <3>. QED  BY <2>b, <3>2, Typed
  <2>4. ASSUME NEW m \in Elems(control), m.kind = "CloseStream" PROVE m.id \in D
    <3>1. m \in ControlMsg
      BY <2>b, Messages
    <3>2. m.id \in Nat
      BY <2>4, <3>1 DEF ControlMsg
    <3>. QED  BY <2>4, <3>2 DEF ClosesDead, DeadIds
  <2>. QED  BY <2>2, <2>3, <2>4

\* The converse, in the next state.
<1>DeadNext.
  ASSUME NEW D, D = DeadIds', NEW M, M = {m \in CloseRegMsg : m.kind = "Close" /\ m.id \in D},
         close_reg' \in [Workers -> Seq(M)], pending_closes' \in Seq(D),
         \A m \in Elems(control') : m.kind = "CloseStream" => m.id \in D
  PROVE  ClosesDead'
  <2> USE <1>DeadNext
  <2>1. \A x \in D : Dead(x)'
    BY DEF DeadIds
  <2>2. ASSUME NEW w \in Workers, NEW m \in Elems(close_reg'[w])
        PROVE  m.kind = "Close" /\ Dead(m.id)'
    <3>1. close_reg'[w] \in Seq(M)
      OBVIOUS
    <3>2. m \in M
      BY <3>1, Messages
    <3>. QED  BY <2>1, <3>2
  <2>3. Elems(pending_closes') \subseteq D
    BY Messages
  <2>. QED  BY <2>1, <2>2, <2>3 DEF ClosesDead

\* realize_stream_pair closes only the streams of the pair that fails.
<1>ClosesRealize.
  ASSUME Base, Base', Onward, NEW p \in Pairs, Realize(p), NEW D, D = DeadIds',
         NEW M, M = {m \in CloseRegMsg : m.kind = "Close" /\ m.id \in D},
         close_reg \in [Workers -> Seq(M)]
  PROVE  close_reg' \in [Workers -> Seq(M)]
  <2> USE <1>ClosesRealize
  <2>b. Callers /\ Callers' /\ pc \in [Pairs -> Pcs] /\ HeldBy(p)
    BY BaseFacts DEF Base, Callers, CallerTypes, Held
  <2>s. pc[p] \in Section /\ UNCHANGED error_id
    BY DEF Realize, RegisterError, RegisterData, EnqueueOpen, ReservePermit,
                 CleanupRegistration, Section, Early
  <2>i. error_id[p] # 0 /\ error_id[p] \in Nat /\ data_id(p) \in Nat
    BY <2>b, <2>s, IdTypes DEF HeldBy
  <2>1. \/ close_reg' = close_reg
        \/ /\ \/ close_reg' = TrySendClose(close_reg, error_id[p])
              \/ close_reg' = TrySendClose(close_reg, data_id(p))
           /\ pc' = [pc EXCEPT ![p] = "broken"] \/ pc' = [pc EXCEPT ![p] = "closeData"]
    BY DEF Realize, RegisterError, RegisterData, EnqueueOpen, ReservePermit,
                 CleanupRegistration, Goto, Fail, channels
  <2>2. ASSUME NEW id \in Nat, id = error_id[p] \/ id = data_id(p),
               close_reg' = TrySendClose(close_reg, id),
               pc' = [pc EXCEPT ![p] = "broken"] \/ pc' = [pc EXCEPT ![p] = "closeData"]
        PROVE  close_reg' \in [Workers -> Seq(M)]
    <3>1. "broken" \in Gone /\ "closeData" \in Gone
      BY DEF Gone
    <3>2. pc'[p] \in Gone
      BY <2>2, <2>b, <3>1
    <3>3. id = error_id'[p] \/ id = error_id'[p] + 2
      BY <2>2, <2>s DEF data_id
    <3>4. Dead(id)'
      BY <2>b, <2>i, <2>s, <3>2, <3>3, <1>DeadNow
    <3>5. id \in D
      BY <3>4 DEF DeadIds
    <3>6. Msg("Close", id) \in M
      BY <3>5 DEF Msg, CloseRegMsg
    <3>. QED  BY <2>2, <3>6, TrySendCloseFacts
  <2>3. CASE close_reg' = close_reg
    BY <2>3
  <2>. QED  BY <2>1, <2>2, <2>3, <2>i

\* StreamGuard::drop closes the streams of the pair it belongs to.
<1>ClosesDrop.
  ASSUME Base, Base', Onward, NEW p \in Pairs, StreamGuardDrop(p), NEW D, D = DeadIds',
         NEW M, M = {m \in CloseRegMsg : m.kind = "Close" /\ m.id \in D},
         close_reg \in [Workers -> Seq(M)],
         \A m \in Elems(control) : m.kind = "CloseStream" => m.id \in D
  PROVE  /\ close_reg' \in [Workers -> Seq(M)]
         /\ \A m \in Elems(control') : m.kind = "CloseStream" => m.id \in D
  <2> USE <1>ClosesDrop
  <2>b. Callers /\ Callers' /\ pc \in [Pairs -> Pcs] /\ HeldBy(p) /\ control \in Seq(ControlMsg)
    BY BaseFacts DEF Base, Callers, CallerTypes, Held, Roomy
  <2>0. /\ pc[p] = "opened" /\ pc' = [pc EXCEPT ![p] = "dropped"] /\ UNCHANGED error_id
        /\ control' = control \/ control' = Append(control, Msg("CloseStream", data_id(p)))
        /\ \/ close_reg' = close_reg
           \/ close_reg' = SendClose(SendClose(close_reg, error_id[p]), data_id(p))
    BY DEF StreamGuardDrop, Goto
  <2>i. error_id[p] # 0 /\ error_id[p] \in Nat /\ data_id(p) \in Nat /\ data_id(p) = error_id[p] + 2
    BY <2>0, <2>b, IdTypes DEF HeldBy, data_id
  <2>1. pc'[p] \in Gone
    <3>1. "dropped" \in Gone
      BY DEF Gone
    <3>. QED  BY <2>0, <2>b, <3>1
  <2>2. error_id[p] \in D /\ data_id(p) \in D
    <3>1. ASSUME NEW id \in Nat, id = error_id'[p] \/ id = error_id'[p] + 2 PROVE id \in D
      <4>1. error_id'[p] # 0
        BY <2>0, <2>i
      <4>2. Dead(id)'
        BY <2>1, <2>b, <3>1, <4>1, <1>DeadNow
      <4>. QED  BY <4>2 DEF DeadIds
    <3>. QED  BY <2>0, <2>i, <3>1
  <2>3. Msg("Close", error_id[p]) \in M /\ Msg("Close", data_id(p)) \in M
        /\ Msg("CloseStream", data_id(p)) \in ControlMsg
        /\ Msg("CloseStream", data_id(p)).id = data_id(p)
    BY <2>2, <2>i, SMT DEF Msg, CloseRegMsg, ControlMsg
  <2>4. close_reg' \in [Workers -> Seq(M)]
    <3>1. SendClose(close_reg, error_id[p]) \in [Workers -> Seq(M)]
      BY <2>3, <2>i, SendCloseFacts
    <3>2. SendClose(SendClose(close_reg, error_id[p]), data_id(p)) \in [Workers -> Seq(M)]
      BY <2>3, <2>i, <3>1, SendCloseFacts
    <3>. QED  BY <2>0, <3>2
  <2>5. ASSUME NEW m \in Elems(control'), m.kind = "CloseStream" PROVE m.id \in D
    <3>1. Elems(Append(control, Msg("CloseStream", data_id(p))))
            = Elems(control) \cup {Msg("CloseStream", data_id(p))}
      <4>1. Sent(control, Msg("CloseStream", data_id(p)))
        BY <2>3, <2>b, Sending
      <4>. QED  BY <4>1 DEF Sent
    <3>2. m \in Elems(control) \/ m = Msg("CloseStream", data_id(p))
      BY <2>0, <2>5, <3>1
    <3>3. CASE m \in Elems(control)
      BY <2>5, <3>3
    <3>4. CASE m = Msg("CloseStream", data_id(p))
      BY <2>2, <2>3, <3>4
    <3>. QED  BY <3>2, <3>3, <3>4
  <2>. QED  BY <2>4, <2>5

\* The writer defers only the closes of the streams it resets.
<1>ClosesWriter.
  ASSUME Base, WriterStep, NEW D, D \subseteq Nat,
         NEW M, M = {m \in CloseRegMsg : m.kind = "Close" /\ m.id \in D},
         close_reg \in [Workers -> Seq(M)], pending_closes \in Seq(D),
         \A m \in Elems(control) : m.kind = "CloseStream" => m.id \in D
  PROVE  /\ close_reg' \in [Workers -> Seq(M)] /\ pending_closes' \in Seq(D)
         /\ \A m \in Elems(control') : m.kind = "CloseStream" => m.id \in D
  <2> USE <1>ClosesWriter
  <2>b. Roomy(control) /\ Covered(close_reg)
    BY BaseFacts
  <2>1. \/ /\ control # <<>> /\ Emit(Head(control)) /\ control' = Tail(control)
           /\ UNCHANGED close_reg
        \/ UNCHANGED <<control, close_reg, pending_closes>>
        \/ Cmds # <<>> /\ Emit(Head(Cmds)) /\ UNCHANGED <<control, close_reg>>
        \/ UNCHANGED control /\ close_reg' = Deferred.q /\ pending_closes' = Deferred.kept
    BY WriterKinds
  <2>2. CASE /\ control # <<>> /\ Emit(Head(control)) /\ control' = Tail(control)
             /\ UNCHANGED close_reg
    <3>1. PICK h : h = Head(control)
      OBVIOUS
    <3>2. Elems(control) = {h} \cup Elems(control')
      BY <2>2, <2>b, <3>1, Receiving DEF Taken, Roomy
    <3>3. h.kind = "CloseStream" => h.id \in D
      BY <3>2
    <3>4. pending_closes' = IF h.kind = "CloseStream" THEN Append(pending_closes, h.id)
                            ELSE pending_closes
      BY <2>2, <3>1 DEF Emit
    <3>5. pending_closes' \in Seq(D)
      BY <3>3, <3>4, Sending
    <3>. QED  BY <2>2, <3>2, <3>5
  <2>3. CASE UNCHANGED <<control, close_reg, pending_closes>>
    BY <2>3
  <2>4. CASE Cmds # <<>> /\ Emit(Head(Cmds)) /\ UNCHANGED <<control, close_reg>>
    <3>1. PICK h : h = Head(Cmds)
      OBVIOUS
    <3>2. h \in CmdMsg
      BY <2>4, <3>1, CmdsTypes, Receiving
    <3>3. h.kind # "CloseStream"
      BY <3>2 DEF CmdMsg, Kinds
    <3>4. pending_closes' = pending_closes
      BY <2>4, <3>1, <3>3 DEF Emit
    <3>. QED  BY <2>4, <3>4
  <2>5. CASE UNCHANGED control /\ close_reg' = Deferred.q /\ pending_closes' = Deferred.kept
    <3>1. \A x \in D : Msg("Close", x) \in M
      BY DEF Msg, CloseRegMsg
    <3>2. Deferred.q \in [Workers -> Seq(M)] /\ Deferred.kept \in Seq(D)
      BY <2>b, <3>1 DEF Base, Counted, DeferredKeeps
    <3>. QED  BY <2>5, <3>2
  <2>. QED  BY <2>1, <2>2, <2>3, <2>4, <2>5
<1>b. /\ Callers /\ Callers' /\ Onward /\ frames \in Nat /\ Roomy(control)
      /\ control \in Seq(ControlMsg)
  <2>1. frames \in 0 .. MaxFrames
    BY BaseFacts DEF WorkerTypes
  <2>2. frames \in Nat
    BY <2>1, LifecycleAssumption, SMT
  <2>. QED  BY <2>2, BaseFacts, OnwardStep DEF Base, Roomy
<1>d. PICK D : D = DeadIds'
  OBVIOUS
<1>m. PICK M : M = {m \in CloseRegMsg : m.kind = "Close" /\ m.id \in D}
  OBVIOUS
<1>1. DeadIds \subseteq D /\ D \subseteq Nat
  <2>1. \A x \in Nat : Dead(x) => Dead(x)'
    BY <1>b, <1>DeadStays
  <2>. QED  BY <1>d, <2>1 DEF DeadIds
<1>t. /\ close_reg \in [Workers -> Seq(M)] /\ pending_closes \in Seq(D)
      /\ \A m \in Elems(control) : m.kind = "CloseStream" => m.id \in D
  BY <1>1, <1>m, <1>DeadTyped
<1>u. ASSUME UNCHANGED <<close_reg, pending_closes, control>> PROVE ClosesDead'
  BY <1>d, <1>m, <1>t, <1>u, <1>DeadNext
<1>2. ASSUME NEW p \in Pairs, AllocateIds(p) PROVE ClosesDead'
  <2>0. PICK g : g = Msg("GoAway", next_stream_id - 2)
    OBVIOUS
  <2>1. /\ UNCHANGED <<close_reg, pending_closes>>
        /\ control' = control \/ control' = TrySendControl(g)
    BY <1>2, <2>0 DEF AllocateIds, writer
  <2>2. g \in ControlMsg /\ g.kind # "CloseStream"
    BY <1>b, <2>0, SMT DEF Msg, ControlMsg, Callers, CallerTypes
  <2>3. control' = control \/ control' = Append(control, g)
    BY <1>b, <2>1, <2>2, TrySendControlFacts
  <2>4. Elems(Append(control, g)) = Elems(control) \cup {g}
    BY <1>b, <2>2, Sending DEF Sent
  <2>5. \A m \in Elems(control') : m.kind = "CloseStream" => m.id \in D
    <3>1. CASE control' = control
      BY <1>t, <3>1
    <3>2. CASE control' = Append(control, g)
      BY <1>t, <2>2, <2>4, <3>2
    <3>. QED  BY <2>3, <3>1, <3>2
  <2>. QED  BY <1>d, <1>m, <1>t, <2>1, <2>5, <1>DeadNext
<1>3. ASSUME NEW p \in Pairs, Realize(p) PROVE ClosesDead'
  <2>1. UNCHANGED <<control, pending_closes>>
    BY <1>3 DEF Realize, RegisterError, RegisterData, EnqueueOpen, ReservePermit,
                       CleanupRegistration, channels, writer
  <2>2. close_reg' \in [Workers -> Seq(M)]
    BY <1>3, <1>b, <1>d, <1>m, <1>t, <1>ClosesRealize
  <2>. QED  BY <1>d, <1>m, <1>t, <2>1, <2>2, <1>DeadNext
<1>4. ASSUME NEW p \in Pairs, Write(p) \/ Shutdown(p) PROVE ClosesDead'
  BY <1>4, <1>u DEF Write, Shutdown, writer
<1>5. ASSUME NEW p \in Pairs, StreamGuardDrop(p) PROVE ClosesDead'
  <2>1. UNCHANGED pending_closes
    BY <1>5 DEF StreamGuardDrop, writer
  <2>2. /\ close_reg' \in [Workers -> Seq(M)]
        /\ \A m \in Elems(control') : m.kind = "CloseStream" => m.id \in D
    BY <1>5, <1>b, <1>d, <1>m, <1>t, <1>ClosesDrop
  <2>. QED  BY <1>d, <1>m, <1>t, <2>1, <2>2, <1>DeadNext
<1>6. CASE WriterStep
  <2>1. /\ close_reg' \in [Workers -> Seq(M)] /\ pending_closes' \in Seq(D)
        /\ \A m \in Elems(control') : m.kind = "CloseStream" => m.id \in D
    BY <1>1, <1>6, <1>m, <1>t, <1>ClosesWriter
  <2>. QED  BY <1>d, <1>m, <2>1, <1>DeadNext
<1>7. ASSUME NEW w \in Workers, WorkerStep(w) PROVE ClosesDead'
  <2>1. /\ UNCHANGED writer
        /\ \/ close_reg[w] # <<>> /\ ApplyClose(w)
           \/ UNCHANGED <<close_reg, control>>
    BY <1>7, BaseFacts, WorkerKinds
  <2>2. UNCHANGED pending_closes
    BY <2>1 DEF writer
  <2>3. CASE UNCHANGED <<close_reg, control>>
    BY <1>u, <2>2, <2>3
  <2>4. CASE close_reg[w] # <<>> /\ ApplyClose(w)
    <3>1. close_reg' = [close_reg EXCEPT ![w] = Tail(@)]
      BY <2>4 DEF ApplyClose
    <3>2. close_reg' \in [Workers -> Seq(M)] /\ Head(close_reg[w]) \in M
      BY <1>t, <2>4, <3>1, TakeClose
    <3>3. PICK h : h = Head(close_reg[w])
      OBVIOUS
    <3>4. h.kind = "Close"
      BY <1>m, <3>2, <3>3
    <3>5. h.kind # "GoAway"
      BY <3>4
    <3>6. control' = control
      BY <2>4, <3>3, <3>5, ApplyCloseFacts DEF ClosesApplied
    <3>. QED  BY <1>d, <1>m, <1>t, <2>2, <3>2, <3>6, <1>DeadNext
  <2>. QED  BY <2>1, <2>3, <2>4
<1>8. frames' # frames + 1
  BY <1>b, SMT
<1>9. CASE UNCHANGED vars
  BY <1>9, <1>u DEF vars, channels, writer
<1>10. ~GoAway /\ ~Cancel /\ \A w \in Workers : ~PeerFrame(w)
  BY <1>8 DEF GoAway, Cancel, PeerFrame
<1>. QED  BY <1>2, <1>3, <1>4, <1>5, <1>6, <1>7, <1>9, <1>10 DEF Next

\* frames counts up, and the end of the session is final.
LEMMA OnceStarted ==
  ASSUME Base, [Next]_vars
  PROVE  /\ frames' = 0 => frames = 0
         /\ ~cancelled' => ~cancelled
<1>1. frames \in Nat
  <2>1. frames \in 0 .. MaxFrames
    BY BaseFacts DEF WorkerTypes
  <2>. QED  BY <2>1, LifecycleAssumption, SMT
<1>2. (frames' = frames /\ cancelled' = cancelled) \/ frames' = frames + 1 \/ Cancel
  BY DEF Next, AllocateIds, Realize, RegisterError, RegisterData, EnqueueOpen, ReservePermit,
               CleanupRegistration, Write, Shutdown, StreamGuardDrop, WriterStep, WriterControl,
               WriterTake, WriterDrain, WriterRunTaken, WriterBatch, WriterFlush, WorkerStep,
               WorkerCloses, WorkerOpens, WorkerSelect, PeerFrame, GoAway, vars, peer
<1>3. frames' = frames + 1 => frames' # 0
  BY <1>1, SMT
<1>4. Cancel => ~cancelled /\ frames' = frames
  BY DEF Cancel, peer
<1>5. ~cancelled' => ~cancelled
  BY DEF Next, AllocateIds, Realize, RegisterError, RegisterData, EnqueueOpen, ReservePermit,
               CleanupRegistration, Write, Shutdown, StreamGuardDrop, WriterStep, WriterControl,
               WriterTake, WriterDrain, WriterRunTaken, WriterBatch, WriterFlush, WorkerStep,
               WorkerCloses, WorkerOpens, WorkerSelect, PeerFrame, GoAway, Cancel, vars
<1>. QED  BY <1>2, <1>3, <1>4, <1>5

-----------------------------------------------------------------------------
(* Induction *)

\* A session starts with empty channels and no ids given.
LEMMA InitInv ==
  ASSUME FiniteLaws, Init
  PROVE  Inv
<1>0. /\ pc = [p \in Pairs |-> "unopened"] /\ error_id = [p \in Pairs |-> 0]
      /\ permits = [p \in Pairs |-> 0] /\ graceful = [p \in Pairs |-> FALSE]
      /\ writes = [p \in Pairs |-> 0] /\ open_seq = None /\ next_stream_id \in FirstIds
      /\ cmd = <<>> /\ control = <<>> /\ wire = <<>> /\ pending_closes = <<>>
      /\ reg = [w \in Workers |-> <<>>] /\ close_reg = [w \in Workers |-> <<>>]
      /\ streams = {} /\ workerAt = [w \in Workers |-> "closes"] /\ writerAt = "select"
      /\ taken = Msg(None, 0) /\ goaway_received = FALSE /\ cancelled = FALSE /\ frames = 0
  BY DEF Init
<1>a. /\ next_stream_id \in Nat /\ next_stream_id > 0 /\ 0 \in 0 .. MAX_STREAM_ID
      /\ 0 \in 0 .. MaxWrites /\ 0 \in 0 .. MaxFrames /\ 0 \in 0 .. 4 /\ None \notin Pairs
      /\ ControlCap \in Nat /\ CloseRegCap \in Nat
  BY <1>0, LifecycleAssumption, SMT DEF None
<1>k. /\ "unopened" \in Pcs \ (Section \cup Early \cup Known \cup HasError \cup HasData)
      /\ "unopened" \notin {"opened", "dropped", "reserve"} /\ "select" # "drain"
      /\ \A S : <<>> \in Seq(S)
  BY SMT DEF Pcs, Section, Early, Known, HasError, HasData
<1>1. Callers
  <2>1. CallerTypes
    BY <1>0, <1>a, <1>k DEF CallerTypes
  <2>2. Held
    <3>1. ASSUME NEW p \in Pairs PROVE HeldBy(p)
      <4>1. /\ pc[p] = "unopened" /\ error_id[p] = 0 /\ permits[p] = 0 /\ ~graceful[p]
            /\ open_seq # p
        BY <1>0, <1>a
      <4>. QED  BY <1>k, <4>1 DEF HeldBy
    <3>. QED  BY <3>1 DEF Held
  <2>3. Apart
    BY <1>0, <1>a DEF Apart
  <2>. QED  BY <2>1, <2>2, <2>3 DEF Callers
<1>2. Types
  <2>1. ChannelTypes
    BY <1>0, <1>k DEF ChannelTypes
  <2>2. WriterTypes
    BY <1>0, <1>k DEF WriterTypes
  <2>3. WorkerTypes
    BY <1>0, <1>a DEF WorkerTypes
  <2>. QED  BY <2>1, <2>2, <2>3 DEF Types
<1>3. PermitsCovered
  <2>1. ControlSet = {} /\ \A w : ErrorSet(w) = {} /\ DataSet(w) = {}
    <3>0. \A p \in Pairs : permits[p] = 0
      BY <1>0
    <3>1. ~(0 >= 1) /\ ~(0 >= 2) /\ ~(0 >= 3) /\ 0 # 4
      BY SMT
    <3>2. ControlSet = {}
      BY <3>0, <3>1 DEF ControlSet
    <3>3. \A w : ErrorSet(w) = {} /\ DataSet(w) = {}
      BY <3>0, <3>1 DEF ErrorSet, DataSet
    <3>. QED  BY <3>2, <3>3
  <2>2. Cardinality({}) = 0
    BY DEF FiniteLaws
  <2>3. ControlPermits = 0
    BY <2>1, <2>2 DEF ControlPermits, ControlSet
  <2>4. \A w : CloseRegPermits(w) = 0 + 0
    BY <2>1, <2>2 DEF CloseRegPermits, ErrorSet, DataSet
  <2>5. Len(<<>>) = 0 /\ 0 + 0 <= ControlCap /\ 0 + (0 + 0) <= CloseRegCap
    BY <1>a, SMT
  <2>. QED  BY <1>0, <2>3, <2>4, <2>5 DEF PermitsCovered
<1>e. /\ Elems(<<>>) = {} /\ Len(<<>>) = 0 /\ 1 .. 0 = {}
      /\ \A m, n : ~Precedes(<<>>, m, n)
  BY NoMessages, SMT
<1>c. Cmds = <<>>
  BY <1>0, <1>k DEF Cmds
<1>4. InOrder(wire)
  BY <1>0, <1>e DEF InOrder
<1>5. OpensOrdered
  <2>1. \A b : Below(b)
    BY <1>0, <1>c, <1>e DEF Below
  <2>. QED  BY <1>0, <1>c, <1>e, <2>1 DEF OpensOrdered
<1>p. \A p \in Pairs : pc[p] = "unopened"
  BY <1>0
<1>6. DataOrdered
  BY <1>0, <1>c, <1>e, <1>k, <1>p DEF DataOrdered
<1>7. ResetsSent
  BY <1>k, <1>p DEF ResetsSent, Abandoned
<1>8. Registered
  BY <1>0, <1>e, <1>k, <1>p DEF Registered, ClosesDead, LiveEntered
<1>. QED  BY <1>1, <1>2, <1>3, <1>4, <1>5, <1>6, <1>7, <1>8 DEF Inv

\* Every step keeps the inductive invariant.
LEMMA NextInv ==
  ASSUME FiniteLaws, UpTo, Inv, [Next]_vars
  PROVE  Inv'
<1>1. Base /\ InOrder(wire) /\ OpensOrdered /\ DataOrdered /\ ResetsSent /\ Registered
  BY CountedHere DEF Inv, Base
<1>2. Base'
  <2>1. Callers'
    BY CallersStep DEF Inv
  <2>2. Recounted
    BY <2>1, StepCounted DEF Inv
  <2>. QED  BY <1>1, <2>1, <2>2, BaseStep
<1>3. Callers' /\ Types' /\ PermitsCovered'
  BY <1>2 DEF Base
<1>4. InOrder(wire)' /\ OpensOrdered' /\ DataOrdered'
  BY <1>1, <1>3, OrderStep
<1>5. ResetsSent'
  BY <1>1, ResetsStep
<1>6. ASSUME frames' = 0, ~cancelled' PROVE ClosesDead' /\ LiveEntered'
  <2>1. frames = 0 /\ ~cancelled
    BY <1>1, <1>6, OnceStarted
  <2>2. ClosesDead /\ LiveEntered /\ frames' = frames
    BY <1>1, <1>6, <2>1 DEF Registered
  <2>. QED  BY <1>1, <1>2, <1>6, <2>2, ClosesStep, LiveStep
<1>7. Registered'
  BY <1>6 DEF Registered
<1>. QED  BY <1>3, <1>4, <1>5, <1>7 DEF Inv

\* An index of a sequence of frames.
LEMMA WireIndices ==
  ASSUME Inv
  PROVE  wire \in Seq(Frame) /\ DOMAIN wire = 1 .. Len(wire)
<1>1. wire \in Seq(Frame)
  BY DEF Inv, Types, WriterTypes
<1>. QED  BY <1>1, SMT

\* The frames of the invariant are in the order of their ids.
LEMMA InvSyn == Inv => SynIdsIncrease
<1> SUFFICES ASSUME Inv PROVE SynIdsIncrease
  OBVIOUS
<1>1. TypeOK
  <2>1. CallerTypes /\ WriterTypes /\ WorkerTypes
    BY DEF Inv, Callers, Types
  <2>. QED  BY <2>1 DEF TypeOK, CallerTypes, WriterTypes, WorkerTypes, Pcs, Ids
<1>2. DOMAIN wire = 1 .. Len(wire) /\ InOrder(wire)
  BY WireIndices DEF Inv
<1>. QED  BY <1>1, <1>2 DEF SynIdsIncrease, InOrder, IsSyn

\* So is the data within its stream.
LEMMA InvData == Inv => DataWithinStream
<1> SUFFICES ASSUME Inv PROVE DataWithinStream
  OBVIOUS
<1>1. DOMAIN wire = 1 .. Len(wire) /\ InOrder(wire)
  BY WireIndices DEF Inv
<1>. QED  BY <1>1 DEF DataWithinStream, InOrder

\* With nothing on its way, the resets have left.
LEMMA InvResets == Inv => AbandonedIsReset
<1> SUFFICES ASSUME Inv, Quiet, ~cancelled, NEW p \in Pairs, Abandoned(p)
             PROVE  OnWire("RstStream", data_id(p))
  BY DEF AbandonedIsReset
<1>1. control = <<>> /\ ResetsSent /\ Elems(<<>>) = {}
  BY NoMessages DEF Quiet, Inv
<1>2. Msg("RstStream", data_id(p)) \in Elems(wire)
  BY <1>1 DEF ResetsSent
<1>3. DOMAIN wire = 1 .. Len(wire)
  BY WireIndices
<1>. QED  BY <1>2, <1>3 DEF Elems, OnWire

\* With nothing on its way, what is live has its entries.
LEMMA InvLive == Inv => LiveIsRegistered
<1> SUFFICES ASSUME Inv, Quiet, frames = 0, ~cancelled, NEW p \in Opened
             PROVE  IdsOf(p) \subseteq streams
  BY DEF LiveIsRegistered
<1>0. p \in Pairs /\ pc[p] = "opened"
  BY DEF Opened
<1>1. "opened" \in HasError /\ "opened" \in HasData
  BY DEF HasError, HasData
<1>2. LiveEntered /\ Callers
  BY DEF Inv, Registered
<1>3. Entered(error_id[p]) /\ Entered(data_id(p))
  BY <1>0, <1>1, <1>2 DEF LiveEntered
<1>4. error_id[p] # 0
  BY <1>0, <1>2 DEF Callers, Held, HeldBy
<1>5. WorkerOf(error_id[p]) \in Workers /\ WorkerOf(data_id(p)) \in Workers
  BY <1>0, <1>2, <1>4, IdTypes
<1>6. \A w \in Workers : reg[w] = <<>>
  BY DEF Quiet
<1>7. error_id[p] \in streams /\ data_id(p) \in streams
  BY <1>3, <1>5, <1>6, NoMessages DEF Entered
<1>. QED  BY <1>7 DEF IdsOf

-----------------------------------------------------------------------------
(* The library.  It is instantiated here, after the steps, which it would slow *)
(* down.  The instance has its own IsFiniteSet and Cardinality, by the same     *)
(* definitions, so the laws carry over.                                         *)

Finite(S) == IsFiniteSet(S)
Card(S) == Cardinality(S)

\* What IsFiniteSet stands for.
LEMMA FiniteMeans ==
  \A S : Finite(S) <=>
          \E seq \in Seq(S) : \A s \in S : \E n \in 1 .. Len(seq) : seq[n] = s
BY DEF Finite, IsFiniteSet

\* What Cardinality stands for.
LEMMA CardMeans ==
  \A S : Card(S) = LET CS[T \in SUBSET S] ==
                         IF T = {} THEN 0 ELSE 1 + CS[T \ {CHOOSE x : x \in T}]
                   IN  CS[S]
BY DEF Card, Cardinality

LOCAL INSTANCE FiniteSetTheorems

\* The laws of finite sets hold.
LEMMA FiniteSetLaws == FiniteLaws
<1>1. \A S : Finite(S) <=> IsFiniteSet(S)
  BY FiniteMeans DEF IsFiniteSet
<1>2. \A S : Card(S) = Cardinality(S)
  BY CardMeans DEF Cardinality
<1>3. Card({}) = 0
  BY <1>2, FS_EmptySet
<1>4. \A a, b \in Int : Finite(a .. b)
  BY <1>1, FS_Interval
<1>5. \A S, T : Finite(S) /\ Finite(T) => Finite(S \X T)
  BY <1>1, FS_Product
<1>6. \A S : Finite(S) => Card(S) \in Nat
  BY <1>1, <1>2, FS_CardinalityType
<1>7. \A S, T : Finite(T) /\ S \subseteq T => Finite(S) /\ Card(S) <= Card(T)
  BY <1>1, <1>2, FS_Subset
<1>8. \A S, x : Finite(S) /\ x \notin S => Card(S \cup {x}) = Card(S) + 1
  BY <1>1, <1>2, FS_AddElement
<1>9. \A S, x : Finite(S) =>
        /\ Finite(S \ {x})
        /\ Card(S \ {x}) = IF x \in S THEN Card(S) - 1 ELSE Card(S)
  BY <1>1, <1>2, FS_RemoveElement
<1>. QED  BY <1>3, <1>4, <1>5, <1>6, <1>7, <1>8, <1>9 DEF FiniteLaws, Finite, Card

\* A set of naturals that is not empty has a least element, so induction holds.
LEMMA Induction == UpTo
<1> SUFFICES ASSUME NEW n \in Nat, NEW T, 0 \in T, \A i \in 0 .. n-1 : i \in T => i+1 \in T
             PROVE  \A i \in 0 .. n : i \in T
  BY DEF UpTo
<1> DEFINE U == {i \in 0 .. n : i \notin T}
<1> SUFFICES ASSUME U # {} PROVE FALSE
  OBVIOUS
<1>1. U \subseteq Nat
  BY SMT
<1>2. PICK x \in U : \A y \in U : ~ (<<y, x>> \in OpToRel(<, Nat))
  BY <1>1, NatLessThanWellFounded, WFMin
<1>3. \A y \in U : ~ (y < x)
  BY <1>1, <1>2 DEF OpToRel
<1>4. x \in 1 .. n /\ x \notin T
  BY SMT
<1>5. x - 1 \in 0 .. n-1 /\ x - 1 \notin U
  BY <1>3, <1>4, SMT
<1>. QED  BY <1>4, <1>5, SMT

-----------------------------------------------------------------------------
(* The theorems *)

\* The inductive invariant of the stream lifecycle holds for every number of pairs and
\* workers, every buffer size and every place next_stream_id may stand at.
THEOREM LifecycleInvariant == Spec => []Inv
<1>1. Init => Inv
  BY FiniteSetLaws, InitInv
<1>2. Inv /\ [Next]_vars => Inv'
  BY FiniteSetLaws, Induction, NextInv
<1>. QED  BY <1>1, <1>2, PTL DEF Spec

\* handle.rs:540-577 and stream.rs:142: the permits are honoured.  Whatever is try_sent
\* meanwhile, messages and reservations together fit in the channels, so permit.send in
\* StreamGuard::drop always has its place.
THEOREM PermitsAreHonoured == Spec => []PermitsCovered
<1>1. Inv => PermitsCovered
  BY DEF Inv
<1>. QED  BY <1>1, LifecycleInvariant, PTL

\* handle.rs:403-405, "IDs are strictly monotonically increasing on the wire": whatever the
\* callers race through, the SYN_STREAM frames leave in the order of their ids, none above
\* MAX_STREAM_ID.
THEOREM SynFramesIncrease == Spec => []SynIdsIncrease
BY InvSyn, LifecycleInvariant, PTL

\* handle.rs:401-405: no DATA leaves before the SYN_STREAM of its stream or after its FIN.
THEOREM DataStaysWithinStream == Spec => []DataWithinStream
BY InvData, LifecycleInvariant, PTL

\* stream.rs:142, "guaranteed path": once nothing is on its way, the RST_STREAM of a stream
\* that was dropped without a shutdown has left, however full the channels were.
THEOREM AbandonedAreReset == Spec => []AbandonedIsReset
BY InvResets, LifecycleInvariant, PTL

\* No teardown hits the wrong stream: until the peer sends something, and once nothing is on
\* its way, a live pair has both its entries, although Close overtakes Open (worker.rs:49-72).
THEOREM LivePairsAreRegistered == Spec => []LiveIsRegistered
BY InvLive, LifecycleInvariant, PTL
=============================================================================
