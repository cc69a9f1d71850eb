--------------------------- MODULE RecvFlowProofs ---------------------------
(***************************************************************************)
(* Proofs about RecvFlow, for any streams, window and capacities: the      *)
(* credit of every stream and of the session is conserved, and the queues  *)
(* between the peer and the application are together a LossyPipe.          *)
(***************************************************************************)
EXTENDS RecvFlow, WellFoundedInduction, TLAPS

(***************************************************************************)
(* The inductive invariant.                                                *)
(***************************************************************************)

Chunk == {c \in (Nat \ {0}) \X Nat : c[1] <= c[2] + 1}
Frame == [stream : Streams, fin : BOOLEAN, chunk : Chunk]
Updates == [stream : Streams \cup {Session}, delta : Nat]

Types ==
  /\ sent \in [Streams -> 0 .. MaxBytes]
  /\ window \in [Streams -> Nat]
  /\ fin \in [Streams -> BOOLEAN] /\ rst \in [Streams -> BOOLEAN]
  /\ frame_tx \in Seq(Frame) /\ Len(frame_tx) <= FrameCap
  /\ window_tx \in Seq(Updates) /\ Len(window_tx) <= WindowCap
  /\ data_tx \in [Streams -> {"open", "half", "gone"}]
  /\ data_rx \in [Streams -> Seq(Chunk)]
  /\ consumed \in [Streams -> Nat] /\ session_recv_consumed \in Nat
  /\ read_buf \in [Streams -> Chunk] /\ got \in [Streams -> Seq(Nat)]
  /\ read_eof \in [Streams -> BOOLEAN] /\ cancelled \in BOOLEAN
  /\ received \in Nat /\ returned \in Nat /\ lost \in [Streams -> Nat]

\* No channel holds more chunks than it can, nor an empty one.
Channels ==
  \A s \in Streams :
    /\ Len(data_rx[s]) <= StreamCap
    /\ \A i \in 1 .. Len(data_rx[s]) : Size(data_rx[s][i]) > 0
    /\ read_buf[s] = Empty \/ Size(read_buf[s]) > 0

\* The FIN of a stream is on its last frame.
FinIsLast ==
  \A i \in 1 .. Len(frame_tx) :
    frame_tx[i].fin => /\ fin[frame_tx[i].stream]
                       /\ \A j \in i + 1 .. Len(frame_tx) : frame_tx[j].stream # frame_tx[i].stream

\* A sender is dropped after the last frame of its stream, or with the stream.
SenderDropped ==
  \A s \in Streams :
    /\ data_tx[s] = "half" => fin[s] /\ \A i \in 1 .. Len(frame_tx) : frame_tx[i].stream # s
    /\ data_tx[s] = "gone" => rst[s] \/ cancelled

\* The two balances, of every stream and of the session.
StreamBalance(s) ==
  window[s] + Sum(Unseen(frame_tx, s)) + consumed[s] + Sum(Credits(window_tx, s)) + lost[s]
    = InitialWindow
SessionBalance == received = returned + session_recv_consumed + Sum(Credits(window_tx, Session))

Inv == /\ Types /\ Channels /\ FinIsLast /\ SenderDropped
       /\ \A s \in Streams : StreamBalance(s)
       /\ SessionBalance

(***************************************************************************)
(* Sums and concatenations.                                                *)
(***************************************************************************)

\* Induction along an interval.
LEMMA UpTo ==
  ASSUME NEW n \in Nat, NEW T, 0 \in T, \A i \in 0 .. n-1 : i \in T => i+1 \in T
  PROVE  \A i \in 0 .. n : i \in T
<1> DEFINE U == {i \in 0 .. n : i \notin T}
<1> SUFFICES ASSUME U # {} PROVE FALSE
  OBVIOUS
<1>1. U \subseteq Nat
  OBVIOUS
<1>2. PICK x \in U : \A y \in U : ~ (<<y, x>> \in OpToRel(<, Nat))
  BY <1>1, NatLessThanWellFounded, WFMin, Zenon
<1>3. \A y \in U : ~ (y < x)
  BY <1>1, <1>2 DEF OpToRel
<1>4. x \in 1 .. n /\ x \notin T
  OBVIOUS
<1>5. x - 1 \in 0 .. n-1 /\ x - 1 \notin U
  BY <1>3, <1>4
<1>. QED  BY <1>4, <1>5

\* What Sum computes, step by step.
LEMMA SumSteps ==
  ASSUME NEW q \in Seq(Nat)
  PROVE  \E f \in [0 .. Len(q) -> Nat] :
           /\ f[0] = 0 /\ \A i \in 1 .. Len(q) : f[i] = f[i-1] + q[i]
           /\ Sum(q) = f[Len(q)]
<1> DEFINE Steps(f, n) == f = [i \in 0 .. n |-> IF i = 0 THEN 0 ELSE f[i-1] + q[i]]
           T == {n \in 0 .. Len(q) : \E f : Steps(f, n)}
<1>n. Len(q) \in Nat /\ \A i \in 1 .. Len(q) : q[i] \in Nat
  OBVIOUS
<1>1. 0 \in T
  <2>1. Steps([i \in 0 .. 0 |-> 0], 0)
    OBVIOUS
  <2> HIDE DEF Steps
  <2>. QED  BY <2>1, <1>n
<1>2. ASSUME NEW n \in 0 .. Len(q) - 1, n \in T  PROVE n + 1 \in T
  <2>1. PICK f : Steps(f, n)
    BY <1>2
  <2>2. \A i \in 0 .. n : f[i] = IF i = 0 THEN 0 ELSE f[i-1] + q[i]
    BY <2>1, Zenon
  <2> DEFINE g == [i \in 0 .. n + 1 |-> IF i <= n THEN f[i] ELSE f[n] + q[n+1]]
  <2>3. \A i \in 0 .. n : g[i] = f[i]
    OBVIOUS
  <2>4. \A i \in 0 .. n + 1 : g[i] = IF i = 0 THEN 0 ELSE g[i-1] + q[i]
    <3> TAKE i \in 0 .. n + 1
    <3>1. CASE i = 0
      BY <2>2, <2>3, <3>1
    <3>2. CASE i \in 1 .. n
      BY <2>2, <2>3, <3>2
    <3>3. CASE i = n + 1
      BY <2>3, <3>3
    <3>. QED  BY <3>1, <3>2, <3>3
  <2>5. Steps(g, n + 1)
    BY <2>4
  <2> HIDE DEF g, Steps
  <2>. QED  BY <2>5, <1>n
<1>3. Len(q) \in T
  <2> HIDE DEF T
  <2>1. \A i \in 0 .. Len(q) : i \in T
    BY <1>1, <1>2, <1>n, UpTo
  <2>. QED  BY <2>1, <1>n
<1>4. PICK f : Steps(f, Len(q)) /\ Sum(q) = f[Len(q)]
  BY <1>3, Zenon DEF Sum
<1>5. \A i \in 0 .. Len(q) : f[i] = IF i = 0 THEN 0 ELSE f[i-1] + q[i]
  BY <1>4, Zenon
<1>6. f[0] = 0 /\ \A i \in 1 .. Len(q) : f[i] = f[i-1] + q[i]
  BY <1>5, <1>n
<1>7. \A i \in 0 .. Len(q) : f[i] \in Nat
  <2> DEFINE S == {i \in 0 .. Len(q) : f[i] \in Nat}
  <2>1. 0 \in S
    BY <1>6, <1>n
  <2>2. ASSUME NEW i \in 0 .. Len(q) - 1, i \in S PROVE i + 1 \in S
    <3>1. i + 1 \in 1 .. Len(q) /\ (i + 1) - 1 = i
      BY <1>n
    <3>2. f[i + 1] = f[i] + q[i + 1] /\ q[i + 1] \in Nat
      BY <1>6, <1>n, <3>1
    <3>. QED  BY <2>2, <3>1, <3>2
  <2> HIDE DEF S
  <2>3. \A i \in 0 .. Len(q) : i \in S
    BY <2>1, <2>2, <1>n, UpTo
  <2>. QED  BY <2>3 DEF S
<1>8. f \in [0 .. Len(q) -> Nat]
  BY <1>4, <1>7
<1>. QED  BY <1>4, <1>6, <1>8

\* A sum of naturals is one, and grows by what is appended; the head and the rest make it up.
LEMMA SumFacts ==
  ASSUME NEW q \in Seq(Nat)
  PROVE  /\ Sum(q) \in Nat
         /\ q = <<>> => Sum(q) = 0
         /\ \A x \in Nat : Sum(Append(q, x)) = Sum(q) + x
         /\ q # <<>> => Sum(q) = q[1] + Sum(Tail(q))
<1>n. Len(q) \in Nat
  OBVIOUS
<1>1. PICK f \in [0 .. Len(q) -> Nat] :
           /\ f[0] = 0 /\ \A i \in 1 .. Len(q) : f[i] = f[i-1] + q[i]
           /\ Sum(q) = f[Len(q)]
  BY SumSteps
<1>2. Sum(q) \in Nat /\ (q = <<>> => Sum(q) = 0)
  BY <1>1, <1>n
<1>3. ASSUME NEW x \in Nat PROVE Sum(Append(q, x)) = Sum(q) + x
  <2> DEFINE r == Append(q, x)
  <2>1. /\ r \in Seq(Nat) /\ Len(r) = Len(q) + 1 /\ r[Len(q) + 1] = x
        /\ \A i \in 1 .. Len(q) : r[i] = q[i]
    OBVIOUS
  <2> HIDE DEF r
  <2>2. PICK g \in [0 .. Len(r) -> Nat] :
           /\ g[0] = 0 /\ \A i \in 1 .. Len(r) : g[i] = g[i-1] + r[i]
           /\ Sum(r) = g[Len(r)]
    BY <2>1, SumSteps
  <2> DEFINE S == {i \in 0 .. Len(q) : g[i] = f[i]}
  <2>3. 0 \in S
    BY <1>1, <1>n, <2>2
  <2>4. ASSUME NEW i \in 0 .. Len(q) - 1, i \in S PROVE i + 1 \in S
    <3>1. i + 1 \in 1 .. Len(q) /\ i + 1 \in 1 .. Len(r) /\ (i + 1) - 1 = i
      BY <1>n, <2>1
    <3>2. f[i + 1] = f[i] + q[i + 1] /\ g[i + 1] = g[i] + r[i + 1]
      BY <1>1, <2>2, <3>1
    <3>. QED  BY <2>1, <2>4, <3>1, <3>2
  <2>5. Len(q) \in S
    <3> HIDE DEF S
    <3>1. \A i \in 0 .. Len(q) : i \in S
      BY <2>3, <2>4, <1>n, UpTo
    <3>. QED  BY <3>1, <1>n
  <2>6. g[Len(q) + 1] = g[Len(q)] + x
    <3>1. Len(q) + 1 \in 1 .. Len(r) /\ (Len(q) + 1) - 1 = Len(q)
      BY <1>n, <2>1
    <3>. QED  BY <2>1, <2>2, <3>1
  <2>. QED  BY <1>1, <2>1, <2>2, <2>5, <2>6 DEF r
<1>4. ASSUME q # <<>> PROVE Sum(q) = q[1] + Sum(Tail(q))
  <2> DEFINE r == Tail(q)
  <2>1. /\ r \in Seq(Nat) /\ Len(r) = Len(q) - 1 /\ Len(q) > 0 /\ q[1] \in Nat
        /\ \A i \in 1 .. Len(q) - 1 : r[i] = q[i + 1]
    BY <1>4
  <2>n. \A i \in 1 .. Len(r) : r[i] \in Nat
    BY <2>1
  <2> HIDE DEF r
  <2>2. PICK g \in [0 .. Len(r) -> Nat] :
           /\ g[0] = 0 /\ \A i \in 1 .. Len(r) : g[i] = g[i-1] + r[i]
           /\ Sum(r) = g[Len(r)]
    BY <2>1, SumSteps
  <2> DEFINE S == {i \in 0 .. Len(r) : f[i + 1] = q[1] + g[i]}
  <2>3. 0 \in S
    <3>1. f[1] = f[0] + q[1]
      BY <1>1, <1>n, <2>1
    <3>. QED  BY <1>1, <1>n, <2>1, <2>2, <3>1
  <2>4. ASSUME NEW i \in 0 .. Len(r) - 1, i \in S PROVE i + 1 \in S
    <3>1. /\ i + 1 \in 1 .. Len(r) /\ (i + 1) - 1 = i /\ (i + 1) + 1 \in 1 .. Len(q)
          /\ ((i + 1) + 1) - 1 = i + 1
      BY <1>n, <2>1
    <3>0. i + 1 \in 1 .. Len(q) - 1 /\ i \in 0 .. Len(r)
      BY <1>n, <2>1
    <3>2. g[i + 1] = g[i] + r[i + 1] /\ r[i + 1] = q[(i + 1) + 1] /\ r[i + 1] \in Nat
      <4>1. r[i + 1] = q[(i + 1) + 1]
        BY <2>1, <3>0, Zenon
      <4>2. r[i + 1] \in Nat
        BY <2>n, <3>1, Zenon
      <4>. QED  BY <2>2, <3>1, <4>1, <4>2
    <3>3. f[(i + 1) + 1] = f[i + 1] + q[(i + 1) + 1]
      BY <1>1, <3>1
    <3>4. g[i] \in Nat
      BY <2>2, <3>0
    <3>. QED  BY <2>1, <2>4, <3>1, <3>2, <3>3, <3>4
  <2>5. Len(r) \in S
    <3> HIDE DEF S
    <3>0. Len(r) \in Nat
      BY <1>n, <2>1
    <3>1. \A i \in 0 .. Len(r) : i \in S
      BY <2>3, <2>4, <3>0, UpTo
    <3>. QED  BY <3>0, <3>1
  <2>. QED  BY <1>1, <1>n, <2>1, <2>2, <2>5 DEF r
<1>. QED  BY <1>2, <1>3, <1>4

\* Concatenation: associative, and <<>> changes nothing.
LEMMA ConcatFacts ==
  ASSUME NEW X, NEW a \in Seq(X), NEW b \in Seq(X), NEW c \in Seq(X)
  PROVE  /\ a \o b \in Seq(X) /\ Len(a \o b) = Len(a) + Len(b)
         /\ (a \o b) \o c = a \o (b \o c)
         /\ <<>> \o a = a /\ a \o <<>> = a
<1>1. /\ a \o b \in Seq(X) /\ Len(a \o b) = Len(a) + Len(b) /\ Len(a) \in Nat /\ Len(b) \in Nat
      /\ \A i \in 1 .. Len(a) : (a \o b)[i] = a[i]
      /\ \A i \in Len(a) + 1 .. Len(a) + Len(b) : (a \o b)[i] = b[i - Len(a)]
      /\ Len(c) \in Nat
  OBVIOUS
<1>2. (a \o b) \o c = a \o (b \o c)
  OBVIOUS
<1>3. <<>> \o a = a /\ a \o <<>> = a
  OBVIOUS
<1>. QED  BY <1>1, <1>2, <1>3

\* The same as a predicate of the three sequences.
Associates(a, b, c) == (a \o b) \o c = a \o (b \o c)

\* Concatenation associates, for sequences over any set.
LEMMA ConcatAssociates ==
  ASSUME NEW X, NEW a \in Seq(X), NEW b \in Seq(X), NEW c \in Seq(X)
  PROVE  Associates(a, b, c)
BY DEF Associates

\* What Flat computes, step by step.
LEMMA FlatSteps ==
  ASSUME NEW X, NEW q \in Seq(Seq(X))
  PROVE  \E f \in [0 .. Len(q) -> Seq(X)] :
           /\ f[0] = <<>> /\ \A i \in 1 .. Len(q) : f[i] = f[i-1] \o q[i]
           /\ Flat(q) = f[Len(q)]
<1> DEFINE Steps(f, n) == f = [i \in 0 .. n |-> IF i = 0 THEN <<>> ELSE f[i-1] \o q[i]]
           T == {n \in 0 .. Len(q) : \E f : Steps(f, n)}
<1>n. Len(q) \in Nat /\ \A i \in 1 .. Len(q) : q[i] \in Seq(X)
  OBVIOUS
<1>1. 0 \in T
  <2>1. Steps([i \in 0 .. 0 |-> <<>>], 0)
    OBVIOUS
  <2> HIDE DEF Steps
  <2>. QED  BY <2>1, <1>n
<1>2. ASSUME NEW n \in 0 .. Len(q) - 1, n \in T  PROVE n + 1 \in T
  <2>1. PICK f : Steps(f, n)
    BY <1>2
  <2>2. \A i \in 0 .. n : f[i] = IF i = 0 THEN <<>> ELSE f[i-1] \o q[i]
    BY <2>1, Zenon
  <2> DEFINE g == [i \in 0 .. n + 1 |-> IF i <= n THEN f[i] ELSE f[n] \o q[n+1]]
  <2>3. \A i \in 0 .. n : g[i] = f[i]
    OBVIOUS
  <2>4. \A i \in 0 .. n + 1 : g[i] = IF i = 0 THEN <<>> ELSE g[i-1] \o q[i]
    <3> TAKE i \in 0 .. n + 1
    <3>1. CASE i = 0
      BY <2>2, <2>3, <3>1
    <3>2. CASE i \in 1 .. n
      <4>1. i - 1 \in 0 .. n /\ i \in 0 .. n /\ i # 0
        BY <3>2
      <4>2. g[i] = f[i] /\ g[i-1] = f[i-1]
        BY <2>3, <4>1
      <4>3. f[i] = f[i-1] \o q[i]
        BY <2>2, <4>1, Zenon
      <4>. QED  BY <4>1, <4>2, <4>3, Zenon
    <3>3. CASE i = n + 1
      <4>0. n \in 0 .. n /\ ~(n + 1 <= n) /\ (n + 1) - 1 = n /\ n + 1 \in 0 .. n + 1 /\ n + 1 # 0
        OBVIOUS
      <4>1. g[n] = f[n] /\ g[n+1] = f[n] \o q[n+1]
        BY <2>3, <4>0, Zenon
      <4>. QED  BY <3>3, <4>0, <4>1, Zenon
    <3>. QED  BY <3>1, <3>2, <3>3
  <2>5. Steps(g, n + 1)
    BY <2>4
  <2> HIDE DEF g, Steps
  <2>. QED  BY <2>5, <1>n
<1>3. Len(q) \in T
  <2> HIDE DEF T
  <2>1. \A i \in 0 .. Len(q) : i \in T
    BY <1>1, <1>2, <1>n, UpTo
  <2>. QED  BY <2>1, <1>n
<1>4. PICK f : Steps(f, Len(q)) /\ Flat(q) = f[Len(q)]
  BY <1>3, Zenon DEF Flat
<1>5. \A i \in 0 .. Len(q) : f[i] = IF i = 0 THEN <<>> ELSE f[i-1] \o q[i]
  BY <1>4, Zenon
<1>6. f[0] = <<>> /\ \A i \in 1 .. Len(q) : f[i] = f[i-1] \o q[i]
  <2>1. 0 \in 0 .. Len(q) /\ \A i \in 1 .. Len(q) : i \in 0 .. Len(q) /\ i # 0
    BY <1>n
  <2>. QED  BY <1>5, <2>1, Zenon
<1>7. \A i \in 0 .. Len(q) : f[i] \in Seq(X)
  <2> DEFINE S == {i \in 0 .. Len(q) : f[i] \in Seq(X)}
  <2>1. 0 \in S
    <3>1. 0 \in 0 .. Len(q) /\ <<>> \in Seq(X)
      BY <1>n
    <3>. QED  BY <1>6, <3>1, Zenon
  <2>2. ASSUME NEW i \in 0 .. Len(q) - 1, i \in S PROVE i + 1 \in S
    <3>1. i + 1 \in 1 .. Len(q) /\ (i + 1) - 1 = i
      BY <1>n
    <3>2. f[i + 1] = f[i] \o q[i + 1] /\ q[i + 1] \in Seq(X)
      BY <1>6, <1>n, <3>1
    <3>3. f[i + 1] \in Seq(X)
      BY <2>2, <3>2
    <3>. QED  BY <3>1, <3>3, <1>n
  <2> HIDE DEF S
  <2>3. \A i \in 0 .. Len(q) : i \in S
    BY <2>1, <2>2, <1>n, UpTo
  <2>. QED  BY <2>3 DEF S
<1>8. f \in [0 .. Len(q) -> Seq(X)]
  BY <1>4, <1>7
<1>. QED  BY <1>4, <1>6, <1>8

\* What is appended comes last, the head first.
LEMMA FlatFacts ==
  ASSUME NEW X, NEW q \in Seq(Seq(X))
  PROVE  /\ Flat(q) \in Seq(X)
         /\ q = <<>> => Flat(q) = <<>>
         /\ \A x \in Seq(X) : Flat(Append(q, x)) = Flat(q) \o x
         /\ q # <<>> => Flat(q) = q[1] \o Flat(Tail(q))
<1>n. Len(q) \in Nat
  OBVIOUS
<1>1. PICK f \in [0 .. Len(q) -> Seq(X)] :
           /\ f[0] = <<>> /\ \A i \in 1 .. Len(q) : f[i] = f[i-1] \o q[i]
           /\ Flat(q) = f[Len(q)]
  BY FlatSteps
<1>2. Flat(q) \in Seq(X) /\ (q = <<>> => Flat(q) = <<>>)
  BY <1>1, <1>n
<1>3. ASSUME NEW x \in Seq(X) PROVE Flat(Append(q, x)) = Flat(q) \o x
  <2> DEFINE r == Append(q, x)
  <2>1. /\ r \in Seq(Seq(X)) /\ Len(r) = Len(q) + 1 /\ r[Len(q) + 1] = x
        /\ \A i \in 1 .. Len(q) : r[i] = q[i]
    OBVIOUS
  <2> HIDE DEF r
  <2>2. PICK g \in [0 .. Len(r) -> Seq(X)] :
           /\ g[0] = <<>> /\ \A i \in 1 .. Len(r) : g[i] = g[i-1] \o r[i]
           /\ Flat(r) = g[Len(r)]
    BY <2>1, FlatSteps
  <2> DEFINE S == {i \in 0 .. Len(q) : g[i] = f[i]}
  <2>3. 0 \in S
    BY <1>1, <1>n, <2>2
  <2>4. ASSUME NEW i \in 0 .. Len(q) - 1, i \in S PROVE i + 1 \in S
    <3>1. i + 1 \in 1 .. Len(q) /\ i + 1 \in 1 .. Len(r) /\ (i + 1) - 1 = i
      BY <1>n, <2>1
    <3>2. f[i + 1] = f[i] \o q[i + 1] /\ g[i + 1] = g[i] \o r[i + 1]
      BY <1>1, <2>2, <3>1
    <3>3. g[i + 1] = f[i + 1]
      BY <2>1, <2>4, <3>1, <3>2, Zenon
    <3>. QED  BY <3>1, <3>3, <1>n
  <2>5. Len(q) \in S
    <3> HIDE DEF S
    <3>1. \A i \in 0 .. Len(q) : i \in S
      BY <2>3, <2>4, <1>n, UpTo
    <3>. QED  BY <3>1, <1>n
  <2>6. g[Len(q) + 1] = g[Len(q)] \o x
    <3>1. Len(q) + 1 \in 1 .. Len(r) /\ (Len(q) + 1) - 1 = Len(q)
      BY <1>n, <2>1
    <3>. QED  BY <2>1, <2>2, <3>1
  <2>. QED  BY <1>1, <2>1, <2>2, <2>5, <2>6 DEF r
<1>4. ASSUME q # <<>> PROVE Flat(q) = q[1] \o Flat(Tail(q))
  <2> DEFINE r == Tail(q)
  <2>1. /\ r \in Seq(Seq(X)) /\ Len(r) = Len(q) - 1 /\ Len(q) > 0 /\ q[1] \in Seq(X)
        /\ \A i \in 1 .. Len(q) - 1 : r[i] = q[i + 1]
    BY <1>4
  <2>n. \A i \in 1 .. Len(r) : r[i] \in Seq(X)
    BY <2>1
  <2> HIDE DEF r
  <2>2. PICK g \in [0 .. Len(r) -> Seq(X)] :
           /\ g[0] = <<>> /\ \A i \in 1 .. Len(r) : g[i] = g[i-1] \o r[i]
           /\ Flat(r) = g[Len(r)]
    BY <2>1, FlatSteps
  <2> DEFINE S == {i \in 0 .. Len(r) : f[i + 1] = q[1] \o g[i]}
  <2>3. 0 \in S
    <3>1. f[1] = f[0] \o q[1]
      <4>1. 1 \in 1 .. Len(q) /\ 1 - 1 = 0
        BY <1>n, <2>1
      <4>. QED  BY <1>1, <4>1, Zenon
    <3>2. <<>> \o q[1] = q[1] /\ q[1] \o <<>> = q[1]
      BY <2>1, ConcatFacts, Zenon
    <3>3. f[0 + 1] = q[1] \o g[0]
      <4>1. 0 + 1 = 1
        OBVIOUS
      <4>. QED  BY <1>1, <2>2, <3>1, <3>2, <4>1, Zenon
    <3>4. 0 \in 0 .. Len(r)
      BY <1>n, <2>1
    <3>. QED  BY <3>3, <3>4, Zenon
  <2>4. ASSUME NEW i \in 0 .. Len(r) - 1, i \in S PROVE i + 1 \in S
    <3>1. /\ i + 1 \in 1 .. Len(r) /\ (i + 1) - 1 = i /\ (i + 1) + 1 \in 1 .. Len(q)
          /\ ((i + 1) + 1) - 1 = i + 1
      BY <1>n, <2>1
    <3>0. i + 1 \in 1 .. Len(q) - 1 /\ i \in 0 .. Len(r) /\ i + 1 \in 0 .. Len(r)
      BY <1>n, <2>1
    <3>2. g[i + 1] = g[i] \o r[i + 1] /\ r[i + 1] = q[(i + 1) + 1] /\ r[i + 1] \in Seq(X)
      <4>1. r[i + 1] = q[(i + 1) + 1]
        BY <2>1, <3>0, Zenon
      <4>2. r[i + 1] \in Seq(X)
        BY <2>n, <3>1, Zenon
      <4>. QED  BY <2>2, <3>1, <4>1, <4>2
    <3>3. f[(i + 1) + 1] = f[i + 1] \o q[(i + 1) + 1]
      BY <1>1, <3>1
    <3>4. g[i] \in Seq(X)
      BY <2>2, <3>0
    <3>5. f[i + 1] = q[1] \o g[i]
      BY <2>4
    <3>6. f[(i + 1) + 1] = q[1] \o g[i + 1]
      <4>1. (q[1] \o g[i]) \o r[i + 1] = q[1] \o (g[i] \o r[i + 1])
        <5>1. Associates(q[1], g[i], r[i + 1])
          BY <2>1, <3>2, <3>4, ConcatAssociates, Zenon
        <5>. QED  BY <5>1, Zenon DEF Associates
      <4>. QED  BY <3>2, <3>3, <3>5, <4>1, Zenon
    <3>. QED  BY <3>0, <3>6
  <2>5. Len(r) \in S
    <3> HIDE DEF S
    <3>0. Len(r) \in Nat
      BY <1>n, <2>1
    <3>1. \A i \in 0 .. Len(r) : i \in S
      BY <2>3, <2>4, <3>0, UpTo
    <3>. QED  BY <3>0, <3>1
  <2>6. Len(r) + 1 = Len(q)
    BY <1>n, <2>1
  <2>. QED  BY <1>1, <2>2, <2>5, <2>6 DEF r
<1>. QED  BY <1>2, <1>3, <1>4

\* The values m gives to the elements of a queue.
Image(q, m) == [i \in DOMAIN q |-> m[q[i]]]

Mapped(q, m, y, Z) ==
  /\ Image(q, m) \in Seq(Z)
  /\ Image(Append(q, y), m) = Append(Image(q, m), m[y])
  /\ q = <<>> => Image(q, m) = <<>>
  /\ q # <<>> => /\ Image(q, m) # <<>> /\ Image(q, m)[1] = m[Head(q)]
                 /\ Image(Tail(q), m) = Tail(Image(q, m))

\* Mapping a queue commutes with Append and Tail.
LEMMA ImageFacts ==
  ASSUME NEW Y, NEW Z, NEW q \in Seq(Y), NEW m \in [Y -> Z], NEW y \in Y
  PROVE  Mapped(q, m, y, Z)
<1> DEFINE w == Image(q, m)
<1>n. Len(q) \in Nat /\ DOMAIN q = 1 .. Len(q) /\ \A i \in 1 .. Len(q) : q[i] \in Y
  OBVIOUS
<1>1. w \in Seq(Z) /\ Len(w) = Len(q) /\ \A i \in 1 .. Len(q) : w[i] = m[q[i]]
  <2>1. w = [i \in 1 .. Len(q) |-> m[q[i]]]
    BY <1>n, Zenon DEF Image
  <2>2. \A i \in 1 .. Len(q) : m[q[i]] \in Z
    BY <1>n
  <2> HIDE DEF w
  <2>. QED  BY <1>n, <2>1, <2>2
<1>2. Image(Append(q, y), m) = Append(w, m[y])
  <2> DEFINE r == Append(q, y)
  <2>1. r \in Seq(Y) /\ DOMAIN r = 1 .. Len(q) + 1 /\ r[Len(q) + 1] = y
        /\ \A i \in 1 .. Len(q) : r[i] = q[i]
    OBVIOUS
  <2> HIDE DEF r
  <2>2. Image(r, m) = [i \in 1 .. Len(q) + 1 |-> m[r[i]]]
    BY <2>1, Zenon DEF Image
  <2>3. m[y] \in Z
    OBVIOUS
  <2> HIDE DEF w
  <2>4. Append(w, m[y]) = [i \in 1 .. Len(q) + 1 |-> IF i <= Len(q) THEN w[i] ELSE m[y]]
    BY <1>1, <1>n, <2>3
  <2>5. ASSUME NEW i \in 1 .. Len(q) + 1
        PROVE  m[r[i]] = IF i <= Len(q) THEN w[i] ELSE m[y]
    BY <1>1, <1>n, <2>1
  <2>6. Image(r, m) = Append(w, m[y])
    BY <2>2, <2>4, <2>5, Zenon
  <2>. QED  BY <2>6 DEF r
<1>3. ASSUME q # <<>>
      PROVE  /\ w # <<>> /\ w[1] = m[Head(q)]
             /\ Image(Tail(q), m) = Tail(w)
  <2> DEFINE r == Tail(q)
  <2>1. /\ r \in Seq(Y) /\ DOMAIN r = 1 .. Len(q) - 1 /\ Len(q) > 0 /\ Head(q) = q[1]
        /\ \A i \in 1 .. Len(q) - 1 : r[i] = q[i + 1]
    BY <1>3
  <2> HIDE DEF r
  <2>2. Image(r, m) = [i \in 1 .. Len(q) - 1 |-> m[r[i]]]
    BY <2>1, Zenon DEF Image
  <2> HIDE DEF w
  <2>3. w # <<>> /\ w[1] = m[Head(q)]
    BY <1>1, <1>n, <2>1
  <2>4. Tail(w) = [i \in 1 .. Len(q) - 1 |-> w[i + 1]]
    <3> DEFINE t == Tail(w)
    <3>0. w \in Seq(Z) /\ Len(w) = Len(q) /\ w # <<>>
      BY <1>1, <2>3, Zenon
    <3>1. /\ t \in Seq(Z) /\ Len(t) = Len(q) - 1
          /\ \A i \in 1 .. Len(q) - 1 : t[i] = w[i + 1]
      BY <3>0
    <3> HIDE DEF t
    <3>2. t = [i \in 1 .. Len(q) - 1 |-> t[i]]
      BY <3>1, <1>n
    <3>3. t = [i \in 1 .. Len(q) - 1 |-> w[i + 1]]
      BY <3>1, <3>2, Zenon
    <3>. QED  BY <3>3 DEF t
  <2>5. ASSUME NEW i \in 1 .. Len(q) - 1
        PROVE  m[r[i]] = w[i + 1]
    <3>1. i + 1 \in 1 .. Len(q)
      BY <1>n
    <3>. QED  BY <1>1, <2>1, <3>1
  <2>6. Image(r, m) = Tail(w)
    BY <2>2, <2>4, <2>5, Zenon
  <2>. QED  BY <2>3, <2>6 DEF r
<1>4. q = <<>> => w = <<>>
  <2> HIDE DEF w
  <2>. QED  BY <1>1
<1>. QED  BY <1>1, <1>2, <1>3, <1>4, Zenon DEF Mapped

\* So queues are weighed element by element, and joined element by element.
Weighed(q, m, y) ==
  /\ Sum(Image(q, m)) \in Nat
  /\ Sum(Image(Append(q, y), m)) = Sum(Image(q, m)) + m[y]
  /\ q = <<>> => Sum(Image(q, m)) = 0
  /\ q # <<>> => Sum(Image(q, m)) = m[Head(q)] + Sum(Image(Tail(q), m))

\* The weight of a queue grows and shrinks by that of the element added or removed.
LEMMA WeighedFacts ==
  ASSUME NEW Y, NEW q \in Seq(Y), NEW m \in [Y -> Nat], NEW y \in Y
  PROVE  Weighed(q, m, y)
<1> DEFINE w == Image(q, m)
<1>1. /\ w \in Seq(Nat) /\ Image(Append(q, y), m) = Append(w, m[y])
      /\ q = <<>> => w = <<>>
      /\ q # <<>> => w # <<>> /\ w[1] = m[Head(q)] /\ Image(Tail(q), m) = Tail(w)
  <2>1. Mapped(q, m, y, Nat)
    BY ImageFacts, Zenon
  <2>. QED  BY <2>1, Zenon DEF Mapped
<1>2. m[y] \in Nat
  OBVIOUS
<1> HIDE DEF w
<1>3. /\ Sum(w) \in Nat
      /\ w = <<>> => Sum(w) = 0
      /\ \A x \in Nat : Sum(Append(w, x)) = Sum(w) + x
      /\ w # <<>> => Sum(w) = w[1] + Sum(Tail(w))
  BY <1>1, SumFacts, Zenon
<1>4. Sum(Append(w, m[y])) = Sum(w) + m[y]
  BY <1>2, <1>3, Zenon
<1>5. q # <<>> => Sum(w) = m[Head(q)] + Sum(Image(Tail(q), m))
  BY <1>1, <1>3, Zenon
<1>. QED  BY <1>1, <1>3, <1>4, <1>5, Zenon DEF Weighed, w

Joined(q, m, y) ==
  /\ Flat(Image(q, m)) \in Seq(Nat)
  /\ Flat(Image(Append(q, y), m)) = Flat(Image(q, m)) \o m[y]
  /\ q = <<>> => Flat(Image(q, m)) = <<>>
  /\ q # <<>> => Flat(Image(q, m)) = m[Head(q)] \o Flat(Image(Tail(q), m))

\* What a queue joins to grows at its end and shrinks from its front.
LEMMA JoinedFacts ==
  ASSUME NEW Y, NEW q \in Seq(Y), NEW m \in [Y -> Seq(Nat)], NEW y \in Y
  PROVE  Joined(q, m, y)
<1> DEFINE w == Image(q, m)
<1>1. /\ w \in Seq(Seq(Nat)) /\ Image(Append(q, y), m) = Append(w, m[y])
      /\ q = <<>> => w = <<>>
      /\ q # <<>> => w # <<>> /\ w[1] = m[Head(q)] /\ Image(Tail(q), m) = Tail(w)
  <2>1. Mapped(q, m, y, Seq(Nat))
    BY ImageFacts, Zenon
  <2>. QED  BY <2>1, Zenon DEF Mapped
<1>2. m[y] \in Seq(Nat)
  OBVIOUS
<1> HIDE DEF w
<1>3. /\ Flat(w) \in Seq(Nat)
      /\ w = <<>> => Flat(w) = <<>>
      /\ \A x \in Seq(Nat) : Flat(Append(w, x)) = Flat(w) \o x
      /\ w # <<>> => Flat(w) = w[1] \o Flat(Tail(w))
  BY <1>1, FlatFacts, Zenon
<1>4. Flat(Append(w, m[y])) = Flat(w) \o m[y]
  BY <1>2, <1>3, Zenon
<1>5. q # <<>> => Flat(w) = m[Head(q)] \o Flat(Image(Tail(q), m))
  BY <1>1, <1>3, Zenon
<1>. QED  BY <1>1, <1>3, <1>4, <1>5, Zenon DEF Joined, w

(***************************************************************************)
(* Chunks and the queues that hold them.                                   *)
(***************************************************************************)

\* A chunk has as many bytes as its size says, all of them numbers.
Sized(c) ==
  /\ Size(c) \in Nat /\ Bytes(c) \in Seq(Nat) /\ Len(Bytes(c)) = Size(c)
  /\ Size(c) = 0 => Bytes(c) = <<>>

\* Every chunk of a DATA frame is sized so.
LEMMA ChunkFacts ==
  ASSUME NEW c \in Chunk
  PROVE  Sized(c)
<1>1. c[1] \in Nat /\ c[2] \in Nat /\ c[1] <= c[2] + 1
  BY DEF Chunk
<1>2. Size(c) \in Nat
  BY <1>1 DEF Size
<1>3. \A i \in 1 .. Size(c) : c[1] + i - 1 \in Nat
  BY <1>1, <1>2
<1>4. Bytes(c) \in Seq(Nat) /\ Len(Bytes(c)) = Size(c)
  BY <1>2, <1>3 DEF Bytes
<1>5. Size(c) = 0 => Bytes(c) = <<>>
  BY <1>4
<1>. QED  BY <1>2, <1>4, <1>5 DEF Sized

\* The read buffer of a stream starts with a chunk of no bytes.
LEMMA EmptyChunk == Empty \in Chunk /\ Size(Empty) = 0 /\ Bytes(Empty) = <<>>
<1>1. Empty \in Chunk /\ Size(Empty) = 0
  BY DEF Empty, Chunk, Size
<1>. QED  BY <1>1, ChunkFacts DEF Sized

\* A read takes the first bytes of a chunk, at least one, and keeps the others.
Split(c, n) ==
  /\ Kept(c, n) \in Chunk /\ (Kept(c, n) = Empty \/ Size(Kept(c, n)) > 0)
  /\ Bytes(Fits(c, n)) \in Seq(Nat) /\ Len(Bytes(Fits(c, n))) \in 1 .. Size(c)
  /\ Bytes(c) = Bytes(Fits(c, n)) \o Bytes(Kept(c, n))

\* poll_read splits the chunk at hand so (stream.rs:741-798).
LEMMA ReadSplits ==
  ASSUME NEW c \in Chunk, Size(c) > 0, NEW n \in Nat \ {0}
  PROVE  Split(c, n)
<1>1. c[1] \in Nat \ {0} /\ c[2] \in Nat /\ c[1] <= c[2]
  BY DEF Chunk, Size
<1>2. CASE Size(c) <= n
  <2>1. Kept(c, n) = Empty
    BY <1>2 DEF Kept
  <2>2. Fits(c, n)[1] = c[1] /\ Fits(c, n)[2] = c[2] /\ Fits(c, n) \in Chunk
    BY <1>1, <1>2 DEF Fits, Size, Chunk
  <2>3. Size(Fits(c, n)) = Size(c)
    BY <2>2 DEF Size
  <2>4. Bytes(Fits(c, n)) = Bytes(c)
    BY <2>2, <2>3, Zenon DEF Bytes
  <2>5. Sized(c)
    BY ChunkFacts
  <2>6. Bytes(c) = Bytes(c) \o <<>>
    BY <2>5 DEF Sized
  <2>7. Size(c) \in 1 .. Size(c) /\ Len(Bytes(c)) = Size(c) /\ Bytes(c) \in Seq(Nat)
    BY <2>5 DEF Sized
  <2>. QED  BY <2>1, <2>4, <2>6, <2>7, EmptyChunk, Zenon DEF Split
<1>3. CASE Size(c) > n
  <2> DEFINE a == <<c[1], c[1] + n - 1>>
             b == <<c[1] + n, c[2]>>
  <2>1. Kept(c, n) = b /\ Fits(c, n) = a
    BY <1>1, <1>3 DEF Kept, Fits, Size
  <2>2. a \in Chunk /\ b \in Chunk
    BY <1>1, <1>3 DEF Chunk, Size
  <2>3. Size(a) = n /\ Size(b) = Size(c) - n /\ a[1] = c[1] /\ b[1] = c[1] + n
    BY <1>1 DEF Size
  <2> HIDE DEF a, b
  <2>4. Sized(a) /\ Sized(b) /\ Sized(c)
    BY <2>2, ChunkFacts
  <2>5. Size(b) > 0 /\ n \in 1 .. Size(c)
    BY <1>3, <2>3, <2>4 DEF Sized
  <2>6. Bytes(c) = Bytes(a) \o Bytes(b)
    <3> DEFINE x == Bytes(a)
               y == Bytes(b)
    <3>1. /\ \A i \in 1 .. n : x[i] = c[1] + i - 1
          /\ \A i \in 1 .. Size(c) - n : y[i] = (c[1] + n) + i - 1
      BY <2>3 DEF Bytes
    <3>2. /\ x \in Seq(Nat) /\ y \in Seq(Nat) /\ Len(x) = n /\ Len(y) = Size(c) - n
          /\ Size(c) \in Nat
      BY <2>3, <2>4 DEF Sized
    <3> HIDE DEF x, y
    <3> DEFINE z == x \o y
    <3>3. /\ z \in Seq(Nat) /\ Len(z) = Size(c)
          /\ \A i \in 1 .. n : z[i] = x[i]
          /\ \A i \in n + 1 .. Size(c) : z[i] = y[i - n]
      BY <3>2
    <3> HIDE DEF z
    <3>4. ASSUME NEW i \in 1 .. Size(c)
          PROVE  z[i] = c[1] + i - 1
      <4>1. CASE i \in 1 .. n
        BY <3>1, <3>3, <4>1
      <4>2. CASE i \in n + 1 .. Size(c)
        <5>1. i - n \in 1 .. Size(c) - n /\ (c[1] + n) + (i - n) - 1 = c[1] + i - 1
          BY <1>1, <3>2, <4>2
        <5>2. y[i - n] = (c[1] + n) + (i - n) - 1
          BY <3>1, <5>1, Zenon
        <5>. QED  BY <3>3, <4>2, <5>1, <5>2, Zenon
      <4>. QED  BY <3>2, <4>1, <4>2
    <3>6. z = [i \in 1 .. Size(c) |-> z[i]]
      BY <3>2, <3>3
    <3>5. Bytes(c) = x \o y
      BY <3>4, <3>6, Zenon DEF Bytes, z
    <3>. QED  BY <3>5 DEF x, y
  <2>. QED  BY <2>1, <2>2, <2>3, <2>4, <2>5, <2>6, Zenon DEF Split, Sized
<1>. QED  BY <1>2, <1>3, <1>1 DEF Size

\* What a queue of frames holds of a stream: its head and the others, and what is appended.
OfFrame(f, s) == IF f.stream = s THEN Size(f.chunk) ELSE 0
BytesOfFrame(f, s) == IF f.stream = s THEN Bytes(f.chunk) ELSE <<>>
FrameQueue(q, f, s) ==
  /\ Sum(Unseen(q, s)) \in Nat
  /\ Sum(Unseen(Append(q, f), s)) = Sum(Unseen(q, s)) + OfFrame(f, s)
  /\ q = <<>> => Sum(Unseen(q, s)) = 0
  /\ q # <<>> => Sum(Unseen(q, s)) = OfFrame(Head(q), s) + Sum(Unseen(Tail(q), s))
  /\ Flat(Framed(q, s)) \in Seq(Nat)
  /\ Flat(Framed(Append(q, f), s)) = Flat(Framed(q, s)) \o BytesOfFrame(f, s)
  /\ q = <<>> => Flat(Framed(q, s)) = <<>>
  /\ q # <<>> => Flat(Framed(q, s)) = BytesOfFrame(Head(q), s) \o Flat(Framed(Tail(q), s))

\* try_send and recv change what the queue of the worker holds so.
LEMMA FrameQueueFacts ==
  ASSUME NEW q \in Seq(Frame), NEW f \in Frame, NEW s
  PROVE  FrameQueue(q, f, s)
<1> DEFINE m == [g \in Frame |-> OfFrame(g, s)]
           w == [g \in Frame |-> BytesOfFrame(g, s)]
<1>1. m \in [Frame -> Nat]
  <2>1. ASSUME NEW g \in Frame PROVE OfFrame(g, s) \in Nat
    <3>1. Size(g.chunk) \in Nat
      BY ChunkFacts DEF Sized, Frame
    <3>. QED  BY <3>1 DEF OfFrame
  <2>. QED  BY <2>1
<1>2. w \in [Frame -> Seq(Nat)]
  <2>1. ASSUME NEW g \in Frame PROVE BytesOfFrame(g, s) \in Seq(Nat)
    <3>1. Bytes(g.chunk) \in Seq(Nat)
      BY ChunkFacts DEF Sized, Frame
    <3>. QED  BY <3>1 DEF BytesOfFrame
  <2>. QED  BY <2>1
<1>3. ASSUME NEW r \in Seq(Frame)
      PROVE  Unseen(r, s) = Image(r, m) /\ Framed(r, s) = Image(r, w)
  <2>1. \A i \in DOMAIN r : r[i] \in Frame
    OBVIOUS
  <2>2. \A i \in DOMAIN r : m[r[i]] = OfFrame(r[i], s) /\ w[r[i]] = BytesOfFrame(r[i], s)
    BY <2>1, Zenon
  <2> HIDE DEF m, w
  <2>. QED  BY <2>2, Zenon DEF Unseen, Framed, Image, OfFrame, BytesOfFrame
<1>4. Append(q, f) \in Seq(Frame) /\ (q # <<>> => Tail(q) \in Seq(Frame) /\ Head(q) \in Frame)
  OBVIOUS
<1>5. m[f] = OfFrame(f, s) /\ (q # <<>> => m[Head(q)] = OfFrame(Head(q), s))
  BY <1>4, Zenon
<1>6. w[f] = BytesOfFrame(f, s) /\ (q # <<>> => w[Head(q)] = BytesOfFrame(Head(q), s))
  BY <1>4, Zenon
<1> HIDE DEF m, w
<1>7. Weighed(q, m, f)
  BY <1>1, WeighedFacts, Zenon
<1>8. Joined(q, w, f)
  BY <1>2, JoinedFacts, Zenon
<1>9. /\ Unseen(q, s) = Image(q, m) /\ Framed(q, s) = Image(q, w)
      /\ Unseen(Append(q, f), s) = Image(Append(q, f), m)
      /\ Framed(Append(q, f), s) = Image(Append(q, f), w)
      /\ q # <<>> => /\ Unseen(Tail(q), s) = Image(Tail(q), m)
                     /\ Framed(Tail(q), s) = Image(Tail(q), w)
  BY <1>3, <1>4, Zenon
<1>. QED  BY <1>5, <1>6, <1>7, <1>8, <1>9, Zenon DEF FrameQueue, Weighed, Joined

\* What a queue of updates returns to a stream, or to the session.
OfUpdate(u, s) == IF u.stream = s THEN u.delta ELSE 0
UpdateQueue(q, u, s) ==
  /\ Sum(Credits(q, s)) \in Nat
  /\ Sum(Credits(Append(q, u), s)) = Sum(Credits(q, s)) + OfUpdate(u, s)
  /\ q = <<>> => Sum(Credits(q, s)) = 0
  /\ q # <<>> => Sum(Credits(q, s)) = OfUpdate(Head(q), s) + Sum(Credits(Tail(q), s))

\* try_send and recv change what the window channel returns so.
LEMMA UpdateQueueFacts ==
  ASSUME NEW q \in Seq(Updates), NEW u \in Updates, NEW s
  PROVE  UpdateQueue(q, u, s)
<1> DEFINE m == [v \in Updates |-> OfUpdate(v, s)]
<1>1. m \in [Updates -> Nat]
  <2>1. ASSUME NEW v \in Updates PROVE OfUpdate(v, s) \in Nat
    BY DEF OfUpdate, Updates
  <2>. QED  BY <2>1
<1>3. ASSUME NEW r \in Seq(Updates)
      PROVE  Credits(r, s) = Image(r, m)
  <2>1. \A i \in DOMAIN r : r[i] \in Updates
    OBVIOUS
  <2>2. \A i \in DOMAIN r : m[r[i]] = OfUpdate(r[i], s)
    BY <2>1, Zenon
  <2> HIDE DEF m
  <2>. QED  BY <2>2, Zenon DEF Credits, Image, OfUpdate
<1>4. Append(q, u) \in Seq(Updates) /\ (q # <<>> => Tail(q) \in Seq(Updates) /\ Head(q) \in Updates)
  OBVIOUS
<1>5. m[u] = OfUpdate(u, s) /\ (q # <<>> => m[Head(q)] = OfUpdate(Head(q), s))
  BY <1>4, Zenon
<1> HIDE DEF m
<1>7. Weighed(q, m, u)
  BY <1>1, WeighedFacts, Zenon
<1>9. /\ Credits(q, s) = Image(q, m)
      /\ Credits(Append(q, u), s) = Image(Append(q, u), m)
      /\ q # <<>> => Credits(Tail(q), s) = Image(Tail(q), m)
  BY <1>3, <1>4, Zenon
<1>. QED  BY <1>5, <1>7, <1>9, Zenon DEF UpdateQueue, Weighed

\* The bytes of a channel.
ChunkQueue(q, c) ==
  /\ Flat(Channelled(q)) \in Seq(Nat)
  /\ Flat(Channelled(Append(q, c))) = Flat(Channelled(q)) \o Bytes(c)
  /\ q = <<>> => Flat(Channelled(q)) = <<>>
  /\ q # <<>> => Flat(Channelled(q)) = Bytes(Head(q)) \o Flat(Channelled(Tail(q)))

\* try_send and poll_recv change what the channel of a stream holds so.
LEMMA ChunkQueueFacts ==
  ASSUME NEW q \in Seq(Chunk), NEW c \in Chunk
  PROVE  ChunkQueue(q, c)
<1> DEFINE m == [d \in Chunk |-> Bytes(d)]
<1>1. m \in [Chunk -> Seq(Nat)]
  <2>1. ASSUME NEW d \in Chunk PROVE Bytes(d) \in Seq(Nat)
    BY ChunkFacts DEF Sized
  <2>. QED  BY <2>1
<1>3. ASSUME NEW r \in Seq(Chunk)
      PROVE  Channelled(r) = Image(r, m)
  <2>1. \A i \in DOMAIN r : r[i] \in Chunk
    OBVIOUS
  <2>2. \A i \in DOMAIN r : m[r[i]] = Bytes(r[i])
    BY <2>1, Zenon
  <2> HIDE DEF m
  <2>. QED  BY <2>2, Zenon DEF Channelled, Image
<1>4. Append(q, c) \in Seq(Chunk) /\ (q # <<>> => Tail(q) \in Seq(Chunk) /\ Head(q) \in Chunk)
  OBVIOUS
<1>5. m[c] = Bytes(c) /\ (q # <<>> => m[Head(q)] = Bytes(Head(q)))
  BY <1>4, Zenon
<1> HIDE DEF m
<1>7. Joined(q, m, c)
  BY <1>1, JoinedFacts, Zenon
<1>9. /\ Channelled(q) = Image(q, m)
      /\ Channelled(Append(q, c)) = Image(Append(q, c), m)
      /\ q # <<>> => Channelled(Tail(q)) = Image(Tail(q), m)
  BY <1>3, <1>4, Zenon
<1>. QED  BY <1>5, <1>7, <1>9, Zenon DEF ChunkQueue, Joined

\* What Append and Tail do to a queue.
LEMMA AppendFacts ==
  ASSUME NEW X, NEW q \in Seq(X), NEW x \in X
  PROVE  /\ Append(q, x) \in Seq(X) /\ Len(Append(q, x)) = Len(q) + 1 /\ Len(q) \in Nat
         /\ \A i \in 1 .. Len(q) : Append(q, x)[i] = q[i]
         /\ Append(q, x)[Len(q) + 1] = x
OBVIOUS

\* The element taken from the front of a queue, and the queue it leaves.
LEMMA TailFacts ==
  ASSUME NEW X, NEW q \in Seq(X), q # <<>>
  PROVE  /\ Tail(q) \in Seq(X) /\ Len(Tail(q)) = Len(q) - 1 /\ Len(q) \in Nat \ {0}
         /\ Head(q) \in X /\ Head(q) = q[1]
         /\ \A i \in 1 .. Len(q) - 1 : Tail(q)[i] = q[i + 1]
OBVIOUS

(***************************************************************************)
(* Every step keeps the invariant.                                         *)
(***************************************************************************)

\* What Taken moves from a counter to the window channel is neither lost nor doubled
\* (worker.rs, reader.rs: the counter is reset only when try_send succeeds).
Counted(t, n) ==
  /\ Rest(n) \in Nat
  /\ Queued(t, n) \in Seq(Updates) /\ Len(Queued(t, n)) <= WindowCap
  /\ Sum(Credits(Queued(t, n), t)) + Rest(n) = Sum(Credits(window_tx, t)) + n
  /\ \A s : s # t => Sum(Credits(Queued(t, n), s)) = Sum(Credits(window_tx, s))
  /\ \A s : Sum(Credits(Queued(t, n), s)) \in Nat /\ Sum(Credits(window_tx, s)) \in Nat

\* The reset of a counter and the update sent for it are one step.
LEMMA CountedFacts ==
  ASSUME Types, NEW t \in Streams \cup {Session}, NEW n \in Nat
  PROVE  Counted(t, n)
<1> DEFINE u == Update(t, n)
<1>1. u \in Updates /\ u.stream = t /\ u.delta = n
  BY DEF Update, Updates
<1>2. window_tx \in Seq(Updates) /\ Len(window_tx) <= WindowCap /\ WindowCap \in Nat
  BY RecvAssumption DEF Types
<1> HIDE DEF u
<1>3. \A s : UpdateQueue(window_tx, u, s)
  BY <1>1, <1>2, UpdateQueueFacts, Zenon
<1>4. \A s : /\ Sum(Credits(window_tx, s)) \in Nat
             /\ Sum(Credits(Append(window_tx, u), s)) = Sum(Credits(window_tx, s)) + OfUpdate(u, s)
  BY <1>3, Zenon DEF UpdateQueue
<1>5. OfUpdate(u, t) = n /\ \A s : s # t => OfUpdate(u, s) = 0
  BY <1>1, Zenon DEF OfUpdate
<1>6. CASE Taken(n)
  <2>1. Rest(n) = 0 /\ Queued(t, n) = Append(window_tx, u) /\ Len(window_tx) < WindowCap
    BY <1>6, Zenon DEF Rest, Queued, Taken, u
  <2>2. Append(window_tx, u) \in Seq(Updates) /\ Len(Append(window_tx, u)) <= WindowCap
    BY <1>1, <1>2, <2>1
  <2>3. Sum(Credits(Append(window_tx, u), t)) = Sum(Credits(window_tx, t)) + n
    BY <1>4, <1>5, Zenon
  <2>4. ASSUME NEW s, s # t
        PROVE  Sum(Credits(Append(window_tx, u), s)) = Sum(Credits(window_tx, s))
    <3>1. Sum(Credits(Append(window_tx, u), s)) = Sum(Credits(window_tx, s)) + 0
      BY <1>4, <1>5, <2>4, Zenon
    <3>. QED  BY <1>4, <3>1
  <2>5. ASSUME NEW s PROVE Sum(Credits(Append(window_tx, u), s)) \in Nat
    <3>1. CASE s = t
      BY <1>4, <2>3, <3>1
    <3>2. CASE s # t
      BY <1>4, <2>4, <3>2, Zenon
    <3>. QED  BY <3>1, <3>2
  <2>6. Sum(Credits(Queued(t, n), t)) + Rest(n) = Sum(Credits(window_tx, t)) + n
    <3>1. Sum(Credits(Queued(t, n), t)) = Sum(Credits(window_tx, t)) + n
      BY <2>1, <2>3, Zenon
    <3>2. Sum(Credits(window_tx, t)) \in Nat /\ Rest(n) = 0
      BY <1>4, <2>1, Zenon
    <3>. QED  BY <3>1, <3>2
  <2>7. Rest(n) \in Nat
    BY <2>1
  <2>8. \A s : s # t => Sum(Credits(Queued(t, n), s)) = Sum(Credits(window_tx, s))
    BY <2>1, <2>4, Zenon
  <2>9. \A s : Sum(Credits(Queued(t, n), s)) \in Nat
    BY <2>1, <2>5, Zenon
  <2>. QED  BY <1>4, <2>1, <2>2, <2>6, <2>7, <2>8, <2>9, Zenon DEF Counted
<1>7. CASE ~Taken(n)
  <2>1. Rest(n) = n /\ Queued(t, n) = window_tx
    BY <1>7, Zenon DEF Rest, Queued
  <2>. QED  BY <1>2, <1>4, <2>1, Zenon DEF Counted
<1>. QED  BY <1>6, <1>7

\* The reader: what it counts and routes adds up, and FIN comes last (reader.rs:244-289).
LEMMA RouteStep ==
  ASSUME Inv, NEW s \in Streams, RouteData(s)
  PROVE  Inv'
<1>1. PICK n \in 0 .. MaxChunk, last \in BOOLEAN :
       /\ n <= window[s] /\ sent[s] + n <= MaxBytes
       /\ n = 0 => last
       /\ sent' = [sent EXCEPT ![s] = @ + n]
       /\ window' = [window EXCEPT ![s] = @ - n]
       /\ fin' = [fin EXCEPT ![s] = last]
       /\ received' = received + n
       /\ IF n > 0
          THEN /\ session_recv_consumed' = Rest(session_recv_consumed + n)
               /\ window_tx' = Queued(Session, session_recv_consumed + n)
          ELSE UNCHANGED <<session_recv_consumed, window_tx>>
       /\ \/ /\ Len(frame_tx) < FrameCap
             /\ frame_tx' = Append(frame_tx, [stream |-> s, fin |-> last,
                                              chunk |-> <<sent[s] + 1, sent[s] + n>>])
             /\ UNCHANGED <<rst, lost>>
          \/ /\ Len(frame_tx) = FrameCap
             /\ rst' \in {[rst EXCEPT ![s] = TRUE], rst}
             /\ lost' = [lost EXCEPT ![s] = @ + n]
             /\ UNCHANGED frame_tx
  BY DEF RouteData
<1>2. /\ ~cancelled /\ ~fin[s] /\ ~rst[s]
      /\ UNCHANGED <<data_tx, data_rx, consumed, read_buf, got, read_eof, cancelled, returned>>
  BY DEF RouteData
<1>n. n \in Nat /\ MaxBytes \in Nat /\ FrameCap \in Nat
  BY RecvAssumption
<1>s. Session \notin Streams
  BY RecvAssumption
<1>t. Types
  BY DEF Inv
<1> DEFINE f == [stream |-> s, fin |-> last, chunk |-> <<sent[s] + 1, sent[s] + n>>]
<1>3. sent[s] \in Nat /\ window[s] \in Nat
  BY <1>t, <1>n DEF Types
<1>4. f \in Frame /\ f.stream = s /\ f.fin = last /\ Size(f.chunk) = n
  BY <1>3, <1>n DEF Frame, Chunk, Size
<1>5. frame_tx' = Append(frame_tx, f) \/ frame_tx' = frame_tx
  BY <1>1
<1> HIDE DEF f
<1>6. /\ session_recv_consumed' \in Nat
      /\ window_tx' \in Seq(Updates) /\ Len(window_tx') <= WindowCap
      /\ Sum(Credits(window_tx', Session)) + session_recv_consumed'
           = Sum(Credits(window_tx, Session)) + session_recv_consumed + n
      /\ \A t \in Streams : Sum(Credits(window_tx', t)) = Sum(Credits(window_tx, t))
  <2>0. session_recv_consumed \in Nat /\ session_recv_consumed + n \in Nat
    BY <1>t, <1>n DEF Types
  <2>1. Counted(Session, session_recv_consumed + n)
    BY <1>t, <2>0, CountedFacts
  <2>2. CASE n > 0
    <3>1. /\ session_recv_consumed' = Rest(session_recv_consumed + n)
          /\ window_tx' = Queued(Session, session_recv_consumed + n)
      BY <1>1, <2>2
    <3>2. /\ session_recv_consumed' \in Nat
          /\ window_tx' \in Seq(Updates) /\ Len(window_tx') <= WindowCap
          /\ Sum(Credits(window_tx', Session)) + session_recv_consumed'
           = Sum(Credits(window_tx, Session)) + (session_recv_consumed + n)
          /\ Sum(Credits(window_tx, Session)) \in Nat
      BY <2>1, <3>1, Zenon DEF Counted
    <3>3. \A t \in Streams : Sum(Credits(window_tx', t)) = Sum(Credits(window_tx, t))
      BY <1>s, <2>1, <3>1, Zenon DEF Counted
    <3>4. Sum(Credits(window_tx, Session)) + (session_recv_consumed + n)
            = Sum(Credits(window_tx, Session)) + session_recv_consumed + n
      BY <2>0, <3>2, <1>n
    <3>. QED  BY <3>2, <3>3, <3>4, Zenon
  <2>3. CASE n = 0
    <3>1. session_recv_consumed' = session_recv_consumed /\ window_tx' = window_tx
      BY <1>1, <2>3
    <3>2. Sum(Credits(window_tx, Session)) \in Nat
      BY <2>1, Zenon DEF Counted
    <3>3. Sum(Credits(window_tx, Session)) + session_recv_consumed
            = Sum(Credits(window_tx, Session)) + session_recv_consumed + n
      BY <2>0, <2>3, <3>2
    <3>. QED  BY <1>t, <3>1, <3>3, Zenon DEF Types
  <2>. QED  BY <1>n, <2>2, <2>3
<1>7. /\ frame_tx' \in Seq(Frame) /\ Len(frame_tx') <= FrameCap
      /\ lost' \in [Streams -> Nat] /\ rst' \in [Streams -> BOOLEAN]
      /\ \A t \in Streams : rst[t] => rst'[t]
  <2>0. /\ frame_tx \in Seq(Frame) /\ Len(frame_tx) <= FrameCap
        /\ lost \in [Streams -> Nat] /\ rst \in [Streams -> BOOLEAN]
    BY <1>t, Zenon DEF Types
  <2>1. \/ Len(frame_tx) < FrameCap /\ frame_tx' = Append(frame_tx, f) /\ rst' = rst /\ lost' = lost
        \/ /\ rst' \in {[rst EXCEPT ![s] = TRUE], rst} /\ frame_tx' = frame_tx
           /\ lost' = [lost EXCEPT ![s] = @ + n]
    BY <1>1, Zenon DEF f
  <2>2. frame_tx' \in Seq(Frame) /\ Len(frame_tx') <= FrameCap
    <3>1. Append(frame_tx, f) \in Seq(Frame) /\ Len(Append(frame_tx, f)) = Len(frame_tx) + 1
      BY <1>4, <2>0
    <3>2. Len(frame_tx) < FrameCap => Len(frame_tx) + 1 <= FrameCap
      BY <1>n, <2>0
    <3>. QED  BY <2>0, <2>1, <3>1, <3>2, Zenon
  <2>3. lost' \in [Streams -> Nat]
    <3>1. lost[s] + n \in Nat
      BY <1>n, <2>0
    <3>. QED  BY <2>0, <2>1, <3>1, Zenon
  <2>4. rst' \in [Streams -> BOOLEAN] /\ \A t \in Streams : rst[t] => rst'[t]
    <3>1. rst' = rst \/ rst' = [rst EXCEPT ![s] = TRUE]
      BY <2>1, Zenon
    <3>. QED  BY <2>0, <3>1, Zenon
  <2>. QED  BY <2>2, <2>3, <2>4
<1>8. \A t \in Streams : /\ Sum(Unseen(frame_tx, t)) \in Nat /\ Sum(Unseen(frame_tx', t)) \in Nat
                         /\ Sum(Unseen(frame_tx', t)) + lost'[t]
                              = Sum(Unseen(frame_tx, t)) + lost[t] + (IF t = s THEN n ELSE 0)
  <2> TAKE t \in Streams
  <2>1. lost[t] \in Nat
    BY <1>t DEF Types
  <2>2. FrameQueue(frame_tx, f, t)
    BY <1>t, <1>4, FrameQueueFacts, Zenon DEF Types
  <2>3. /\ Sum(Unseen(frame_tx, t)) \in Nat
        /\ Sum(Unseen(Append(frame_tx, f), t)) = Sum(Unseen(frame_tx, t)) + OfFrame(f, t)
    BY <2>2, Zenon DEF FrameQueue
  <2>4. OfFrame(f, t) = IF t = s THEN n ELSE 0
    BY <1>4, Zenon DEF OfFrame
  <2>5. CASE frame_tx' = Append(frame_tx, f) /\ lost' = lost
    <3>1. Sum(Unseen(frame_tx', t)) = Sum(Unseen(frame_tx, t)) + (IF t = s THEN n ELSE 0)
      BY <2>3, <2>4, <2>5, Zenon
    <3>. QED  BY <2>1, <2>3, <2>5, <3>1, <1>n
  <2>6. CASE frame_tx' = frame_tx /\ lost' = [lost EXCEPT ![s] = @ + n]
    <3>1. lost'[t] = lost[t] + (IF t = s THEN n ELSE 0)
      BY <1>t, <2>1, <2>6 DEF Types
    <3>2. Sum(Unseen(frame_tx', t)) = Sum(Unseen(frame_tx, t))
      BY <2>6, Zenon
    <3>. QED  BY <2>1, <2>3, <3>1, <3>2, <1>n
  <2>. QED  BY <1>1, <2>5, <2>6, Zenon DEF f
<1>9. Types'
  <2>1. sent' \in [Streams -> 0 .. MaxBytes]
    <3>1. sent[s] + n \in 0 .. MaxBytes
      BY <1>1, <1>3, <1>n
    <3>. QED  BY <1>1, <1>t, <3>1, Zenon DEF Types
  <2>2. window' \in [Streams -> Nat]
    <3>1. window[s] - n \in Nat
      BY <1>1, <1>3, <1>n
    <3>. QED  BY <1>1, <1>t, <3>1, Zenon DEF Types
  <2>3. fin' \in [Streams -> BOOLEAN]
    BY <1>1, <1>t, Zenon DEF Types
  <2>4. received' \in Nat
    BY <1>1, <1>n, <1>t DEF Types
  <2>. QED  BY <1>2, <1>6, <1>7, <1>t, <2>1, <2>2, <2>3, <2>4, Zenon DEF Types
<1>10. Channels'
  BY <1>2, Zenon DEF Inv, Channels
<1>11. ASSUME NEW t \in Streams, fin[t] PROVE fin'[t] /\ t # s
  BY <1>1, <1>2, <1>11, <1>t, Zenon DEF Types
<1>q. Len(frame_tx) \in Nat /\ \A i \in 1 .. Len(frame_tx) : frame_tx[i].stream \in Streams
  <2>1. frame_tx \in Seq(Frame)
    BY <1>t, Zenon DEF Types
  <2>2. Len(frame_tx) \in Nat /\ \A i \in 1 .. Len(frame_tx) : frame_tx[i] \in Frame
    BY <2>1
  <2>. QED  BY <2>2 DEF Frame
<1>12. ASSUME frame_tx' = frame_tx PROVE FinIsLast' /\ SenderDropped'
  <2>1. FinIsLast'
    BY <1>11, <1>12, <1>q, Zenon DEF Inv, FinIsLast
  <2>2. SenderDropped'
    <3>1. ASSUME NEW t \in Streams, data_tx'[t] = "half"
          PROVE  fin'[t] /\ \A i \in 1 .. Len(frame_tx') : frame_tx'[i].stream # t
      BY <1>2, <1>11, <1>12, <3>1, Zenon DEF Inv, SenderDropped
    <3>2. \A t \in Streams : data_tx'[t] = "gone" => rst'[t] \/ cancelled'
      BY <1>2, <1>7, Zenon DEF Inv, SenderDropped
    <3>. QED  BY <3>1, <3>2 DEF SenderDropped
  <2>. QED  BY <2>1, <2>2
<1>13. ASSUME frame_tx' = Append(frame_tx, f) PROVE FinIsLast' /\ SenderDropped'
  <2> DEFINE r == frame_tx'
  <2>1. /\ Len(r) = Len(frame_tx) + 1 /\ r[Len(frame_tx) + 1] = f
        /\ \A i \in 1 .. Len(frame_tx) : r[i] = frame_tx[i]
    BY <1>13, <1>4, <1>t, AppendFacts DEF Types
  <2> HIDE DEF r
  <2>2. \A i \in 1 .. Len(r) : i \in 1 .. Len(frame_tx) \/ i = Len(r)
    BY <2>1, <1>q
  <2>e. \A j \in Len(r) + 1 .. Len(r) : FALSE
    BY <2>1, <1>q
  <2>3. ASSUME NEW i \in 1 .. Len(r), r[i].fin
        PROVE  /\ fin'[r[i].stream]
               /\ \A j \in i + 1 .. Len(r) : r[j].stream # r[i].stream
    <3>1. CASE i \in 1 .. Len(frame_tx)
      <4>1. /\ frame_tx[i].fin /\ fin[frame_tx[i].stream] /\ r[i] = frame_tx[i]
            /\ \A j \in i + 1 .. Len(frame_tx) : frame_tx[j].stream # frame_tx[i].stream
        BY <2>1, <2>3, <3>1, Zenon DEF Inv, FinIsLast
      <4>2. fin'[r[i].stream] /\ r[i].stream # s
        BY <1>11, <1>q, <3>1, <4>1, Zenon
      <4>3. ASSUME NEW j \in i + 1 .. Len(r) PROVE r[j].stream # r[i].stream
        <5>1. (j \in i + 1 .. Len(frame_tx) /\ j \in 1 .. Len(frame_tx)) \/ j = Len(frame_tx) + 1
          BY <2>1, <1>q, <3>1
        <5>. QED  BY <1>4, <2>1, <4>1, <4>2, <5>1, Zenon
      <4>. QED  BY <4>2, <4>3
    <3>2. CASE i = Len(r)
      <4>1. r[i] = f /\ last
        BY <1>4, <2>1, <2>3, <3>2, Zenon
      <4>2. fin'[s]
        BY <1>1, <1>t, <4>1, Zenon DEF Types
      <4>. QED  BY <1>4, <2>e, <3>2, <4>1, <4>2, Zenon
    <3>. QED  BY <2>2, <3>1, <3>2
  <2>4. FinIsLast'
    BY <2>3, Zenon DEF FinIsLast, r
  <2>5. ASSUME NEW t \in Streams, data_tx'[t] = "half"
        PROVE  fin'[t] /\ \A i \in 1 .. Len(r) : r[i].stream # t
    <3>1. fin[t] /\ \A i \in 1 .. Len(frame_tx) : frame_tx[i].stream # t
      BY <1>2, <2>5, Zenon DEF Inv, SenderDropped
    <3>2. fin'[t] /\ t # s
      BY <1>11, <3>1
    <3>3. ASSUME NEW i \in 1 .. Len(r) PROVE r[i].stream # t
      BY <1>4, <2>1, <2>2, <3>1, <3>2, Zenon
    <3>. QED  BY <3>2, <3>3
  <2>6. \A t \in Streams : data_tx'[t] = "gone" => rst'[t] \/ cancelled'
    BY <1>2, <1>7, Zenon DEF Inv, SenderDropped
  <2>7. SenderDropped'
    BY <2>5, <2>6 DEF SenderDropped, r
  <2>. QED  BY <2>4, <2>7
<1>14. ASSUME NEW t \in Streams PROVE StreamBalance(t)'
  <2>1. /\ window[t] \in Nat /\ consumed[t] \in Nat /\ lost[t] \in Nat /\ lost'[t] \in Nat
        /\ window'[t] = window[t] - (IF t = s THEN n ELSE 0) /\ consumed' = consumed
    <3>1. /\ window \in [Streams -> Nat] /\ consumed[t] \in Nat /\ lost[t] \in Nat
          /\ lost'[t] \in Nat /\ consumed' = consumed /\ window' = [window EXCEPT ![s] = @ - n]
      BY <1>1, <1>2, <1>7, <1>t, Zenon DEF Types
    <3>. QED  BY <1>n, <3>1
  <2>2. /\ Sum(Credits(window_tx', t)) = Sum(Credits(window_tx, t))
        /\ Sum(Credits(window_tx, t)) \in Nat
    <3>1. Counted(Session, 0)
      BY <1>t, CountedFacts
    <3>. QED  BY <1>6, <3>1, Zenon DEF Counted
  <2>3. /\ Sum(Unseen(frame_tx, t)) \in Nat /\ Sum(Unseen(frame_tx', t)) \in Nat
        /\ Sum(Unseen(frame_tx', t)) + lost'[t]
                              = Sum(Unseen(frame_tx, t)) + lost[t] + (IF t = s THEN n ELSE 0)
    BY <1>8, Zenon
  <2>4. StreamBalance(t)
    BY DEF Inv
  <2>5. window[t] + Sum(Unseen(frame_tx, t)) + consumed[t] + Sum(Credits(window_tx, t)) + lost[t]
          = InitialWindow
    BY <2>4, Zenon DEF StreamBalance
  <2>6. window'[t] + Sum(Unseen(frame_tx', t)) + consumed[t] + Sum(Credits(window_tx, t)) + lost'[t]
          = InitialWindow
    BY <2>1, <2>2, <2>3, <2>5, <1>n
  <2>. QED  BY <2>1, <2>2, <2>6, Zenon DEF StreamBalance
<1>15. SessionBalance'
  <2>1. /\ received \in Nat /\ returned \in Nat /\ session_recv_consumed \in Nat
        /\ returned' = returned /\ received' = received + n
    BY <1>1, <1>2, <1>t DEF Types
  <2>2. Sum(Credits(window_tx, Session)) \in Nat
    <3>1. Counted(Session, 0)
      BY <1>t, CountedFacts
    <3>. QED  BY <3>1, Zenon DEF Counted
  <2>3. Sum(Credits(window_tx', Session)) \in Nat
    <3>1. UpdateQueue(window_tx', Update(Session, 0), Session)
      <4>1. Update(Session, 0) \in Updates
        BY DEF Update, Updates
      <4>. QED  BY <1>6, <4>1, UpdateQueueFacts, Zenon
    <3>. QED  BY <3>1, Zenon DEF UpdateQueue
  <2>4. received = returned + session_recv_consumed + Sum(Credits(window_tx, Session))
    BY Zenon DEF Inv, SessionBalance
  <2>5. received' = returned' + session_recv_consumed' + Sum(Credits(window_tx', Session))
    <3>1. /\ session_recv_consumed' \in Nat
          /\ Sum(Credits(window_tx', Session)) + session_recv_consumed'
               = Sum(Credits(window_tx, Session)) + session_recv_consumed + n
      BY <1>6, Zenon
    <3>. QED  BY <2>1, <2>2, <2>3, <2>4, <3>1, <1>n
  <2>. QED  BY <2>5, Zenon DEF SessionBalance
<1>. QED  BY <1>5, <1>9, <1>10, <1>12, <1>13, <1>14, <1>15, Zenon DEF Inv

\* The worker: a chunk leaves the queue for the channel and the counter, or is lost, and
\* FIN drops the sender after it (worker.rs:104-260).
LEMMA DispatchStep ==
  ASSUME Inv, DispatchData
  PROVE  Inv'
<1> DEFINE f == Head(frame_tx)
           s == f.stream
           n == Size(f.chunk)
           q == frame_tx'
<1>t. Types
  BY DEF Inv
<1>0. frame_tx # <<>> /\ frame_tx \in Seq(Frame) /\ q = Tail(frame_tx)
  BY <1>t, Zenon DEF DispatchData, Types
<1>1. /\ q \in Seq(Frame) /\ Len(q) = Len(frame_tx) - 1 /\ Len(frame_tx) \in Nat \ {0}
      /\ f \in Frame /\ f = frame_tx[1]
      /\ \A i \in 1 .. Len(frame_tx) - 1 : q[i] = frame_tx[i + 1]
  BY <1>0, TailFacts
<1>2. s \in Streams /\ f.chunk \in Chunk /\ f.fin \in BOOLEAN
  BY <1>1 DEF Frame
<1>3. n \in Nat /\ consumed[s] \in Nat /\ lost[s] \in Nat
  BY <1>2, <1>t, ChunkFacts DEF Sized, Types
<1>4. \/ /\ n > 0 /\ data_tx[s] = "open" /\ Len(data_rx[s]) < StreamCap
         /\ data_rx' = [data_rx EXCEPT ![s] = Append(@, f.chunk)]
         /\ consumed' = [consumed EXCEPT ![s] = Rest(consumed[s] + n)]
         /\ window_tx' = Queued(s, consumed[s] + n)
         /\ lost' = lost
      \/ /\ lost' = [lost EXCEPT ![s] = @ + n]
         /\ data_rx' = data_rx /\ consumed' = consumed /\ window_tx' = window_tx
  BY Zenon DEF DispatchData
<1>5. /\ data_tx' = [data_tx EXCEPT ![s] = IF f.fin /\ @ = "open" THEN "half" ELSE @]
      /\ UNCHANGED <<sent, window, fin, rst, session_recv_consumed, read_buf, got,
                     read_eof, cancelled, received, returned>>
  BY Zenon DEF DispatchData
<1>6. \A t : /\ Sum(Unseen(frame_tx, t)) \in Nat /\ Sum(Unseen(q, t)) \in Nat
             /\ t = s => Sum(Unseen(frame_tx, t)) = n + Sum(Unseen(q, t))
             /\ t # s => Sum(Unseen(frame_tx, t)) = Sum(Unseen(q, t))
  <2> TAKE t
  <2>1. FrameQueue(frame_tx, f, t) /\ FrameQueue(q, f, t)
    BY <1>0, <1>1, FrameQueueFacts, Zenon
  <2>2. /\ Sum(Unseen(frame_tx, t)) \in Nat /\ Sum(Unseen(q, t)) \in Nat
        /\ Sum(Unseen(frame_tx, t)) = OfFrame(f, t) + Sum(Unseen(q, t))
    BY <1>0, <2>1, Zenon DEF FrameQueue
  <2>3. (t = s => OfFrame(f, t) = n) /\ (t # s => OfFrame(f, t) = 0)
    BY Zenon DEF OfFrame
  <2>4. t # s => Sum(Unseen(frame_tx, t)) = Sum(Unseen(q, t))
    BY <2>2, <2>3
  <2>. QED  BY <2>2, <2>3, <2>4, Zenon
<1> HIDE DEF f, s, n, q
<1>7. Counted(s, consumed[s] + n)
  <2>1. consumed[s] + n \in Nat
    BY <1>3
  <2>. QED  BY <1>2, <1>t, <2>1, CountedFacts, Zenon
<1>8. /\ window_tx' \in Seq(Updates) /\ Len(window_tx') <= WindowCap
      /\ consumed' \in [Streams -> Nat] /\ lost' \in [Streams -> Nat]
      /\ data_rx' \in [Streams -> Seq(Chunk)]
  <2>1. lost[s] + n \in Nat
    BY <1>3
  <2>2. data_rx[s] \in Seq(Chunk)
    BY <1>2, <1>t, Zenon DEF Types
  <2>3. Append(data_rx[s], f.chunk) \in Seq(Chunk)
    BY <1>2, <2>2
  <2>4. /\ window_tx \in Seq(Updates) /\ Len(window_tx) <= WindowCap
        /\ consumed \in [Streams -> Nat] /\ lost \in [Streams -> Nat]
        /\ data_rx \in [Streams -> Seq(Chunk)]
    BY <1>t, Zenon DEF Types
  <2>5. /\ Rest(consumed[s] + n) \in Nat /\ Queued(s, consumed[s] + n) \in Seq(Updates)
        /\ Len(Queued(s, consumed[s] + n)) <= WindowCap
    BY <1>7, Zenon DEF Counted
  <2>6. data_rx' \in [Streams -> Seq(Chunk)]
    BY <1>4, <2>3, <2>4, Zenon
  <2>7. consumed' \in [Streams -> Nat]
    BY <1>4, <2>4, <2>5, Zenon
  <2>8. lost' \in [Streams -> Nat]
    BY <1>4, <2>1, <2>4, Zenon
  <2>9. window_tx' \in Seq(Updates) /\ Len(window_tx') <= WindowCap
    BY <1>4, <2>4, <2>5, Zenon
  <2>. QED  BY <2>6, <2>7, <2>8, <2>9, Zenon
<1>9. Types'
  <2>1. data_tx' \in [Streams -> {"open", "half", "gone"}]
    <3>1. data_tx \in [Streams -> {"open", "half", "gone"}]
      BY <1>t, Zenon DEF Types
    <3>2. (IF f.fin /\ data_tx[s] = "open" THEN "half" ELSE data_tx[s]) \in {"open", "half", "gone"}
      BY <1>2, <3>1, Zenon
    <3>. QED  BY <1>5, <3>1, <3>2, Zenon
  <2>2. Len(frame_tx') <= FrameCap
    <3>1. Len(frame_tx) <= FrameCap /\ FrameCap \in Nat
      BY <1>t, RecvAssumption DEF Types
    <3>. QED  BY <1>1, <3>1 DEF q
  <2>3. frame_tx' \in Seq(Frame)
    BY <1>1 DEF q
  <2>. QED  BY <1>5, <1>8, <1>t, <2>1, <2>2, <2>3, Zenon DEF Types
<1>10. Channels'
  <2>1. ASSUME NEW t \in Streams
        PROVE  /\ Len(data_rx'[t]) <= StreamCap
               /\ \A i \in 1 .. Len(data_rx'[t]) : Size(data_rx'[t][i]) > 0
    <3>1. /\ Len(data_rx[t]) <= StreamCap
          /\ \A i \in 1 .. Len(data_rx[t]) : Size(data_rx[t][i]) > 0
      BY Zenon DEF Inv, Channels
    <3>2. CASE data_rx'[t] = data_rx[t]
      BY <3>1, <3>2, Zenon
    <3>3. CASE /\ t = s /\ n > 0 /\ Len(data_rx[t]) < StreamCap
               /\ data_rx'[t] = Append(data_rx[t], f.chunk)
      <4> DEFINE x == data_rx[t]
                 y == data_rx'[t]
      <4>0. x \in Seq(Chunk)
        BY <1>t, Zenon DEF Types
      <4>1. /\ Len(y) = Len(x) + 1 /\ Len(x) \in Nat /\ y[Len(x) + 1] = f.chunk
            /\ \A i \in 1 .. Len(x) : y[i] = x[i]
        <5> HIDE DEF x
        <5>1. y = Append(x, f.chunk)
          BY <3>3 DEF x
        <5> HIDE DEF y
        <5>. QED  BY <1>2, <4>0, <5>1
      <4> HIDE DEF x, y
      <4>2. StreamCap \in Nat /\ Len(x) < StreamCap
        BY <3>3, RecvAssumption DEF x
      <4>3. Len(y) <= StreamCap
        BY <4>1, <4>2
      <4>4. \A i \in 1 .. Len(y) : i \in 1 .. Len(x) \/ i = Len(x) + 1
        BY <4>1
      <4>5. \A i \in 1 .. Len(x) : Size(x[i]) > 0
        BY <3>1 DEF x
      <4>6. Size(f.chunk) > 0
        BY <3>3 DEF n
      <4>7. \A i \in 1 .. Len(y) : Size(y[i]) > 0
        BY <4>1, <4>4, <4>5, <4>6, Zenon
      <4>. QED  BY <4>3, <4>7 DEF y
    <3>4. data_rx \in [Streams -> Seq(Chunk)]
      BY <1>t, Zenon DEF Types
    <3>. QED  BY <1>4, <3>2, <3>3, <3>4, Zenon
  <2>. QED  BY <1>5, <2>1, Zenon DEF Inv, Channels
<1>11. \A i \in 1 .. Len(q) : i + 1 \in 1 .. Len(frame_tx) /\ q[i] = frame_tx[i + 1]
  BY <1>1
<1>12. FinIsLast'
  <2>1. ASSUME NEW i \in 1 .. Len(q), q[i].fin
        PROVE  /\ fin'[q[i].stream]
               /\ \A j \in i + 1 .. Len(q) : q[j].stream # q[i].stream
    <3>1. /\ i + 1 \in 1 .. Len(frame_tx) /\ frame_tx[i + 1].fin /\ q[i] = frame_tx[i + 1]
      BY <1>11, <2>1, Zenon
    <3>2. /\ fin[q[i].stream]
          /\ \A j \in (i + 1) + 1 .. Len(frame_tx) : frame_tx[j].stream # q[i].stream
      BY <3>1, Zenon DEF Inv, FinIsLast
    <3>3. ASSUME NEW j \in i + 1 .. Len(q) PROVE q[j].stream # q[i].stream
      <4>1. j \in 1 .. Len(q) /\ j + 1 \in (i + 1) + 1 .. Len(frame_tx)
        BY <1>1
      <4>. QED  BY <1>11, <3>2, <4>1, Zenon
    <3>. QED  BY <1>5, <3>2, <3>3, Zenon
  <2>. QED  BY <2>1, Zenon DEF FinIsLast, q
<1>13. SenderDropped'
  <2>0. data_tx \in [Streams -> {"open", "half", "gone"}]
    BY <1>t, Zenon DEF Types
  <2>1. ASSUME NEW t \in Streams, data_tx'[t] = "half"
        PROVE  fin[t] /\ \A i \in 1 .. Len(q) : q[i].stream # t
    <3>1. CASE data_tx[t] = "half"
      <4>1. fin[t] /\ \A i \in 1 .. Len(frame_tx) : frame_tx[i].stream # t
        BY <3>1, Zenon DEF Inv, SenderDropped
      <4>. QED  BY <1>11, <4>1, Zenon
    <3>2. CASE data_tx[t] # "half"
      <4>1. t = s /\ f.fin
        BY <1>5, <2>0, <2>1, <3>2, Zenon
      <4>2. 1 \in 1 .. Len(frame_tx) /\ \A i \in 1 .. Len(q) : i + 1 \in 1 + 1 .. Len(frame_tx)
        BY <1>1
      <4>3. frame_tx[1].fin /\ frame_tx[1].stream = s
        BY <1>1, <4>1 DEF s
      <4>4. /\ fin[frame_tx[1].stream]
            /\ \A j \in 1 + 1 .. Len(frame_tx) : frame_tx[j].stream # frame_tx[1].stream
        BY <4>2, <4>3, Zenon DEF Inv, FinIsLast
      <4>. QED  BY <1>11, <4>1, <4>2, <4>3, <4>4, Zenon
    <3>. QED  BY <3>1, <3>2
  <2>2. ASSUME NEW t \in Streams, data_tx'[t] = "gone"
        PROVE  rst[t] \/ cancelled
    <3>1. data_tx[t] = "gone"
      BY <1>5, <2>0, <2>2, Zenon
    <3>. QED  BY <3>1, Zenon DEF Inv, SenderDropped
  <2>. QED  BY <1>5, <2>1, <2>2, Zenon DEF SenderDropped, q
<1>14. ASSUME NEW t \in Streams PROVE StreamBalance(t)'
  <2>1. /\ window[t] \in Nat /\ consumed[t] \in Nat /\ lost[t] \in Nat
        /\ window'[t] = window[t]
    BY <1>5, <1>t, Zenon DEF Types
  <2>2. Sum(Credits(window_tx, t)) \in Nat
    BY <1>7, Zenon DEF Counted
  <2>3. window[t] + Sum(Unseen(frame_tx, t)) + consumed[t] + Sum(Credits(window_tx, t)) + lost[t]
          = InitialWindow
    BY Zenon DEF Inv, StreamBalance
  <2>4. Sum(Unseen(frame_tx, t)) \in Nat /\ Sum(Unseen(q, t)) \in Nat
    BY <1>6, Zenon
  <2>5. CASE t # s
    <3>1. Sum(Unseen(frame_tx, t)) = Sum(Unseen(q, t))
      BY <1>6, <2>5, Zenon
    <3>2. Sum(Credits(window_tx', t)) = Sum(Credits(window_tx, t))
      BY <1>4, <1>7, <2>5, Zenon DEF Counted
    <3>3. consumed'[t] = consumed[t] /\ lost'[t] = lost[t]
      BY <1>4, <1>t, <2>5, Zenon DEF Types
    <3>. QED  BY <2>1, <2>3, <3>1, <3>2, <3>3, Zenon DEF StreamBalance, q
  <2>6. CASE t = s
    <3>1. Sum(Unseen(frame_tx, t)) = n + Sum(Unseen(q, t))
      BY <1>6, <2>6, Zenon
    <3>2. CASE /\ consumed'[t] = Rest(consumed[t] + n) /\ window_tx' = Queued(t, consumed[t] + n)
               /\ lost'[t] = lost[t]
      <4>1. /\ Sum(Credits(window_tx', t)) + consumed'[t]
                 = Sum(Credits(window_tx, t)) + (consumed[t] + n)
            /\ Sum(Credits(window_tx', t)) \in Nat /\ consumed'[t] \in Nat
        BY <1>7, <2>6, <3>2, Zenon DEF Counted
      <4>2. window[t] + Sum(Unseen(q, t)) + consumed'[t] + Sum(Credits(window_tx', t)) + lost[t]
              = InitialWindow
        BY <1>3, <2>1, <2>2, <2>3, <2>4, <3>1, <4>1
      <4>. QED  BY <2>1, <3>2, <4>2, Zenon DEF StreamBalance, q
    <3>3. CASE /\ consumed'[t] = consumed[t] /\ window_tx' = window_tx
               /\ lost'[t] = lost[t] + n
      <4>1. window[t] + Sum(Unseen(q, t)) + consumed[t] + Sum(Credits(window_tx, t)) + (lost[t] + n)
              = InitialWindow
        BY <1>3, <2>1, <2>2, <2>3, <2>4, <3>1
      <4>. QED  BY <2>1, <3>3, <4>1, Zenon DEF StreamBalance, q
    <3>4. consumed \in [Streams -> Nat] /\ lost \in [Streams -> Nat]
      BY <1>t, Zenon DEF Types
    <3>. QED  BY <1>4, <2>6, <3>2, <3>3, <3>4, Zenon
  <2>. QED  BY <2>5, <2>6
<1>15. SessionBalance'
  <2>1. Session # s
    BY <1>2, RecvAssumption
  <2>2. Sum(Credits(window_tx', Session)) = Sum(Credits(window_tx, Session))
    BY <1>4, <1>7, <2>1, Zenon DEF Counted
  <2>. QED  BY <1>5, <2>2, Zenon DEF Inv, SessionBalance
<1>. QED  BY <1>9, <1>10, <1>12, <1>13, <1>14, <1>15, Zenon DEF Inv

\* The writer: an update leaves the channel and reaches the peer (writer.rs:252-300).
LEMMA WriteStep ==
  ASSUME Inv, WriteWindowUpdate
  PROVE  Inv'
<1> DEFINE u == Head(window_tx)
           q == window_tx'
<1>t. Types
  BY DEF Inv
<1>0. window_tx # <<>> /\ window_tx \in Seq(Updates) /\ q = Tail(window_tx)
  BY <1>t, Zenon DEF WriteWindowUpdate, Types
<1>1. /\ q \in Seq(Updates) /\ Len(q) = Len(window_tx) - 1 /\ Len(window_tx) \in Nat \ {0}
      /\ u \in Updates
  BY <1>0, TailFacts
<1>2. u.stream \in Streams \cup {Session} /\ u.delta \in Nat
  BY <1>1 DEF Updates
<1>3. IF u.stream = Session
      THEN returned' = returned + u.delta /\ window' = window
      ELSE window' = [window EXCEPT ![u.stream] = @ + u.delta] /\ returned' = returned
  BY Zenon DEF WriteWindowUpdate
<1>4. UNCHANGED <<sent, fin, rst, frame_tx, data_tx, data_rx, consumed,
                  session_recv_consumed, read_buf, got, read_eof, cancelled, received, lost>>
  BY Zenon DEF WriteWindowUpdate
<1>5. \A t : /\ Sum(Credits(window_tx, t)) \in Nat /\ Sum(Credits(q, t)) \in Nat
             /\ t = u.stream => Sum(Credits(window_tx, t)) = u.delta + Sum(Credits(q, t))
             /\ t # u.stream => Sum(Credits(window_tx, t)) = Sum(Credits(q, t))
  <2> TAKE t
  <2>1. UpdateQueue(window_tx, u, t) /\ UpdateQueue(q, u, t)
    BY <1>0, <1>1, UpdateQueueFacts, Zenon
  <2>2. /\ Sum(Credits(window_tx, t)) \in Nat /\ Sum(Credits(q, t)) \in Nat
        /\ Sum(Credits(window_tx, t)) = OfUpdate(u, t) + Sum(Credits(q, t))
    BY <1>0, <2>1, Zenon DEF UpdateQueue
  <2>3. (t = u.stream => OfUpdate(u, t) = u.delta) /\ (t # u.stream => OfUpdate(u, t) = 0)
    BY Zenon DEF OfUpdate
  <2>4. t # u.stream => Sum(Credits(window_tx, t)) = Sum(Credits(q, t))
    BY <2>2, <2>3
  <2>. QED  BY <2>2, <2>3, <2>4, Zenon
<1> HIDE DEF u, q
<1>6. Types'
  <2>1. /\ returned \in Nat /\ window \in [Streams -> Nat]
        /\ Len(window_tx) <= WindowCap /\ WindowCap \in Nat
    BY <1>t, RecvAssumption DEF Types
  <2>2. returned' \in Nat
    BY <1>2, <1>3, <2>1
  <2>3. window' \in [Streams -> Nat]
    <3>1. CASE u.stream = Session
      BY <1>3, <2>1, <3>1, Zenon
    <3>2. CASE u.stream # Session
      <4>1. u.stream \in Streams /\ window[u.stream] + u.delta \in Nat
        BY <1>2, <2>1, <3>2
      <4>. QED  BY <1>3, <2>1, <3>2, <4>1, Zenon
    <3>. QED  BY <3>1, <3>2
  <2>4. Len(q) <= WindowCap
    BY <1>1, <2>1
  <2>. QED  BY <1>1, <1>4, <1>t, <2>2, <2>3, <2>4, Zenon DEF Types, q
<1>7. Channels' /\ FinIsLast' /\ SenderDropped'
  <2>1. Channels'
    BY <1>4, Zenon DEF Inv, Channels
  <2>2. FinIsLast'
    BY <1>4, Zenon DEF Inv, FinIsLast
  <2>3. SenderDropped'
    BY <1>4, Zenon DEF Inv, SenderDropped
  <2>. QED  BY <2>1, <2>2, <2>3
<1>8. ASSUME NEW t \in Streams PROVE StreamBalance(t)'
  <2>1. /\ window \in [Streams -> Nat] /\ window[t] \in Nat
        /\ consumed[t] \in Nat /\ lost[t] \in Nat
        /\ consumed' = consumed /\ lost' = lost /\ frame_tx' = frame_tx
    BY <1>4, <1>t, Zenon DEF Types
  <2>2. Sum(Unseen(frame_tx, t)) \in Nat
    <3>1. frame_tx \in Seq(Frame)
      BY <1>t, Zenon DEF Types
    <3>2. PICK f : f \in Frame
      <4>1. [stream |-> t, fin |-> TRUE, chunk |-> Empty] \in Frame
        BY EmptyChunk DEF Frame
      <4>. QED  BY <4>1
    <3>3. FrameQueue(frame_tx, f, t)
      BY <3>1, <3>2, FrameQueueFacts, Zenon
    <3>. QED  BY <3>3, Zenon DEF FrameQueue
  <2>3. window[t] + Sum(Unseen(frame_tx, t)) + consumed[t] + Sum(Credits(window_tx, t)) + lost[t]
          = InitialWindow
    BY Zenon DEF Inv, StreamBalance
  <2>4. CASE t # u.stream
    <3>1. Sum(Credits(window_tx, t)) = Sum(Credits(q, t))
      BY <1>5, <2>4, Zenon
    <3>2. window'[t] = window[t]
      BY <1>3, <2>1, <2>4, Zenon
    <3>. QED  BY <2>1, <2>3, <3>1, <3>2, Zenon DEF StreamBalance, q
  <2>5. CASE t = u.stream
    <3>1. Sum(Credits(window_tx, t)) = u.delta + Sum(Credits(q, t)) /\ Sum(Credits(q, t)) \in Nat
      BY <1>5, <2>5, Zenon
    <3>2. u.stream # Session
      BY <2>5, RecvAssumption
    <3>3. window'[t] = window[t] + u.delta
      BY <1>3, <2>1, <2>5, <3>2, Zenon
    <3>4. (window[t] + u.delta) + Sum(Unseen(frame_tx, t)) + consumed[t]
            + Sum(Credits(q, t)) + lost[t] = InitialWindow
      BY <1>2, <2>1, <2>2, <2>3, <3>1
    <3>. QED  BY <2>1, <3>3, <3>4, Zenon DEF StreamBalance, q
  <2>. QED  BY <2>4, <2>5
<1>9. SessionBalance'
  <2>1. /\ received' = received /\ session_recv_consumed' = session_recv_consumed
        /\ returned \in Nat /\ session_recv_consumed \in Nat
    BY <1>4, <1>t, Zenon DEF Types
  <2>2. received = returned + session_recv_consumed + Sum(Credits(window_tx, Session))
    BY Zenon DEF Inv, SessionBalance
  <2>3. CASE Session # u.stream
    <3>1. Sum(Credits(window_tx, Session)) = Sum(Credits(q, Session)) /\ returned' = returned
      BY <1>3, <1>5, <2>3, Zenon
    <3>. QED  BY <2>1, <2>2, <3>1, Zenon DEF SessionBalance, q
  <2>4. CASE Session = u.stream
    <3>1. /\ Sum(Credits(window_tx, Session)) = u.delta + Sum(Credits(q, Session))
          /\ Sum(Credits(q, Session)) \in Nat
      BY <1>5, <2>4, Zenon
    <3>2. returned' = returned + u.delta
      BY <1>3, <2>4, Zenon
    <3>3. received = (returned + u.delta) + session_recv_consumed + Sum(Credits(q, Session))
      BY <1>2, <2>1, <2>2, <3>1
    <3>. QED  BY <2>1, <3>2, <3>3, Zenon DEF SessionBalance, q
  <2>. QED  BY <2>3, <2>4
<1>. QED  BY <1>6, <1>7, <1>8, <1>9, Zenon DEF Inv

\* A balance speaks of these variables only.
LEMMA BalancesKept ==
  ASSUME Inv, UNCHANGED <<window, frame_tx, consumed, window_tx, lost, received, returned,
                          session_recv_consumed>>
  PROVE  (\A s \in Streams : StreamBalance(s)') /\ SessionBalance'
<1>1. ASSUME NEW s \in Streams PROVE StreamBalance(s)'
  BY Zenon DEF Inv, StreamBalance
<1>2. SessionBalance'
  BY Zenon DEF Inv, SessionBalance
<1>. QED  BY <1>1, <1>2

\* The sender goes with a reset stream, or with the transport.
LEMMA CloseStep ==
  ASSUME Inv, NEW s \in Streams, WorkerClose(s)
  PROVE  Inv'
<1>1. /\ rst[s] /\ data_tx' = [data_tx EXCEPT ![s] = "gone"]
      /\ UNCHANGED <<sent, window, fin, rst, frame_tx, data_rx, consumed, window_tx,
                 session_recv_consumed, read_buf, got, read_eof, cancelled,
                 received, returned, lost>>
  BY Zenon DEF WorkerClose
<1>2. data_tx \in [Streams -> {"open", "half", "gone"}]
  BY Zenon DEF Inv, Types
<1>3. Types'
  <2>1. data_tx' \in [Streams -> {"open", "half", "gone"}]
    BY <1>1, <1>2, Zenon
  <2>. QED  BY <1>1, <2>1, Zenon DEF Inv, Types
<1>4. Channels'
  BY <1>1, Zenon DEF Inv, Channels
<1>5. FinIsLast'
  BY <1>1, Zenon DEF Inv, FinIsLast
<1>6. SenderDropped'
  <2>1. ASSUME NEW t \in Streams, data_tx'[t] = "half" PROVE data_tx[t] = "half"
    BY <1>1, <1>2, <2>1, Zenon
  <2>2. ASSUME NEW t \in Streams, data_tx'[t] = "gone" PROVE data_tx[t] = "gone" \/ rst[t]
    BY <1>1, <1>2, <2>2, Zenon
  <2>. QED  BY <1>1, <2>1, <2>2, Zenon DEF Inv, SenderDropped
<1>7. (\A t \in Streams : StreamBalance(t)') /\ SessionBalance'
  BY <1>1, BalancesKept, Zenon
<1>. QED  BY <1>3, <1>4, <1>5, <1>6, <1>7, Zenon DEF Inv

\* With the transport the senders of all streams go, and nothing else changes.
LEMMA CancelStep ==
  ASSUME Inv, Cancel
  PROVE  Inv'
<1>1. /\ cancelled' = TRUE /\ data_tx' = [s \in Streams |-> "gone"]
      /\ UNCHANGED <<sent, window, fin, rst, frame_tx, data_rx, consumed, window_tx,
                 session_recv_consumed, read_buf, got, read_eof, received,
                 returned, lost>>
  BY Zenon DEF Cancel
<1>3. Types'
  <2>1. data_tx' \in [Streams -> {"open", "half", "gone"}] /\ cancelled' \in BOOLEAN
    BY <1>1
  <2>. QED  BY <1>1, <2>1, Zenon DEF Inv, Types
<1>4. Channels'
  BY <1>1, Zenon DEF Inv, Channels
<1>5. FinIsLast'
  BY <1>1, Zenon DEF Inv, FinIsLast
<1>6. SenderDropped'
  <2>1. \A t \in Streams : data_tx'[t] # "half"
    BY <1>1
  <2>. QED  BY <1>1, <2>1, Zenon DEF SenderDropped
<1>7. (\A t \in Streams : StreamBalance(t)') /\ SessionBalance'
  BY <1>1, BalancesKept, Zenon
<1>. QED  BY <1>3, <1>4, <1>5, <1>6, <1>7, Zenon DEF Inv

\* poll_read takes at least a byte of the kept chunk, or of the first of the channel, or
\* reads the end (stream.rs:741-798).
Reads(s, c, q) ==
  \E n \in 1 .. MaxChunk :
    /\ got' = [got EXCEPT ![s] = @ \o Bytes(Fits(c, n))]
    /\ read_buf' = [read_buf EXCEPT ![s] = Kept(c, n)]
    /\ data_rx' = [data_rx EXCEPT ![s] = q]
    /\ Split(c, n)

\* The three ways poll_read_channel can end with an answer.
LEMMA ReadCases ==
  ASSUME Inv, NEW s \in Streams, PollRead(s)
  PROVE  /\ ~read_eof[s]
         /\ UNCHANGED <<sent, window, fin, rst, frame_tx, data_tx, consumed, window_tx,
                 session_recv_consumed, cancelled, received, returned, lost>>
         /\ \/ /\ read_buf[s] # Empty /\ read_buf[s] \in Chunk /\ UNCHANGED read_eof
               /\ Reads(s, read_buf[s], data_rx[s])
            \/ /\ read_buf[s] = Empty /\ data_rx[s] # <<>> /\ Head(data_rx[s]) \in Chunk
               /\ UNCHANGED read_eof
               /\ Reads(s, Head(data_rx[s]), Tail(data_rx[s]))
            \/ /\ read_buf[s] = Empty /\ data_rx[s] = <<>> /\ data_tx[s] # "open"
               /\ read_eof' = [read_eof EXCEPT ![s] = TRUE]
               /\ UNCHANGED <<got, read_buf, data_rx>>
<1>1. /\ data_rx \in [Streams -> Seq(Chunk)] /\ data_rx[s] \in Seq(Chunk)
      /\ read_buf[s] \in Chunk
  BY Zenon DEF Inv, Types
<1>2. /\ \A i \in 1 .. Len(data_rx[s]) : Size(data_rx[s][i]) > 0
      /\ read_buf[s] = Empty \/ Size(read_buf[s]) > 0
  BY Zenon DEF Inv, Channels
<1>3. \A n \in 1 .. MaxChunk : n \in Nat \ {0}
  BY RecvAssumption
<1>4. CASE /\ read_buf[s] # Empty
           /\ \E n \in 1 .. MaxChunk :
                /\ got' = [got EXCEPT ![s] = @ \o Bytes(Fits(read_buf[s], n))]
                /\ read_buf' = [read_buf EXCEPT ![s] = Kept(@, n)]
           /\ UNCHANGED <<data_rx, read_eof>>
  <2>1. \A n \in 1 .. MaxChunk : Split(read_buf[s], n)
    BY <1>1, <1>2, <1>3, <1>4, ReadSplits, Zenon
  <2>2. data_rx' = [data_rx EXCEPT ![s] = data_rx[s]]
    BY <1>1, <1>4
  <2>3. Reads(s, read_buf[s], data_rx[s])
    BY <1>4, <2>1, <2>2, Zenon DEF Reads
  <2>. QED  BY <1>1, <1>4, <2>3, Zenon DEF PollRead
<1>5. CASE /\ read_buf[s] = Empty /\ data_rx[s] # <<>>
           /\ \E n \in 1 .. MaxChunk :
                /\ got' = [got EXCEPT ![s] = @ \o Bytes(Fits(Head(data_rx[s]), n))]
                /\ read_buf' = [read_buf EXCEPT ![s] = Kept(Head(data_rx[s]), n)]
           /\ data_rx' = [data_rx EXCEPT ![s] = Tail(@)]
           /\ UNCHANGED read_eof
  <2>1. Head(data_rx[s]) \in Chunk /\ Head(data_rx[s]) = data_rx[s][1] /\ 1 \in 1 .. Len(data_rx[s])
    BY <1>1, <1>5
  <2>2. Size(Head(data_rx[s])) > 0
    BY <1>2, <2>1, Zenon
  <2>3. \A n \in 1 .. MaxChunk : Split(Head(data_rx[s]), n)
    BY <1>3, <2>1, <2>2, ReadSplits, Zenon
  <2>4. Reads(s, Head(data_rx[s]), Tail(data_rx[s]))
    BY <1>5, <2>3, Zenon DEF Reads
  <2>. QED  BY <1>5, <2>1, <2>4, Zenon DEF PollRead
<1>. QED  BY <1>4, <1>5, Zenon DEF PollRead

\* Reading moves no credit and leaves no empty chunk behind.
LEMMA ReadStep ==
  ASSUME Inv, NEW s \in Streams, PollRead(s)
  PROVE  Inv'
<1>1. /\ UNCHANGED <<sent, window, fin, rst, frame_tx, data_tx, consumed, window_tx,
                 session_recv_consumed, cancelled, received, returned, lost>>
      /\ \/ /\ UNCHANGED read_eof
            /\ \/ Reads(s, read_buf[s], data_rx[s])
               \/ data_rx[s] # <<>> /\ Reads(s, Head(data_rx[s]), Tail(data_rx[s]))
         \/ /\ read_eof' = [read_eof EXCEPT ![s] = TRUE]
            /\ UNCHANGED <<got, read_buf, data_rx>>
  BY ReadCases, Zenon
<1>2. FinIsLast' /\ SenderDropped'
  <2>1. FinIsLast'
    BY <1>1, Zenon DEF Inv, FinIsLast
  <2>2. SenderDropped'
    BY <1>1, Zenon DEF Inv, SenderDropped
  <2>. QED  BY <2>1, <2>2
<1>3. (\A t \in Streams : StreamBalance(t)') /\ SessionBalance'
  BY <1>1, BalancesKept, Zenon
<1>4. /\ data_rx \in [Streams -> Seq(Chunk)] /\ got \in [Streams -> Seq(Nat)]
      /\ read_buf \in [Streams -> Chunk] /\ read_eof \in [Streams -> BOOLEAN]
  BY Zenon DEF Inv, Types
<1>5. ASSUME NEW c, NEW q, Reads(s, c, q), UNCHANGED read_eof, q \in Seq(Chunk),
             Len(q) <= StreamCap, \A i \in 1 .. Len(q) : Size(q[i]) > 0
      PROVE  Types' /\ Channels'
  <2>1. PICK n \in 1 .. MaxChunk :
               /\ got' = [got EXCEPT ![s] = @ \o Bytes(Fits(c, n))]
               /\ read_buf' = [read_buf EXCEPT ![s] = Kept(c, n)]
               /\ data_rx' = [data_rx EXCEPT ![s] = q]
               /\ Split(c, n)
    BY <1>5, Zenon DEF Reads
  <2>2. /\ Kept(c, n) \in Chunk /\ (Kept(c, n) = Empty \/ Size(Kept(c, n)) > 0)
        /\ Bytes(Fits(c, n)) \in Seq(Nat)
    BY <2>1, Zenon DEF Split
  <2>3. got[s] \o Bytes(Fits(c, n)) \in Seq(Nat)
    <3>1. got[s] \in Seq(Nat)
      BY <1>4, Zenon
    <3>. QED  BY <2>2, <3>1
  <2>4. got' \in [Streams -> Seq(Nat)] /\ read_buf' \in [Streams -> Chunk]
    BY <1>4, <2>1, <2>2, <2>3, Zenon
  <2>5. data_rx' \in [Streams -> Seq(Chunk)]
    BY <1>4, <1>5, <2>1, Zenon
  <2>6. Types'
    BY <1>1, <1>4, <1>5, <2>4, <2>5, Zenon DEF Inv, Types
  <2>7. ASSUME NEW t \in Streams
        PROVE  /\ Len(data_rx'[t]) <= StreamCap
               /\ \A i \in 1 .. Len(data_rx'[t]) : Size(data_rx'[t][i]) > 0
               /\ read_buf'[t] = Empty \/ Size(read_buf'[t]) > 0
    <3>1. CASE t = s
      <4>1. data_rx'[t] = q /\ read_buf'[t] = Kept(c, n)
        BY <1>4, <2>1, <3>1, Zenon
      <4>. QED  BY <1>5, <2>2, <4>1, Zenon
    <3>2. CASE t # s
      <4>1. data_rx'[t] = data_rx[t] /\ read_buf'[t] = read_buf[t]
        BY <1>4, <2>1, <3>2, Zenon
      <4>. QED  BY <4>1, Zenon DEF Inv, Channels
    <3>. QED  BY <3>1, <3>2
  <2>8. Channels'
    BY <2>7, Zenon DEF Channels, Empty
  <2>. QED  BY <2>6, <2>8
<1>6. ASSUME read_eof' = [read_eof EXCEPT ![s] = TRUE], UNCHANGED <<got, read_buf, data_rx>>
      PROVE  Types' /\ Channels'
  <2>1. read_eof' \in [Streams -> BOOLEAN]
    BY <1>4, <1>6
  <2>2. Types'
    BY <1>1, <1>6, <2>1, Zenon DEF Inv, Types
  <2>3. Channels'
    BY <1>6, Zenon DEF Inv, Channels
  <2>. QED  BY <2>2, <2>3
<1>7. /\ data_rx[s] \in Seq(Chunk) /\ Len(data_rx[s]) <= StreamCap
      /\ \A i \in 1 .. Len(data_rx[s]) : Size(data_rx[s][i]) > 0
  BY <1>4, Zenon DEF Inv, Channels
<1>8. ASSUME data_rx[s] # <<>>
      PROVE  /\ Tail(data_rx[s]) \in Seq(Chunk) /\ Len(Tail(data_rx[s])) <= StreamCap
             /\ \A i \in 1 .. Len(Tail(data_rx[s])) : Size(Tail(data_rx[s])[i]) > 0
  <2> DEFINE x == data_rx[s]
             y == Tail(x)
  <2>1. /\ y \in Seq(Chunk) /\ Len(y) = Len(x) - 1 /\ Len(x) \in Nat \ {0}
        /\ \A i \in 1 .. Len(x) - 1 : y[i] = x[i + 1]
    BY <1>7, <1>8, TailFacts
  <2>2. Len(x) <= StreamCap /\ StreamCap \in Nat
    BY <1>7, RecvAssumption
  <2> HIDE DEF x, y
  <2>3. Len(y) <= StreamCap
    BY <2>1, <2>2
  <2>4. \A i \in 1 .. Len(y) : i + 1 \in 1 .. Len(x) /\ y[i] = x[i + 1]
    BY <2>1
  <2>5. \A i \in 1 .. Len(x) : Size(x[i]) > 0
    BY <1>7 DEF x
  <2>6. \A i \in 1 .. Len(y) : Size(y[i]) > 0
    BY <2>4, <2>5, Zenon
  <2>. QED  BY <2>1, <2>3, <2>6 DEF y, x
<1>9. Types' /\ Channels'
  BY <1>1, <1>5, <1>6, <1>7, <1>8, Zenon
<1>. QED  BY <1>2, <1>3, <1>9, Zenon DEF Inv

\* Before anything is sent every stream has its whole window.
LEMMA InitStep ==
  ASSUME Init
  PROVE  Inv
<1>1. Types
  <2>1. 0 \in 0 .. MaxBytes /\ InitialWindow \in Nat /\ 0 \in Nat
    BY RecvAssumption
  <2>2. <<>> \in Seq(Frame) /\ <<>> \in Seq(Updates) /\ <<>> \in Seq(Chunk) /\ <<>> \in Seq(Nat)
    OBVIOUS
  <2>3. /\ sent \in [Streams -> 0 .. MaxBytes] /\ window \in [Streams -> Nat]
        /\ consumed \in [Streams -> Nat] /\ lost \in [Streams -> Nat]
    BY <2>1, Zenon DEF Init
  <2>4. /\ fin \in [Streams -> BOOLEAN] /\ rst \in [Streams -> BOOLEAN]
        /\ data_tx \in [Streams -> {"open", "half", "gone"}]
        /\ read_eof \in [Streams -> BOOLEAN] /\ cancelled \in BOOLEAN
    BY Zenon DEF Init
  <2>5. /\ data_rx \in [Streams -> Seq(Chunk)] /\ got \in [Streams -> Seq(Nat)]
        /\ read_buf \in [Streams -> Chunk]
    BY <2>2, EmptyChunk, Zenon DEF Init
  <2>6. Len(<<>>) <= FrameCap /\ Len(<<>>) <= WindowCap
    BY RecvAssumption
  <2>. QED  BY <2>1, <2>2, <2>3, <2>4, <2>5, <2>6, Zenon DEF Init, Types
<1>2. Channels /\ FinIsLast /\ SenderDropped
  <2>1. Channels
    <3>1. ASSUME NEW s \in Streams PROVE data_rx[s] = <<>> /\ read_buf[s] = Empty
      BY Zenon DEF Init
    <3>2. Len(<<>>) <= StreamCap /\ \A i \in 1 .. Len(<<>>) : FALSE
      BY RecvAssumption
    <3>. QED  BY <3>1, <3>2, Zenon DEF Channels
  <2>2. FinIsLast
    BY DEF Init, FinIsLast
  <2>3. SenderDropped
    BY DEF Init, SenderDropped
  <2>. QED  BY <2>1, <2>2, <2>3
<1>3. \A t : Sum(Credits(window_tx, t)) = 0
  <2> TAKE t
  <2>1. Update(Session, 0) \in Updates
    BY DEF Update, Updates
  <2>2. window_tx = <<>> /\ window_tx \in Seq(Updates)
    BY <1>1, Zenon DEF Init, Types
  <2>3. UpdateQueue(window_tx, Update(Session, 0), t)
    BY <2>1, <2>2, UpdateQueueFacts, Zenon
  <2>. QED  BY <2>2, <2>3, Zenon DEF UpdateQueue
<1>4. ASSUME NEW s \in Streams PROVE StreamBalance(s)
  <2>1. [stream |-> s, fin |-> TRUE, chunk |-> Empty] \in Frame
    BY EmptyChunk DEF Frame
  <2>2. frame_tx = <<>> /\ frame_tx \in Seq(Frame)
    BY <1>1, Zenon DEF Init, Types
  <2>3. FrameQueue(frame_tx, [stream |-> s, fin |-> TRUE, chunk |-> Empty], s)
    BY <2>1, <2>2, FrameQueueFacts, Zenon
  <2>4. Sum(Unseen(frame_tx, s)) = 0
    BY <2>2, <2>3, Zenon DEF FrameQueue
  <2>5. /\ window[s] = InitialWindow /\ consumed[s] = 0 /\ lost[s] = 0
        /\ Sum(Credits(window_tx, s)) = 0 /\ InitialWindow \in Nat
    BY <1>3, RecvAssumption DEF Init
  <2>6. window[s] + Sum(Unseen(frame_tx, s)) + consumed[s] + Sum(Credits(window_tx, s)) + lost[s]
          = InitialWindow
    BY <2>4, <2>5
  <2>. QED  BY <2>6, Zenon DEF StreamBalance
<1>5. SessionBalance
  <2>1. /\ received = 0 /\ returned = 0 /\ session_recv_consumed = 0
        /\ Sum(Credits(window_tx, Session)) = 0
    BY <1>3, Zenon DEF Init
  <2>. QED  BY <2>1 DEF SessionBalance
<1>. QED  BY <1>1, <1>2, <1>4, <1>5, Zenon DEF Inv

\* A step that changes nothing keeps the invariant.
LEMMA StutterStep ==
  ASSUME Inv, UNCHANGED vars
  PROVE  Inv'
<1>1. UNCHANGED <<sent, window, fin, rst, frame_tx, data_tx, data_rx, consumed, window_tx,
          session_recv_consumed, read_buf, got, read_eof, cancelled, received,
          returned, lost>>
  BY DEF vars
<1>2. Types'
  BY <1>1, Zenon DEF Inv, Types
<1>3. Channels'
  BY <1>1, Zenon DEF Inv, Channels
<1>4. FinIsLast'
  BY <1>1, Zenon DEF Inv, FinIsLast
<1>5. SenderDropped'
  BY <1>1, Zenon DEF Inv, SenderDropped
<1>6. (\A t \in Streams : StreamBalance(t)') /\ SessionBalance'
  BY <1>1, BalancesKept, Zenon
<1>. QED  BY <1>2, <1>3, <1>4, <1>5, <1>6, Zenon DEF Inv

\* Every step of the reader, the worker, the writer and the application keeps it.
LEMMA NextInv ==
  ASSUME Inv, [Next]_vars
  PROVE  Inv'
<1>1. CASE UNCHANGED vars
  BY <1>1, StutterStep, Zenon
<1>2. CASE Next
  <2>1. ASSUME NEW s \in Streams, RouteData(s) \/ WorkerClose(s) \/ PollRead(s)
        PROVE  Inv'
    BY <2>1, RouteStep, CloseStep, ReadStep, Zenon
  <2>2. CASE DispatchData \/ WriteWindowUpdate \/ Cancel
    BY <2>2, DispatchStep, WriteStep, CancelStep, Zenon
  <2>. QED  BY <1>2, <2>1, <2>2, Zenon DEF Next
<1>. QED  BY <1>1, <1>2

\* The invariant of the receive path.
THEOREM RecvInvariant == Spec => []Inv
<1>1. Init => Inv
  BY InitStep
<1>2. Inv /\ [Next]_vars => Inv'
  BY NextInv
<1>. QED  BY <1>1, <1>2, PTL DEF Spec

\* The terms of a balance are naturals, so none exceeds the window.
LEMMA WindowBounded ==
  ASSUME Inv
  PROVE  StreamCreditConserved
<1>1. Types
  BY DEF Inv
<1>2. ASSUME NEW s \in Streams
      PROVE  /\ window[s] \in 0 .. InitialWindow
             /\ window[s] + Sum(Unseen(frame_tx, s)) + consumed[s]
                  + Sum(Credits(window_tx, s)) + lost[s] = InitialWindow
  <2>1. window[s] \in Nat /\ consumed[s] \in Nat /\ lost[s] \in Nat
    BY <1>1, Zenon DEF Types
  <2>2. Counted(Session, 0)
    BY <1>1, CountedFacts
  <2>3. Sum(Credits(window_tx, s)) \in Nat
    BY <2>2, Zenon DEF Counted
  <2>4. [stream |-> s, fin |-> TRUE, chunk |-> Empty] \in Frame
    BY EmptyChunk DEF Frame
  <2>5. FrameQueue(frame_tx, [stream |-> s, fin |-> TRUE, chunk |-> Empty], s)
    BY <1>1, <2>4, FrameQueueFacts, Zenon DEF Types
  <2>6. Sum(Unseen(frame_tx, s)) \in Nat
    BY <2>5, Zenon DEF FrameQueue
  <2>7. window[s] + Sum(Unseen(frame_tx, s)) + consumed[s] + Sum(Credits(window_tx, s)) + lost[s]
                  = InitialWindow
    BY Zenon DEF Inv, StreamBalance
  <2>8. window[s] \in 0 .. InitialWindow
    BY <2>1, <2>3, <2>6, <2>7, RecvAssumption
  <2>. QED  BY <2>7, <2>8
<1>3. window \in [Streams -> 0 .. InitialWindow]
  <2>1. window \in [Streams -> Nat]
    BY <1>1, Zenon DEF Types
  <2>2. \A s \in Streams : window[s] \in 0 .. InitialWindow
    BY <1>2
  <2>. QED  BY <2>1, <2>2, Zenon
<1>4. \A s \in Streams : Len(data_rx[s]) <= StreamCap
  BY Zenon DEF Inv, Channels
<1>5. TypeOK
  BY <1>1, <1>3, <1>4, Zenon DEF Types, TypeOK
<1>. QED  BY <1>2, <1>5, Zenon DEF StreamCreditConserved

\* The credit of every stream is conserved and every variable keeps its type: what the peer
\* may send, what it has sent and the worker has not seen, what the worker has counted and
\* what is on its way back make up the initial window, less what was dropped
\* (reader.rs:244-289, worker.rs:104-260).
THEOREM StreamCreditKept == Spec => []StreamCreditConserved
<1>1. Inv => StreamCreditConserved
  BY WindowBounded
<1>. QED  BY <1>1, RecvInvariant, PTL

\* The credit of the session is conserved, dropped frames included (reader.rs:250-264).
THEOREM SessionCreditKept == Spec => []SessionCreditConserved
<1>1. Inv => SessionCreditConserved
  BY Zenon DEF Inv, SessionBalance, SessionCreditConserved
<1>. QED  BY <1>1, RecvInvariant, PTL

(***************************************************************************)
(* The queues of a stream are a pipe.                                      *)
(***************************************************************************)

\* The bytes kept by poll_read, those in the channel and those in the queue of the worker.
KeptBytes(s) == Bytes(read_buf[s])
ChannelBytes(s) == Flat(Channelled(data_rx[s]))
QueueBytes(s) == Flat(Framed(frame_tx, s))

\* What is in flight is these three, one after the other.
LEMMA InFlightTypes ==
  ASSUME Inv, NEW s \in Streams
  PROVE  /\ KeptBytes(s) \in Seq(Nat) /\ ChannelBytes(s) \in Seq(Nat)
         /\ QueueBytes(s) \in Seq(Nat) /\ KeptBytes(s) \o ChannelBytes(s) \in Seq(Nat)
         /\ InFlight(s) = (KeptBytes(s) \o ChannelBytes(s)) \o QueueBytes(s)
         /\ InFlight(s) \in Seq(Nat)
<1>1. read_buf[s] \in Chunk /\ data_rx[s] \in Seq(Chunk) /\ frame_tx \in Seq(Frame)
  BY Zenon DEF Inv, Types
<1>2. KeptBytes(s) \in Seq(Nat)
  BY <1>1, ChunkFacts, Zenon DEF Sized, KeptBytes
<1>3. ChunkQueue(data_rx[s], Empty)
  BY <1>1, EmptyChunk, ChunkQueueFacts, Zenon
<1>4. ChannelBytes(s) \in Seq(Nat)
  BY <1>3, Zenon DEF ChunkQueue, ChannelBytes
<1>5. [stream |-> s, fin |-> TRUE, chunk |-> Empty] \in Frame
  BY EmptyChunk DEF Frame
<1>6. FrameQueue(frame_tx, [stream |-> s, fin |-> TRUE, chunk |-> Empty], s)
  BY <1>1, <1>5, FrameQueueFacts, Zenon
<1>7. QueueBytes(s) \in Seq(Nat)
  BY <1>6, Zenon DEF FrameQueue, QueueBytes
<1>8. KeptBytes(s) \o ChannelBytes(s) \in Seq(Nat)
  BY <1>2, <1>4
<1>9. (KeptBytes(s) \o ChannelBytes(s)) \o QueueBytes(s) \in Seq(Nat)
  BY <1>7, <1>8
<1>10. InFlight(s) = (KeptBytes(s) \o ChannelBytes(s)) \o QueueBytes(s)
  BY Zenon DEF InFlight, KeptBytes, ChannelBytes, QueueBytes
<1>. QED  BY <1>2, <1>4, <1>7, <1>8, <1>9, <1>10, Zenon

\* Only these variables matter to what is in flight.
LEMMA InFlightKept ==
  ASSUME UNCHANGED <<read_buf, data_rx, frame_tx>>
  PROVE  [s \in Streams |-> InFlight(s)'] = [s \in Streams |-> InFlight(s)]
<1>1. \A s \in Streams : InFlight(s)' = InFlight(s)
  BY Zenon DEF InFlight
<1>. QED  BY <1>1, Zenon

\* The end of the transport aborts every stream.
LEMMA CancelAborts ==
  ASSUME Inv, Cancel
  PROVE  Pipe!PNext
<1>1. /\ cancelled' = TRUE
      /\ UNCHANGED <<sent, fin, rst, frame_tx, data_rx, read_buf, got, read_eof, lost>>
  BY Zenon DEF Cancel
<1>2. [s \in Streams |-> InFlight(s)'] = [s \in Streams |-> InFlight(s)]
  BY <1>1, InFlightKept, Zenon
<1>3. {s \in Streams : rst[s] \/ cancelled} \subseteq {s \in Streams : rst'[s] \/ cancelled'}
  BY <1>1, Zenon
<1>4. Pipe!Abort
  BY <1>1, <1>2, <1>3, Zenon DEF Pipe!Abort
<1>. QED  BY <1>4 DEF Pipe!PNext

\* A step that moves none of this does nothing to the pipe.
LEMMA QuietSteps ==
  ASSUME Inv, UNCHANGED <<sent, fin, rst, cancelled, got, read_eof, lost>>,
         [s \in Streams |-> InFlight(s)'] = [s \in Streams |-> InFlight(s)]
  PROVE  UNCHANGED Pipe!pvars
<1>1. {s \in Streams : rst'[s] \/ cancelled'} = {s \in Streams : rst[s] \/ cancelled}
  BY Zenon
<1>. QED  BY <1>1, Zenon DEF Pipe!pvars

\* The two parts of a concatenation, cut out again.
LEMMA CutFacts ==
  ASSUME NEW a \in Seq(Nat), NEW b \in Seq(Nat)
  PROVE  /\ SubSeq(a \o b, 1, Len(a)) = a
         /\ SubSeq(a \o b, Len(a) + 1, Len(a \o b)) = b
<1> DEFINE z == a \o b
           x == SubSeq(z, 1, Len(a))
           y == SubSeq(z, Len(a) + 1, Len(z))
<1>1. /\ z \in Seq(Nat) /\ Len(z) = Len(a) + Len(b) /\ Len(a) \in Nat /\ Len(b) \in Nat
      /\ \A i \in 1 .. Len(a) : z[i] = a[i]
      /\ \A i \in 1 .. Len(b) : z[Len(a) + i] = b[i]
  OBVIOUS
<1> HIDE DEF z
<1>2. x = [i \in 1 .. Len(a) |-> z[i]]
  BY <1>1
<1>3. y = [i \in 1 .. Len(b) |-> z[Len(a) + i]]
  <2>1. /\ Len(a) + 1 - 1 = Len(a) /\ Len(z) - (Len(a) + 1) + 1 = Len(b)
        /\ \A i \in 1 .. Len(b) : i + (Len(a) + 1) - 1 = Len(a) + i
    BY <1>1
  <2>2. y = [i \in 1 .. Len(z) - (Len(a) + 1) + 1 |-> z[i + (Len(a) + 1) - 1]]
    BY SMT
  <2>. QED  BY <2>1, <2>2, Zenon
<1>4. a = [i \in 1 .. Len(a) |-> a[i]] /\ b = [i \in 1 .. Len(b) |-> b[i]]
  OBVIOUS
<1>5. x = a
  BY <1>1, <1>2, <1>4, Zenon
<1>6. y = b
  BY <1>1, <1>3, <1>4, Zenon
<1>. QED  BY <1>5, <1>6 DEF z

\* A routed frame is written to the pipe, or lost at once when the queue is full.
LEMMA RouteWrites ==
  ASSUME Inv, NEW s \in Streams, RouteData(s)
  PROVE  Pipe!Write(s)
<1>1. PICK n \in 0 .. MaxChunk, last \in BOOLEAN :
       /\ sent' = [sent EXCEPT ![s] = @ + n]
       /\ fin' = [fin EXCEPT ![s] = last]
       /\ \/ /\ frame_tx' = Append(frame_tx, [stream |-> s, fin |-> last,
                                              chunk |-> <<sent[s] + 1, sent[s] + n>>])
             /\ UNCHANGED <<rst, lost>>
          \/ /\ rst' \in {[rst EXCEPT ![s] = TRUE], rst}
             /\ lost' = [lost EXCEPT ![s] = @ + n]
             /\ UNCHANGED frame_tx
  BY Zenon DEF RouteData
<1>2. /\ ~fin[s]
      /\ UNCHANGED <<data_rx, read_buf, got, read_eof, cancelled>>
  BY Zenon DEF RouteData
<1>t. /\ sent \in [Streams -> 0 .. MaxBytes] /\ fin \in [Streams -> BOOLEAN]
      /\ rst \in [Streams -> BOOLEAN] /\ frame_tx \in Seq(Frame)
      /\ lost \in [Streams -> Nat]
  BY Zenon DEF Inv, Types
<1>n. n \in Nat /\ sent[s] \in Nat
  BY <1>t, RecvAssumption
<1> DEFINE c == <<sent[s] + 1, sent[s] + n>>
           f == [stream |-> s, fin |-> last, chunk |-> c]
           more == [i \in 1 .. sent'[s] - sent[s] |-> sent[s] + i]
<1>3. c \in Chunk /\ Size(c) = n /\ c[1] = sent[s] + 1
  BY <1>n DEF Chunk, Size
<1>4. f \in Frame /\ f.stream = s /\ f.chunk = c
  <2> HIDE DEF c
  <2>. QED  BY <1>3 DEF Frame
<1>5. sent'[s] = sent[s] + n
  BY <1>1, <1>t, Zenon
<1>6. sent'[s] >= sent[s] /\ sent'[s] - sent[s] = n
  BY <1>5, <1>n
<1>7. Bytes(c) = more
  <2>1. \A i \in 1 .. n : c[1] + i - 1 = sent[s] + i
    <3> HIDE DEF c
    <3>. QED  BY <1>3, <1>n
  <2> HIDE DEF c
  <2>. QED  BY <1>3, <1>6, <2>1, Zenon DEF Bytes
<1>8. Len(more) = n /\ more \in Seq(Nat)
  <2>1. Sized(c)
    BY <1>3, ChunkFacts, Zenon
  <2> HIDE DEF c, more
  <2>. QED  BY <1>3, <1>7, <2>1, Zenon DEF Sized
<1> HIDE DEF c, f, more
<1>9. sent' = [sent EXCEPT ![s] = sent'[s]]
  BY <1>1, <1>5, <1>t, Zenon
<1>10. fin' \in {fin, [fin EXCEPT ![s] = TRUE]}
  <2>1. CASE last
    BY <1>1, <2>1, Zenon
  <2>2. CASE ~last
    <3>1. fin' = fin
      BY <1>1, <1>2, <1>t, <2>2
    <3>. QED  BY <3>1
  <2>. QED  BY <2>1, <2>2
<1>11. \/ /\ [t \in Streams |-> InFlight(t)']
               = [[t \in Streams |-> InFlight(t)] EXCEPT ![s] = @ \o more]
          /\ lost' = lost
       \/ /\ lost' = [lost EXCEPT ![s] = @ + Len(more)]
          /\ [t \in Streams |-> InFlight(t)'] = [t \in Streams |-> InFlight(t)]
  <2>1. CASE frame_tx' = Append(frame_tx, f) /\ lost' = lost
    <3>1. ASSUME NEW t \in Streams
          PROVE  InFlight(t)' = IF t = s THEN InFlight(t) \o more ELSE InFlight(t)
      <4>1. FrameQueue(frame_tx, f, t)
        BY <1>4, <1>t, FrameQueueFacts, Zenon
      <4>2. Flat(Framed(frame_tx', t)) = QueueBytes(t) \o BytesOfFrame(f, t)
        BY <2>1, <4>1, Zenon DEF FrameQueue, QueueBytes
      <4>3. InFlight(t)' = (KeptBytes(t) \o ChannelBytes(t))
                              \o (QueueBytes(t) \o BytesOfFrame(f, t))
        BY <1>2, <4>2, Zenon DEF InFlight, KeptBytes, ChannelBytes
      <4>4. /\ KeptBytes(t) \o ChannelBytes(t) \in Seq(Nat) /\ QueueBytes(t) \in Seq(Nat)
            /\ InFlight(t) = (KeptBytes(t) \o ChannelBytes(t)) \o QueueBytes(t)
            /\ InFlight(t) \in Seq(Nat)
        BY InFlightTypes, Zenon
      <4>5. CASE t = s
        <5>1. BytesOfFrame(f, t) = more
          BY <1>4, <1>7, <4>5, Zenon DEF BytesOfFrame
        <5>2. Associates(KeptBytes(t) \o ChannelBytes(t), QueueBytes(t), more)
          BY <1>8, <4>4, ConcatAssociates, Zenon
        <5>. QED  BY <4>3, <4>4, <4>5, <5>1, <5>2, Zenon DEF Associates
      <4>6. CASE t # s
        <5>1. BytesOfFrame(f, t) = <<>>
          BY <1>4, <4>6, Zenon DEF BytesOfFrame
        <5>2. QueueBytes(t) \o <<>> = QueueBytes(t)
          BY <4>4, ConcatFacts, Zenon
        <5>. QED  BY <4>3, <4>4, <4>6, <5>1, <5>2, Zenon
      <4>. QED  BY <4>5, <4>6
    <3>. QED  BY <2>1, <3>1, Zenon
  <2>2. CASE frame_tx' = frame_tx /\ lost' = [lost EXCEPT ![s] = @ + n]
    <3>1. [t \in Streams |-> InFlight(t)'] = [t \in Streams |-> InFlight(t)]
      BY <1>2, <2>2, InFlightKept, Zenon
    <3>. QED  BY <1>8, <2>2, <3>1, Zenon
  <2>. QED  BY <1>1, <2>1, <2>2, Zenon DEF f, c
<1>12. {t \in Streams : rst'[t] \/ cancelled'}
         \in {{t \in Streams : rst[t] \/ cancelled}, {t \in Streams : rst[t] \/ cancelled} \cup {s}}
  <2>1. CASE rst' = rst
    BY <1>2, <2>1, Zenon
  <2>2. CASE rst' = [rst EXCEPT ![s] = TRUE]
    <3>1. \A t \in Streams : rst'[t] <=> rst[t] \/ t = s
      BY <1>t, <2>2, Zenon
    <3>2. {t \in Streams : rst'[t] \/ cancelled'} = {t \in Streams : rst[t] \/ cancelled} \cup {s}
      BY <1>2, <3>1
    <3>. QED  BY <3>2
  <2>. QED  BY <1>1, <2>1, <2>2, Zenon
<1>. QED  BY <1>2, <1>6, <1>9, <1>10, <1>11, <1>12, Zenon DEF Pipe!Write, more

\* A chunk the worker passes on stays in the pipe; one it drops is lost from its middle.
LEMMA DispatchLoses ==
  ASSUME Inv, DispatchData
  PROVE  UNCHANGED Pipe!pvars \/ Pipe!PNext
<1> DEFINE f == Head(frame_tx)
           n == Size(f.chunk)
           x == Bytes(f.chunk)
<1>t. /\ frame_tx \in Seq(Frame) /\ data_rx \in [Streams -> Seq(Chunk)] /\ lost \in [Streams -> Nat]
  BY Zenon DEF Inv, Types
<1>0. frame_tx # <<>> /\ frame_tx' = Tail(frame_tx)
  BY Zenon DEF DispatchData
<1>1. Tail(frame_tx) \in Seq(Frame) /\ f \in Frame
  BY <1>0, <1>t
<1>a. f.stream \in Streams /\ f.chunk \in Chunk
  BY <1>1 DEF Frame
<1>b. PICK s \in Streams : s = f.stream
  BY <1>a, Zenon
<1>2. s \in Streams /\ f.chunk \in Chunk
  BY <1>a
<1>3. n \in Nat /\ x \in Seq(Nat) /\ Len(x) = n /\ (n = 0 => x = <<>>)
  BY <1>2, ChunkFacts, Zenon DEF Sized
<1>4. \/ /\ data_rx' = [data_rx EXCEPT ![s] = Append(@, f.chunk)]
         /\ lost' = lost
      \/ /\ lost' = [lost EXCEPT ![s] = @ + n]
         /\ data_rx' = data_rx
  BY <1>b, Zenon DEF DispatchData
<1>5. UNCHANGED <<sent, fin, rst, read_buf, got, read_eof, cancelled>>
  BY Zenon DEF DispatchData
<1> DEFINE rest(t) == Flat(Framed(frame_tx', t))
<1>6. ASSUME NEW t \in Streams
      PROVE  /\ rest(t) \in Seq(Nat)
             /\ t = s => QueueBytes(t) = x \o rest(t)
             /\ t # s => QueueBytes(t) = rest(t)
  <2>1. FrameQueue(frame_tx, f, t) /\ FrameQueue(Tail(frame_tx), f, t)
    BY <1>1, <1>t, FrameQueueFacts, Zenon
  <2>2. /\ rest(t) \in Seq(Nat)
        /\ QueueBytes(t) = BytesOfFrame(f, t) \o rest(t)
    BY <1>0, <2>1, Zenon DEF FrameQueue, QueueBytes
  <2>3. (t = s => BytesOfFrame(f, t) = x) /\ (t # s => BytesOfFrame(f, t) = <<>>)
    BY <1>b, Zenon DEF BytesOfFrame
  <2>4. <<>> \o rest(t) = rest(t)
    BY <2>2, ConcatFacts, Zenon
  <2>. QED  BY <2>2, <2>3, <2>4, Zenon
<1> HIDE DEF f, n, x
<1>7. ASSUME NEW t \in Streams
      PROVE  /\ KeptBytes(t) \in Seq(Nat) /\ ChannelBytes(t) \in Seq(Nat)
             /\ KeptBytes(t) \o ChannelBytes(t) \in Seq(Nat)
             /\ InFlight(t) = (KeptBytes(t) \o ChannelBytes(t)) \o QueueBytes(t)
             /\ InFlight(t) \in Seq(Nat)
  BY InFlightTypes, Zenon
<1>8. ASSUME NEW t \in Streams, data_rx'[t] = data_rx[t]
      PROVE  InFlight(t)' = (KeptBytes(t) \o ChannelBytes(t)) \o rest(t)
  BY <1>5, <1>8, Zenon DEF InFlight, KeptBytes, ChannelBytes
<1>9. CASE data_rx' = [data_rx EXCEPT ![s] = Append(@, f.chunk)] /\ lost' = lost
  <2>1. ASSUME NEW t \in Streams PROVE InFlight(t)' = InFlight(t)
    <3>1. CASE t # s
      <4>1. data_rx'[t] = data_rx[t]
        BY <1>9, <1>t, <3>1, Zenon
      <4>. QED  BY <1>6, <1>7, <1>8, <3>1, <4>1, Zenon
    <3>2. CASE t = s
      <4>1. data_rx'[t] = Append(data_rx[t], f.chunk) /\ data_rx[t] \in Seq(Chunk)
        BY <1>9, <1>t, <3>2, Zenon
      <4>2. ChunkQueue(data_rx[t], f.chunk)
        BY <1>2, <4>1, ChunkQueueFacts, Zenon
      <4>3. Flat(Channelled(data_rx'[t])) = ChannelBytes(t) \o x
        BY <4>1, <4>2, Zenon DEF ChunkQueue, ChannelBytes, x
      <4>4. InFlight(t)' = (KeptBytes(t) \o (ChannelBytes(t) \o x)) \o rest(t)
        BY <1>5, <4>3, Zenon DEF InFlight, KeptBytes
      <4>5. Associates(KeptBytes(t), ChannelBytes(t), x)
        BY <1>3, <1>7, ConcatAssociates, Zenon
      <4>6. Associates(KeptBytes(t) \o ChannelBytes(t), x, rest(t))
        BY <1>3, <1>6, <1>7, ConcatAssociates, Zenon
      <4>7. InFlight(t)' = ((KeptBytes(t) \o ChannelBytes(t)) \o x) \o rest(t)
        BY <4>4, <4>5, Zenon DEF Associates
      <4>8. InFlight(t) = (KeptBytes(t) \o ChannelBytes(t)) \o (x \o rest(t))
        BY <1>6, <1>7, <3>2, Zenon
      <4>. QED  BY <4>6, <4>7, <4>8, Zenon DEF Associates
    <3>. QED  BY <3>1, <3>2
  <2>2. [t \in Streams |-> InFlight(t)'] = [t \in Streams |-> InFlight(t)]
    BY <2>1, Zenon
  <2>3. UNCHANGED Pipe!pvars
    BY <1>5, <1>9, <2>2, QuietSteps, Zenon
  <2>. QED  BY <2>3
<1>10. CASE lost' = [lost EXCEPT ![s] = @ + n] /\ data_rx' = data_rx
  <2>0. ASSUME NEW t \in Streams
        PROVE  InFlight(t)' = (KeptBytes(t) \o ChannelBytes(t)) \o rest(t)
    BY <1>8, <1>10, Zenon
  <2>1. \A t \in Streams : t # s => InFlight(t)' = InFlight(t)
    BY <1>6, <1>7, <2>0, Zenon
  <2> DEFINE p == KeptBytes(s) \o ChannelBytes(s)
  <2>2. /\ p \in Seq(Nat) /\ rest(s) \in Seq(Nat) /\ InFlight(s)' = p \o rest(s)
        /\ InFlight(s) = p \o (x \o rest(s)) /\ InFlight(s) \in Seq(Nat)
    BY <1>2, <1>6, <1>7, <2>0, Zenon
  <2> HIDE DEF p
  <2>3. CASE n = 0
    <3>1. x = <<>> /\ lost' = lost
      <4>1. lost[s] + 0 = lost[s]
        BY <1>2, <1>t
      <4>2. lost' = [lost EXCEPT ![s] = lost[s]]
        BY <1>10, <2>3, <4>1, Zenon
      <4>. QED  BY <1>3, <1>t, <2>3, <4>2
    <3>2. <<>> \o rest(s) = rest(s)
      BY <2>2, ConcatFacts, Zenon
    <3>3. InFlight(s)' = InFlight(s)
      BY <2>2, <3>1, <3>2, Zenon
    <3>4. [t \in Streams |-> InFlight(t)'] = [t \in Streams |-> InFlight(t)]
      BY <2>1, <3>3, Zenon
    <3>5. UNCHANGED Pipe!pvars
      BY <1>5, <3>1, <3>4, QuietSteps, Zenon
    <3>. QED  BY <3>5
  <2>4. CASE n # 0
    <3> DEFINE i == Len(p) + 1
               j == Len(p) + n
               fl == InFlight(s)
    <3>1. Associates(p, x, rest(s))
      BY <1>3, <2>2, ConcatAssociates, Zenon
    <3>2. fl = (p \o x) \o rest(s)
      BY <2>2, <3>1, Zenon DEF Associates
    <3>3. /\ x \o rest(s) \in Seq(Nat) /\ p \o x \in Seq(Nat) /\ Len(p \o x) = Len(p) + n
          /\ Len(p) \in Nat /\ Len(rest(s)) \in Nat /\ Len(fl) = (Len(p) + n) + Len(rest(s))
      <4>1. x \o rest(s) \in Seq(Nat) /\ p \o x \in Seq(Nat) /\ Len(p \o x) = Len(p) + Len(x)
        BY <1>3, <2>2, ConcatFacts, Zenon
      <4>2. Len((p \o x) \o rest(s)) = Len(p \o x) + Len(rest(s))
        <5>1. ASSUME NEW a \in Seq(Nat), NEW b \in Seq(Nat) PROVE Len(a \o b) = Len(a) + Len(b)
          OBVIOUS
        <5>. QED  BY <2>2, <4>1, <5>1, Zenon
      <4>3. Len(p) \in Nat /\ Len(rest(s)) \in Nat
        BY <2>2
      <4>. QED  BY <1>3, <3>2, <4>1, <4>2, <4>3, Zenon
    <3>4. SubSeq(p \o (x \o rest(s)), 1, Len(p)) = p
      BY <2>2, <3>3, CutFacts, Zenon
    <3>5. SubSeq((p \o x) \o rest(s), Len(p \o x) + 1, Len((p \o x) \o rest(s))) = rest(s)
      BY <2>2, <3>3, CutFacts, Zenon
    <3>6. /\ i \in 1 .. Len(fl) /\ j \in 1 .. Len(fl) /\ i <= j /\ i - 1 = Len(p)
          /\ lost[s] + n = lost[s] + j - i + 1
      <4>1. lost[s] \in Nat /\ n \in Nat /\ n # 0
        BY <1>2, <1>3, <1>t, <2>4
      <4> HIDE DEF fl
      <4>. QED  BY <3>3, <4>1
    <3>7. SubSeq(fl, 1, i - 1) = p /\ SubSeq(fl, j + 1, Len(fl)) = rest(s)
      BY <2>2, <3>2, <3>3, <3>4, <3>5, <3>6, Zenon
    <3>8. InFlight(s)' = SubSeq(fl, 1, i - 1) \o SubSeq(fl, j + 1, Len(fl))
      BY <2>2, <3>7, Zenon
    <3> DEFINE fly == [t \in Streams |-> InFlight(t)]
    <3>9. fly[s] = fl
      BY <1>2, Zenon
    <3>10. [t \in Streams |-> InFlight(t)']
             = [fly EXCEPT ![s] = SubSeq(fly[s], 1, i - 1) \o SubSeq(fly[s], j + 1, Len(fly[s]))]
      BY <2>1, <3>8, <3>9, Zenon
    <3>11. lost' = [lost EXCEPT ![s] = lost[s] + j - i + 1]
      BY <1>10, <3>6, Zenon
    <3>12. i \in 1 .. Len(fly[s]) /\ j \in 1 .. Len(fly[s]) /\ i <= j
      BY <3>6, <3>9, Zenon
    <3>a. {t \in Streams : rst'[t] \/ cancelled'} = {t \in Streams : rst[t] \/ cancelled}
      BY <1>5, Zenon
    <3> HIDE DEF i, j, fl
    <3>13. Pipe!Lose(s)
      BY <1>5, <3>10, <3>11, <3>12, <3>a, Zenon DEF Pipe!Lose
    <3>. QED  BY <1>2, <3>13, Zenon DEF Pipe!PNext
  <2>. QED  BY <2>3, <2>4
<1>. QED  BY <1>4, <1>9, <1>10

\* A queue without a frame of the stream holds no byte of it.
LEMMA NoFrameNoByte ==
  ASSUME NEW q \in Seq(Frame), NEW s, \A i \in 1 .. Len(q) : q[i].stream # s
  PROVE  Flat(Framed(q, s)) = <<>>
<1> DEFINE w == Framed(q, s)
<1>1. Len(q) \in Nat /\ DOMAIN q = 1 .. Len(q)
  OBVIOUS
<1>2. w = [i \in 1 .. Len(q) |-> <<>>]
  BY <1>1, Zenon DEF Framed
<1> HIDE DEF w
<1>3. w \in Seq(Seq(Nat)) /\ Len(w) = Len(q) /\ \A i \in 1 .. Len(q) : w[i] = <<>>
  BY <1>1, <1>2
<1>4. PICK f \in [0 .. Len(w) -> Seq(Nat)] :
           /\ f[0] = <<>> /\ \A i \in 1 .. Len(w) : f[i] = f[i-1] \o w[i]
           /\ Flat(w) = f[Len(w)]
  BY <1>3, FlatSteps, Zenon
<1> DEFINE S == {i \in 0 .. Len(w) : f[i] = <<>>}
<1>5. 0 \in S
  <2>1. 0 \in 0 .. Len(w)
    BY <1>1, <1>3
  <2>. QED  BY <1>4, <2>1, Zenon
<1>6. ASSUME NEW i \in 0 .. Len(w) - 1, i \in S PROVE i + 1 \in S
  <2>1. i + 1 \in 1 .. Len(w) /\ i + 1 \in 1 .. Len(q) /\ (i + 1) - 1 = i /\ i + 1 \in 0 .. Len(w)
    BY <1>1, <1>3
  <2>2. f[i + 1] = f[i] \o w[i + 1] /\ w[i + 1] = <<>> /\ f[i] = <<>>
    BY <1>3, <1>4, <1>6, <2>1, Zenon
  <2>3. <<>> \o <<>> = <<>>
    OBVIOUS
  <2>4. f[i + 1] = <<>>
    BY <2>2, <2>3, Zenon
  <2>. QED  BY <2>1, <2>4, Zenon
<1>7. Len(w) \in S
  <2> HIDE DEF S
  <2>0. Len(w) \in Nat
    BY <1>1, <1>3
  <2>1. \A i \in 0 .. Len(w) : i \in S
    BY <1>5, <1>6, <2>0, UpTo, Zenon
  <2>. QED  BY <2>0, <2>1
<1>. QED  BY <1>4, <1>7 DEF w

\* What poll_read returns are the first bytes in flight; it reads the end of a stream that
\* was not aborted after FIN, when nothing is left.
LEMMA ReadReads ==
  ASSUME Inv, NEW s \in Streams, PollRead(s)
  PROVE  Pipe!Read(s) \/ Pipe!ReadEnd(s)
<1>1. /\ ~read_eof[s]
      /\ UNCHANGED <<sent, fin, rst, frame_tx, data_tx, cancelled, lost>>
      /\ \/ /\ UNCHANGED read_eof
            /\ Reads(s, read_buf[s], data_rx[s])
         \/ /\ read_buf[s] = Empty /\ data_rx[s] # <<>> /\ Head(data_rx[s]) \in Chunk
            /\ UNCHANGED read_eof
            /\ Reads(s, Head(data_rx[s]), Tail(data_rx[s]))
         \/ /\ read_buf[s] = Empty /\ data_rx[s] = <<>> /\ data_tx[s] # "open"
            /\ read_eof' = [read_eof EXCEPT ![s] = TRUE]
            /\ UNCHANGED <<got, read_buf, data_rx>>
  BY ReadCases, Zenon
<1>t. /\ data_rx \in [Streams -> Seq(Chunk)] /\ got \in [Streams -> Seq(Nat)]
      /\ read_buf \in [Streams -> Chunk] /\ frame_tx \in Seq(Frame)
      /\ data_tx[s] \in {"open", "half", "gone"}
  BY Zenon DEF Inv, Types
<1>2. /\ KeptBytes(s) \in Seq(Nat) /\ ChannelBytes(s) \in Seq(Nat)
      /\ QueueBytes(s) \in Seq(Nat) /\ KeptBytes(s) \o ChannelBytes(s) \in Seq(Nat)
      /\ InFlight(s) = (KeptBytes(s) \o ChannelBytes(s)) \o QueueBytes(s)
      /\ InFlight(s) \in Seq(Nat)
  BY InFlightTypes, Zenon
<1>a. {t \in Streams : rst'[t] \/ cancelled'} = {t \in Streams : rst[t] \/ cancelled}
  BY <1>1, Zenon
<1> DEFINE fly == [t \in Streams |-> InFlight(t)]
<1>f. fly[s] = InFlight(s)
  BY Zenon
<1>3. ASSUME NEW c, NEW q \in Seq(Chunk), UNCHANGED read_eof, Reads(s, c, q),
             KeptBytes(s) \o ChannelBytes(s) = Bytes(c) \o Flat(Channelled(q))
      PROVE  Pipe!Read(s)
  <2>1. PICK n \in 1 .. MaxChunk :
               /\ got' = [got EXCEPT ![s] = @ \o Bytes(Fits(c, n))]
               /\ read_buf' = [read_buf EXCEPT ![s] = Kept(c, n)]
               /\ data_rx' = [data_rx EXCEPT ![s] = q]
               /\ Split(c, n)
    BY <1>3, Zenon DEF Reads
  <2> DEFINE x == Bytes(Fits(c, n))
             k == Bytes(Kept(c, n))
             h == Flat(Channelled(q))
             g == QueueBytes(s)
  <2>2. x \in Seq(Nat) /\ Bytes(c) = x \o k /\ Kept(c, n) \in Chunk /\ Len(x) \in 1 .. Size(c)
    BY <2>1, Zenon DEF Split
  <2>3. k \in Seq(Nat) /\ h \in Seq(Nat) /\ g \in Seq(Nat)
    <3>1. ChunkQueue(q, Empty)
      BY EmptyChunk, ChunkQueueFacts, Zenon
    <3>2. Sized(Kept(c, n))
      BY <2>2, ChunkFacts, Zenon
    <3>. QED  BY <1>2, <3>1, <3>2, Zenon DEF ChunkQueue, Sized
  <2>4. InFlight(s)' = (k \o h) \o g
    <3>1. read_buf'[s] = Kept(c, n) /\ data_rx'[s] = q /\ frame_tx' = frame_tx
      BY <1>1, <1>t, <2>1, Zenon
    <3>. QED  BY <3>1, Zenon DEF InFlight, QueueBytes
  <2>5. \A t \in Streams : t # s => InFlight(t)' = InFlight(t)
    <3>1. \A t \in Streams : t # s => read_buf'[t] = read_buf[t] /\ data_rx'[t] = data_rx[t]
      BY <1>t, <2>1, Zenon
    <3>. QED  BY <1>1, <3>1, Zenon DEF InFlight
  <2> HIDE DEF x, k, h, g
  <2>6. InFlight(s) = ((x \o k) \o h) \o g
    BY <1>2, <1>3, <2>2, Zenon DEF h, g
  <2>7. k \o h \in Seq(Nat) /\ (k \o h) \o g \in Seq(Nat)
    <3>1. k \o h \in Seq(Nat)
      BY <2>3
    <3>. QED  BY <2>3, <3>1
  <2>8. Associates(x, k, h) /\ Associates(x, k \o h, g)
    BY <2>2, <2>3, <2>7, ConcatAssociates, Zenon
  <2>9. InFlight(s) = x \o ((k \o h) \o g)
    BY <2>6, <2>8, Zenon DEF Associates
  <2>10. /\ SubSeq(InFlight(s), 1, Len(x)) = x
         /\ SubSeq(InFlight(s), Len(x) + 1, Len(InFlight(s))) = InFlight(s)'
    <3>1. /\ SubSeq(x \o ((k \o h) \o g), 1, Len(x)) = x
          /\ SubSeq(x \o ((k \o h) \o g), Len(x) + 1, Len(x \o ((k \o h) \o g))) = (k \o h) \o g
      BY <2>2, <2>7, CutFacts, Zenon
    <3>. QED  BY <2>4, <2>9, <3>1, Zenon
  <2>11. Len(x) \in 1 .. Len(InFlight(s))
    <3> DEFINE z == (k \o h) \o g
    <3>1. z \in Seq(Nat)
      BY <2>7
    <3> HIDE DEF z
    <3>2. Len(x) \in Nat /\ Len(z) \in Nat /\ Len(x \o z) = Len(x) + Len(z)
      BY <2>2, <3>1
    <3>3. Len(x) >= 1
      BY <2>2, <3>2
    <3>4. Len(x) \in 1 .. Len(x \o z)
      BY <3>2, <3>3
    <3>. QED  BY <2>9, <3>4 DEF z
  <2>12. got' = [got EXCEPT ![s] = got[s] \o SubSeq(fly[s], 1, Len(x))]
    BY <1>f, <2>1, <2>10, Zenon DEF x
  <2>13. [t \in Streams |-> InFlight(t)']
           = [fly EXCEPT ![s] = SubSeq(fly[s], Len(x) + 1, Len(fly[s]))]
    BY <1>f, <2>5, <2>10, Zenon
  <2>14. Len(x) \in 1 .. Len(fly[s])
    BY <1>f, <2>11, Zenon
  <2>. QED  BY <1>1, <1>3, <1>a, <2>12, <2>13, <2>14, Zenon DEF Pipe!Read
<1>4. CASE UNCHANGED read_eof /\ Reads(s, read_buf[s], data_rx[s])
  <2>1. data_rx[s] \in Seq(Chunk)
    BY <1>t, Zenon
  <2>2. KeptBytes(s) \o ChannelBytes(s) = Bytes(read_buf[s]) \o Flat(Channelled(data_rx[s]))
    BY Zenon DEF KeptBytes, ChannelBytes
  <2>. QED  BY <1>3, <1>4, <2>1, <2>2, Zenon
<1>5. CASE /\ read_buf[s] = Empty /\ data_rx[s] # <<>> /\ Head(data_rx[s]) \in Chunk
           /\ UNCHANGED read_eof
           /\ Reads(s, Head(data_rx[s]), Tail(data_rx[s]))
  <2>0. data_rx[s] \in Seq(Chunk)
    BY <1>t, Zenon
  <2>1. Tail(data_rx[s]) \in Seq(Chunk)
    BY <1>5, <2>0
  <2>2. ChunkQueue(data_rx[s], Empty)
    BY <2>0, EmptyChunk, ChunkQueueFacts, Zenon
  <2>3. ChannelBytes(s) = Bytes(Head(data_rx[s])) \o Flat(Channelled(Tail(data_rx[s])))
    BY <1>5, <2>2, Zenon DEF ChunkQueue, ChannelBytes
  <2>4. KeptBytes(s) = <<>>
    BY <1>5, EmptyChunk, Zenon DEF KeptBytes
  <2>5. <<>> \o ChannelBytes(s) = ChannelBytes(s)
    BY <1>2, ConcatFacts, Zenon
  <2>6. KeptBytes(s) \o ChannelBytes(s)
          = Bytes(Head(data_rx[s])) \o Flat(Channelled(Tail(data_rx[s])))
    BY <2>3, <2>4, <2>5, Zenon
  <2>. QED  BY <1>3, <1>5, <2>1, <2>6, Zenon
<1>6. CASE /\ read_buf[s] = Empty /\ data_rx[s] = <<>> /\ data_tx[s] # "open"
           /\ read_eof' = [read_eof EXCEPT ![s] = TRUE]
           /\ UNCHANGED <<got, read_buf, data_rx>>
  <2>1. [t \in Streams |-> InFlight(t)'] = [t \in Streams |-> InFlight(t)]
    BY <1>1, <1>6, InFlightKept, Zenon
  <2>2. (fin[s] /\ fly[s] = <<>>) \/ s \in {t \in Streams : rst[t] \/ cancelled}
    <3>1. CASE data_tx[s] = "gone"
      <4>1. rst[s] \/ cancelled
        BY <3>1, Zenon DEF Inv, SenderDropped
      <4>. QED  BY <4>1, Zenon
    <3>2. CASE data_tx[s] = "half"
      <4>1. fin[s] /\ \A i \in 1 .. Len(frame_tx) : frame_tx[i].stream # s
        BY <3>2, Zenon DEF Inv, SenderDropped
      <4>2. QueueBytes(s) = <<>>
        BY <1>t, <4>1, NoFrameNoByte, Zenon DEF QueueBytes
      <4>3. KeptBytes(s) = <<>>
        BY <1>6, EmptyChunk, Zenon DEF KeptBytes
      <4>4. data_rx[s] \in Seq(Chunk)
        BY <1>t, Zenon
      <4>5. ChunkQueue(data_rx[s], Empty)
        BY <4>4, EmptyChunk, ChunkQueueFacts, Zenon
      <4>6. ChannelBytes(s) = <<>>
        BY <1>6, <4>5, Zenon DEF ChunkQueue, ChannelBytes
      <4>7. <<>> \o <<>> = <<>>
        OBVIOUS
      <4>8. InFlight(s) = <<>>
        BY <1>2, <4>2, <4>3, <4>6, <4>7, Zenon
      <4>. QED  BY <1>f, <4>1, <4>8, Zenon
    <3>. QED  BY <1>6, <1>t, <3>1, <3>2, Zenon
  <2>3. Pipe!ReadEnd(s)
    BY <1>1, <1>6, <1>a, <2>1, <2>2, Zenon DEF Pipe!ReadEnd
  <2>. QED  BY <2>3
<1>. QED  BY <1>1, <1>4, <1>5, <1>6, Zenon

\* At the start the pipe is empty.
LEMMA PipeInit ==
  ASSUME Init
  PROVE  Pipe!PInit
<1>1. Inv
  BY InitStep
<1>2. ASSUME NEW s \in Streams PROVE InFlight(s) = <<>>
  <2>1. /\ read_buf[s] = Empty /\ data_rx[s] = <<>> /\ frame_tx = <<>>
    BY Zenon DEF Init
  <2>2. data_rx[s] \in Seq(Chunk) /\ frame_tx \in Seq(Frame)
    BY <1>1, Zenon DEF Inv, Types
  <2>3. KeptBytes(s) = <<>>
    BY <2>1, EmptyChunk, Zenon DEF KeptBytes
  <2>4. ChunkQueue(data_rx[s], Empty)
    BY <2>2, EmptyChunk, ChunkQueueFacts, Zenon
  <2>5. ChannelBytes(s) = <<>>
    BY <2>1, <2>4, Zenon DEF ChunkQueue, ChannelBytes
  <2>6. \A i \in 1 .. Len(frame_tx) : frame_tx[i].stream # s
    BY <2>1
  <2>7. QueueBytes(s) = <<>>
    BY <2>2, <2>6, NoFrameNoByte, Zenon DEF QueueBytes
  <2>8. <<>> \o <<>> = <<>>
    OBVIOUS
  <2>9. InFlight(s) = (KeptBytes(s) \o ChannelBytes(s)) \o QueueBytes(s)
    BY <1>1, InFlightTypes, Zenon
  <2>. QED  BY <2>3, <2>5, <2>7, <2>8, <2>9, Zenon
<1>3. [s \in Streams |-> InFlight(s)] = [s \in Streams |-> <<>>]
  BY <1>2, Zenon
<1>4. {s \in Streams : rst[s] \/ cancelled} = {}
  <2>1. ~cancelled /\ \A s \in Streams : ~rst[s]
    BY DEF Init
  <2>. QED  BY <2>1
<1>. QED  BY <1>3, <1>4, Zenon DEF Init, Pipe!PInit

\* Every step of the receive path is a step of the pipe, or none.
LEMMA PipeStep ==
  ASSUME Inv, [Next]_vars
  PROVE  [Pipe!PNext]_Pipe!pvars
<1>1. CASE UNCHANGED vars
  <2>1. UNCHANGED <<sent, fin, rst, cancelled, got, read_eof, lost, read_buf, data_rx, frame_tx>>
    BY <1>1 DEF vars
  <2>2. [s \in Streams |-> InFlight(s)'] = [s \in Streams |-> InFlight(s)]
    BY <2>1, InFlightKept, Zenon
  <2>3. UNCHANGED Pipe!pvars
    BY <2>1, <2>2, QuietSteps, Zenon
  <2>. QED  BY <2>3
<1>2. ASSUME WriteWindowUpdate \/ \E s \in Streams : WorkerClose(s)
      PROVE  UNCHANGED Pipe!pvars
  <2>1. UNCHANGED <<sent, fin, rst, cancelled, got, read_eof, lost, read_buf, data_rx, frame_tx>>
    BY <1>2, Zenon DEF WriteWindowUpdate, WorkerClose
  <2>2. [s \in Streams |-> InFlight(s)'] = [s \in Streams |-> InFlight(s)]
    BY <2>1, InFlightKept, Zenon
  <2>. QED  BY <2>1, <2>2, QuietSteps, Zenon
<1>3. ASSUME NEW s \in Streams, RouteData(s) \/ PollRead(s)
      PROVE  Pipe!PNext
  <2>1. Pipe!Write(s) \/ Pipe!Read(s) \/ Pipe!ReadEnd(s)
    BY <1>3, RouteWrites, ReadReads, Zenon
  <2>. QED  BY <2>1, Zenon DEF Pipe!PNext
<1>4. ASSUME DispatchData PROVE UNCHANGED Pipe!pvars \/ Pipe!PNext
  BY <1>4, DispatchLoses, Zenon
<1>5. ASSUME Cancel PROVE Pipe!PNext
  BY <1>5, CancelAborts, Zenon
<1>6. CASE Next
  <2>1. UNCHANGED Pipe!pvars \/ Pipe!PNext
    BY <1>2, <1>3, <1>4, <1>5, <1>6, Zenon DEF Next
  <2>. QED  BY <2>1
<1>. QED  BY <1>1, <1>6

\* The receive path implements a lossy pipe per stream: the application reads the bytes the
\* peer sent, in order and none twice, less those counted as lost, and reads the end of a
\* stream that was not aborted only after FIN and after the last byte
\* (reader.rs:244-289, worker.rs:104-260, stream.rs:741-798).
THEOREM RecvPathIsPipe == Spec => ImplementsPipe
<1>1. Init => Pipe!PInit
  BY PipeInit
<1>2. Inv /\ [Next]_vars => [Pipe!PNext]_Pipe!pvars
  BY PipeStep
<1>. QED  BY <1>1, <1>2, RecvInvariant, PTL DEF Spec, ImplementsPipe, Pipe!PSpec
=============================================================================
