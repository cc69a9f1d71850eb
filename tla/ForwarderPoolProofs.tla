------------------------ MODULE ForwarderPoolProofs ------------------------
(***************************************************************************)
(* The session pool of a forwarder is correct for any number of callers,   *)
(* pods, ports, sessions and slots.                                        *)
(*                                                                         *)
(* The inductive invariant Inv says in whose hands every session is: the   *)
(* pool, a call that drained it, a call or the prefetch task about to      *)
(* install it.  A session about to be installed is in one pair of hands,   *)
(* not yet in the pool, and was opened for the pod install_if_current      *)
(* compares with the target.  The proof that every step preserves it goes  *)
(* by kinds of steps (QuietStep .. ShutdownCancelsStep), one lemma for what *)
(* several actions do; each action is then shown to be of its kind.        *)
(***************************************************************************)

EXTENDS ForwarderPool, FiniteSetTheorems, TLAPS

\* Induction along an interval.
LEMMA UpTo ==
  ASSUME NEW n \in Nat, NEW T, 0 \in T, \A i \in 0 .. n-1 : i \in T => i+1 \in T
  PROVE  \A i \in 0 .. n : i \in T
<1> DEFINE U == {i \in 0 .. n : i \notin T}
<1> SUFFICES ASSUME U # {} PROVE FALSE
  BY Zenon
<1>1. U \subseteq Nat
  OBVIOUS
<1>2. PICK x \in U : \A y \in U : ~ (<<y, x>> \in OpToRel(<, Nat))
  BY <1>1, NatLessThanWellFounded, WFMin, Zenon
<1>3. \A y \in U : ~ (y < x)
  BY <1>1, <1>2, Zenon DEF OpToRel
<1>4. x \in 1 .. n /\ x \notin T
  OBVIOUS
<1>5. x - 1 \in 0 .. n-1 /\ x - 1 \notin U
  BY <1>3, <1>4
<1>. QED  BY <1>4, <1>5

\* Appending an element.
Appended(q, x, X) ==
  /\ Append(q, x) \in Seq(X)
  /\ Range(Append(q, x)) = Range(q) \cup {x}
  /\ IsInjective(q) /\ x \notin Range(q) => IsInjective(Append(q, x))

\* push of a session that is not there yet keeps the pool without repetitions.
LEMMA AppendProps ==
  ASSUME NEW X, NEW q \in Seq(X), NEW x \in X
  PROVE  Appended(q, x, X)
<1> DEFINE r == Append(q, x)
<1>1. /\ r \in Seq(X) /\ Len(r) = Len(q) + 1 /\ Len(q) \in Nat
      /\ DOMAIN q = 1 .. Len(q) /\ DOMAIN r = 1 .. Len(q) + 1
      /\ \A i \in 1 .. Len(q) : r[i] = q[i]
      /\ r[Len(q) + 1] = x
  OBVIOUS
<1> HIDE DEF r
<1>2. Range(r) \subseteq Range(q) \cup {x}
  BY <1>1 DEF Range
<1>3. Range(q) \subseteq Range(r)
  BY <1>1 DEF Range
<1>4. x \in Range(r)
  BY <1>1 DEF Range
<1>5. IsInjective(q) /\ x \notin Range(q) => IsInjective(r)
  BY <1>1 DEF Range, IsInjective
<1>. QED  BY <1>1, <1>2, <1>3, <1>4, <1>5, Zenon DEF r, Appended

\* What Without computes, step by step.
LEMMA WithoutSteps ==
  ASSUME NEW X, NEW q \in Seq(X), NEW gone
  PROVE  \E kept : /\ kept = [i \in 0 .. Len(q) |->
                       IF i = 0 THEN <<>>
                       ELSE IF q[i] \in gone THEN kept[i-1] ELSE Append(kept[i-1], q[i])]
                   /\ Without(q, gone) = kept[Len(q)]
<1> DEFINE Fills(f, n) == f = [i \in 0 .. n |->
                       IF i = 0 THEN <<>>
                       ELSE IF q[i] \in gone THEN f[i-1] ELSE Append(f[i-1], q[i])]
           T == {n \in 0 .. Len(q) : \E f : Fills(f, n)}
<1>n. Len(q) \in Nat
  OBVIOUS
<1>1. 0 \in T
  <2>1. Fills([i \in 0 .. 0 |-> <<>>], 0)
    OBVIOUS
  <2> HIDE DEF Fills
  <2>. QED  BY <2>1, <1>n
<1>2. ASSUME NEW n \in 0 .. Len(q) - 1, n \in T  PROVE n + 1 \in T
  <2>1. PICK f : Fills(f, n)
    BY <1>2, Zenon
  <2>a. \A i \in 0 .. n : f[i] = IF i = 0 THEN <<>>
                       ELSE IF q[i] \in gone THEN f[i-1] ELSE Append(f[i-1], q[i])
    BY <2>1, Zenon
  <2> DEFINE g == [i \in 0 .. n + 1 |->
                     IF i <= n THEN f[i]
                     ELSE IF q[n+1] \in gone THEN f[n] ELSE Append(f[n], q[n+1])]
  <2>2. \A i \in 0 .. n : g[i] = f[i]
    OBVIOUS
  <2>3. g[n+1] = IF q[n+1] \in gone THEN g[n] ELSE Append(g[n], q[n+1])
    BY <2>2
  <2>4. \A i \in 0 .. n + 1 : g[i] = IF i = 0 THEN <<>>
                       ELSE IF q[i] \in gone THEN g[i-1] ELSE Append(g[i-1], q[i])
    <3> TAKE i \in 0 .. n + 1
    <3>1. CASE i = 0
      BY <2>a, <2>2, <3>1
    <3>2. CASE i \in 1 .. n
      <4>1. i - 1 \in 0 .. n /\ i \in 0 .. n
        BY <3>2
      <4>2. g[i] = f[i] /\ g[i-1] = f[i-1]
        BY <2>2, <4>1, Zenon
      <4>3. f[i] = IF q[i] \in gone THEN f[i-1] ELSE Append(f[i-1], q[i])
        BY <2>a, <3>2
      <4>. QED  BY <3>2, <4>2, <4>3
    <3>3. CASE i = n + 1
      BY <2>3, <3>3
    <3>. QED  BY <3>1, <3>2, <3>3
  <2>5. Fills(g, n + 1)
    BY <2>4, Zenon
  <2> HIDE DEF g, Fills
  <2>. QED  BY <2>5, <1>n
<1>3. Len(q) \in T
  <2> HIDE DEF T
  <2>1. \A i \in 0 .. Len(q) - 1 : i \in T => i+1 \in T
    BY <1>2, Zenon
  <2>2. \A i \in 0 .. Len(q) : i \in T
    BY <1>1, <2>1, <1>n, UpTo, Zenon
  <2>. QED  BY <2>2, <1>n
<1>4. PICK f : Fills(f, Len(q))
  BY <1>3, Zenon
<1>. QED  BY <1>4, Zenon DEF Without

\* What Without leaves: a sequence of the elements outside gone, each as often as before.
LEMMA WithoutProps ==
  ASSUME NEW X, NEW q \in Seq(X), NEW gone
  PROVE  /\ Without(q, gone) \in Seq(X)
         /\ Range(Without(q, gone)) = Range(q) \ gone
         /\ IsInjective(q) => IsInjective(Without(q, gone))
<1> DEFINE Firsts(i) == {q[j] : j \in 1 .. i}
           Good(k, i) == /\ k \in Seq(X)
                         /\ Range(k) = Firsts(i) \ gone
                         /\ IsInjective(q) => IsInjective(k)
<1>1. PICK kept : /\ kept = [i \in 0 .. Len(q) |->
                       IF i = 0 THEN <<>>
                       ELSE IF q[i] \in gone THEN kept[i-1] ELSE Append(kept[i-1], q[i])]
                  /\ Without(q, gone) = kept[Len(q)]
  BY WithoutSteps, Zenon
<1>n. Len(q) \in Nat /\ DOMAIN q = 1 .. Len(q) /\ \A i \in 1 .. Len(q) : q[i] \in X
  OBVIOUS
<1>2. \A i \in 0 .. Len(q) : kept[i] = IF i = 0 THEN <<>>
                       ELSE IF q[i] \in gone THEN kept[i-1] ELSE Append(kept[i-1], q[i])
  BY <1>1, Zenon
<1> DEFINE T == {i \in 0 .. Len(q) : Good(kept[i], i)}
<1>3. 0 \in T
  <2>1. kept[0] = <<>>
    BY <1>2, <1>n
  <2>2. Good(<<>>, 0)
    BY DEF Range, IsInjective
  <2> HIDE DEF Good
  <2>. QED  BY <2>1, <2>2, <1>n
<1>4. ASSUME NEW i \in 0 .. Len(q) - 1, i \in T  PROVE i + 1 \in T
  <2>1. Good(kept[i], i) /\ i + 1 \in 1 .. Len(q)
    BY <1>4, <1>n
  <2>2. kept[i+1] = IF q[i+1] \in gone THEN kept[i] ELSE Append(kept[i], q[i+1])
    BY <1>2, <2>1
  <2>3. Firsts(i+1) = Firsts(i) \cup {q[i+1]}
    BY <1>n
  <2>4. CASE q[i+1] \in gone
    <3>1. kept[i+1] = kept[i] /\ Firsts(i+1) \ gone = Firsts(i) \ gone
      BY <2>2, <2>3, <2>4, Zenon
    <3>2. Good(kept[i+1], i+1)
      BY <2>1, <3>1, Zenon
    <3>. QED  BY <3>2, <2>1
  <2>5. CASE q[i+1] \notin gone
    <3> DEFINE k == kept[i]
               x == q[i+1]
    <3>1. kept[i+1] = Append(k, x) /\ x \in X /\ k \in Seq(X)
      BY <2>1, <2>2, <2>5, <1>n, Zenon
    <3>a. Range(k) = Firsts(i) \ gone
      BY <2>1, Zenon
    <3>b. Firsts(i+1) \ gone = (Firsts(i) \ gone) \cup {x}
      BY <2>3, <2>5, Zenon
    <3>c. IsInjective(q) => x \notin Range(k)
      <4>1. SUFFICES ASSUME IsInjective(q), x \in Firsts(i) PROVE FALSE
        BY <3>a, Zenon
      <4>2. PICK j \in 1 .. i : q[j] = q[i+1]
        BY <4>1, Zenon
      <4>. QED  BY <4>1, <4>2, <1>n, <2>1 DEF IsInjective
    <3> HIDE DEF k, x, Firsts
    <3>2. /\ Append(k, x) \in Seq(X) /\ Range(Append(k, x)) = Range(k) \cup {x}
          /\ IsInjective(k) /\ x \notin Range(k) => IsInjective(Append(k, x))
      <4>1. Appended(k, x, X)
        BY <3>1, AppendProps, Zenon
      <4>. QED  BY <4>1, Zenon DEF Appended
    <3>4. Good(Append(k, x), i+1)
      BY <3>a, <3>b, <3>c, <3>2, <2>1, Zenon DEF k
    <3>5. Good(kept[i+1], i+1)
      BY <3>1, <3>4, Zenon
    <3> HIDE DEF Good
    <3>. QED  BY <3>5, <2>1
  <2>. QED  BY <2>4, <2>5, Zenon
<1>5. Len(q) \in T
  <2> HIDE DEF T
  <2>1. \A i \in 0 .. Len(q) - 1 : i \in T => i+1 \in T
    BY <1>4, Zenon
  <2>2. \A i \in 0 .. Len(q) : i \in T
    BY <1>3, <2>1, <1>n, UpTo, Zenon
  <2>. QED  BY <2>2, <1>n
<1>6. Good(Without(q, gone), Len(q))
  <2> HIDE DEF Good
  <2>. QED  BY <1>5, <1>1, Zenon
<1>7. Firsts(Len(q)) = Range(q)
  BY <1>n, Zenon DEF Range
<1>. QED  BY <1>6, <1>7, Zenon

(***************************************************************************)
(* The inductive invariant.                                                *)
(***************************************************************************)

Session == [state : {"none", "open", "dead", "cancelled"}, pod : Pods \cup {NoPod},
            for : Pods \cup {NoPod}, port : Ports \cup {0}, used : 0..OperatingMax,
            spare : 0..OperatingMax, warm : BOOLEAN]
Task == [step : {"none", "open", "install"}, pod : Pods \cup {NoPod},
         port : Ports \cup {0}, session : Sessions \cup {0}]

WatchTypes == alive \subseteq Pods /\ past \subseteq Pods /\ latest \in Pods \cup {NoPod}

SessTypes ==
  /\ opened \in 0..MaxOpens
  /\ sess \in [Sessions -> Session]
  /\ \A s \in Sessions : sess[s].spare <= sess[s].used

PoolTypes ==
  /\ entries \in Seq(Sessions) /\ snapshot \in Seq(Sessions)
  /\ target \in Pods \cup {NoPod}
  /\ prefetch_in_flight \in BOOLEAN

CallTypes ==
  /\ pc \in [Callers -> Steps] /\ port \in [Callers -> Ports \cup {0}]
  /\ ready \in [Callers -> Pods \cup {NoPod}] /\ retry \in [Callers -> BOOLEAN]
  /\ chosen \in [Callers -> Sessions \cup {0}]
  /\ drained \in [Callers -> SUBSET Sessions] /\ slot \in [Callers -> BOOLEAN]

TaskTypes ==
  /\ prefetch \in Task /\ connects \in 0..MaxConnects
  /\ down \in {"up", "cancelled", "drained", "done"}

Types == WatchTypes /\ SessTypes /\ PoolTypes /\ CallTypes /\ TaskTypes

\* The steps at which a call has chosen a session, and those at which it may hold a slot.
Holders == {"install", "prefetch", "threshold", "claim", "spawn", "stream"}
SlotSteps == {"permit", "open", "install", "prefetch", "threshold", "claim", "spawn"}

\* Every slot counted is held by a call between reserve_new_slot and its return.
Slots ==
  /\ opening_count = Cardinality({c \in Callers : slot[c]})
  /\ opening_count <= MaxSessions
  /\ \A c \in Callers : /\ pc[c] \in {"permit", "open", "install"} => slot[c]
                        /\ slot[c] => pc[c] \in SlotSteps

\* prefetch_in_flight belongs to one call about to spawn the task, or to the task.
OnePrefetch ==
  /\ \A c \in Callers : pc[c] = "spawn" => prefetch_in_flight /\ prefetch.step = "none"
  /\ \A c, d \in Callers : pc[c] = "spawn" /\ pc[d] = "spawn" => c = d
  /\ prefetch.step # "none" => prefetch_in_flight
  /\ prefetch.step # "install" => prefetch.session = 0

\* The pool and its snapshot hold sessions that were opened, each once in the pool.
Pooled ==
  /\ Range(entries) \subseteq 1..opened /\ Range(snapshot) \subseteq 1..opened
  /\ IsInjective(entries)

\* So do calls and the prefetch task; a call that goes on with a session has one.
Held ==
  /\ \A c \in Callers :
       /\ chosen[c] \in 0..opened
       /\ drained[c] \subseteq 1..opened
       /\ drained[c] # {} => pc[c] = "cancel"
       /\ pc[c] \in Holders => chosen[c] # 0
  /\ prefetch.session \in 0..opened
  /\ prefetch.step = "install" => prefetch.session # 0

\* A session about to be installed is in one pair of hands and not yet in the pool.
Owned ==
  /\ \A c \in Callers :
       pc[c] = "install" => chosen[c] \notin Range(entries) /\ chosen[c] # prefetch.session
  /\ \A c, d \in Callers :
       pc[c] = "install" /\ pc[d] = "install" /\ chosen[c] = chosen[d] => c = d
  /\ prefetch.step = "install" => prefetch.session \notin Range(entries)

\* What is installed next was opened for the pod it is compared with, and for the port.
OpenedFor ==
  /\ \A c \in Callers : pc[c] = "install" => sess[chosen[c]].for = ready[c]
  /\ prefetch.step = "install" => sess[prefetch.session].for = prefetch.pod
  /\ \A c \in Callers : pc[c] \in Holders => sess[chosen[c]].port = port[c]

Inv == /\ Types /\ Slots /\ OnePrefetch /\ Pooled /\ Held /\ Owned /\ OpenedFor
       /\ PoolFollowsTarget /\ NoSessionLost /\ ShutdownClosesAll

\* Cancelling the tokens of the sessions S changes their states and nothing else.
LEMMA CancelAllFacts ==
  ASSUME SessTypes, NEW S
  PROVE  /\ CancelAll(S) \in [Sessions -> Session]
         /\ \A s \in Sessions :
              /\ CancelAll(S)[s].state = IF s \in S THEN "cancelled" ELSE sess[s].state
              /\ CancelAll(S)[s].for = sess[s].for /\ CancelAll(S)[s].port = sess[s].port
              /\ CancelAll(S)[s].used = sess[s].used /\ CancelAll(S)[s].spare = sess[s].spare
<1>1. ASSUME NEW s \in Sessions, NEW r, r = [sess[s] EXCEPT !.state = "cancelled"]
      PROVE /\ r \in Session /\ r.state = "cancelled" /\ r.for = sess[s].for
            /\ r.port = sess[s].port /\ r.used = sess[s].used /\ r.spare = sess[s].spare
  BY <1>1, Zenon DEF SessTypes, Session
<1>2. \A s \in Sessions : sess[s] \in Session
  BY Zenon DEF SessTypes
<1>. QED  BY <1>1, <1>2 DEF CancelAll

\* What every step does to the sessions: they keep the pod and the port they were opened for,
\* and none is open that was not, unless the step opened it while the forwarder is up.
SessionsKept ==
  /\ SessTypes'
  /\ opened <= opened'
  /\ \A s \in 1..opened : sess'[s].for = sess[s].for /\ sess'[s].port = sess[s].port
  /\ \A s \in Sessions :
       sess'[s].state = "open" => 
         \/ sess[s].state = "open"
         \/ s = opened + 1 /\ opened' = opened + 1 /\ down = "up"

\* A step that leaves the sessions alone keeps them.
LEMMA SameKept == ASSUME SessTypes, UNCHANGED <<sess, opened>> PROVE SessionsKept
  BY DEF SessTypes, SessionsKept

\* So does one that cancels some of them: no cancelled session opens again.
LEMMA CancelKept ==
  ASSUME SessTypes, NEW S, sess' = CancelAll(S), UNCHANGED opened
  PROVE  SessionsKept
<1> DEFINE new == CancelAll(S)
<1>0. 1..opened \subseteq Sessions
  BY PoolAssumption DEF SessTypes, Sessions
<1>1. sess' = new
  BY Zenon
<1>2. /\ new \in [Sessions -> Session]
      /\ \A s \in Sessions :
              /\ new[s].state = IF s \in S THEN "cancelled" ELSE sess[s].state
              /\ new[s].for = sess[s].for /\ new[s].port = sess[s].port
              /\ new[s].used = sess[s].used /\ new[s].spare = sess[s].spare
  BY CancelAllFacts, Zenon
<1> HIDE DEF new
<1>3. SessTypes'
  BY <1>1, <1>2, Zenon DEF SessTypes
<1>4. \A s \in Sessions : /\ sess'[s].for = sess[s].for /\ sess'[s].port = sess[s].port
                          /\ sess'[s].state = "open" => sess[s].state = "open"
  BY <1>1, <1>2, Zenon
<1>5. opened <= opened'
  BY DEF SessTypes
<1>. QED  BY <1>0, <1>3, <1>4, <1>5, Zenon DEF SessionsKept

\* So does one that opens or closes streams of a session, which never reopens it.
LEMMA UpdateKept ==
  ASSUME SessTypes, NEW s \in Sessions, NEW r \in Session, r.spare <= r.used,
         r.for = sess[s].for, r.port = sess[s].port, r.state = "open" => sess[s].state = "open",
         sess' = [sess EXCEPT ![s] = r], UNCHANGED opened
  PROVE  SessionsKept
<1>0. 1..opened \subseteq Sessions
  BY PoolAssumption DEF SessTypes, Sessions
<1>. QED  BY <1>0 DEF SessTypes, SessionsKept

\* So does one that opens a session (open_session): the number is new, and it is open only
\* while the forwarder is up.
LEMMA NewKept ==
  ASSUME SessTypes, opened < MaxOpens, NEW r \in Session, r.spare <= r.used,
         r.state = "open" => down = "up",
         sess' = [sess EXCEPT ![opened + 1] = r], opened' = opened + 1
  PROVE  SessionsKept
<1>0. 1..opened \subseteq Sessions /\ opened + 1 \in Sessions /\ opened' \in 0..MaxOpens
      /\ opened + 1 \notin 1..opened /\ opened <= opened'
  BY PoolAssumption DEF SessTypes, Sessions
<1>1. \A s \in Sessions : sess'[s] = IF s = opened + 1 THEN r ELSE sess[s]
  BY Zenon DEF SessTypes
<1>2. sess' \in [Sessions -> Session]
  BY <1>0, Zenon DEF SessTypes
<1>3. \A s \in Sessions : sess'[s].spare <= sess'[s].used
  BY <1>1, Zenon DEF SessTypes
<1>4. \A s \in 1..opened : sess'[s] = sess[s]
  BY <1>0, <1>1, Zenon
<1>. QED  BY <1>0, <1>1, <1>2, <1>3, <1>4, Zenon DEF SessTypes, SessionsKept

\* A nonempty set of numbers has a least one: the first match of an iterator exists.
LEMMA LeastIndex ==
  ASSUME NEW I, I \subseteq Nat, I # {}
  PROVE  \E x \in I : \A y \in I : x <= y
<1>1. PICK x \in I : \A y \in I : ~ (<<y, x>> \in OpToRel(<, Nat))
  BY NatLessThanWellFounded, WFMin, Zenon
<1>2. \A y \in I : ~ (y < x)
  BY <1>1, Zenon DEF OpToRel
<1>. QED  BY <1>2

\* What try_reuse_session and find_reusable_session return is in the snapshot and was opened
\* for the port asked for.
LEMMA ReusableServes ==
  ASSUME snapshot \in Seq(Sessions), NEW prt
  PROVE  \/ Reusable(prt) = 0
         \/ /\ Reusable(prt) \in Range(snapshot) /\ Reusable(prt) \in Sessions
            /\ sess[Reusable(prt)].port = prt
<1> DEFINE I == {i \in DOMAIN snapshot : Serves(snapshot[i], prt)}
           m == CHOOSE i \in I : \A j \in I : i <= j
<1>1. I \subseteq Nat
  OBVIOUS
<1>2. CASE I = {}
  BY <1>2, Zenon DEF Reusable
<1>3. CASE I # {}
  <2>1. m \in I
    BY <1>1, <1>3, LeastIndex, Zenon
  <2>2. Reusable(prt) = snapshot[m]
    BY <1>3, Zenon DEF Reusable
  <2>3. m \in DOMAIN snapshot /\ Serves(snapshot[m], prt)
    BY <2>1, Zenon
  <2> HIDE DEF m
  <2>. QED  BY <2>2, <2>3 DEF Serves, Range
<1>. QED  BY <1>2, <1>3, Zenon

\* The pool and its snapshot hold session numbers.
LEMMA EntriesInSessions ==
  ASSUME Types
  PROVE  Range(entries) \subseteq Sessions /\ Range(snapshot) \subseteq Sessions
BY DEF Types, PoolTypes, Range

\* A session whose pairs in use are u, of which v are spare.
WithCounts(q, u, v) == [q EXCEPT !.used = u, !.spare = v]

\* While another session may be opened, its number is one of Sessions.
LEMMA NextIsSession ==
  ASSUME Types, opened < MaxOpens
  PROVE  opened + 1 \in Sessions
BY PoolAssumption DEF Types, SessTypes, Sessions

\* Changing the counts of pairs leaves the session's identity and its state alone.
LEMMA CountsUpdated ==
  ASSUME NEW q \in Session, NEW u \in 0..OperatingMax, NEW v \in 0..u
  PROVE  LET r == WithCounts(q, u, v)
         IN r \in Session /\ r.spare <= r.used /\ r.for = q.for /\ r.port = q.port
            /\ r.state = q.state
<1> DEFINE r == WithCounts(q, u, v)
<1>1. v \in 0..OperatingMax /\ v <= u
  BY PoolAssumption
<1>2. r.used = u /\ r.spare = v /\ r.for = q.for /\ r.port = q.port /\ r.state = q.state
  BY Zenon DEF Session, WithCounts
<1>3. r \in Session
  BY <1>1, Zenon DEF Session, WithCounts
<1>. QED  BY <1>1, <1>2, <1>3, Zenon


\* What SessionsKept gives the invariants about sessions.
LEMMA KeptFacts ==
  ASSUME Inv, SessionsKept
  PROVE  /\ 1..opened \subseteq Sessions
         /\ \A s \in 1..opened : sess'[s].for = sess[s].for /\ sess'[s].port = sess[s].port
         /\ opened' = opened => \A s \in Sessions : Open(s)' => Open(s)
<1>1. 1..opened \subseteq Sessions
  BY PoolAssumption DEF Inv, Types, SessTypes, Sessions
<1>2. opened' = opened => \A s \in Sessions : Open(s)' => Open(s)
  BY DEF SessionsKept, Open, Inv, Types, SessTypes
<1>. QED  BY <1>1, <1>2, Zenon DEF SessionsKept

\* A call that goes on with a session, and the task that installs one, have one that was opened.
LEMMA HeldSessions ==
  ASSUME Inv
  PROVE  /\ \A d \in Callers : pc[d] \in Holders => chosen[d] \in 1..opened
         /\ prefetch.step = "install" => prefetch.session \in 1..opened
BY DEF Inv, Held, Types, SessTypes, Holders

\* 0 stands for no session.
LEMMA NumberFacts == ASSUME Inv PROVE 0 \in 0..opened /\ 0 \notin Sessions
BY DEF Inv, Types, SessTypes, Sessions

\* Steps of the sessions, and of the pod watcher, that leave the pool and the calls alone.
LEMMA QuietStep ==
  ASSUME Inv, SessionsKept, WatchTypes', UNCHANGED opened,
         UNCHANGED <<poolVars, callVars, connects, prefetch, down>>
  PROVE  Inv'
<1> USE DEF poolVars, callVars
<1>0. /\ \A s \in 1..opened : sess'[s].for = sess[s].for /\ sess'[s].port = sess[s].port
      /\ \A s \in Sessions : Open(s)' => Open(s)
  BY KeptFacts, Zenon
<1>1. Types'
  BY Zenon DEF Inv, Types, SessionsKept, PoolTypes, CallTypes, TaskTypes
<1>2. Slots' /\ OnePrefetch' /\ Pooled' /\ Held' /\ Owned'
  BY Zenon DEF Inv, Slots, OnePrefetch, Pooled, Held, Owned
<1>5. OpenedFor'
  BY <1>0, HeldSessions, Zenon DEF Inv, OpenedFor, Holders
<1>6. PoolFollowsTarget'
  BY <1>0, Zenon DEF Inv, PoolFollowsTarget, Pooled
<1>7. NoSessionLost'
  BY <1>0, Zenon DEF Inv, NoSessionLost
<1>8. ShutdownClosesAll'
  BY <1>0, Zenon DEF Inv, ShutdownClosesAll
<1>. QED  BY <1>1, <1>2, <1>5, <1>6, <1>7, <1>8, Zenon DEF Inv

\* A call goes on to another step, with the session it has chosen if it needs one.
LEMMA MoveStep ==
  ASSUME Inv, SessionsKept, WatchTypes', CallTypes', TaskTypes', UNCHANGED opened,
         NEW c \in Callers, NEW l \in Steps \ {"permit", "install", "spawn"},
         pc[c] \notin {"open", "install", "cancel"}, slot[c] => l \in SlotSteps,
         l = "open" => slot[c],
         pc' = [pc EXCEPT ![c] = l],
         chosen'[c] \in 0..opened,
         l \in Holders => chosen'[c] # 0 /\ sess'[chosen'[c]].port = port'[c],
         \A d \in Callers \ {c} :
           chosen'[d] = chosen[d] /\ port'[d] = port[d] /\ ready'[d] = ready[d],
         UNCHANGED <<poolVars, drained, slot, prefetch, down>>
  PROVE  Inv'
<1> USE DEF poolVars
<1>0. /\ \A s \in 1..opened : sess'[s].for = sess[s].for /\ sess'[s].port = sess[s].port
      /\ \A s \in Sessions : Open(s)' => Open(s)
  BY KeptFacts, Zenon
<1>p. pc'[c] = l /\ \A d \in Callers \ {c} : pc'[d] = pc[d]
  BY Zenon DEF Inv, Types, CallTypes
<1>1. Types'
  BY Zenon DEF Inv, Types, SessionsKept, PoolTypes
<1>2. Slots'
  BY <1>p, Zenon DEF Inv, Slots
<1>3. OnePrefetch'
  BY <1>p DEF Inv, OnePrefetch
<1>h. Pooled' /\ Held'
  BY <1>p DEF Inv, Pooled, Held
<1>4. Owned'
  BY <1>p DEF Inv, Owned
<1>7. OpenedFor'
  BY <1>0, <1>p, HeldSessions DEF Inv, OpenedFor, Holders
<1>8. PoolFollowsTarget'
  BY <1>0, Zenon DEF Inv, PoolFollowsTarget, Pooled
<1>9. NoSessionLost'
  BY <1>p, <1>0 DEF Inv, NoSessionLost
<1>10. ShutdownClosesAll'
  BY <1>0, Zenon DEF Inv, ShutdownClosesAll
<1>. QED  BY <1>1, <1>2, <1>3, <1>h, <1>4, <1>7, <1>8, <1>9, <1>10, Zenon DEF Inv

\* The slot of a call is given up.
LEMMA SlotGivenUp ==
  ASSUME CallTypes, Slots, NEW c \in Callers, NEW l \in Steps \ {"permit", "open", "install"},
         pc' = [pc EXCEPT ![c] = l], slot' = [slot EXCEPT ![c] = FALSE],
         opening_count' = IF slot[c] THEN opening_count - 1 ELSE opening_count
  PROVE  Slots'
<1> DEFINE held == {d \in Callers : slot[d]}
<1>1. IsFiniteSet(held)
  BY PoolAssumption, FS_Subset, Zenon
<1>2. {d \in Callers : slot'[d]} = held \ {c}
  BY Zenon DEF CallTypes
<1>3. Cardinality(held \ {c}) = IF c \in held THEN Cardinality(held) - 1 ELSE Cardinality(held)
  BY <1>1, FS_RemoveElement, Zenon
<1>4. Cardinality(held) \in Nat
  BY <1>1, FS_CardinalityType, Zenon
<1>5. c \in held <=> slot[c]
  BY Zenon
<1>6. opening_count = Cardinality(held) /\ opening_count <= MaxSessions
  BY Zenon DEF Slots
<1>7. \A d \in Callers : /\ pc'[d] \in {"permit", "open", "install"} => slot'[d]
                         /\ slot'[d] => pc'[d] \in SlotSteps
  BY Zenon DEF Slots, CallTypes
<1> HIDE DEF held
<1>8. opening_count' = Cardinality(held \ {c}) /\ opening_count' <= MaxSessions
  BY <1>3, <1>4, <1>5, <1>6, PoolAssumption
<1>. QED  BY <1>2, <1>7, <1>8, Zenon DEF Slots

\* A call that ends has the types of an idle one.
LEMMA EndTypes == ASSUME CallTypes, NEW c \in Callers, End(c) PROVE CallTypes'
BY Zenon DEF CallTypes, End, Steps

\* A call ends or starts again: a session it was about to install is no longer open.
LEMMA EndStep ==
  ASSUME Inv, SessionsKept, WatchTypes', CallTypes', UNCHANGED opened,
         NEW c \in Callers, pc[c] # "cancel", NEW l \in {"idle", "resolve"},
         pc[c] = "install" => sess'[chosen[c]].state # "open",
         pc' = [pc EXCEPT ![c] = l], chosen' = [chosen EXCEPT ![c] = 0],
         slot' = [slot EXCEPT ![c] = FALSE],
         opening_count' = IF slot[c] THEN opening_count - 1 ELSE opening_count,
         \A d \in Callers \ {c} : port'[d] = port[d] /\ ready'[d] = ready[d],
         UNCHANGED <<entries, target, prefetch_in_flight, snapshot, drained, connects,
                     prefetch, down>>
  PROVE  Inv'
<1>0. /\ \A s \in 1..opened : sess'[s].for = sess[s].for /\ sess'[s].port = sess[s].port
      /\ \A s \in Sessions : Open(s)' => Open(s)
  BY KeptFacts, Zenon
<1>p. /\ pc'[c] = l /\ chosen'[c] = 0
      /\ \A d \in Callers \ {c} : pc'[d] = pc[d] /\ chosen'[d] = chosen[d]
  BY Zenon DEF Inv, Types, CallTypes
<1>1. Types'
  BY Zenon DEF Inv, Types, SessionsKept, PoolTypes, TaskTypes
<1>2. Slots'
  BY SlotGivenUp, Zenon DEF Inv, Types, Steps
<1>l. l # "install" /\ l # "spawn" /\ l \notin Holders
  BY Zenon DEF Holders
<1>3. OnePrefetch'
  <2>1. \A d \in Callers : pc'[d] = "spawn" => pc[d] = "spawn"
    BY <1>p, <1>l, Zenon
  <2>. QED  BY <2>1, Zenon DEF Inv, OnePrefetch
<1>h. Pooled' /\ Held'
  <2>1. 0 \in 0..opened
    BY NumberFacts, Zenon
  <2>2. Pooled'
    BY Zenon DEF Inv, Pooled
  <2>3. ASSUME NEW d \in Callers
        PROVE  /\ chosen'[d] \in 0..opened' /\ drained'[d] \subseteq 1..opened'
               /\ drained'[d] # {} => pc'[d] = "cancel"
               /\ pc'[d] \in Holders => chosen'[d] # 0
    <3>1. CASE d = c
      <4>1. drained[c] = {}
        BY Zenon DEF Inv, Held
      <4>. QED  BY <1>p, <1>l, <2>1, <3>1, <4>1, Zenon
    <3>2. CASE d # c
      BY <1>p, <3>2, Zenon DEF Inv, Held
    <3>. QED  BY <3>1, <3>2, Zenon
  <2>4. /\ prefetch'.session \in 0..opened'
        /\ prefetch'.step = "install" => prefetch'.session # 0
    BY Zenon DEF Inv, Held
  <2>. QED  BY <2>2, <2>3, <2>4, Zenon DEF Held
<1>4. Owned'
  <2>1. \A d \in Callers : pc'[d] = "install" => d # c
    BY <1>p, <1>l, Zenon
  <2>2. ASSUME NEW d \in Callers, pc'[d] = "install"
        PROVE  pc[d] = "install" /\ chosen'[d] = chosen[d]
    BY <1>p, <2>1, <2>2, Zenon
  <2>3. \A d \in Callers :
          pc'[d] = "install" => chosen'[d] \notin Range(entries) /\ chosen'[d] # prefetch.session
    BY <2>2, Zenon DEF Inv, Owned
  <2>4. ASSUME NEW d \in Callers, NEW e \in Callers, pc'[d] = "install", pc'[e] = "install",
               chosen'[d] = chosen'[e]
        PROVE  d = e
    <3>1. pc[d] = "install" /\ chosen'[d] = chosen[d]
      BY <2>2, <2>4, Zenon
    <3>2. pc[e] = "install" /\ chosen'[e] = chosen[e]
      BY <2>2, <2>4, Zenon
    <3>. QED  BY <2>4, <3>1, <3>2, Zenon DEF Inv, Owned
  <2>. QED  BY <2>3, <2>4, Zenon DEF Inv, Owned
<1>5. OpenedFor'
  <2>1. \A d \in Callers : pc'[d] \in Holders => d # c
    BY <1>p, <1>l, Zenon
  <2>2. "install" \in Holders
    BY Zenon DEF Holders
  <2>3. ASSUME NEW d \in Callers, d # c
        PROVE  /\ pc'[d] = "install" => sess'[chosen'[d]].for = ready'[d]
               /\ pc'[d] \in Holders => sess'[chosen'[d]].port = port'[d]
    <3>1. /\ pc'[d] = pc[d] /\ chosen'[d] = chosen[d] /\ ready'[d] = ready[d]
          /\ port'[d] = port[d]
      BY <1>p, <2>3, Zenon
    <3>2. pc[d] \in Holders => /\ sess'[chosen[d]].for = sess[chosen[d]].for
                               /\ sess'[chosen[d]].port = sess[chosen[d]].port
      BY <1>0, HeldSessions, Zenon
    <3>. QED  BY <2>2, <3>1, <3>2, Zenon DEF Inv, OpenedFor
  <2>4. prefetch'.step = "install" => sess'[prefetch'.session].for = prefetch'.pod
    BY <1>0, HeldSessions, Zenon DEF Inv, OpenedFor
  <2>. QED  BY <2>1, <2>2, <2>3, <2>4, Zenon DEF OpenedFor
<1>6. PoolFollowsTarget'
  BY <1>0, Zenon DEF Inv, PoolFollowsTarget, Pooled
<1>7. NoSessionLost'
  BY <1>p, <1>0 DEF Inv, NoSessionLost, Open
<1>8. ShutdownClosesAll'
  BY <1>0, Zenon DEF Inv, ShutdownClosesAll
<1>. QED  BY <1>1, <1>2, <1>3, <1>h, <1>4, <1>5, <1>6, <1>7, <1>8, Zenon DEF Inv

\* ensure_session_for_pod returns.
LEMMA ReturnStep ==
  ASSUME Inv, TaskTypes', OnePrefetch', NEW c \in Callers,
         pc[c] \in {"threshold", "claim", "spawn"}, Return(c),
         prefetch'.session = prefetch.session,
         prefetch'.step = "install" => prefetch' = prefetch,
         UNCHANGED <<alive, past, latest, sess, opened, entries, target, prefetch_in_flight,
                     snapshot, port, ready, retry, chosen, drained, down>>
  PROVE  Inv'
<1>p. pc'[c] = "stream" /\ \A d \in Callers \ {c} : pc'[d] = pc[d]
  BY Zenon DEF Inv, Types, CallTypes, Return, Goto
<1>1. CallTypes'
  BY Zenon DEF Inv, Types, CallTypes, Return, Goto, Steps
<1>2. Types'
  BY <1>1, Zenon DEF Inv, Types, WatchTypes, SessTypes, PoolTypes
<1>3. Slots'
  BY SlotGivenUp, Zenon DEF Inv, Types, Return, Goto, Steps
<1>h. Pooled' /\ Held'
  BY <1>p, Zenon DEF Inv, Pooled, Held, Holders
<1>4. Owned'
  BY <1>p, Zenon DEF Inv, Owned
<1>5. OpenedFor'
  BY <1>p, Zenon DEF Inv, OpenedFor, Holders
<1>6. PoolFollowsTarget' /\ ShutdownClosesAll'
  BY Zenon DEF Inv, PoolFollowsTarget, ShutdownClosesAll, Open
<1>7. NoSessionLost'
  BY <1>p DEF Inv, NoSessionLost, Open
<1>. QED  BY <1>2, <1>3, <1>h, <1>4, <1>5, <1>6, <1>7, Zenon DEF Inv

\* The empty pool is a pool without sessions.
LEMMA EmptyPool == <<>> \in Seq(Sessions) /\ Range(<<>>) = {} /\ IsInjective(<<>>)
BY DEF Range, IsInjective

\* The pool is taken over for another pod; what it held is to be cancelled by the call.
LEMMA DrainStep ==
  ASSUME Inv, NEW c \in Callers, Drain(c), target # ready[c]
  PROVE  Inv'
<1> USE DEF callRest, watchVars
<1>p. /\ pc[c] = "drain" /\ pc'[c] = "cancel" /\ \A d \in Callers \ {c} : pc'[d] = pc[d]
      /\ drained'[c] = Range(entries) /\ \A d \in Callers \ {c} : drained'[d] = drained[d]
  BY Zenon DEF Inv, Types, CallTypes, Drain, Goto
<1>e. entries' = <<>> /\ snapshot' = <<>> /\ Range(entries') = {} /\ Range(snapshot') = {}
      /\ IsInjective(entries') /\ target' = ready[c]
  BY EmptyPool, Zenon DEF Drain
<1>s. Range(entries) \subseteq Sessions
  BY DEF Inv, Types, PoolTypes, Range
<1>u. UNCHANGED <<alive, past, latest, sess, opened, prefetch_in_flight, opening_count, port,
                  ready, retry, chosen, slot, connects, prefetch, down>>
  BY Zenon DEF Drain
<1>1. CallTypes'
  BY <1>s, Zenon DEF Inv, Types, CallTypes, Drain, Goto, Steps
<1>2. PoolTypes'
  BY <1>e, <1>u, EmptyPool, Zenon DEF Inv, Types, CallTypes, PoolTypes
<1>3. Types'
  BY <1>1, <1>2, <1>u, Zenon DEF Inv, Types, WatchTypes, SessTypes, TaskTypes
<1>4. Slots'
  BY <1>p, <1>u, Zenon DEF Inv, Slots, SlotSteps
<1>4b. OnePrefetch'
  BY <1>p, <1>u, Zenon DEF Inv, OnePrefetch
<1>h. Pooled' /\ Held'
  BY <1>p, <1>e, <1>u, Zenon DEF Inv, Pooled, Held, Holders
<1>5. Owned'
  BY <1>p, <1>e, <1>u DEF Inv, Owned
<1>6. OpenedFor'
  BY <1>p, <1>u, Zenon DEF Inv, OpenedFor, Holders
<1>7. PoolFollowsTarget' /\ ShutdownClosesAll'
  BY <1>e, <1>u, Zenon DEF Inv, PoolFollowsTarget, ShutdownClosesAll, Open
<1>8. NoSessionLost'
  BY <1>p, <1>u DEF Inv, NoSessionLost, Held, Open
<1>. QED  BY <1>3, <1>4, <1>4b, <1>h, <1>5, <1>6, <1>7, <1>8, Zenon DEF Inv

\* What was drained is cancelled.
LEMMA CancelDrainedStep ==
  ASSUME Inv, NEW c \in Callers, CancelDrained(c)
  PROVE  Inv'
<1> USE DEF callRest, watchVars, poolVars
<1>k. SessionsKept
  BY CancelKept, Zenon DEF CancelDrained, Inv, Types
<1>0. /\ \A s \in 1..opened : sess'[s].for = sess[s].for /\ sess'[s].port = sess[s].port
      /\ \A s \in Sessions : Open(s)' => Open(s) /\ s \notin drained[c]
  <2>1. \A s \in drained[c] : s \in Sessions => ~Open(s)'
    BY CancelAllFacts, Zenon DEF CancelDrained, Inv, Types, Open
  <2>. QED  BY <1>k, <2>1, KeptFacts, Zenon DEF CancelDrained
<1>p. /\ pc[c] = "cancel" /\ pc'[c] = "reuse" /\ \A d \in Callers \ {c} : pc'[d] = pc[d]
      /\ drained'[c] = {} /\ \A d \in Callers \ {c} : drained'[d] = drained[d]
  BY Zenon DEF Inv, Types, CallTypes, CancelDrained, Goto
<1>u. UNCHANGED <<alive, past, latest, opened, prefetch_in_flight, opening_count, port, entries,
                  snapshot, target, ready, retry, chosen, slot, connects, prefetch, down>>
  BY Zenon DEF CancelDrained
<1>1. CallTypes'
  BY Zenon DEF Inv, Types, CallTypes, CancelDrained, Goto, Steps
<1>2. Types'
  BY <1>1, <1>k, <1>u, Zenon DEF Inv, Types, WatchTypes, SessionsKept, PoolTypes, TaskTypes
<1>3. Slots'
  BY <1>p, <1>u, Zenon DEF Inv, Slots, SlotSteps
<1>3b. OnePrefetch'
  BY <1>p, <1>u, Zenon DEF Inv, OnePrefetch
<1>h. Pooled' /\ Held'
  BY <1>p, <1>u, Zenon DEF Inv, Pooled, Held, Holders
<1>4. Owned'
  BY <1>p, <1>u DEF Inv, Owned
<1>5. OpenedFor'
  BY <1>0, <1>p, <1>u, HeldSessions, Zenon DEF Inv, OpenedFor, Holders
<1>6. PoolFollowsTarget' /\ ShutdownClosesAll'
  BY <1>0, <1>u, Zenon DEF Inv, PoolFollowsTarget, ShutdownClosesAll, Pooled
<1>7. NoSessionLost'
  <2>1. \A d \in Callers : pc[d] = "install" => pc'[d] = "install"
    BY <1>p, Zenon
  <2>. QED  BY <1>0, <1>p, <1>u, <2>1, Zenon DEF Inv, NoSessionLost
<1>. QED  BY <1>2, <1>3, <1>3b, <1>h, <1>4, <1>5, <1>6, <1>7, Zenon DEF Inv

\* Sessions are taken out of the pool and cancelled.
LEMMA RemoveStep ==
  ASSUME Inv, CallTypes', NEW gone, entries' = Without(entries, gone),
         snapshot' \in {snapshot, entries'}, sess' = CancelAll(gone),
         \A d \in Callers : pc'[d] = pc[d] \/ (pc[d] = "retire" /\ pc'[d] = "find"),
         UNCHANGED <<alive, past, latest, opened, target, prefetch_in_flight, opening_count,
                     port, ready, chosen, drained, slot, connects, prefetch, down>>
  PROVE  Inv'
<1>k. SessionsKept
  BY CancelKept, Zenon DEF Inv, Types
<1>0. /\ \A s \in 1..opened : sess'[s].for = sess[s].for /\ sess'[s].port = sess[s].port
      /\ \A s \in Sessions : Open(s)' => Open(s) /\ s \notin gone
  <2>1. \A s \in gone : s \in Sessions => ~Open(s)'
    BY CancelAllFacts, Zenon DEF Inv, Types, Open
  <2>. QED  BY <1>k, <2>1, KeptFacts, Zenon
<1>w. /\ entries' \in Seq(Sessions) /\ Range(entries') = Range(entries) \ gone
      /\ IsInjective(entries')
  <2>1. entries \in Seq(Sessions) /\ IsInjective(entries)
    BY Zenon DEF Inv, Types, PoolTypes, Pooled
  <2>. QED  BY <2>1, WithoutProps, Zenon
<1>s. Range(snapshot') \subseteq Range(snapshot) \cup Range(entries)
  BY <1>w, Zenon
<1>1. PoolTypes'
  BY <1>w, Zenon DEF Inv, Types, PoolTypes
<1>2. Types'
  BY <1>1, <1>k, Zenon DEF Inv, Types, WatchTypes, SessionsKept, TaskTypes
<1>3. Slots'
  BY Zenon DEF Inv, Slots, SlotSteps
<1>3b. OnePrefetch'
  BY Zenon DEF Inv, OnePrefetch
<1>h. Pooled' /\ Held'
  BY <1>w, <1>s, Zenon DEF Inv, Pooled, Held, Holders
<1>4. Owned'
  BY <1>w, <1>s, Zenon DEF Inv, Owned
<1>5. OpenedFor'
  <2>1. \A d \in Callers : /\ pc'[d] = "install" => pc[d] = "install"
                           /\ pc'[d] \in Holders => pc[d] \in Holders
    BY Zenon DEF Holders
  <2>2. \A d \in Callers : pc[d] = "install" => pc[d] \in Holders
    BY Zenon DEF Holders
  <2>. QED  BY <1>0, <2>1, <2>2, HeldSessions, Zenon DEF Inv, OpenedFor
<1>6. PoolFollowsTarget' /\ ShutdownClosesAll'
  BY <1>0, <1>w, <1>s, Zenon DEF Inv, PoolFollowsTarget, ShutdownClosesAll, Pooled
<1>7. NoSessionLost'
  <2>1. \A d \in Callers : pc[d] = "install" => pc'[d] = "install"
    BY Zenon
  <2>. QED  BY <1>0, <1>w, <2>1, Zenon DEF Inv, NoSessionLost
<1>. QED  BY <1>2, <1>3, <1>3b, <1>h, <1>4, <1>5, <1>6, <1>7, Zenon DEF Inv

\* A slot is reserved while the pool has room.
LEMMA ReserveStep ==
  ASSUME Inv, NEW c \in Callers, ReserveNewSlot(c), ~(Len(entries) + opening_count >= MaxSessions)
  PROVE  Inv'
<1> USE DEF callRest, watchVars
<1>u. UNCHANGED <<alive, past, latest, sess, opened, entries, target, prefetch_in_flight,
                  snapshot, port, ready, retry, chosen, drained, connects, prefetch, down>>
  BY Zenon DEF ReserveNewSlot
<1>a. /\ slot' = [slot EXCEPT ![c] = TRUE] /\ opening_count' = opening_count + 1
      /\ pc[c] = "reserve" /\ pc' = [pc EXCEPT ![c] = "permit"]
  BY Zenon DEF ReserveNewSlot, Goto
<1>p. /\ pc'[c] = "permit" /\ \A d \in Callers \ {c} : pc'[d] = pc[d]
      /\ slot'[c] /\ \A d \in Callers \ {c} : slot'[d] = slot[d]
  BY <1>a, Zenon DEF Inv, Types, CallTypes
<1>1. CallTypes'
  BY <1>a, <1>u, Zenon DEF Inv, Types, CallTypes, Steps
<1>2. Types'
  BY <1>1, <1>u, Zenon DEF Inv, Types, WatchTypes, SessTypes, PoolTypes, TaskTypes
<1>3. Slots'
  <2> DEFINE held == {d \in Callers : slot[d]}
  <2>1. IsFiniteSet(held)
    BY PoolAssumption, FS_Subset, Zenon
  <2>2. {d \in Callers : slot'[d]} = held \cup {c}
    BY <1>p, Zenon
  <2>3. c \notin held
    BY <1>a, Zenon DEF Inv, Slots, SlotSteps
  <2>4. Cardinality(held \cup {c}) = Cardinality(held) + 1 /\ Cardinality(held) \in Nat
    BY <2>1, <2>3, FS_AddElement, FS_CardinalityType, Zenon
  <2>5. opening_count = Cardinality(held) /\ Len(entries) \in Nat
    BY DEF Inv, Slots, Types, PoolTypes
  <2>6. \A d \in Callers : /\ pc'[d] \in {"permit", "open", "install"} => slot'[d]
                           /\ slot'[d] => pc'[d] \in SlotSteps
    BY <1>p, Zenon DEF Inv, Slots, SlotSteps
  <2> HIDE DEF held
  <2>7. opening_count' = Cardinality(held \cup {c}) /\ opening_count' <= MaxSessions
    BY <1>a, <2>4, <2>5, PoolAssumption
  <2>. QED  BY <2>2, <2>6, <2>7, Zenon DEF Slots
<1>4. OnePrefetch'
  BY <1>p, <1>u, Zenon DEF Inv, OnePrefetch
<1>h. Pooled' /\ Held'
  BY <1>a, <1>p, <1>u, Zenon DEF Inv, Pooled, Held, Holders
<1>5. Owned'
  BY <1>a, <1>p, <1>u DEF Inv, Owned
<1>6. OpenedFor'
  BY <1>p, <1>u, Zenon DEF Inv, OpenedFor, Holders
<1>7. PoolFollowsTarget' /\ ShutdownClosesAll'
  BY <1>u, Zenon DEF Inv, PoolFollowsTarget, ShutdownClosesAll, Open
<1>8. NoSessionLost'
  BY <1>a, <1>p, <1>u DEF Inv, NoSessionLost, Open
<1>. QED  BY <1>2, <1>3, <1>4, <1>h, <1>5, <1>6, <1>7, <1>8, Zenon DEF Inv

\* The session a call has opened is in its hands.
LEMMA OpenSessionStep ==
  ASSUME Inv, NEW c \in Callers, OpenSession(c)
  PROVE  Inv'
<1> USE DEF watchVars, poolVars
<1>a. /\ pc[c] = "open" /\ opened < MaxOpens /\ opened' = opened + 1
      /\ chosen' = [chosen EXCEPT ![c] = opened + 1] /\ pc' = [pc EXCEPT ![c] = "install"]
  BY Zenon DEF OpenSession, Goto
<1>q. PICK q \in Reached(ready[c]) :
             sess' = [sess EXCEPT ![opened + 1] = NewSession(ready[c], q, port[c])]
  BY Zenon DEF OpenSession
<1>u. UNCHANGED <<alive, past, latest, entries, target, prefetch_in_flight, opening_count,
                  snapshot, port, ready, retry, drained, slot, connects, prefetch, down>>
  BY Zenon DEF OpenSession
<1>n. opened + 1 \in Sessions /\ opened \in Nat /\ opened + 1 # 0 /\ opened + 1 \notin 0..opened
  BY <1>a, NextIsSession DEF Inv, Types, SessTypes
<1>i. /\ 1..opened \subseteq 1..opened + 1 /\ 0..opened \subseteq 0..opened + 1
      /\ opened + 1 \in 0..opened + 1 /\ 1..opened \subseteq 0..opened
  BY <1>n
<1> DEFINE r == NewSession(ready[c], q, port[c])
<1>r. /\ r \in Session /\ r.spare <= r.used /\ r.for = ready[c] /\ r.port = port[c]
      /\ r.state = "open" => down = "up"
  BY <1>q, PoolAssumption DEF Inv, Types, WatchTypes, CallTypes, NewSession, Session, Reached
<1>m. sess' = [sess EXCEPT ![opened + 1] = r]
  BY <1>q, Zenon
<1> HIDE DEF r
<1>k. SessionsKept
  BY <1>a, <1>r, <1>m, NewKept, Zenon DEF Inv, Types
<1>t. sess'[opened + 1] = r /\ \A s \in Sessions \ {opened + 1} : sess'[s] = sess[s]
  BY <1>m, <1>n, Zenon DEF Inv, Types, SessTypes
<1>0. 1..opened \subseteq Sessions \ {opened + 1}
  BY <1>n, <1>k, KeptFacts
<1>p. /\ pc'[c] = "install" /\ chosen'[c] = opened + 1
      /\ \A d \in Callers \ {c} : pc'[d] = pc[d] /\ chosen'[d] = chosen[d]
  BY <1>a, Zenon DEF Inv, Types, CallTypes
<1>1. CallTypes'
  BY <1>a, <1>n, <1>u, Zenon DEF Inv, Types, CallTypes, Steps
<1>2. Types'
  BY <1>1, <1>k, <1>u, Zenon DEF Inv, Types, WatchTypes, SessionsKept, PoolTypes, TaskTypes
<1>3. Slots'
  BY <1>a, <1>p, <1>u, Zenon DEF Inv, Slots, SlotSteps
<1>3b. OnePrefetch'
  <2>1. \A d \in Callers : pc'[d] = "spawn" => pc[d] = "spawn"
    BY <1>p, Zenon
  <2>. QED  BY <1>u, <2>1, Zenon DEF Inv, OnePrefetch
<1>h. Pooled' /\ Held'
  <2>1. Pooled'
    BY <1>a, <1>u, <1>i, Zenon DEF Inv, Pooled
  <2>2. ASSUME NEW d \in Callers
        PROVE  /\ chosen'[d] \in 0..opened' /\ drained'[d] \subseteq 1..opened'
               /\ drained'[d] # {} => pc'[d] = "cancel"
               /\ pc'[d] \in Holders => chosen'[d] # 0
    <3>1. CASE d = c
      <4>1. drained[c] = {}
        BY <1>a, Zenon DEF Inv, Held
      <4>. QED  BY <1>a, <1>p, <1>u, <1>n, <1>i, <3>1, <4>1, Zenon
    <3>2. CASE d # c
      BY <1>a, <1>p, <1>u, <1>i, <3>2, Zenon DEF Inv, Held
    <3>. QED  BY <3>1, <3>2, Zenon
  <2>3. /\ prefetch'.session \in 0..opened'
        /\ prefetch'.step = "install" => prefetch'.session # 0
    BY <1>a, <1>u, <1>i, Zenon DEF Inv, Held
  <2>. QED  BY <2>1, <2>2, <2>3, Zenon DEF Held
<1>4. Owned'
  <2>1. /\ opened + 1 \notin Range(entries) /\ opened + 1 # prefetch.session
        /\ \A d \in Callers : chosen[d] # opened + 1
    BY <1>n, <1>i, Zenon DEF Inv, Pooled, Held
  <2>2. ASSUME NEW d \in Callers, pc'[d] = "install"
        PROVE  chosen'[d] \notin Range(entries) /\ chosen'[d] # prefetch.session
    BY <1>p, <2>1, <2>2, Zenon DEF Inv, Owned
  <2>3. ASSUME NEW d \in Callers, NEW e \in Callers, pc'[d] = "install", pc'[e] = "install",
               chosen'[d] = chosen'[e]
        PROVE  d = e
    BY <1>p, <2>1, <2>3, Zenon DEF Inv, Owned
  <2>. QED  BY <1>u, <2>2, <2>3, Zenon DEF Inv, Owned
<1>5. OpenedFor'
  <2>1. \A d \in Callers : pc[d] \in Holders => sess'[chosen[d]] = sess[chosen[d]]
    BY <1>t, <1>0, HeldSessions, Zenon
  <2>2. prefetch.step = "install" => sess'[prefetch.session] = sess[prefetch.session]
    BY <1>t, <1>0, HeldSessions, Zenon
  <2>3. "install" \in Holders
    BY Zenon DEF Holders
  <2>4. ASSUME NEW d \in Callers
        PROVE  /\ pc'[d] = "install" => sess'[chosen'[d]].for = ready'[d]
               /\ pc'[d] \in Holders => sess'[chosen'[d]].port = port'[d]
    <3>1. CASE d = c
      BY <1>p, <1>u, <1>t, <1>r, <3>1, Zenon
    <3>2. CASE d # c
      <4>1. pc'[d] = pc[d] /\ chosen'[d] = chosen[d] /\ ready' = ready /\ port' = port
        BY <1>p, <1>u, <3>2, Zenon
      <4>2. pc[d] = "install" => sess'[chosen[d]].for = ready[d]
        BY <2>1, <2>3, Zenon DEF Inv, OpenedFor
      <4>3. pc[d] \in Holders => sess'[chosen[d]].port = port[d]
        BY <2>1, Zenon DEF Inv, OpenedFor
      <4>. QED  BY <4>1, <4>2, <4>3, Zenon
    <3>. QED  BY <3>1, <3>2, Zenon
  <2>. QED  BY <1>u, <2>2, <2>4, Zenon DEF Inv, OpenedFor
<1>6. PoolFollowsTarget'
  BY <1>u, <1>t, <1>0, Zenon DEF Inv, PoolFollowsTarget, Pooled
<1>7. ShutdownClosesAll'
  BY <1>u, <1>t, <1>r, Zenon DEF Inv, ShutdownClosesAll, Open
<1>8. NoSessionLost'
  <2>1. \A s \in Sessions : Open(s)' => s = opened + 1 \/ Open(s)
    BY <1>t, Zenon DEF Open
  <2>2. \A d \in Callers : pc[d] = "install" => pc'[d] = "install" /\ chosen'[d] = chosen[d]
    BY <1>a, <1>p, Zenon
  <2>. QED  BY <1>p, <1>u, <2>1, <2>2, ZenonT(30) DEF Inv, NoSessionLost
<1>. QED  BY <1>2, <1>3, <1>3b, <1>h, <1>4, <1>5, <1>6, <1>7, <1>8, Zenon DEF Inv

\* install_if_current for the current target: the session goes from the call to the pool.
LEMMA InstallStep ==
  ASSUME Inv, NEW c \in Callers, Install(c), target = ready[c]
  PROVE  Inv'
<1> USE DEF callRest, watchVars
<1>a. /\ pc[c] = "install" /\ pc' = [pc EXCEPT ![c] = "prefetch"]
      /\ entries' = Append(entries, chosen[c]) /\ snapshot' = entries'
  BY Zenon DEF Install, Goto
<1>u. UNCHANGED <<alive, past, latest, sess, opened, target, prefetch_in_flight, opening_count,
                  port, ready, retry, chosen, drained, slot, connects, prefetch, down>>
  BY Zenon DEF Install
<1>p. pc'[c] = "prefetch" /\ \A d \in Callers \ {c} : pc'[d] = pc[d]
  BY <1>a, Zenon DEF Inv, Types, CallTypes
<1>n. chosen[c] \in 1..opened /\ chosen[c] \in Sessions /\ chosen[c] \notin Range(entries)
  BY <1>a DEF Inv, Pooled, Held, Owned, Holders, Types, CallTypes
<1>w. /\ entries' \in Seq(Sessions) /\ Range(entries') = Range(entries) \cup {chosen[c]}
      /\ IsInjective(entries')
  <2>1. entries \in Seq(Sessions) /\ IsInjective(entries)
    BY Zenon DEF Inv, Types, PoolTypes, Pooled
  <2>2. Appended(entries, chosen[c], Sessions)
    BY <1>n, <2>1, AppendProps, Zenon
  <2>. QED  BY <1>a, <1>n, <2>1, <2>2, Zenon DEF Appended
<1>1. CallTypes'
  BY <1>a, <1>u, Zenon DEF Inv, Types, CallTypes, Steps
<1>2. PoolTypes'
  BY <1>a, <1>w, <1>u, Zenon DEF Inv, Types, PoolTypes
<1>3. Types'
  BY <1>1, <1>2, <1>u, Zenon DEF Inv, Types, WatchTypes, SessTypes, TaskTypes
<1>4. Slots'
  BY <1>p, <1>u, Zenon DEF Inv, Slots, SlotSteps
<1>4b. OnePrefetch'
  BY <1>p, <1>u, Zenon DEF Inv, OnePrefetch
<1>h. Pooled' /\ Held'
  BY <1>a, <1>p, <1>u, <1>w, <1>n, Zenon DEF Inv, Pooled, Held, Holders
<1>5. Owned'
  BY <1>a, <1>p, <1>u, <1>w, <1>n DEF Inv, Owned
<1>6. OpenedFor'
  BY <1>a, <1>p, <1>u, Zenon DEF Inv, OpenedFor, Holders
<1>7. PoolFollowsTarget' /\ ShutdownClosesAll'
  <2>1. sess[chosen[c]].for = target
    BY <1>a, Zenon DEF Inv, OpenedFor
  <2>. QED  BY <1>a, <1>w, <1>u, <2>1, Zenon DEF Inv, PoolFollowsTarget, ShutdownClosesAll, Open
<1>8. NoSessionLost'
  BY <1>a, <1>p, <1>u, <1>w DEF Inv, NoSessionLost, Open
<1>. QED  BY <1>3, <1>4, <1>4b, <1>h, <1>5, <1>6, <1>7, <1>8, Zenon DEF Inv

\* A call claims the one prefetch.
LEMMA ClaimStep ==
  ASSUME Inv, NEW c \in Callers, ClaimPrefetch(c), ~prefetch_in_flight,
         pc' = [pc EXCEPT ![c] = "spawn"], prefetch_in_flight' = TRUE,
         UNCHANGED <<slot, opening_count>>
  PROVE  Inv'
<1> USE DEF callRest, watchVars
<1>a. pc[c] = "claim"
  BY Zenon DEF ClaimPrefetch
<1>u. UNCHANGED <<alive, past, latest, sess, opened, entries, snapshot, target, opening_count,
                  port, ready, retry, chosen, drained, slot, connects, prefetch, down>>
  BY Zenon DEF ClaimPrefetch
<1>p. pc'[c] = "spawn" /\ \A d \in Callers \ {c} : pc'[d] = pc[d]
  BY Zenon DEF Inv, Types, CallTypes
<1>1. CallTypes'
  BY <1>u, Zenon DEF Inv, Types, CallTypes, Steps
<1>2. Types'
  BY <1>1, <1>u, Zenon DEF Inv, Types, WatchTypes, SessTypes, PoolTypes, TaskTypes
<1>3. Slots'
  BY <1>a, <1>p, <1>u, Zenon DEF Inv, Slots, SlotSteps
<1>4. OnePrefetch'
  BY <1>a, <1>p, <1>u, Zenon DEF Inv, OnePrefetch
<1>h. Pooled' /\ Held'
  BY <1>a, <1>p, <1>u, Zenon DEF Inv, Pooled, Held, Holders
<1>5. Owned'
  BY <1>a, <1>p, <1>u, Zenon DEF Inv, Owned
<1>6. OpenedFor'
  BY <1>a, <1>p, <1>u, Zenon DEF Inv, OpenedFor, Holders
<1>7. PoolFollowsTarget' /\ ShutdownClosesAll'
  BY <1>u, Zenon DEF Inv, PoolFollowsTarget, ShutdownClosesAll, Open
<1>8. NoSessionLost'
  BY <1>a, <1>p, <1>u DEF Inv, NoSessionLost, Open
<1>. QED  BY <1>2, <1>3, <1>4, <1>h, <1>5, <1>6, <1>7, <1>8, Zenon DEF Inv

\* The session the prefetch task has opened is in its hands.
LEMMA PrefetchOpensStep ==
  ASSUME Inv, PrefetchOpens
  PROVE  Inv'
<1> USE DEF watchVars, poolVars, taskRest, callVars
<1>a. /\ prefetch.step = "open" /\ opened < MaxOpens /\ opened' = opened + 1
      /\ prefetch' = [prefetch EXCEPT !.step = "install", !.session = opened + 1]
  BY Zenon DEF PrefetchOpens
<1>q. PICK q \in Reached(prefetch.pod) :
             sess' = [sess EXCEPT ![opened + 1] = NewSession(prefetch.pod, q, prefetch.port)]
  BY Zenon DEF PrefetchOpens
<1>u. UNCHANGED <<alive, past, latest, entries, target, prefetch_in_flight, opening_count, snapshot,
                  pc, port, ready, retry, chosen, drained, slot, connects, down>>
  BY Zenon DEF PrefetchOpens
<1>n. opened + 1 \in Sessions /\ opened \in Nat /\ opened + 1 # 0 /\ opened + 1 \notin 0..opened
  BY <1>a, NextIsSession DEF Inv, Types, SessTypes
<1> DEFINE r == NewSession(prefetch.pod, q, prefetch.port)
<1>r. /\ r \in Session /\ r.spare <= r.used /\ r.for = prefetch.pod
      /\ r.state = "open" => down = "up"
  BY <1>q, PoolAssumption DEF Inv, Types, WatchTypes, TaskTypes, Task, NewSession, Session, Reached
<1>m. sess' = [sess EXCEPT ![opened + 1] = r]
  BY <1>q, Zenon
<1> HIDE DEF r
<1>k. SessionsKept
  BY <1>a, <1>r, <1>m, NewKept, Zenon DEF Inv, Types
<1>t. sess'[opened + 1] = r /\ \A s \in Sessions \ {opened + 1} : sess'[s] = sess[s]
  BY <1>m, <1>n, Zenon DEF Inv, Types, SessTypes
<1>0. 1..opened \subseteq Sessions \ {opened + 1}
  BY <1>n, <1>k, KeptFacts
<1>p. /\ prefetch' \in Task /\ prefetch'.step = "install" /\ prefetch'.session = opened + 1
      /\ prefetch'.pod = prefetch.pod
  BY <1>a, <1>n, Zenon DEF Inv, Types, TaskTypes, Task
<1>2. Types'
  BY <1>p, <1>k, <1>u, Zenon
     DEF Inv, Types, WatchTypes, SessionsKept, PoolTypes, CallTypes, TaskTypes
<1>3. Slots' /\ OnePrefetch'
  BY <1>a, <1>p, <1>u, Zenon DEF Inv, Slots, OnePrefetch
<1>h. Pooled' /\ Held'
  BY <1>a, <1>p, <1>u, <1>n DEF Inv, Pooled, Held, Holders
<1>4. Owned'
  BY <1>a, <1>p, <1>u, <1>n DEF Inv, Pooled, Held, Owned
<1>5. OpenedFor'
  BY <1>p, <1>u, <1>t, <1>r, <1>0, HeldSessions, Zenon DEF Inv, OpenedFor, Holders
<1>6. PoolFollowsTarget'
  BY <1>u, <1>t, <1>0, Zenon DEF Inv, PoolFollowsTarget, Pooled
<1>7. ShutdownClosesAll'
  BY <1>u, <1>t, <1>r, Zenon DEF Inv, ShutdownClosesAll, Open
<1>8. NoSessionLost'
  <2>1. prefetch.session = 0
    BY <1>a, Zenon DEF Inv, OnePrefetch
  <2>2. 0 \notin Sessions
    BY NumberFacts, Zenon
  <2>. QED  BY <2>1, <2>2, <1>p, <1>u, <1>t DEF Inv, NoSessionLost, Open
<1>. QED  BY <1>2, <1>3, <1>h, <1>4, <1>5, <1>6, <1>7, <1>8, Zenon DEF Inv

\* The prefetch task installs its session.
LEMMA PrefetchInstallsStep ==
  ASSUME Inv, PrefetchInstalls, Len(entries) < MaxSessions, target = prefetch.pod
  PROVE  Inv'
<1> USE DEF taskRest, watchVars, callVars
<1>a. /\ prefetch.step = "install" /\ prefetch' = NoTask /\ prefetch_in_flight' = FALSE
      /\ entries' = Append(entries, prefetch.session) /\ snapshot' = entries'
  BY Zenon DEF PrefetchInstalls
<1>u. UNCHANGED <<alive, past, latest, sess, opened, target, opening_count, pc,
                  port, ready, retry, chosen, drained, slot, connects, down>>
  BY Zenon DEF PrefetchInstalls
<1>n. /\ prefetch.session \in 1..opened /\ prefetch.session \in Sessions
      /\ prefetch.session \notin Range(entries)
  BY <1>a DEF Inv, Pooled, Held, Owned, Types, TaskTypes, Task
<1>w. /\ entries' \in Seq(Sessions) /\ Range(entries') = Range(entries) \cup {prefetch.session}
      /\ IsInjective(entries')
  <2>1. entries \in Seq(Sessions) /\ IsInjective(entries)
    BY Zenon DEF Inv, Types, PoolTypes, Pooled
  <2>2. Appended(entries, prefetch.session, Sessions)
    BY <1>n, <2>1, AppendProps, Zenon
  <2>. QED  BY <1>a, <1>n, <2>1, <2>2, Zenon DEF Appended
<1>p. prefetch' \in Task /\ prefetch'.step = "none" /\ prefetch'.session = 0
  BY <1>a, Zenon DEF NoTask, Task
<1>2. PoolTypes'
  BY <1>a, <1>w, <1>u, Zenon DEF Inv, Types, PoolTypes
<1>3. Types'
  BY <1>p, <1>2, <1>u, Zenon DEF Inv, Types, WatchTypes, SessTypes, CallTypes, TaskTypes
<1>4. Slots' /\ OnePrefetch'
  BY <1>a, <1>p, <1>u, Zenon DEF Inv, Slots, OnePrefetch
<1>h. Pooled' /\ Held'
  <2>1. 0 \in 0..opened
    BY NumberFacts, Zenon
  <2>. QED  BY <2>1, <1>a, <1>p, <1>u, <1>w, <1>n, Zenon DEF Inv, Pooled, Held, Holders
<1>5. Owned'
  BY <1>a, <1>p, <1>u, <1>w, <1>n, Zenon DEF Inv, Held, Holders, Owned
<1>6. OpenedFor'
  BY <1>p, <1>u, Zenon DEF Inv, OpenedFor
<1>7. PoolFollowsTarget' /\ ShutdownClosesAll'
  <2>1. sess[prefetch.session].for = target
    BY <1>a, Zenon DEF Inv, OpenedFor
  <2>. QED  BY <1>a, <1>w, <1>u, <2>1, Zenon DEF Inv, PoolFollowsTarget, ShutdownClosesAll, Open
<1>8. NoSessionLost'
  BY <1>p, <1>u, <1>w, Zenon DEF Inv, NoSessionLost, Open
<1>. QED  BY <1>3, <1>4, <1>h, <1>5, <1>6, <1>7, <1>8, Zenon DEF Inv

\* The prefetch task ends without installing a session.
LEMMA TaskEndStep ==
  ASSUME Inv, SessionsKept, UNCHANGED opened, prefetch' = NoTask,
         prefetch_in_flight' \in BOOLEAN,
         \A c \in Callers : pc[c] = "spawn" => prefetch_in_flight',
         prefetch.step = "install" => sess'[prefetch.session].state # "open",
         down' \in {"up", "cancelled", "drained", "done"}, down' # "up" => down # "up",
         UNCHANGED <<alive, past, latest, entries, target, opening_count, snapshot, pc,
                  port, ready, retry, chosen, drained, slot, connects>>
  PROVE  Inv'
<1>0. /\ \A s \in 1..opened : sess'[s].for = sess[s].for /\ sess'[s].port = sess[s].port
      /\ \A s \in Sessions : Open(s)' => Open(s)
  BY KeptFacts, Zenon
<1>p. prefetch' \in Task /\ prefetch'.step = "none" /\ prefetch'.session = 0
  BY Zenon DEF NoTask, Task
<1>1. Types'
  BY <1>p, Zenon DEF Inv, Types, WatchTypes, SessionsKept, PoolTypes, CallTypes, TaskTypes
<1>2. Slots' /\ OnePrefetch'
  BY <1>p, Zenon DEF Inv, Slots, OnePrefetch
<1>h. Pooled' /\ Held'
  <2>1. 0 \in 0..opened
    BY NumberFacts, Zenon
  <2>. QED  BY <2>1, <1>p, Zenon DEF Inv, Pooled, Held, Holders
<1>3. Owned'
  BY <1>p, Zenon DEF Inv, Held, Holders, Owned
<1>4. OpenedFor'
  BY <1>0, <1>p, HeldSessions, Zenon DEF Inv, OpenedFor, Holders
<1>5. PoolFollowsTarget' /\ ShutdownClosesAll'
  BY <1>0, Zenon DEF Inv, PoolFollowsTarget, ShutdownClosesAll, Pooled
<1>6. NoSessionLost'
  <2>1. 0 \notin Sessions
    BY NumberFacts, Zenon
  <2>. QED  BY <2>1, <1>0, <1>p, Zenon DEF Inv, NoSessionLost, OnePrefetch, Open
<1>. QED  BY <1>1, <1>2, <1>h, <1>3, <1>4, <1>5, <1>6, Zenon DEF Inv

\* The pool is emptied and what it held is cancelled.
LEMMA ClearStep ==
  ASSUME Inv, target' = NoPod, sess' = CancelAll(Range(entries)), entries' = <<>>,
         snapshot' = <<>>, down' \in {"up", "cancelled", "drained", "done"},
         down' # "up" => down # "up", 
         UNCHANGED <<alive, past, latest, opened, prefetch_in_flight, opening_count,
                     pc, port, ready, retry, chosen, drained, slot, connects, prefetch>>
  PROVE  Inv'
<1>k. SessionsKept
  BY CancelKept, Zenon DEF Inv, Types
<1>0. /\ \A s \in 1..opened : sess'[s].for = sess[s].for /\ sess'[s].port = sess[s].port
      /\ \A s \in Sessions : Open(s)' => Open(s) /\ s \notin Range(entries)
  <2>1. \A s \in Range(entries) : s \in Sessions => ~Open(s)'
    BY CancelAllFacts, Zenon DEF Inv, Types, Open
  <2>. QED  BY <1>k, <2>1, KeptFacts, Zenon
<1>e. Range(entries') = {} /\ Range(snapshot') = {} /\ IsInjective(entries')
  BY EmptyPool, Zenon
<1>1. PoolTypes'
  BY EmptyPool, Zenon DEF Inv, Types, PoolTypes
<1>2. Types'
  BY <1>1, <1>k, Zenon DEF Inv, Types, WatchTypes, SessionsKept, CallTypes, TaskTypes
<1>3. Slots' /\ OnePrefetch'
  BY Zenon DEF Inv, Slots, OnePrefetch
<1>h. Pooled' /\ Held'
  BY <1>e, Zenon DEF Inv, Pooled, Held, Holders
<1>4. Owned'
  BY <1>e, Zenon DEF Inv, Owned
<1>5. OpenedFor'
  BY <1>0, HeldSessions, Zenon DEF Inv, OpenedFor, Holders
<1>6. PoolFollowsTarget' /\ ShutdownClosesAll'
  BY <1>0, <1>e, Zenon DEF Inv, PoolFollowsTarget, ShutdownClosesAll
<1>7. NoSessionLost'
  BY <1>0, Zenon DEF Inv, NoSessionLost
<1>. QED  BY <1>2, <1>3, <1>h, <1>4, <1>5, <1>6, <1>7, Zenon DEF Inv

\* session_cancel is cancelled, and with it the token of every session.
LEMMA ShutdownCancelsStep ==
  ASSUME Inv, ShutdownCancels
  PROVE  Inv'
<1> USE DEF shutRest, watchVars, poolVars, callVars
<1> DEFINE S == {s \in Sessions : Open(s) \/ sess[s].state = "dead"}
<1>a. down' = "cancelled" /\ sess' = CancelAll(S)
  BY Zenon DEF ShutdownCancels
<1>u. UNCHANGED <<alive, past, latest, opened, entries, target, prefetch_in_flight, opening_count,
                  snapshot, pc, port, ready, retry, chosen, drained, slot, connects, prefetch>>
  BY Zenon DEF ShutdownCancels
<1>k. SessionsKept
  BY <1>a, <1>u, CancelKept, Zenon DEF Inv, Types
<1>0. /\ \A s \in 1..opened : sess'[s].for = sess[s].for /\ sess'[s].port = sess[s].port
      /\ \A s \in Sessions : ~Open(s)'
  <2>1. \A s \in S : ~Open(s)'
    BY <1>a, CancelAllFacts, Zenon DEF Inv, Types, Open
  <2>. QED  BY <1>k, <1>u, <2>1, KeptFacts, Zenon
<1>1. Types'
  BY <1>a, <1>u, <1>k, Zenon
     DEF Inv, Types, WatchTypes, SessionsKept, PoolTypes, CallTypes, TaskTypes
<1>2. Slots' /\ OnePrefetch'
  BY <1>u, Zenon DEF Inv, Slots, OnePrefetch
<1>h. Pooled' /\ Held'
  BY <1>u, Zenon DEF Inv, Pooled, Held
<1>3. Owned'
  BY <1>u, Zenon DEF Inv, Owned
<1>4. OpenedFor'
  BY <1>0, <1>u, HeldSessions, Zenon DEF Inv, OpenedFor, Holders
<1>5. PoolFollowsTarget' /\ ShutdownClosesAll' /\ NoSessionLost'
  BY <1>0, <1>u, Zenon DEF Inv, PoolFollowsTarget, ShutdownClosesAll, NoSessionLost, Pooled
<1>. QED  BY <1>1, <1>2, <1>h, <1>3, <1>4, <1>5, Zenon DEF Inv


\* A forwarder that was just built satisfies the invariant.
LEMMA InitInv == Init => Inv
<1> SUFFICES ASSUME Init PROVE Inv
  BY Zenon
<1>1. Range(entries) = {} /\ Range(snapshot) = {} /\ IsInjective(entries)
  BY EmptyPool, Zenon DEF Init
<1>2. \A s \in Sessions : sess[s] = Fresh
  BY Zenon DEF Init
<1>3. Fresh \in Session /\ Fresh.spare = 0 /\ Fresh.used = 0 /\ Fresh.state = "none"
  BY PoolAssumption DEF Fresh, Session
<1>4. NoTask \in Task /\ NoTask.step = "none" /\ NoTask.session = 0
  BY Zenon DEF NoTask, Task
<1>5. SessTypes
  <2>0. 0 \in 0..MaxOpens
    BY PoolAssumption
  <2>1. opened \in 0..MaxOpens /\ sess \in [Sessions -> Session]
    BY <1>3, <2>0, Zenon DEF Init
  <2>2. \A s \in Sessions : sess[s].spare <= sess[s].used
    BY <1>2, <1>3
  <2>. QED  BY <2>1, <2>2, Zenon DEF SessTypes
<1>6. WatchTypes /\ PoolTypes
  BY EmptyPool, Zenon DEF Init, WatchTypes, PoolTypes
<1>7. CallTypes
  BY Zenon DEF Init, CallTypes, Steps
<1>8. TaskTypes
  BY <1>4, PoolAssumption DEF Init, TaskTypes
<1>9. Slots
  <2>1. {c \in Callers : slot[c]} = {}
    BY Zenon DEF Init
  <2>2. opening_count = 0 /\ Cardinality({}) = 0
    BY FS_EmptySet, Zenon DEF Init
  <2>3. \A c \in Callers : pc[c] = "idle" /\ ~slot[c]
    BY Zenon DEF Init
  <2>4. 0 <= MaxSessions
    BY PoolAssumption
  <2>. QED  BY <2>1, <2>2, <2>3, <2>4, Zenon DEF Slots
<1>10. OnePrefetch
  BY <1>4, Zenon DEF Init, OnePrefetch
<1>11. Pooled /\ Held /\ Owned
  BY <1>1, <1>4 DEF Init, Pooled, Held, Owned, Holders
<1>12. OpenedFor
  BY <1>4, Zenon DEF Init, OpenedFor, Holders
<1>13. PoolFollowsTarget /\ ShutdownClosesAll
  BY <1>1, Zenon DEF Init, PoolFollowsTarget, ShutdownClosesAll
<1>14. NoSessionLost
  BY <1>2, <1>3, Zenon DEF NoSessionLost, Open
<1>. QED  BY <1>5, <1>6, <1>7, <1>8, <1>9, <1>10, <1>11, <1>12, <1>13, <1>14, Zenon DEF Inv, Types

\* The steps of a call, one by one.
LEMMA ResolveStep == ASSUME Inv, NEW c \in Callers, Resolve(c) PROVE Inv'
<1> USE DEF callRest, watchVars, poolVars, Goto
<1>0. SessTypes /\ CallTypes /\ WatchTypes /\ TaskTypes
  BY Zenon DEF Inv, Types
<1>1. PICK p \in Pods : latest' = p /\ ready' = [ready EXCEPT ![c] = p]
  BY <1>0, Zenon DEF Resolve, WatchTypes
<1>2. WatchTypes' /\ CallTypes' /\ TaskTypes'
  BY <1>0, <1>1, Zenon DEF Resolve, WatchTypes, CallTypes, TaskTypes, Steps
<1>3. SessionsKept
  BY <1>0, SameKept, Zenon DEF Resolve
<1>4. /\ chosen'[c] \in 0..opened
      /\ \A d \in Callers \ {c} :
           chosen'[d] = chosen[d] /\ port'[d] = port[d] /\ ready'[d] = ready[d]
  BY <1>0, <1>1, Zenon DEF Resolve, CallTypes, Inv, Held
<1>5. ~slot[c]
  BY Zenon DEF Resolve, Inv, Slots, SlotSteps
<1>. QED  BY <1>2, <1>3, <1>4, <1>5, MoveStep, Zenon DEF Resolve, Steps, Holders

\* No pod is ready before the timeout: the call ends.
LEMMA ResolveFailsStep == ASSUME Inv, NEW c \in Callers, ResolveFails(c) PROVE Inv'
<1>0. SessTypes /\ CallTypes /\ WatchTypes
  BY Zenon DEF Inv, Types
<1>1. WatchTypes'
  BY <1>0, Zenon DEF ResolveFails, WatchTypes
<1>2. SessionsKept
  BY <1>0, SameKept, Zenon DEF ResolveFails
<1>3. CallTypes' /\ \A d \in Callers \ {c} : port'[d] = port[d] /\ ready'[d] = ready[d]
  BY <1>0, EndTypes, Zenon DEF ResolveFails, End, CallTypes
<1>. QED  BY <1>1, <1>2, <1>3, EndStep, Zenon DEF ResolveFails, End

\* A call that holds no slot goes on and changes nothing else.
LEMMA PlainMove ==
  ASSUME Inv, NEW c \in Callers, NEW l \in Steps \ (SlotSteps \cup Holders),
         pc[c] \notin SlotSteps \cup {"cancel"}, pc' = [pc EXCEPT ![c] = l],
         UNCHANGED <<alive, past, latest, sess, opened, poolVars, port, ready, retry, chosen,
                     drained, slot, connects, prefetch, down>>
  PROVE  Inv'
<1>0. SessTypes /\ CallTypes /\ WatchTypes /\ TaskTypes
  BY Zenon DEF Inv, Types
<1>1. WatchTypes' /\ CallTypes' /\ TaskTypes'
  BY <1>0, Zenon DEF WatchTypes, CallTypes, TaskTypes
<1>2. SessionsKept
  BY <1>0, SameKept, Zenon
<1>3. chosen'[c] \in 0..opened /\ ~slot[c]
  BY Zenon DEF Inv, Held, Slots
<1>. QED  BY <1>1, <1>2, <1>3, MoveStep, Zenon DEF SlotSteps, Holders

\* Comparing the target, and passing the gate of the pool or waiting for it, moves the call only.
LEMMA CheckGateWaitStep ==
  ASSUME Inv, NEW c \in Callers, Check(c) \/ Gate(c) \/ Wait(c)
  PROVE  Inv'
<1> USE DEF callRest, watchVars, Goto
<1>1. CASE Check(c)
  BY <1>1, PlainMove, Zenon DEF Check, Steps, SlotSteps, Holders
<1>2. CASE Gate(c)
  BY <1>2, PlainMove, Zenon DEF Gate, Steps, SlotSteps, Holders
<1>3. CASE Wait(c)
  BY <1>3, PlainMove, Zenon DEF Wait, Steps, SlotSteps, Holders
<1>. QED  BY <1>1, <1>2, <1>3, Zenon

\* The snapshot read without the lock holds sessions that have been opened.
LEMMA SnapshotOpened ==
  ASSUME Inv
  PROVE  Range(snapshot) \subseteq 1..opened /\ 1..opened \subseteq 0..opened /\ 0 \in 0..opened
<1>1. Range(snapshot) \subseteq 1..opened /\ opened \in 0..MaxOpens
  BY Zenon DEF Inv, Types, Pooled, SessTypes
<1>. QED  BY <1>1, PoolAssumption

\* A look in the snapshot (before, during or after the gate) finds a session of the port, or none.
LEMMA TryReuseStep ==
  ASSUME Inv, NEW c \in Callers, NEW at \in {"reuse", "find", "reuse again"},
         NEW miss \in {"retire", "gate", "reserve"}, TryReuse(c, at, miss)
  PROVE  Inv'
<1> USE DEF callRest, watchVars, poolVars, Goto
<1> DEFINE s == Reusable(port[c])
           l == IF s # 0 THEN "prefetch" ELSE miss
<1>0. SessTypes /\ CallTypes /\ WatchTypes /\ TaskTypes /\ PoolTypes
  BY Zenon DEF Inv, Types
<1>1. s = 0 \/ (s \in Range(snapshot) /\ s \in Sessions /\ sess[s].port = port[c])
  BY <1>0, ReusableServes, Zenon DEF PoolTypes
<1>2. /\ pc[c] = at /\ pc' = [pc EXCEPT ![c] = l] /\ chosen' = [chosen EXCEPT ![c] = s]
      /\ UNCHANGED <<alive, past, latest, sess, opened, entries, target, prefetch_in_flight,
                     opening_count, snapshot, port, ready, retry, drained, slot, connects,
                     prefetch, down>>
  BY Zenon DEF TryReuse
<1>3. s \in 0..opened /\ (s # 0 => sess[s].port = port[c]) /\ s \in Sessions \cup {0}
  <2> HIDE DEF s
  <2>. QED  BY <1>1, SnapshotOpened, Zenon
<1> HIDE DEF s
<1>4. WatchTypes' /\ CallTypes' /\ TaskTypes'
  BY <1>0, <1>2, <1>3, Zenon DEF WatchTypes, CallTypes, TaskTypes, Steps
<1>5. SessionsKept
  BY <1>0, <1>2, SameKept, Zenon
<1>6. /\ chosen'[c] = s /\ \A d \in Callers \ {c} : chosen'[d] = chosen[d]
  BY <1>0, <1>2, Zenon DEF CallTypes
<1>7. ~slot[c]
  BY <1>2, Zenon DEF Inv, Slots, SlotSteps
<1>8. l \in Steps \ {"permit", "install", "spawn"} /\ l # "open" /\ (l \in Holders => s # 0)
  BY Zenon DEF Steps, Holders
<1> HIDE DEF l
<1>. QED  BY <1>2, <1>3, <1>4, <1>5, <1>6, <1>7, <1>8, MoveStep, Zenon

\* retire_dead_sessions takes dead sessions out of the pool, and cancels them.
LEMMA RetireStep == ASSUME Inv, NEW c \in Callers, Retire(c) PROVE Inv'
<1> USE DEF callRest, watchVars, Goto
<1>1. PICK gone :
        /\ entries' = Without(entries, gone) /\ snapshot' \in {snapshot, entries'}
        /\ sess' = CancelAll(gone)
  BY Zenon DEF Retire
<1>2. /\ pc[c] = "retire" /\ pc' = [pc EXCEPT ![c] = "find"]
      /\ UNCHANGED <<alive, past, latest, opened, target, prefetch_in_flight, opening_count,
                     port, ready, retry, chosen, drained, slot, connects, prefetch, down>>
  BY Zenon DEF Retire
<1>3. CallTypes'
  BY <1>2, Zenon DEF Inv, Types, CallTypes, Steps
<1>4. \A d \in Callers : pc'[d] = pc[d] \/ (pc[d] = "retire" /\ pc'[d] = "find")
  BY <1>2, Zenon DEF Inv, Types, CallTypes
<1>. QED  BY <1>1, <1>2, <1>3, <1>4, RemoveStep, Zenon

\* A call that has no session in its hands ends.
LEMMA EndsStep ==
  ASSUME Inv, NEW c \in Callers, End(c), pc[c] \notin {"cancel", "install"},
         UNCHANGED <<callRest, sess, entries, target, prefetch_in_flight, snapshot>>
  PROVE  Inv'
<1> USE DEF callRest, watchVars
<1>0. SessTypes /\ CallTypes /\ WatchTypes
  BY Zenon DEF Inv, Types
<1>1. WatchTypes'
  BY <1>0, Zenon DEF WatchTypes
<1>2. SessionsKept
  BY <1>0, SameKept, Zenon
<1>3. CallTypes' /\ \A d \in Callers \ {c} : port'[d] = port[d] /\ ready'[d] = ready[d]
  BY <1>0, EndTypes, Zenon DEF End, CallTypes
<1>. QED  BY <1>1, <1>2, <1>3, EndStep, Zenon DEF End

\* A session that could not be installed is cancelled, so no open session leaves the call's hands.
LEMMA CancelledEndStep ==
  ASSUME Inv, NEW c \in Callers, pc[c] = "install", sess' = CancelAll({chosen[c]}),
         UNCHANGED <<callRest, entries, target, prefetch_in_flight, snapshot>>
  PROVE  SessionsKept /\ WatchTypes' /\ sess'[chosen[c]].state # "open"
<1> USE DEF callRest, watchVars
<1>0. SessTypes /\ CallTypes /\ WatchTypes
  BY Zenon DEF Inv, Types
<1>1. chosen[c] \in Sessions
  BY <1>0, Zenon DEF CallTypes, Inv, Held, Holders
<1>2. sess'[chosen[c]].state = "cancelled"
  BY <1>0, <1>1, CancelAllFacts, Zenon
<1>. QED  BY <1>0, <1>2, CancelKept, Zenon DEF WatchTypes

\* install_if_current for another target than the current one: the new session is cancelled.
LEMMA InstallFailsStep == ASSUME Inv, NEW c \in Callers, Install(c), target # ready[c] PROVE Inv'
<1>0. CallTypes
  BY Zenon DEF Inv, Types
<1>1. SessionsKept /\ WatchTypes' /\ sess'[chosen[c]].state # "open"
  BY CancelledEndStep, Zenon DEF Install
<1>2. pc[c] = "install" /\ slot[c]
  BY Zenon DEF Install, Inv, Slots
<1>3. CASE retry[c]
  <2>1. /\ pc' = [pc EXCEPT ![c] = "resolve"] /\ retry' = [retry EXCEPT ![c] = FALSE]
        /\ chosen' = [chosen EXCEPT ![c] = 0] /\ slot' = [slot EXCEPT ![c] = FALSE]
        /\ opening_count' = opening_count - 1
        /\ UNCHANGED <<port, ready, drained, entries, snapshot, target, prefetch_in_flight,
                       opened, connects, prefetch, down>>
    BY <1>3, Zenon DEF Install, Goto, callRest
  <2>2. CallTypes'
    BY <1>0, <2>1, Zenon DEF CallTypes, Steps
  <2>. QED  BY <1>1, <1>2, <2>1, <2>2, EndStep, Zenon
<1>4. CASE ~retry[c]
  <2>1. End(c) /\ UNCHANGED <<entries, snapshot, target, prefetch_in_flight, opened, connects,
                              prefetch, down>>
    BY <1>4, Zenon DEF Install, callRest
  <2>2. CallTypes' /\ \A d \in Callers \ {c} : port'[d] = port[d] /\ ready'[d] = ready[d]
    BY <1>0, <2>1, EndTypes, Zenon DEF End, CallTypes
  <2>. QED  BY <1>1, <1>2, <2>1, <2>2, EndStep, Zenon DEF End
<1>. QED  BY <1>3, <1>4, Zenon

\* A call is dropped: its guards give the slot back and cancel what it was about to install.
LEMMA DropCallStep == ASSUME Inv, NEW c \in Callers, DropCall(c) PROVE Inv'
<1>1. CASE pc[c] = "install"
  <2>1. SessionsKept /\ WatchTypes' /\ sess'[chosen[c]].state # "open"
    BY <1>1, CancelledEndStep, Zenon DEF DropCall
  <2>2. CallTypes' /\ \A d \in Callers \ {c} : port'[d] = port[d] /\ ready'[d] = ready[d]
    BY EndTypes, Zenon DEF DropCall, End, CallTypes, Inv, Types
  <2>. QED  BY <1>1, <2>1, <2>2, EndStep, Zenon DEF DropCall, End, callRest
<1>2. CASE pc[c] # "install"
  BY <1>2, EndsStep, Zenon DEF DropCall
<1>. QED  BY <1>1, <1>2, Zenon

\* Its session's spare streams run low, or not.
LEMMA SpawnReplenishStep == ASSUME Inv, NEW c \in Callers, SpawnReplenish(c) PROVE Inv'
<1> USE DEF callRest, watchVars, poolVars, Goto
<1> DEFINE s == chosen[c]
           b == sess[s].warm \/ (sess[s].spare <= LowWatermark /\ ~IsFull(s))
           r == [sess[s] EXCEPT !.warm = b]
<1>0. SessTypes /\ CallTypes /\ WatchTypes /\ TaskTypes
  BY Zenon DEF Inv, Types
<1>1. s \in Sessions /\ s \in 0..opened /\ s # 0 /\ sess[s].port = port[c]
  BY <1>0, Zenon DEF SpawnReplenish, CallTypes, Inv, Held, OpenedFor, Holders
<1>2. /\ pc[c] = "prefetch" /\ pc' = [pc EXCEPT ![c] = "threshold"]
      /\ sess' = [sess EXCEPT ![s] = r]
      /\ UNCHANGED <<alive, past, latest, opened, entries, target, prefetch_in_flight,
                     opening_count, snapshot, port, ready, retry, chosen, drained, slot,
                     connects, prefetch, down>>
  BY Zenon DEF SpawnReplenish
<1>3. sess[s] \in Session
  BY <1>0, <1>1, Zenon DEF SessTypes
<1>4. b \in BOOLEAN
  BY <1>3, Zenon DEF Session
<1>5. s = chosen[c]
  BY Zenon
<1> HIDE DEF s, b
<1>6. /\ r \in Session /\ r.spare <= r.used /\ r.for = sess[s].for /\ r.port = sess[s].port
      /\ r.state = sess[s].state
  BY <1>0, <1>1, <1>3, <1>4, Zenon DEF SessTypes, Session
<1> HIDE DEF r
<1>7. SessionsKept /\ sess'[s].port = port[c]
  BY <1>0, <1>1, <1>2, <1>6, UpdateKept, Zenon DEF SessTypes
<1>8. WatchTypes' /\ CallTypes' /\ TaskTypes'
  BY <1>0, <1>2, Zenon DEF WatchTypes, CallTypes, TaskTypes, Steps
<1>. QED  BY <1>1, <1>2, <1>5, <1>7, <1>8, MoveStep, Zenon DEF Steps, SlotSteps

\* The prefetch is due, or the call returns.
LEMMA MaybePrefetchStep == ASSUME Inv, NEW c \in Callers, MaybePrefetch(c) PROVE Inv'
<1> USE DEF callRest, watchVars, poolVars, Goto
<1>0. SessTypes /\ CallTypes /\ WatchTypes /\ TaskTypes /\ OnePrefetch
  BY Zenon DEF Inv, Types
<1>1. pc[c] = "threshold"
      /\ UNCHANGED <<alive, past, latest, sess, opened, entries, target, prefetch_in_flight,
                     snapshot, port, ready, retry, chosen, drained, connects, prefetch, down>>
  BY Zenon DEF MaybePrefetch
<1>2. CASE pc' = [pc EXCEPT ![c] = "claim"] /\ UNCHANGED <<slot, opening_count>>
  <2>1. WatchTypes' /\ CallTypes' /\ TaskTypes'
    BY <1>0, <1>1, <1>2, Zenon DEF WatchTypes, CallTypes, TaskTypes, Steps
  <2>2. SessionsKept
    BY <1>0, <1>1, SameKept, Zenon
  <2>3. chosen[c] \in 0..opened /\ chosen[c] # 0 /\ sess[chosen[c]].port = port[c]
    BY <1>1, Zenon DEF Inv, Held, OpenedFor, Holders
  <2>. QED  BY <1>1, <1>2, <2>1, <2>2, <2>3, MoveStep, Zenon DEF Steps, SlotSteps
<1>3. CASE Return(c)
  <2>1. TaskTypes' /\ OnePrefetch'
    <3>1. pc'[c] = "stream" /\ \A d \in Callers \ {c} : pc'[d] = pc[d]
      BY <1>0, <1>3, Zenon DEF Return, CallTypes
    <3>. QED  BY <1>0, <1>1, <3>1, Zenon DEF TaskTypes, OnePrefetch
  <2>. QED  BY <1>1, <1>3, <2>1, ReturnStep, Zenon
<1>. QED  BY <1>2, <1>3, Zenon DEF MaybePrefetch

\* A call claims the prefetch, or returns because it is taken, the pool is full or the target moved.
LEMMA ClaimPrefetchStep == ASSUME Inv, NEW c \in Callers, ClaimPrefetch(c) PROVE Inv'
<1> USE DEF callRest, watchVars, Goto
<1>0. CallTypes /\ TaskTypes /\ OnePrefetch
  BY Zenon DEF Inv, Types
<1>1. CASE prefetch_in_flight \/ Len(entries) >= MaxSessions \/ target # ready[c]
  <2>1. pc[c] = "claim" /\ Return(c)
        /\ UNCHANGED <<alive, past, latest, sess, opened, entries, target, prefetch_in_flight,
                       snapshot, port, ready, retry, chosen, drained, connects, prefetch, down>>
    BY <1>1, Zenon DEF ClaimPrefetch
  <2>2. TaskTypes' /\ OnePrefetch'
    <3>1. pc'[c] = "stream" /\ \A d \in Callers \ {c} : pc'[d] = pc[d]
      BY <1>0, <2>1, Zenon DEF Return, CallTypes
    <3>. QED  BY <1>0, <2>1, <3>1, Zenon DEF TaskTypes, OnePrefetch
  <2>. QED  BY <2>1, <2>2, ReturnStep, Zenon
<1>2. CASE ~(prefetch_in_flight \/ Len(entries) >= MaxSessions \/ target # ready[c])
  BY <1>2, ClaimStep, Zenon DEF ClaimPrefetch
<1>. QED  BY <1>1, <1>2, Zenon

\* The task is spawned with the claim of the call, which returns.
LEMMA SpawnPrefetchStep == ASSUME Inv, NEW c \in Callers, SpawnPrefetch(c) PROVE Inv'
<1>0. CallTypes /\ TaskTypes /\ OnePrefetch
  BY Zenon DEF Inv, Types
<1>1. pc[c] = "spawn" /\ Return(c)
      /\ prefetch' = [step |-> "open", pod |-> ready[c], port |-> port[c], session |-> 0]
      /\ UNCHANGED <<alive, past, latest, sess, opened, entries, target, prefetch_in_flight,
                     snapshot, port, ready, retry, chosen, drained, connects, down>>
  BY Zenon DEF SpawnPrefetch, watchVars
<1>2. prefetch' \in Task /\ prefetch'.step = "open" /\ prefetch'.session = 0
  BY <1>0, <1>1, Zenon DEF Task, CallTypes
<1>3. prefetch.step = "none" /\ prefetch.session = 0 /\ prefetch_in_flight
  BY <1>0, <1>1, Zenon DEF OnePrefetch
<1>4. pc'[c] = "stream" /\ \A d \in Callers \ {c} : pc'[d] = pc[d]
  BY <1>0, <1>1, Zenon DEF Return, Goto, CallTypes
<1>5. TaskTypes' /\ OnePrefetch'
  BY <1>0, <1>1, <1>2, <1>3, <1>4, Zenon DEF TaskTypes, OnePrefetch
<1>. QED  BY <1>1, <1>2, <1>3, <1>5, ReturnStep, Zenon

\* A call starts, with nothing in its hands.
LEMMA ConnectStep ==
  ASSUME Inv, NEW c \in Callers, NEW prt \in Ports, Connect(c, prt)
  PROVE  Inv'
<1> USE DEF watchVars, poolVars, Goto
<1>0. SessTypes /\ CallTypes /\ WatchTypes /\ TaskTypes
  BY Zenon DEF Inv, Types
<1>1. /\ pc[c] = "idle" /\ pc' = [pc EXCEPT ![c] = "resolve"] /\ connects < MaxConnects
      /\ connects' = connects + 1
      /\ port' = [port EXCEPT ![c] = prt] /\ retry' = [retry EXCEPT ![c] = TRUE]
      /\ UNCHANGED <<alive, past, latest, sess, opened, entries, target, prefetch_in_flight,
                     opening_count, snapshot, ready, chosen, drained, slot, prefetch, down>>
  BY Zenon DEF Connect
<1>2. WatchTypes' /\ CallTypes'
  BY <1>0, <1>1, Zenon DEF WatchTypes, CallTypes, Steps
<1>3. TaskTypes'
  <2>1. connects \in 0..MaxConnects /\ connects < MaxConnects /\ connects' = connects + 1
    BY <1>0, <1>1, Zenon DEF TaskTypes
  <2>2. connects' \in 0..MaxConnects
    BY <2>1, PoolAssumption
  <2>. QED  BY <1>0, <1>1, <2>2, Zenon DEF TaskTypes
<1>4. SessionsKept
  BY <1>0, <1>1, SameKept, Zenon
<1>5. chosen[c] \in 0..opened /\ ~slot[c]
  BY <1>1, Zenon DEF Inv, Held, Slots, SlotSteps
<1>6. \A d \in Callers \ {c} : port'[d] = port[d]
  BY <1>0, <1>1, Zenon DEF CallTypes
<1>. QED  BY <1>1, <1>2, <1>3, <1>4, <1>5, <1>6, MoveStep, Zenon DEF Steps, Holders

\* A stream is opened on the session chosen, or the call starts again or ends.
LEMMA OpenStreamStep == ASSUME Inv, NEW c \in Callers, OpenStream(c) PROVE Inv'
<1> DEFINE s == chosen[c]
<1>0. SessTypes /\ CallTypes /\ WatchTypes
  BY Zenon DEF Inv, Types
<1>a. \A t \in Sessions : sess[t] \in Session
  BY <1>0, Zenon DEF SessTypes
<1>1. s \in Sessions
  BY <1>0, Zenon DEF OpenStream, CallTypes, Inv, Held, Holders
<1>2. pc[c] = "stream" /\ End(c)
      /\ UNCHANGED <<alive, past, latest, opened, entries, target, prefetch_in_flight,
                     snapshot, connects, prefetch, down>>
  BY Zenon DEF OpenStream, callRest, watchVars
<1>3. SessionsKept
  <2>1. PICK stale \in 0..sess[s].spare :
          \/ /\ Open(s) /\ stale < sess[s].spare
             /\ sess' = [sess EXCEPT ![s].used = @ - stale, ![s].spare = @ - stale - 1]
          \/ /\ stale = sess[s].spare
             /\ sess' = [sess EXCEPT
                  ![s].used = IF Open(s) /\ @ - stale < OperatingMax THEN @ - stale + 1
                              ELSE @ - stale,
                  ![s].spare = 0]
    BY Zenon DEF OpenStream
  <2>2. PICK u, v : /\ u \in 0..OperatingMax /\ v \in 0..u
                    /\ sess' = [sess EXCEPT ![s] = WithCounts(sess[s], u, v)]
    <3>n. /\ sess[s].used \in 0..OperatingMax /\ sess[s].spare \in 0..sess[s].used
          /\ OperatingMax \in Nat
      BY <1>0, <1>1, <1>a, PoolAssumption DEF SessTypes, Session
    <3>1. CASE stale < sess[s].spare
               /\ sess' = [sess EXCEPT ![s].used = @ - stale, ![s].spare = @ - stale - 1]
      <4> DEFINE u == sess[s].used - stale
                 v == sess[s].spare - stale - 1
      <4>1. u \in 0..OperatingMax /\ v \in 0..u
        BY <3>1, <3>n
      <4>2. sess' = [sess EXCEPT ![s] = WithCounts(sess[s], u, v)]
        BY <3>1, Zenon DEF WithCounts
      <4> HIDE DEF u, v
      <4>. QED  BY <4>1, <4>2, Zenon
    <3>2. CASE stale = sess[s].spare
               /\ sess' = [sess EXCEPT
                    ![s].used = IF Open(s) /\ @ - stale < OperatingMax THEN @ - stale + 1
                                ELSE @ - stale,
                    ![s].spare = 0]
      <4> DEFINE u == IF Open(s) /\ sess[s].used - stale < OperatingMax
                      THEN sess[s].used - stale + 1 ELSE sess[s].used - stale
      <4>1. u \in 0..OperatingMax /\ 0 \in 0..u
        BY <3>2, <3>n
      <4>2. sess' = [sess EXCEPT ![s] = WithCounts(sess[s], u, 0)]
        BY <3>2, Zenon DEF WithCounts
      <4> HIDE DEF u
      <4>. QED  BY <4>1, <4>2, Zenon
    <3>. QED  BY <2>1, <3>1, <3>2, Zenon
  <2> DEFINE r == WithCounts(sess[s], u, v)
  <2>3. r \in Session /\ r.spare <= r.used /\ r.for = sess[s].for /\ r.port = sess[s].port
        /\ r.state = sess[s].state
    BY <1>1, <1>a, <2>2, CountsUpdated, Zenon
  <2>4. sess' = [sess EXCEPT ![s] = r]
    BY <2>2, Zenon
  <2> HIDE DEF r
  <2>. QED  BY <1>0, <1>1, <1>2, <2>3, <2>4, UpdateKept, Zenon
<1>4. WatchTypes'
  BY <1>0, <1>2, Zenon DEF WatchTypes
<1>5. CallTypes' /\ \A d \in Callers \ {c} : port'[d] = port[d] /\ ready'[d] = ready[d]
  BY <1>0, <1>2, EndTypes, Zenon DEF End, CallTypes
<1>. QED  BY <1>2, <1>3, <1>4, <1>5, EndStep, Zenon DEF End

\* What happens to a session by itself: its connection breaks, its spare streams are topped
\* up, a stream of it is dropped.
LEMMA SessionStep ==
  ASSUME Inv, NEW s \in Sessions, SessionDies(s) \/ Replenish(s) \/ StreamDropped(s)
  PROVE  Inv'
<1>0. SessTypes /\ WatchTypes /\ sess[s] \in Session
  BY Zenon DEF Inv, Types, SessTypes
<1>1. /\ UNCHANGED <<alive, past, latest, opened>>
      /\ UNCHANGED <<poolVars, callVars, connects, prefetch, down>>
  BY Zenon DEF SessionDies, Replenish, StreamDropped, watchVars
<1>2. CASE SessionDies(s)
  <2> DEFINE r == [sess[s] EXCEPT !.state = "dead"]
  <2>1. r \in Session /\ r.spare <= r.used /\ r.for = sess[s].for /\ r.port = sess[s].port
        /\ r.state # "open"
    BY <1>0, Zenon DEF SessTypes, Session
  <2>2. sess' = [sess EXCEPT ![s] = r]
    BY <1>2, Zenon DEF SessionDies
  <2> HIDE DEF r
  <2>3. SessionsKept
    BY <1>0, <1>1, <2>1, <2>2, UpdateKept, Zenon
  <2>. QED  BY <1>0, <1>1, <2>3, QuietStep, Zenon DEF WatchTypes
<1>3. CASE StreamDropped(s)
  <2> DEFINE r == [sess[s] EXCEPT !.used = @ - 1]
  <2>1. r \in Session /\ r.spare <= r.used /\ r.for = sess[s].for /\ r.port = sess[s].port
        /\ r.state = sess[s].state
    BY <1>0, <1>3, PoolAssumption DEF SessTypes, Session, StreamDropped
  <2>2. sess' = [sess EXCEPT ![s] = r]
    BY <1>3, Zenon DEF StreamDropped
  <2> HIDE DEF r
  <2>3. SessionsKept
    BY <1>0, <1>1, <2>1, <2>2, UpdateKept, Zenon
  <2>. QED  BY <1>0, <1>1, <2>3, QuietStep, Zenon DEF WatchTypes
<1>4. CASE Replenish(s) /\ sess[s].spare < SpareCap /\ ~IsFull(s) /\ Remaining(s) > 0
  <2> DEFINE u == sess[s].used + 1
             v == sess[s].spare + 1
             r == WithCounts(sess[s], u, v)
  <2>1. u \in 0..OperatingMax /\ v \in 0..u
    BY <1>4, <1>0, PoolAssumption DEF SessTypes, Session, Remaining
  <2>2. sess' = [sess EXCEPT ![s] = r]
    BY <1>4, Zenon DEF Replenish, WithCounts
  <2>3. r \in Session /\ r.spare <= r.used /\ r.for = sess[s].for /\ r.port = sess[s].port
        /\ r.state = sess[s].state
    BY <1>0, <2>1, CountsUpdated, Zenon
  <2> HIDE DEF r
  <2>4. SessionsKept
    BY <1>0, <1>1, <2>2, <2>3, UpdateKept, Zenon
  <2>. QED  BY <1>0, <1>1, <2>4, QuietStep, Zenon DEF WatchTypes
<1>5. CASE Replenish(s) /\ ~(sess[s].spare < SpareCap /\ ~IsFull(s) /\ Remaining(s) > 0)
  <2> DEFINE r == [sess[s] EXCEPT !.warm = FALSE]
  <2>1. r \in Session /\ r.spare <= r.used /\ r.for = sess[s].for /\ r.port = sess[s].port
        /\ r.state = sess[s].state
    BY <1>0, Zenon DEF SessTypes, Session
  <2>2. sess' = [sess EXCEPT ![s] = r]
    BY <1>5, Zenon DEF Replenish
  <2> HIDE DEF r
  <2>3. SessionsKept
    BY <1>0, <1>1, <2>1, <2>2, UpdateKept, Zenon
  <2>. QED  BY <1>0, <1>1, <2>3, QuietStep, Zenon DEF WatchTypes
<1>. QED  BY <1>2, <1>3, <1>4, <1>5, Zenon

\* Pods become ready and are deleted.
LEMMA PodStep ==
  ASSUME Inv, NEW p \in Pods, PodReady(p) \/ PodDeleted(p)
  PROVE  Inv'
<1>1. SessTypes /\ WatchTypes /\ UNCHANGED watchRest
  BY Zenon DEF Inv, Types, PodReady, PodDeleted
<1>2. WatchTypes'
  BY <1>1, Zenon DEF WatchTypes, PodReady, PodDeleted
<1>3. SessionsKept
  BY <1>1, SameKept, Zenon DEF watchRest
<1>. QED  BY <1>1, <1>2, <1>3, QuietStep, Zenon DEF watchRest

\* The reactor empties the pool when the pod it was for is gone, or does nothing.
LEMMA HandlePodDiedStep == ASSUME Inv, HandlePodDied PROVE Inv'
<1>1. SessTypes /\ WatchTypes /\ TaskTypes
  BY Zenon DEF Inv, Types
<1>2. UNCHANGED <<alive, past, latest, opened, prefetch_in_flight, opening_count, pc, port,
                  ready, retry, chosen, drained, slot, connects, prefetch, down>>
  BY Zenon DEF HandlePodDied, callVars
<1>3. CASE target # NoPod /\ NameOf[target] = Head(died) /\ target \notin alive
  <2>1. target' = NoPod /\ sess' = CancelAll(Range(entries)) /\ entries' = <<>> /\ snapshot' = <<>>
    BY <1>3, Zenon DEF HandlePodDied
  <2>2. down' \in {"up", "cancelled", "drained", "done"}
    BY <1>1, <1>2, Zenon DEF TaskTypes
  <2>. QED  BY <1>2, <2>1, <2>2, ClearStep, Zenon
<1>4. CASE ~(target # NoPod /\ NameOf[target] = Head(died) /\ target \notin alive)
  <2>1. UNCHANGED <<target, sess, entries, snapshot>>
    BY <1>4, Zenon DEF HandlePodDied
  <2>2. SessionsKept /\ WatchTypes'
    BY <1>1, <1>2, <2>1, SameKept, Zenon DEF WatchTypes
  <2>. QED  BY <1>2, <2>1, <2>2, QuietStep, Zenon DEF poolVars, callVars
<1>. QED  BY <1>3, <1>4, Zenon

\* The prefetch task ends without a session in the pool: its open failed, or what it opened
\* is refused and cancelled.
LEMMA PrefetchEndsStep ==
  ASSUME Inv, \/ PrefetchFails
              \/ PrefetchInstalls /\ ~(Len(entries) < MaxSessions /\ target = prefetch.pod)
  PROVE  Inv'
<1>1. SessTypes /\ TaskTypes /\ OnePrefetch
  BY Zenon DEF Inv, Types
<1>2. /\ UNCHANGED <<alive, past, latest, opened, entries, target, opening_count, snapshot, pc,
                     port, ready, retry, chosen, drained, slot, connects, down>>
      /\ prefetch' = NoTask /\ prefetch_in_flight' = FALSE
  BY Zenon DEF PrefetchFails, PrefetchInstalls, taskRest, watchVars, callVars
<1>3. prefetch.step # "none"
  BY Zenon DEF PrefetchFails, PrefetchInstalls
<1>4. \A c \in Callers : pc[c] # "spawn"
  BY <1>1, <1>3, Zenon DEF OnePrefetch
<1>5. down' \in {"up", "cancelled", "drained", "done"} /\ (down' # "up" => down # "up")
      /\ prefetch_in_flight' \in BOOLEAN
  BY <1>1, <1>2, Zenon DEF TaskTypes
<1>6. CASE PrefetchFails
  <2>1. UNCHANGED sess /\ prefetch.step # "install"
    BY <1>6, Zenon DEF PrefetchFails
  <2>2. SessionsKept
    BY <1>1, <1>2, <2>1, SameKept, Zenon
  <2>. QED  BY <1>2, <1>4, <1>5, <2>1, <2>2, TaskEndStep, Zenon
<1>7. CASE PrefetchInstalls /\ ~(Len(entries) < MaxSessions /\ target = prefetch.pod)
  <2>1. sess' = CancelAll({prefetch.session}) /\ prefetch.step = "install"
    BY <1>7, Zenon DEF PrefetchInstalls
  <2>2. prefetch.session \in Sessions
    BY <1>1, <2>1, Zenon DEF TaskTypes, Task, Inv, Held
  <2>3. SessionsKept
    BY <1>1, <1>2, <2>1, CancelKept, Zenon
  <2>4. sess'[prefetch.session].state # "open"
    BY <1>1, <2>1, <2>2, CancelAllFacts, Zenon
  <2>. QED  BY <1>2, <1>4, <1>5, <2>3, <2>4, TaskEndStep, Zenon
<1>. QED  BY <1>6, <1>7, Zenon

\* prune_once takes sessions out of the pool and cancels them.
LEMMA PruneOnceStep == ASSUME Inv, PruneOnce PROVE Inv'
<1>1. PICK gone : /\ entries' = Without(entries, gone) /\ snapshot' = entries'
                  /\ sess' = CancelAll(gone)
  BY Zenon DEF PruneOnce
<1>2. UNCHANGED <<alive, past, latest, opened, target, prefetch_in_flight, opening_count, pc,
                  port, ready, retry, chosen, drained, slot, connects, prefetch, down>>
  BY Zenon DEF PruneOnce, taskRest, watchVars, callVars
<1>3. CallTypes'
  BY <1>2, Zenon DEF Inv, Types, CallTypes
<1>. QED  BY <1>1, <1>2, <1>3, RemoveStep, Zenon

\* The second and the third part of shutdown.
LEMMA ShutdownDrainsStep == ASSUME Inv, ShutdownDrains PROVE Inv'
<1>1. /\ target' = NoPod /\ sess' = CancelAll(Range(entries)) /\ entries' = <<>>
      /\ snapshot' = <<>> /\ down' = "drained" /\ down # "up"
      /\ UNCHANGED <<alive, past, latest, opened, prefetch_in_flight, opening_count, pc, port,
                     ready, retry, chosen, drained, slot, connects, prefetch>>
  BY Zenon DEF ShutdownDrains, shutRest, watchVars, callVars
<1>. QED  BY <1>1, ClearStep, Zenon

\* shutdown aborts the prefetch task; a session in its hands is cancelled.
LEMMA ShutdownAbortsStep == ASSUME Inv, ShutdownAborts PROVE Inv'
<1>0. SessTypes /\ TaskTypes /\ PoolTypes /\ OnePrefetch
  BY Zenon DEF Inv, Types
<1> DEFINE S == IF prefetch.step = "install" THEN {prefetch.session} ELSE {}
           new == CancelAll(S)
<1>1. /\ new \in [Sessions -> Session]
      /\ \A s \in Sessions :
            /\ new[s].state = IF s \in S THEN "cancelled" ELSE sess[s].state
            /\ new[s].for = sess[s].for /\ new[s].port = sess[s].port
            /\ new[s].used = sess[s].used /\ new[s].spare = sess[s].spare
  BY <1>0, CancelAllFacts
<1>2. /\ sess' = [s \in Sessions |-> [new[s] EXCEPT !.warm = FALSE]]
      /\ prefetch' = NoTask /\ down = "drained" /\ down' = "done"
      /\ UNCHANGED <<alive, past, latest, opened, entries, target, prefetch_in_flight,
                     opening_count, snapshot, pc, port, ready, retry, chosen, drained, slot,
                     connects>>
  BY Zenon DEF ShutdownAborts, shutRest, watchVars, callVars, poolVars
<1>3. prefetch.step = "install" => prefetch.session \in S /\ prefetch.session \in Sessions
  BY <1>0, Zenon DEF TaskTypes, Task, Inv, Held
<1>4. prefetch_in_flight' \in BOOLEAN /\ \A c \in Callers : pc[c] = "spawn" => prefetch_in_flight'
  BY <1>0, <1>2, Zenon DEF PoolTypes, OnePrefetch
<1> HIDE DEF S, new
<1>5. ASSUME NEW s \in Sessions
      PROVE  /\ sess'[s] \in Session /\ sess'[s].spare <= sess'[s].used
             /\ sess'[s].for = sess[s].for /\ sess'[s].port = sess[s].port
             /\ sess'[s].state = new[s].state
  <2> DEFINE r == [new[s] EXCEPT !.warm = FALSE]
  <2>1. sess'[s] = r
    BY <1>2, Zenon
  <2>2. /\ r \in Session /\ r.state = new[s].state /\ r.for = new[s].for
        /\ r.port = new[s].port /\ r.used = new[s].used /\ r.spare = new[s].spare
    BY <1>1, Zenon DEF Session
  <2> HIDE DEF r
  <2>. QED  BY <1>0, <1>1, <2>1, <2>2, Zenon DEF SessTypes
<1>6. SessTypes'
  <2>1. sess' \in [Sessions -> Session]
    BY <1>2, <1>5, Zenon
  <2>. QED  BY <1>0, <1>2, <1>5, <2>1, Zenon DEF SessTypes
<1>7. SessionsKept
  <2>1. \A s \in Sessions : sess'[s].state = "open" => sess[s].state = "open"
    BY <1>1, <1>5, Zenon
  <2>2. 1..opened \subseteq Sessions /\ opened <= opened'
    BY <1>0, <1>2, PoolAssumption DEF SessTypes, Sessions
  <2>. QED  BY <1>5, <1>6, <2>1, <2>2, Zenon DEF SessionsKept
<1>8. prefetch.step = "install" => sess'[prefetch.session].state # "open"
  BY <1>1, <1>3, <1>5, Zenon
<1>. QED  BY <1>2, <1>4, <1>7, <1>8, TaskEndStep, Zenon

\* A call that has its permit keeps its slot; one that has waited too long gives it back.
LEMMA AcquirePermitStep == ASSUME Inv, NEW c \in Callers, AcquirePermit(c) PROVE Inv'
<1> USE DEF callRest, watchVars, Goto
<1>0. SessTypes /\ CallTypes /\ WatchTypes /\ TaskTypes
  BY Zenon DEF Inv, Types
<1>1. CASE End(c)
  <2>1. /\ pc[c] \notin {"cancel", "install"}
        /\ UNCHANGED <<callRest, sess, entries, target, prefetch_in_flight, snapshot>>
    BY Zenon DEF AcquirePermit
  <2>. QED  BY <1>1, <2>1, EndsStep, Zenon
<1>2. CASE ~End(c)
  <2>1. /\ pc[c] = "permit" /\ pc' = [pc EXCEPT ![c] = "open"]
        /\ UNCHANGED <<alive, past, latest, sess, opened, poolVars, port, ready, retry, chosen,
                       drained, slot, connects, prefetch, down>>
    BY <1>2, Zenon DEF AcquirePermit, poolVars
  <2>2. WatchTypes' /\ CallTypes' /\ TaskTypes'
    BY <1>0, <2>1, Zenon DEF WatchTypes, CallTypes, TaskTypes, Steps
  <2>3. SessionsKept
    BY <1>0, <2>1, SameKept, Zenon
  <2>4. chosen'[c] \in 0..opened /\ slot[c]
    BY <2>1, Zenon DEF Inv, Held, Slots
  <2>. QED  BY <2>1, <2>2, <2>3, <2>4, MoveStep, Zenon DEF Steps, SlotSteps, Holders
<1>. QED  BY <1>1, <1>2, Zenon

\* Every step of a call keeps the invariant.
LEMMA CallStep == ASSUME Inv, NEW c \in Callers, Step(c) PROVE Inv'
<1>1. CASE Drain(c) /\ target = ready[c]
  <2>1. /\ pc[c] = "drain" /\ pc' = [pc EXCEPT ![c] = "cancel"]
        /\ UNCHANGED <<alive, past, latest, sess, opened, poolVars, port, ready, retry, chosen,
                       drained, slot, connects, prefetch, down>>
    BY <1>1, Zenon DEF Drain, Goto, callRest, watchVars, poolVars
  <2>. QED  BY <2>1, PlainMove, Zenon DEF Steps, SlotSteps, Holders
<1>2. CASE ReserveNewSlot(c) /\ Len(entries) + opening_count >= MaxSessions
  <2>1. /\ pc[c] = "reserve" /\ End(c)
        /\ UNCHANGED <<callRest, sess, entries, target, prefetch_in_flight, snapshot>>
    BY <1>2, Zenon DEF ReserveNewSlot
  <2>2. pc[c] \notin {"cancel", "install"}
    BY <2>1, Zenon
  <2>. QED  BY <2>1, <2>2, EndsStep, Zenon
<1>3. CASE OpenFails(c)
  <2>1. /\ pc[c] = "open" /\ End(c)
        /\ UNCHANGED <<callRest, sess, entries, target, prefetch_in_flight, snapshot>>
    BY <1>3, Zenon DEF OpenFails
  <2>2. pc[c] \notin {"cancel", "install"}
    BY <2>1, Zenon
  <2>. QED  BY <2>1, <2>2, EndsStep, Zenon
<1>4. CASE \/ TryReuse(c, "reuse", "retire") \/ TryReuse(c, "find", "gate")
           \/ TryReuse(c, "reuse again", "reserve")
  BY <1>4, TryReuseStep, Zenon
<1>5. CASE Resolve(c) \/ ResolveFails(c)
  BY <1>5, ResolveStep, ResolveFailsStep, Zenon
<1>6. CASE Check(c) \/ Gate(c) \/ Wait(c)
  BY <1>6, CheckGateWaitStep, Zenon
<1>7. CASE Drain(c) /\ target # ready[c]
  BY <1>7, DrainStep, Zenon
<1>8. CASE CancelDrained(c) \/ Retire(c)
  BY <1>8, CancelDrainedStep, RetireStep, Zenon
<1>9. CASE ReserveNewSlot(c) /\ ~(Len(entries) + opening_count >= MaxSessions)
  BY <1>9, ReserveStep, Zenon
<1>10. CASE AcquirePermit(c) \/ OpenSession(c) \/ Install(c)
  BY <1>10, AcquirePermitStep, OpenSessionStep, InstallStep, InstallFailsStep, Zenon
<1>11. CASE \/ SpawnReplenish(c) \/ MaybePrefetch(c) \/ ClaimPrefetch(c) \/ SpawnPrefetch(c)
            \/ OpenStream(c)
  BY <1>11, SpawnReplenishStep, MaybePrefetchStep, ClaimPrefetchStep, SpawnPrefetchStep,
     OpenStreamStep, Zenon
<1>. QED
  BY <1>1, <1>2, <1>3, <1>4, <1>5, <1>6, <1>7, <1>8, <1>9, <1>10, <1>11, Zenon
     DEF Step, Proceed

\* Every step keeps it.
LEMMA NextInv == Inv /\ [Next]_vars => Inv'
<1> SUFFICES ASSUME Inv, [Next]_vars PROVE Inv'
  BY Zenon
<1>1. ASSUME NEW c \in Callers, Step(c) \/ DropCall(c) \/ \E prt \in Ports : Connect(c, prt)
      PROVE  Inv'
  BY <1>1, CallStep, DropCallStep, ConnectStep, Zenon
<1>2. ASSUME NEW p \in Pods, PodReady(p) \/ PodDeleted(p)  PROVE Inv'
  BY <1>2, PodStep, Zenon
<1>3. ASSUME NEW s \in Sessions, SessionDies(s) \/ Replenish(s) \/ StreamDropped(s)  PROVE Inv'
  BY <1>3, SessionStep, Zenon
<1>4. CASE HandlePodDied \/ PruneOnce
  BY <1>4, HandlePodDiedStep, PruneOnceStep, Zenon
<1>5. CASE PrefetchOpens \/ PrefetchFails \/ PrefetchInstalls
  BY <1>5, PrefetchOpensStep, PrefetchEndsStep, PrefetchInstallsStep, Zenon
<1>6. CASE ShutdownCancels \/ ShutdownDrains \/ ShutdownAborts
  BY <1>6, ShutdownCancelsStep, ShutdownDrainsStep, ShutdownAbortsStep, Zenon
<1>7. CASE UNCHANGED vars
  <2>1. SessTypes /\ WatchTypes
    BY Zenon DEF Inv, Types
  <2>2. /\ UNCHANGED <<alive, past, latest, sess, opened>>
        /\ UNCHANGED <<poolVars, callVars, connects, prefetch, down>>
    BY <1>7, Zenon DEF vars, watchVars
  <2>3. SessionsKept /\ WatchTypes'
    BY <2>1, <2>2, SameKept, Zenon DEF WatchTypes
  <2>. QED  BY <2>2, <2>3, QuietStep, Zenon
<1>. QED  BY <1>1, <1>2, <1>3, <1>4, <1>5, <1>6, <1>7, Zenon DEF Next

(***************************************************************************)
(* The theorems.                                                           *)
(***************************************************************************)

\* The invariant holds in every state of every behaviour, however many callers, pods, ports
\* and sessions there are.
THEOREM PoolInvariant == Spec => []Inv
BY InitInv, NextInv, PTL DEF Spec

\* pool.rs:65-68: opening_count counts the calls that hold a slot, is no more than
\* max_sessions, and is given back on every way out of an open; and types are kept.
THEOREM SlotsAreHeld == Spec => []SlotsHeld
<1>1. Inv => SlotsHeld
  <2> SUFFICES ASSUME Inv PROVE SlotsHeld
    BY Zenon
  <2> DEFINE H == {c \in Callers : slot[c]}
  <2>1. IsFiniteSet(H) /\ Cardinality(H) <= Cardinality(Callers) /\ Cardinality(H) \in Nat
        /\ Cardinality(Callers) \in Nat
    <3>1. H \subseteq Callers
      BY Zenon
    <3>. QED  BY <3>1, PoolAssumption, FS_Subset, FS_CardinalityType, Zenon
  <2>2. /\ opening_count = Cardinality(H) /\ opening_count <= MaxSessions
    BY Zenon DEF Inv, Slots
  <2>3. opening_count \in 0..Cardinality(Callers)
    BY <2>1, <2>2
  <2>4. \A s \in Sessions : sess[s].used \in 0..OperatingMax /\ sess[s].spare \in 0..sess[s].used
    BY PoolAssumption DEF Inv, Types, SessTypes, Session
  <2>5. chosen \in [Callers -> 0..opened]
    BY Zenon DEF Inv, Types, CallTypes, Held
  <2>6. TypeOK
    BY <2>3, <2>4, <2>5, Zenon DEF Inv, Types, WatchTypes, SessTypes, PoolTypes, CallTypes,
       TaskTypes, Pooled, Held, TypeOK
  <2>. QED  BY <2>2, <2>6, Zenon DEF SlotsHeld
<1>. QED  BY <1>1, PoolInvariant, PTL

\* install_if_current, Drain: the pool and its snapshot hold only sessions opened for the
\* current target.
THEOREM PoolKeepsToTarget == Spec => []PoolFollowsTarget
<1>1. Inv => PoolFollowsTarget
  BY Zenon DEF Inv
<1>. QED  BY <1>1, PoolInvariant, PTL

\* An open session is in the pool, with the call or the prefetch that opened it, or about to
\* be cancelled: none is left behind by a pod change, a dropped call or a shutdown.
THEOREM SessionsAccountedFor == Spec => []NoSessionLost
<1>1. Inv => NoSessionLost
  BY Zenon DEF Inv
<1>. QED  BY <1>1, PoolInvariant, PTL

\* After shutdown has cancelled session_cancel no session is open, whatever was in flight.
THEOREM ShutdownLeavesNoneOpen == Spec => []ShutdownClosesAll
<1>1. Inv => ShutdownClosesAll
  BY Zenon DEF Inv
<1>. QED  BY <1>1, PoolInvariant, PTL

\* pool.rs:154-156: a call is given a session of the port it asked for, found or opened.
THEOREM PortsAreServed == Spec => []PortServed
<1>1. Inv => PortServed
  BY Zenon DEF Inv, OpenedFor, Holders, PortServed
<1>. QED  BY <1>1, PoolInvariant, PTL
====
