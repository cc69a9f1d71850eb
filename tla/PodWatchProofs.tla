--------------------------- MODULE PodWatchProofs ---------------------------
(***************************************************************************)
(* Proofs about PodWatch, for any finite set of pods, any names, any set   *)
(* of callers, and every capacity of the broadcast channel: no             *)
(* announcement is lost between looking and sleeping, and no call returns  *)
(* a pod that was not ready since it last read latest_ready.               *)
(***************************************************************************)
EXTENDS PodWatch, FiniteSetTheorems, TLAPS

(***************************************************************************)
(* The inductive invariant.                                                *)
(***************************************************************************)

\* A call that a Ready was sent to is under way, and it still has the event, or the notice
\* that it missed events, unless it is about to look at latest_ready.
NewsPending ==
  \A c \in news :
    pc[c] # "idle" /\ (pc[c] # "load" => lagged[c] \/ "Ready" \in Range(rx[c]))

\* Only calls that are under way have a receiver.
WaitersCall == \A c \in Callers : waits[c] => pc[c] # "idle"

\* A call that scans has noted every pod that is ready now, and what it found.
SeenKnown ==
  \A c \in Callers : /\ pc[c] = "scan" => Ready(store) \subseteq seen[c]
                     /\ pc[c] = "store" => found[c] \in seen[c] \cup {NoPod}

Inv == TypeOK /\ NewsPending /\ WaitersCall /\ SeenKnown

WatchTypes ==
  /\ store \in [Pods -> {"new", "pending", "ready", "gone"}]
  /\ queue \in Seq({ NameOf[p] : p \in Pods })
  /\ deleted \in Step /\ sub \in Step /\ latest_ready \in Pods \cup {NoPod}
  /\ cancelled \in BOOLEAN /\ changes \in 0..MaxChanges

CallTypes ==
  /\ cached \in [Callers -> Pods \cup {NoPod}] /\ found \in [Callers -> Pods \cup {NoPod}]
  /\ result \in [Callers -> Pods \cup {NoPod}]
  /\ pc \in [Callers -> {"idle", "load", "scan", "store", "wait"}]
  /\ waits \in [Callers -> BOOLEAN] /\ seen \in [Callers -> SUBSET Pods]
  /\ calls \in 0..MaxCalls

RxTypes ==
  /\ rx \in [Callers -> Seq({"Ready", "Died"})] /\ \A c \in Callers : Len(rx[c]) <= EventCap
  /\ lagged \in [Callers -> BOOLEAN] /\ news \subseteq Callers

\* The types of the tasks, of the calls and of the receivers.
LEMMA TypesSplit == TypeOK <=> WatchTypes /\ CallTypes /\ RxTypes
BY Zenon DEF TypeOK, WatchTypes, CallTypes, RxTypes

\* The same after a step.
LEMMA TypesSplitNext == TypeOK' <=> WatchTypes' /\ CallTypes' /\ RxTypes'
BY Zenon DEF TypeOK, WatchTypes, CallTypes, RxTypes

\* A receiver's events.
LEMMA QueueFacts ==
  ASSUME NEW E, NEW q \in Seq(E), NEW e \in E
  PROVE  /\ Append(q, e) \in Seq(E) /\ Len(Append(q, e)) = Len(q) + 1
         /\ Range(Append(q, e)) = Range(q) \cup {e}
         /\ Len(q) \in Nat
         /\ q # <<>> => /\ Tail(q) \in Seq(E) /\ Len(Tail(q)) = Len(q) - 1
                        /\ Range(q) \subseteq {Head(q)} \cup Range(Tail(q))
                        /\ Head(q) \in E
         /\ Len(q) > 0 => q # <<>>
<1>1. /\ Append(q, e) \in Seq(E) /\ Len(Append(q, e)) = Len(q) + 1 /\ Len(q) \in Nat
      /\ Len(q) > 0 => q # <<>>
  OBVIOUS
<1>2. Range(Append(q, e)) = Range(q) \cup {e}
  <2> DEFINE r == Append(q, e)
  <2>1. /\ DOMAIN q = 1 .. Len(q) /\ DOMAIN r = 1 .. Len(q) + 1 /\ r[Len(q) + 1] = e
        /\ \A i \in 1 .. Len(q) : r[i] = q[i]
    OBVIOUS
  <2> HIDE DEF r
  <2>2. Range(r) \subseteq Range(q) \cup {e}
    BY <1>1, <2>1 DEF Range
  <2>3. Range(q) \subseteq Range(r) /\ e \in Range(r)
    BY <1>1, <2>1 DEF Range
  <2>. QED  BY <2>2, <2>3 DEF r
<1>3. ASSUME q # <<>>
      PROVE  /\ Tail(q) \in Seq(E) /\ Len(Tail(q)) = Len(q) - 1 /\ Head(q) \in E
             /\ Range(q) \subseteq {Head(q)} \cup Range(Tail(q))
  <2> DEFINE r == Tail(q)
  <2>1. /\ r \in Seq(E) /\ Len(r) = Len(q) - 1 /\ Head(q) \in E /\ Head(q) = q[1]
        /\ DOMAIN q = 1 .. Len(q) /\ DOMAIN r = 1 .. Len(q) - 1
        /\ \A i \in 1 .. Len(q) - 1 : r[i] = q[i + 1]
    BY <1>3
  <2> HIDE DEF r
  <2>2. ASSUME NEW i \in 1 .. Len(q), i # 1 PROVE q[i] \in Range(r)
    <3>1. i - 1 \in 1 .. Len(q) - 1 /\ r[i - 1] = q[i]
      BY <1>1, <2>1, <2>2
    <3>. QED  BY <2>1, <3>1, Zenon DEF Range
  <2>3. Range(q) \subseteq {q[1]} \cup Range(r)
    BY <2>1, <2>2, Zenon DEF Range
  <2>. QED  BY <2>1, <2>3 DEF r
<1>. QED  BY <1>1, <1>2, <1>3, Zenon

\* broadcast::Sender::send: an event that is pushed out leaves the notice that events were
\* missed, and the new one reaches every receiver.
LEMMA SendFacts ==
  ASSUME RxTypes, CallTypes, NEW e \in {"Ready", "Died"}, Send(e)
  PROVE  /\ rx' \in [Callers -> Seq({"Ready", "Died"})]
         /\ \A c \in Callers : Len(rx'[c]) <= EventCap
         /\ lagged' \in [Callers -> BOOLEAN]
         /\ \A c \in Callers : lagged[c] \/ "Ready" \in Range(rx[c])
                                 => lagged'[c] \/ "Ready" \in Range(rx'[c])
         /\ \A c \in Callers : waits[c] => e \in Range(rx'[c])
<1> DEFINE full == { c \in Callers : waits[c] /\ Len(rx[c]) = EventCap }
           E == {"Ready", "Died"}
<1>1. /\ rx' = [c \in Callers |->
                 IF c \in full THEN Append(Tail(rx[c]), e)
                 ELSE IF waits[c] THEN Append(rx[c], e) ELSE rx[c]]
      /\ lagged' = [c \in Callers |-> lagged[c] \/ c \in full]
  BY Zenon DEF Send
<1> SUFFICES ASSUME NEW c \in Callers
             PROVE  /\ rx'[c] \in Seq(E) /\ Len(rx'[c]) <= EventCap /\ lagged'[c] \in BOOLEAN
                    /\ lagged[c] \/ "Ready" \in Range(rx[c])
                         => lagged'[c] \/ "Ready" \in Range(rx'[c])
                    /\ waits[c] => e \in Range(rx'[c])
  BY <1>1, Zenon
<1> DEFINE q == rx[c]
<1>2. q \in Seq(E) /\ Len(q) <= EventCap /\ EventCap \in Nat \ {0} /\ lagged[c] \in BOOLEAN
  BY WatchAssumption, Zenon DEF RxTypes
<1> HIDE DEF q, E
<1>3. CASE c \in full
  <2>1. rx'[c] = Append(Tail(q), e) /\ lagged'[c] /\ Len(q) = EventCap
    BY <1>1, <1>3, Zenon DEF q
  <2>2. q # <<>> /\ Tail(q) \in Seq(E) /\ Len(Tail(q)) = Len(q) - 1 /\ e \in E
    <3>1. Len(q) > 0 /\ e \in E
      BY <1>2, <2>1 DEF E
    <3>. QED  BY <1>2, <3>1, QueueFacts, Zenon
  <2>3. /\ Append(Tail(q), e) \in Seq(E) /\ Len(Append(Tail(q), e)) = Len(q) - 1 + 1
        /\ e \in Range(Append(Tail(q), e))
    <3> DEFINE t == Tail(q)
    <3>0. t \in Seq(E) /\ e \in E /\ Len(t) = Len(q) - 1
      BY <2>2, Zenon
    <3> HIDE DEF t
    <3>1. /\ Append(t, e) \in Seq(E) /\ Len(Append(t, e)) = Len(t) + 1
          /\ Range(Append(t, e)) = Range(t) \cup {e}
      BY <3>0, QueueFacts
    <3>. QED  BY <3>0, <3>1, Zenon DEF t
  <2>4. Len(rx'[c]) <= EventCap
    BY <1>2, <2>1, <2>3
  <2>. QED  BY <1>2, <2>1, <2>3, <2>4, Zenon
<1>4. CASE c \notin full /\ waits[c]
  <2>1. /\ rx'[c] = Append(q, e) /\ Len(q) # EventCap
        /\ lagged[c] => lagged'[c]
        /\ lagged'[c] \in BOOLEAN
    BY <1>1, <1>2, <1>4, Zenon DEF q
  <2>2. /\ Append(q, e) \in Seq(E) /\ Len(Append(q, e)) = Len(q) + 1 /\ Len(q) \in Nat
        /\ Range(Append(q, e)) = Range(q) \cup {e}
    <3>1. e \in E
      BY DEF E
    <3>. QED  BY <1>2, <3>1, QueueFacts
  <2>3. Len(rx'[c]) <= EventCap
    BY <1>2, <2>1, <2>2
  <2>. QED  BY <2>1, <2>2, <2>3, Zenon DEF q
<1>5. CASE c \notin full /\ ~waits[c]
  BY <1>1, <1>2, <1>5, Zenon DEF q
<1>. QED  BY <1>3, <1>4, <1>5, Zenon

(***************************************************************************)
(* Every kind of step preserves the invariant.                             *)
(***************************************************************************)

\* A step of the tasks that neither changes the store nor announces anything.
LEMMA QuietStep ==
  ASSUME Inv, WatchTypes', UNCHANGED <<store, callVars, rxVars>>
  PROVE  Inv'
<1> USE DEF callVars, rxVars
<1>1. TypeOK'
  <2>1. CallTypes' /\ RxTypes'
    BY TypesSplit, Zenon DEF Inv, CallTypes, RxTypes
  <2>. QED  BY <2>1, TypesSplitNext, Zenon
<1>2. Ready(store)' = Ready(store)
  BY Zenon DEF Ready
<1>. QED  BY <1>1, <1>2, Zenon DEF Inv, NewsPending, WaitersCall, SeenKnown

\* A change of the store: a call under way notes the pods that are ready now.
LEMMA ChangeStep ==
  ASSUME Inv, Reflecting, NEW st \in [Pods -> {"new", "pending", "ready", "gone"}],
         NEW list \in Seq(Pods), Change(st, list), deleted' \in Step
  PROVE  Inv'
<1> USE DEF rxVars
<1>1. /\ store' = st /\ queue' = queue \o [i \in DOMAIN list |-> NameOf[list[i]]]
      /\ seen' = [c \in Callers |-> IF pc[c] = "idle" THEN {} ELSE seen[c] \cup Ready(st)]
      /\ changes' = changes + 1
      /\ UNCHANGED <<sub, latest_ready, cancelled, pc, waits, cached, found, result, calls, rx,
                     lagged, news>>
  BY Zenon DEF Change
<1>2. changes' \in 0..MaxChanges
  BY <1>1, WatchAssumption, TypesSplit DEF Inv, WatchTypes, Reflecting
<1>3. queue' \in Seq({ NameOf[p] : p \in Pods })
  <2> DEFINE N == { NameOf[p] : p \in Pods }
             names == [i \in DOMAIN list |-> NameOf[list[i]]]
  <2>1. \A i \in DOMAIN list : names[i] \in N
    OBVIOUS
  <2>2. /\ DOMAIN list = 1 .. Len(list) /\ Len(list) \in Nat
        /\ names = [i \in 1 .. Len(list) |-> names[i]]
    OBVIOUS
  <2> HIDE DEF N, names
  <2>3. names \in Seq(N)
    BY <2>1, <2>2
  <2>4. queue \in Seq(N)
    BY TypesSplit, Zenon DEF Inv, WatchTypes, N
  <2>5. queue \o names \in Seq(N)
    BY <2>3, <2>4
  <2>. QED  BY <1>1, <2>5, Zenon DEF N, names
<1>4. seen' \in [Callers -> SUBSET Pods]
  <2>1. Ready(st) \subseteq Pods
    BY Zenon DEF Ready
  <2>. QED  BY <1>1, <2>1, TypesSplit, Zenon DEF Inv, CallTypes
<1>5. TypeOK'
  <2>1. WatchTypes'
    BY <1>1, <1>2, <1>3, TypesSplit, Zenon DEF Inv, WatchTypes
  <2>2. CallTypes' /\ RxTypes'
    BY <1>1, <1>4, TypesSplit, Zenon DEF Inv, CallTypes, RxTypes
  <2>. QED  BY <2>1, <2>2, TypesSplitNext, Zenon
<1>6. NewsPending' /\ WaitersCall'
  BY <1>1, Zenon DEF Inv, NewsPending, WaitersCall
<1>7. SeenKnown'
  <2>1. Ready(store)' = Ready(st)
    BY <1>1, Zenon DEF Ready
  <2>. QED  BY <1>1, <2>1, Zenon DEF Inv, SeenKnown
<1>. QED  BY <1>5, <1>6, <1>7, Zenon DEF Inv

\* A pod is created, changes or goes.
LEMMA ReflectorStep ==
  ASSUME Inv, NEW p \in Pods, Apply(p) \/ Delete(p)
  PROVE  Inv'
<1>0. /\ store \in [Pods -> {"new", "pending", "ready", "gone"}] /\ deleted \in Step
      /\ <<p>> \in Seq(Pods) /\ <<>> \in Seq(Pods)
  BY TypesSplit DEF Inv, WatchTypes
<1>1. CASE Apply(p)
  <2>1. PICK s \in {"pending", "ready"} : Change([store EXCEPT ![p] = s], <<p>>)
    BY <1>1, Zenon DEF Apply
  <2>2. Reflecting /\ deleted' \in Step
    BY <1>0, <1>1, Zenon DEF Apply
  <2>3. [store EXCEPT ![p] = s] \in [Pods -> {"new", "pending", "ready", "gone"}]
    BY <1>0, Zenon
  <2>. QED  BY <1>0, <2>1, <2>2, <2>3, ChangeStep, Zenon
<1>2. CASE Delete(p)
  <2>1. Reflecting /\ Change([store EXCEPT ![p] = "gone"], <<>>) /\ deleted' \in Step
    BY <1>2, Zenon DEF Delete, Step
  <2>2. [store EXCEPT ![p] = "gone"] \in [Pods -> {"new", "pending", "ready", "gone"}]
    BY <1>0, Zenon
  <2>. QED  BY <1>0, <2>1, <2>2, ChangeStep, Zenon
<1>. QED  BY <1>1, <1>2, Zenon

\* The list is read again.
LEMMA RelistStep ==
  ASSUME Inv, Relist
  PROVE  Inv'
<1>0. /\ store \in [Pods -> {"new", "pending", "ready", "gone"}] /\ deleted' \in Step /\ Reflecting
  BY TypesSplit, Zenon DEF Inv, WatchTypes, Relist
<1>1. PICK lost \in SUBSET Live(store), new \in SUBSET { p \in Pods : store[p] = "new" } :
        LET st == [p \in Pods |-> CASE p \in lost -> "gone"
                                    [] p \in new  -> "ready"
                                    [] OTHER      -> store[p]]
        IN \E list \in Bijection(1 .. Cardinality(Live(st)), Live(st)) : Change(st, list)
  BY Zenon DEF Relist
<1> DEFINE st == [p \in Pods |-> CASE p \in lost -> "gone"
                                   [] p \in new  -> "ready"
                                   [] OTHER      -> store[p]]
<1>2. st \in [Pods -> {"new", "pending", "ready", "gone"}]
  <2>1. ASSUME NEW p \in Pods PROVE st[p] \in {"new", "pending", "ready", "gone"}
    BY <1>0
  <2>. QED  BY <2>1, Zenon
<1>3. PICK list \in Bijection(1 .. Cardinality(Live(st)), Live(st)) : Change(st, list)
  BY <1>1, Zenon
<1> HIDE DEF st
<1>4. Live(st) \subseteq Pods /\ Cardinality(Live(st)) \in Nat
  <2>1. Live(st) \subseteq Pods
    BY Zenon DEF Live
  <2>2. IsFiniteSet(Live(st))
    BY <2>1, WatchAssumption, FS_Subset, Zenon
  <2>. QED  BY <2>1, <2>2, FS_CardinalityType, Zenon
<1>5. list \in Seq(Pods)
  <2>1. list \in [1 .. Cardinality(Live(st)) -> Live(st)]
    BY <1>3, Zenon DEF Bijection, Injection
  <2>. QED  BY <1>4, <2>1
<1>. QED  BY <1>0, <1>2, <1>3, <1>5, ChangeStep, Zenon

\* handle_deleted_pod, update_latest and shutdown, up to what they announce.
LEMMA TaskStep ==
  ASSUME Inv, handle_deleted_pod \/ NextPod \/ LoadLatest \/ StoreLatest \/ Shutdown
  PROVE  Inv'
<1> USE DEF watchVars
<1>0. /\ store \in [Pods -> {"new", "pending", "ready", "gone"}]
      /\ queue \in Seq({ NameOf[p] : p \in Pods })
      /\ deleted \in Step /\ sub \in Step /\ latest_ready \in Pods \cup {NoPod}
      /\ cancelled \in BOOLEAN /\ changes \in 0..MaxChanges
  BY TypesSplit, Zenon DEF Inv, WatchTypes
<1>s. /\ Idle \in Step
      /\ [deleted EXCEPT !.step = "send"] \in Step
      /\ [sub EXCEPT !.step = "store"] \in Step /\ [sub EXCEPT !.step = "send"] \in Step
      /\ sub.pod \in Pods \cup {NoPod}
      /\ \A p \in Pods : [step |-> "load", pod |-> p] \in Step
      /\ queue # <<>> => Tail(queue) \in Seq({ NameOf[p] : p \in Pods })
  BY <1>0 DEF Step, Idle
<1>1. UNCHANGED <<store, callVars, rxVars>>
  BY Zenon DEF handle_deleted_pod, NextPod, LoadLatest, StoreLatest, Shutdown
<1>2. CASE handle_deleted_pod
  <2>1. WatchTypes'
    BY <1>0, <1>s, <1>2, Zenon DEF handle_deleted_pod, WatchTypes
  <2>. QED  BY <1>1, <2>1, QuietStep, Zenon
<1>3. CASE NextPod
  <2>1. sub' \in Step /\ queue' \in Seq({ NameOf[p] : p \in Pods })
    BY <1>0, <1>s, <1>3, Zenon DEF NextPod, Ready
  <2>2. WatchTypes'
    BY <1>0, <1>3, <2>1, Zenon DEF NextPod, WatchTypes
  <2>. QED  BY <1>1, <2>2, QuietStep, Zenon
<1>4. CASE LoadLatest
  <2>1. sub' \in Step
    BY <1>s, <1>4, Zenon DEF LoadLatest
  <2>2. WatchTypes'
    BY <1>0, <1>4, <2>1, Zenon DEF LoadLatest, WatchTypes
  <2>. QED  BY <1>1, <2>2, QuietStep, Zenon
<1>5. CASE StoreLatest
  <2>1. WatchTypes'
    BY <1>0, <1>s, <1>5, Zenon DEF StoreLatest, WatchTypes
  <2>. QED  BY <1>1, <2>1, QuietStep, Zenon
<1>6. CASE Shutdown
  <2>1. WatchTypes'
    BY <1>0, <1>6, Zenon DEF Shutdown, WatchTypes
  <2>. QED  BY <1>1, <2>1, QuietStep, Zenon
<1>. QED  BY <1>2, <1>3, <1>4, <1>5, <1>6, Zenon

\* An announcement: what a call has yet to receive stays, and a Ready reaches every waiter.
LEMMA SendStep ==
  ASSUME Inv, SendDied \/ SendReady
  PROVE  Inv'
<1> USE DEF watchVars, callVars
<1>1. /\ \E e \in {"Ready", "Died"} : Send(e)
      /\ UNCHANGED <<store, queue, changes, latest_ready, cancelled, callVars>>
  BY Zenon DEF SendDied, SendReady
<1>2. /\ rx' \in [Callers -> Seq({"Ready", "Died"})]
      /\ \A c \in Callers : Len(rx'[c]) <= EventCap
      /\ lagged' \in [Callers -> BOOLEAN]
      /\ \A c \in Callers : lagged[c] \/ "Ready" \in Range(rx[c])
                              => lagged'[c] \/ "Ready" \in Range(rx'[c])
  BY <1>1, SendFacts, TypesSplit, Zenon DEF Inv
<1>3. /\ news \subseteq news'
      /\ \A c \in news' : c \in Callers
      /\ \A c \in news' \ news : waits[c] /\ "Ready" \in Range(rx'[c])
  <2>1. CASE SendDied
    BY <2>1, TypesSplit, Zenon DEF Inv, RxTypes, SendDied
  <2>2. CASE SendReady
    <3>1. news' = news \cup { c \in Callers : waits[c] } /\ Send("Ready")
      BY <2>2, Zenon DEF SendReady
    <3>2. \A c \in Callers : waits[c] => "Ready" \in Range(rx'[c])
      BY <3>1, SendFacts, TypesSplit, Zenon DEF Inv
    <3>. QED  BY <3>1, <3>2, TypesSplit, Zenon DEF Inv, RxTypes
  <2>. QED  BY <2>1, <2>2, Zenon
<1>4. deleted' \in Step /\ sub' \in Step
  <2>1. deleted \in Step /\ sub \in Step /\ Idle \in Step
    BY TypesSplit, Zenon DEF Inv, WatchTypes, Idle, Step
  <2>. QED  BY <2>1, Zenon DEF SendDied, SendReady
<1>5. TypeOK'
  <2>1. WatchTypes' /\ CallTypes' /\ RxTypes'
    BY <1>1, <1>2, <1>3, <1>4, TypesSplit, Zenon DEF Inv, WatchTypes, CallTypes, RxTypes
  <2>. QED  BY <2>1, TypesSplitNext, Zenon
<1>6. NewsPending'
  <2>1. ASSUME NEW c \in news'
        PROVE  pc'[c] # "idle" /\ (pc'[c] # "load" => lagged'[c] \/ "Ready" \in Range(rx'[c]))
    <3>1. c \in Callers /\ pc'[c] = pc[c]
      BY <1>1, <1>3, Zenon
    <3>2. CASE c \in news
      BY <1>2, <3>1, <3>2, Zenon DEF Inv, NewsPending
    <3>3. CASE c \notin news
      BY <1>3, <3>1, <3>3, Zenon DEF Inv, WaitersCall
    <3>. QED  BY <3>2, <3>3, Zenon
  <2>. QED  BY <2>1, Zenon DEF NewsPending
<1>7. WaitersCall' /\ SeenKnown'
  BY <1>1, Zenon DEF Inv, WaitersCall, SeenKnown, Ready
<1>. QED  BY <1>5, <1>6, <1>7, Zenon DEF Inv

\* A step of one call leaves the others as they are.
LEMMA CallStep ==
  ASSUME Inv, NEW c \in Callers, UNCHANGED <<watchVars, sub, cancelled>>,
         latest_ready' \in Pods \cup {NoPod}, CallTypes', RxTypes',
         news' \ {c} \subseteq news,
         \A d \in Callers \ {c} :
           /\ pc'[d] = pc[d] /\ waits'[d] = waits[d] /\ found'[d] = found[d]
           /\ seen'[d] = seen[d] /\ rx'[d] = rx[d] /\ lagged'[d] = lagged[d],
         c \in news' =>
           pc'[c] # "idle" /\ (pc'[c] # "load" => lagged'[c] \/ "Ready" \in Range(rx'[c])),
         waits'[c] => pc'[c] # "idle",
         pc'[c] = "scan" => Ready(store) \subseteq seen'[c],
         pc'[c] = "store" => found'[c] \in seen'[c] \cup {NoPod}
  PROVE  Inv'
<1>1. TypeOK'
  <2>1. WatchTypes'
    BY TypesSplit, Zenon DEF Inv, WatchTypes, watchVars
  <2>. QED  BY <2>1, TypesSplitNext, Zenon
<1>2. NewsPending'
  <2>1. ASSUME NEW d \in news'
        PROVE  pc'[d] # "idle" /\ (pc'[d] # "load" => lagged'[d] \/ "Ready" \in Range(rx'[d]))
    <3>1. d \in Callers
      BY Zenon DEF RxTypes
    <3>2. CASE d = c
      BY <2>1, <3>2, Zenon
    <3>3. CASE d # c
      <4>1. d \in news
        BY <3>3, Zenon
      <4>. QED  BY <3>1, <3>3, <4>1, Zenon DEF Inv, NewsPending
    <3>. QED  BY <3>2, <3>3, Zenon
  <2>. QED  BY <2>1, Zenon DEF NewsPending
<1>3. WaitersCall'
  BY Zenon DEF Inv, WaitersCall
<1>4. Ready(store)' = Ready(store)
  BY Zenon DEF Ready, watchVars
<1>5. SeenKnown'
  BY <1>4, Zenon DEF Inv, SeenKnown
<1>. QED  BY <1>1, <1>2, <1>3, <1>5, Zenon DEF Inv

\* A call returns, and its receiver goes.
LEMMA ReturnStep ==
  ASSUME Inv, NEW c \in Callers, NEW p \in Pods \cup {NoPod}, Return(c, p),
         UNCHANGED <<watchVars, sub, cancelled, calls>>, latest_ready' \in Pods \cup {NoPod}
  PROVE  Inv'
<1>1. CallTypes
  BY TypesSplit, Zenon DEF Inv
<1>2. RxTypes
  BY TypesSplit, Zenon DEF Inv
<1>3. CallTypes'
  BY <1>1, Zenon DEF CallTypes, Return
<1>4. /\ rx' \in [Callers -> Seq({"Ready", "Died"})]
      /\ rx'[c] = <<>> /\ \A d \in Callers \ {c} : rx'[d] = rx[d]
  <2>1. <<>> \in Seq({"Ready", "Died"})
    OBVIOUS
  <2>. QED  BY <1>2, <2>1, Zenon DEF RxTypes, Return
<1>5. \A d \in Callers : Len(rx'[d]) <= EventCap
  <2>1. Len(<<>>) <= EventCap
    BY WatchAssumption
  <2>. QED  BY <1>2, <1>4, <2>1, Zenon DEF RxTypes
<1>6. RxTypes'
  BY <1>2, <1>4, <1>5, Zenon DEF RxTypes, Return
<1>7. /\ pc'[c] = "idle" /\ ~waits'[c] /\ c \notin news' /\ news' \ {c} \subseteq news
      /\ \A d \in Callers \ {c} :
           /\ pc'[d] = pc[d] /\ waits'[d] = waits[d] /\ found'[d] = found[d]
           /\ seen'[d] = seen[d] /\ lagged'[d] = lagged[d]
  BY <1>1, <1>2, Zenon DEF CallTypes, RxTypes, Return
<1>. QED  BY <1>3, <1>4, <1>6, <1>7, CallStep, Zenon

\* A call begins, or loads latest_ready.
LEMMA LookStep ==
  ASSUME Inv, NEW c \in Callers, Call(c) \/ LoadCached(c)
  PROVE  Inv'
<1> USE DEF rxVars
<1>1. CallTypes /\ latest_ready \in Pods \cup {NoPod} /\ Ready(store) \subseteq Pods
  BY TypesSplit, Zenon DEF Inv, WatchTypes, Ready
<1>2. RxTypes
  BY TypesSplit, Zenon DEF Inv
<1>3. CASE Call(c)
  <2>1. c \notin news
    BY <1>3, Zenon DEF Inv, NewsPending, Call
  <2>2. calls' \in 0..MaxCalls
    <3>1. calls \in 0..MaxCalls /\ calls < MaxCalls /\ calls' = calls + 1
      BY <1>1, <1>3, Zenon DEF CallTypes, Call
    <3>. QED  BY <3>1, WatchAssumption
  <2>3. CallTypes'
    BY <1>1, <1>3, <2>2, Zenon DEF CallTypes, Call
  <2>4. RxTypes'
    BY <1>2, <1>3, Zenon DEF RxTypes, Call
  <2>5. /\ pc'[c] = "load" /\ news' = news /\ latest_ready' = latest_ready
        /\ UNCHANGED <<watchVars, sub, cancelled>>
        /\ \A d \in Callers \ {c} :
             /\ pc'[d] = pc[d] /\ waits'[d] = waits[d] /\ found'[d] = found[d]
             /\ seen'[d] = seen[d] /\ rx'[d] = rx[d] /\ lagged'[d] = lagged[d]
    BY <1>1, <1>3, Zenon DEF CallTypes, Call
  <2>. QED  BY <1>1, <2>1, <2>3, <2>4, <2>5, CallStep, Zenon
<1>4. CASE LoadCached(c)
  <2>1. CallTypes'
    BY <1>1, <1>4, Zenon DEF CallTypes, LoadCached
  <2>2. RxTypes'
    BY <1>2, <1>4, Zenon DEF RxTypes, LoadCached
  <2>3. /\ pc'[c] = "scan" /\ news' = news \ {c} /\ latest_ready' = latest_ready
        /\ seen'[c] = Ready(store)
        /\ UNCHANGED <<watchVars, sub, cancelled>>
        /\ \A d \in Callers \ {c} :
             /\ pc'[d] = pc[d] /\ waits'[d] = waits[d] /\ found'[d] = found[d]
             /\ seen'[d] = seen[d] /\ rx'[d] = rx[d] /\ lagged'[d] = lagged[d]
    BY <1>1, <1>4, Zenon DEF CallTypes, LoadCached
  <2>. QED  BY <1>1, <2>1, <2>2, <2>3, CallStep, Zenon
<1>. QED  BY <1>3, <1>4, Zenon

\* The store is scanned: the cached pod is returned, or one that is ready is noted.
LEMMA ScanStep ==
  ASSUME Inv, NEW c \in Callers, Scan(c)
  PROVE  Inv'
<1> USE DEF rxVars
<1>1. /\ CallTypes /\ latest_ready \in Pods \cup {NoPod} /\ Ready(store) \subseteq Pods
      /\ UNCHANGED <<watchVars, sub, latest_ready, cancelled, calls>>
  BY TypesSplit, Zenon DEF Inv, WatchTypes, Ready, Scan
<1>2. RxTypes
  BY TypesSplit, Zenon DEF Inv
<1>3. CASE cached[c] \in Ready(store)
  BY <1>1, <1>3, ReturnStep, Zenon DEF Scan
<1>4. CASE cached[c] \notin Ready(store)
  <2>1. PICK p \in IF Ready(store) = {} THEN {NoPod} ELSE Ready(store) :
          found' = [found EXCEPT ![c] = p]
    BY <1>4, Zenon DEF Scan
  <2>2. /\ pc' = [pc EXCEPT ![c] = "store"]
        /\ UNCHANGED <<waits, cached, seen, result, rx, lagged, news>> /\ pc[c] = "scan"
    BY <1>4, Zenon DEF Scan
  <2>3. p \in Ready(store) \cup {NoPod} /\ p \in Pods \cup {NoPod}
    BY <1>1, <2>1, Zenon
  <2>4. CallTypes'
    BY <1>1, <2>1, <2>2, <2>3, Zenon DEF CallTypes
  <2>5. RxTypes'
    BY <1>2, <2>2, Zenon DEF RxTypes
  <2>6. /\ pc'[c] = "store" /\ found'[c] = p
        /\ \A d \in Callers \ {c} : pc'[d] = pc[d] /\ found'[d] = found[d]
    BY <1>1, <2>1, <2>2, Zenon DEF CallTypes
  <2>7. found'[c] \in seen'[c] \cup {NoPod}
    BY <2>2, <2>3, <2>6, Zenon DEF Inv, SeenKnown
  <2>8. c \in news' => lagged'[c] \/ "Ready" \in Range(rx'[c])
    BY <2>2, Zenon DEF Inv, NewsPending
  <2>. QED  BY <1>1, <2>2, <2>4, <2>5, <2>6, <2>7, <2>8, CallStep, Zenon
<1>. QED  BY <1>3, <1>4, Zenon

\* What was found is stored and returned, or the call sleeps, with its events still there.
LEMMA StoreFoundStep ==
  ASSUME Inv, NEW c \in Callers, StoreFound(c)
  PROVE  Inv'
<1> USE DEF rxVars
<1>1. /\ CallTypes /\ latest_ready' = found[c] /\ found[c] \in Pods \cup {NoPod}
      /\ UNCHANGED <<watchVars, sub, cancelled, calls>>
  BY TypesSplit, Zenon DEF Inv, CallTypes, StoreFound
<1>2. RxTypes
  BY TypesSplit, Zenon DEF Inv
<1>3. CASE ~(found[c] = NoPod /\ waits[c])
  <2>1. Return(c, found[c])
    BY <1>3, Zenon DEF StoreFound
  <2>. QED  BY <1>1, <2>1, ReturnStep, Zenon
<1>4. CASE found[c] = NoPod /\ waits[c]
  <2>1. /\ pc' = [pc EXCEPT ![c] = "wait"] /\ pc[c] = "store"
        /\ UNCHANGED <<waits, cached, found, seen, result, rx, lagged, news>>
    BY <1>4, Zenon DEF StoreFound
  <2>2. CallTypes'
    BY <1>1, <2>1, Zenon DEF CallTypes
  <2>3. RxTypes'
    BY <1>2, <2>1, Zenon DEF RxTypes
  <2>4. pc'[c] = "wait" /\ \A d \in Callers \ {c} : pc'[d] = pc[d]
    BY <1>1, <2>1, Zenon DEF CallTypes
  <2>5. c \in news' => lagged'[c] \/ "Ready" \in Range(rx'[c])
    BY <2>1, Zenon DEF Inv, NewsPending
  <2>. QED  BY <1>1, <2>1, <2>2, <2>3, <2>4, <2>5, CallStep, Zenon
<1>. QED  BY <1>3, <1>4, Zenon

\* A sleeping call takes an event: Ready, or having lagged, makes it look again.
LEMMA ReceiveStep ==
  ASSUME Inv, NEW c \in Callers, Receive(c)
  PROVE  Inv'
<1>1. /\ CallTypes /\ latest_ready \in Pods \cup {NoPod} /\ pc[c] = "wait"
      /\ UNCHANGED <<watchVars, sub, latest_ready, cancelled, waits, cached, found, seen, result,
                     calls, news>>
  BY TypesSplit, Zenon DEF Inv, WatchTypes, Receive
<1>2. RxTypes
  BY TypesSplit, Zenon DEF Inv
<1>3. CASE lagged[c]
  <2>1. /\ lagged' = [lagged EXCEPT ![c] = FALSE] /\ pc' = [pc EXCEPT ![c] = "load"] /\ rx' = rx
    BY <1>3, Zenon DEF Receive
  <2>2. CallTypes'
    BY <1>1, <2>1, Zenon DEF CallTypes
  <2>3. RxTypes'
    BY <1>1, <1>2, <2>1, Zenon DEF RxTypes
  <2>4. pc'[c] = "load" /\ \A d \in Callers \ {c} : pc'[d] = pc[d] /\ lagged'[d] = lagged[d]
    BY <1>1, <1>2, <2>1, Zenon DEF CallTypes, RxTypes
  <2>. QED  BY <1>1, <2>1, <2>2, <2>3, <2>4, CallStep, Zenon
<1>4. CASE ~lagged[c]
  <2> DEFINE q == rx[c]
             to == IF Head(q) = "Ready" THEN "load" ELSE "wait"
  <2>1. /\ rx' = [rx EXCEPT ![c] = Tail(q)] /\ q # <<>> /\ lagged' = lagged
        /\ pc' = [pc EXCEPT ![c] = to]
    BY <1>4, Zenon DEF Receive
  <2>t. /\ to \in {"load", "wait"}
        /\ (Head(q) # "Ready" => to = "wait") /\ (Head(q) = "Ready" => to = "load")
    BY Zenon
  <2>2. q \in Seq({"Ready", "Died"}) /\ Len(q) <= EventCap
    BY <1>2, Zenon DEF RxTypes
  <2> HIDE DEF q, to
  <2>3. /\ Tail(q) \in Seq({"Ready", "Died"}) /\ Len(Tail(q)) = Len(q) - 1
        /\ Len(q) \in Nat /\ Range(q) \subseteq {Head(q)} \cup Range(Tail(q))
    BY <2>1, <2>2, QueueFacts
  <2>4. Len(Tail(q)) <= EventCap
    BY <2>2, <2>3, WatchAssumption
  <2>5. /\ rx'[c] = Tail(q) /\ pc'[c] = to
        /\ \A d \in Callers \ {c} : rx'[d] = rx[d] /\ pc'[d] = pc[d]
    BY <1>1, <1>2, <2>1, Zenon DEF CallTypes, RxTypes
  <2>6. CallTypes'
    BY <1>1, <2>1, <2>t, Zenon DEF CallTypes
  <2>7. RxTypes'
    <3>1. rx' \in [Callers -> Seq({"Ready", "Died"})]
      BY <1>2, <2>1, <2>3, Zenon DEF RxTypes
    <3>. QED  BY <1>1, <1>2, <2>1, <2>4, <2>5, <3>1, Zenon DEF RxTypes
  <2>8. c \in news' =>
          pc'[c] # "idle" /\ (pc'[c] # "load" => lagged'[c] \/ "Ready" \in Range(rx'[c]))
    <3>1. c \in news => "Ready" \in Range(q)
      BY <1>1, <1>4, Zenon DEF Inv, NewsPending, q
    <3>. QED  BY <1>1, <2>3, <2>5, <2>t, <3>1, Zenon
  <2>9. pc'[c] \in {"load", "wait"}
    BY <2>5, <2>t, Zenon
  <2>. QED  BY <1>1, <2>1, <2>5, <2>6, <2>7, <2>8, <2>9, CallStep, Zenon
<1>. QED  BY <1>3, <1>4, Zenon

\* Init, and every step.
LEMMA InitInv == Init => Inv
<1> SUFFICES ASSUME Init PROVE Inv
  OBVIOUS
<1>1. /\ <<>> \in Seq({ NameOf[p] : p \in Pods }) /\ <<>> \in Seq({"Ready", "Died"})
      /\ Len(<<>>) <= EventCap /\ 0 \in 0..MaxChanges /\ 0 \in 0..MaxCalls
  BY WatchAssumption
<1>2. Idle \in Step
  BY Zenon DEF Idle, Step
<1>3. WatchTypes /\ CallTypes /\ RxTypes
  BY <1>1, <1>2, Zenon DEF Init, WatchTypes, CallTypes, RxTypes
<1>. QED  BY <1>3, TypesSplit, Zenon DEF Init, Inv, NewsPending, WaitersCall, SeenKnown

\* Every step of the watch and of the callers keeps the invariant.
LEMMA NextInv ==
  ASSUME Inv, [Next]_vars
  PROVE  Inv'
<1>1. CASE UNCHANGED vars
  <2>1. UNCHANGED <<store, callVars, rxVars>> /\ WatchTypes'
    BY <1>1, TypesSplit, Zenon DEF vars, watchVars, Inv, WatchTypes
  <2>. QED  BY <2>1, QuietStep, Zenon
<1>2. ASSUME NEW c \in Callers, GiveUp(c) PROVE Inv'
  <2>1. latest_ready \in Pods \cup {NoPod}
    BY TypesSplit, Zenon DEF Inv, WatchTypes
  <2>. QED  BY <1>2, <2>1, ReturnStep, Zenon DEF GiveUp
<1>3. CASE \E p \in Pods : Apply(p) \/ Delete(p)
  BY <1>3, ReflectorStep, Zenon
<1>4. CASE \E c \in Callers : \/ Call(c) \/ LoadCached(c) \/ Scan(c) \/ StoreFound(c)
                              \/ Receive(c) \/ GiveUp(c)
  BY <1>2, <1>4, LookStep, ScanStep, StoreFoundStep, ReceiveStep, Zenon
<1>. QED  BY <1>1, <1>3, <1>4, RelistStep, TaskStep, SendStep, Zenon DEF Next

(***************************************************************************)
(* The theorems.                                                           *)
(***************************************************************************)

\* The watcher is always in a state the invariant describes.
THEOREM WatchInvariant == Spec => []Inv
BY InitInv, NextInv, PTL DEF Spec

\* pod_watch.rs, wait_for_ready_pod: a call never sleeps through a Ready that was sent after
\* it last looked, however small the channel.
THEOREM NoAnnouncementLost == Spec => []AnnouncedIsReceived
<1>1. Inv => AnnouncedIsReceived
  BY Zenon DEF Inv, NewsPending, AnnouncedIsReceived
<1>. QED  BY <1>1, WatchInvariant, PTL

\* pod_watch.rs, ready_pod: the pod a call returns was ready, under this name and uid, at
\* some moment after the call last read latest_ready.
THEOREM NoStalePod == Spec => ReturnedWasReady
<1> DEFINE Fresh == \A c \in Callers :
             pc[c] # "idle" /\ pc'[c] = "idle" /\ result'[c] # NoPod => result'[c] \in seen[c]
<1>1. ASSUME Inv, [Next]_vars
      PROVE  [Fresh]_vars
  <2>t. pc \in [Callers -> {"idle", "load", "scan", "store", "wait"}]
        /\ result \in [Callers -> Pods \cup {NoPod}]
    BY <1>1, TypesSplit, Zenon DEF Inv, CallTypes
  <2>1. CASE UNCHANGED pc
    BY <2>1, Zenon
  <2>2. ASSUME NEW d \in Callers, NEW s, s # "idle", pc' = [pc EXCEPT ![d] = s]
        PROVE  Fresh
    BY <2>2, <2>t, Zenon
  <2>3. ASSUME NEW d \in Callers, NEW p \in seen[d] \cup {NoPod}, Return(d, p)
        PROVE  Fresh
    BY <2>3, <2>t, Zenon DEF Return
  <2>4. ASSUME NEW d \in Callers, Scan(d)
        PROVE  Fresh
    <3>1. CASE cached[d] \in Ready(store)
      <4>1. cached[d] \in seen[d]
        BY <1>1, <2>4, <3>1, Zenon DEF Inv, SeenKnown, Scan
      <4>. QED  BY <2>3, <2>4, <3>1, <4>1, Zenon DEF Scan
    <3>2. CASE cached[d] \notin Ready(store)
      BY <2>2, <2>4, <3>2, Zenon DEF Scan
    <3>. QED  BY <3>1, <3>2, Zenon
  <2>5. ASSUME NEW d \in Callers, StoreFound(d)
        PROVE  Fresh
    <3>1. CASE found[d] = NoPod /\ waits[d]
      BY <2>2, <2>5, <3>1, Zenon DEF StoreFound
    <3>2. CASE ~(found[d] = NoPod /\ waits[d])
      <4>1. found[d] \in seen[d] \cup {NoPod}
        BY <1>1, <2>5, Zenon DEF Inv, SeenKnown, StoreFound
      <4>. QED  BY <2>3, <2>5, <3>2, <4>1, Zenon DEF StoreFound
    <3>. QED  BY <3>1, <3>2, Zenon
  <2>6. ASSUME NEW d \in Callers, Call(d) \/ LoadCached(d) \/ Receive(d)
        PROVE  Fresh
    <3>1. \E s \in {"load", "scan", "wait"} : pc' = [pc EXCEPT ![d] = s]
      BY <2>6, Zenon DEF Call, LoadCached, Receive
    <3>. QED  BY <2>2, <3>1, Zenon
  <2>7. ASSUME NEW d \in Callers, GiveUp(d)
        PROVE  Fresh
    BY <2>3, <2>7, Zenon DEF GiveUp
  <2>8. CASE \/ \E p \in Pods : Apply(p) \/ Delete(p)
             \/ Relist \/ handle_deleted_pod \/ SendDied
             \/ NextPod \/ LoadLatest \/ StoreLatest \/ SendReady \/ Shutdown
    <3>1. UNCHANGED pc
      BY <2>8, Zenon DEF Apply, Delete, Relist, Change, handle_deleted_pod, SendDied, NextPod,
         LoadLatest, StoreLatest, SendReady, Shutdown, callVars
    <3>. QED  BY <2>1, <3>1, Zenon
  <2>. QED  BY <1>1, <2>4, <2>5, <2>6, <2>7, <2>8, Zenon DEF Next
<1>2. Inv /\ [Next]_vars => [Fresh]_vars
  BY <1>1
<1>. QED  BY <1>2, WatchInvariant, PTL DEF Spec, ReturnedWasReady
=============================================================================
