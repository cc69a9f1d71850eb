------------------------------ MODULE PodWatch ------------------------------
(***************************************************************************)
(* PodWatcher (kube-portforward/src/pod_watch.rs): a reflector task keeps  *)
(* a store of pods, a subscriber task keeps latest_ready and announces     *)
(* changes of it, and callers ask for a ready pod or wait for one.  All of *)
(* them read and write latest_ready, none of them under a lock.            *)
(*                                                                         *)
(* A pod is an identity (name and uid); two pods of one name are a pod and *)
(* the one that replaced it.  In the store a pod is "ready" when           *)
(* is_pod_selected accepts it, "pending" when not.  The reflector stream,  *)
(* its store and the broadcast channel are external.                       *)
(***************************************************************************)
EXTENDS Integers, Sequences, FiniteSets, Functions

CONSTANTS Pods, NoPod,
          NameOf,      \* name of a pod
          Callers,
          EventCap,    \* capacity of the broadcast channel (16)
          MaxChanges,  \* bound: changes of the store after the first ones
          MaxCalls     \* bound: calls of ready_pod and wait_for_ready_pod

ASSUME WatchAssumption ==
  /\ IsFiniteSet(Pods) /\ NoPod \notin Pods
  /\ EventCap \in Nat \ {0} /\ MaxChanges \in Nat /\ MaxCalls \in Nat

VARIABLES
  store,        \* state of a pod: "new", "pending", "ready", "gone"
  queue,        \* names dispatched to the subscriber
  deleted,      \* [step, pod] of the deletion the reflector task is handling
  sub,          \* [step, pod] of the update the subscriber task is making
  latest_ready,
  cancelled,
  pc,           \* of a caller: "idle", "load", "scan", "store", "wait"
  waits,        \* the call is wait_for_ready_pod
  cached,       \* latest_ready as the call loaded it
  found,        \* first ready pod of the scan
  rx,           \* events a waiting call has not received
  lagged,       \* its receiver has missed events
  news,         \* callers a Ready was sent to since they last loaded latest_ready
  seen,         \* pods that were ready since the call last loaded latest_ready
  result,       \* of a caller's last call
  changes, calls

watchVars == <<store, queue, deleted, changes>>
callVars == <<pc, waits, cached, found, seen, result, calls>>
rxVars == <<rx, lagged, news>>
vars == <<watchVars, sub, latest_ready, cancelled, callVars, rxVars>>

Idle == [step |-> "idle", pod |-> NoPod]
Live(st) == { p \in Pods : st[p] \in {"pending", "ready"} }
Ready(st) == { p \in Pods : st[p] = "ready" }

Init ==
  /\ store = [p \in Pods |-> "new"]
  /\ queue = <<>> /\ deleted = Idle /\ sub = Idle
  /\ latest_ready = NoPod /\ cancelled = FALSE
  /\ pc = [c \in Callers |-> "idle"] /\ waits = [c \in Callers |-> FALSE]
  /\ cached = [c \in Callers |-> NoPod] /\ found = [c \in Callers |-> NoPod]
  /\ rx = [c \in Callers |-> <<>>] /\ lagged = [c \in Callers |-> FALSE]
  /\ news = {} /\ seen = [c \in Callers |-> {}] /\ result = [c \in Callers |-> NoPod]
  /\ changes = 0 /\ calls = 0

\* broadcast::Sender::send: every subscribed receiver gets the event; the oldest one goes
\* when the channel is full.
Send(event) ==
  LET receivers == { c \in Callers : waits[c] }
      full == { c \in receivers : Len(rx[c]) = EventCap }
  IN /\ rx' = [c \in Callers |->
                 IF c \in full THEN Append(Tail(rx[c]), event)
                 ELSE IF c \in receivers THEN Append(rx[c], event) ELSE rx[c]]
     /\ lagged' = [c \in Callers |-> lagged[c] \/ c \in full]

(***************************************************************************)
(* The reflector task.                                                     *)
(***************************************************************************)

Reflecting == ~cancelled /\ deleted = Idle /\ changes < MaxChanges

\* The store becomes st, and the pods of the sequence list go to the subscriber.  The
\* dispatch buffer (256) is not bounded here: at its limit the reflector would wait.
Change(st, list) ==
  /\ store' = st
  /\ queue' = queue \o [i \in DOMAIN list |-> NameOf[list[i]]]
  /\ seen' = [c \in Callers |-> IF pc[c] = "idle" THEN {} ELSE seen[c] \cup Ready(st)]
  /\ changes' = changes + 1
  /\ UNCHANGED <<sub, latest_ready, cancelled, pc, waits, cached, found, result, calls, rxVars>>

\* A pod is created, or changes: it becomes ready, stops being ready, or neither.
Apply(p) ==
  /\ Reflecting
  /\ store[p] # "gone"
  /\ \A q \in Live(store) : NameOf[q] = NameOf[p] => q = p
  /\ \E s \in {"pending", "ready"} : Change([store EXCEPT ![p] = s], <<p>>)
  /\ UNCHANGED deleted

\* The watch is interrupted and the list read again: pods that went have no event.
Relist ==
  /\ Reflecting
  /\ \E lost \in SUBSET Live(store), new \in SUBSET { p \in Pods : store[p] = "new" } :
       LET st == [p \in Pods |-> CASE p \in lost -> "gone"
                                   [] p \in new  -> "ready"
                                   [] OTHER      -> store[p]]
       IN /\ lost \cup new # {}
          /\ \A p, q \in Live(st) : NameOf[p] = NameOf[q] => p = q
          /\ \E list \in Bijection(1 .. Cardinality(Live(st)), Live(st)) : Change(st, list)
  /\ UNCHANGED deleted

Delete(p) ==
  /\ Reflecting
  /\ p \in Live(store)
  /\ Change([store EXCEPT ![p] = "gone"], <<>>)
  /\ deleted' = [step |-> "rcu", pod |-> p]

\* handle_deleted_pod: latest_ready is cleared when it is this pod, and only then is the
\* death announced.
handle_deleted_pod ==
  /\ deleted.step = "rcu"
  /\ IF latest_ready = deleted.pod
     THEN latest_ready' = NoPod /\ deleted' = [deleted EXCEPT !.step = "send"]
     ELSE deleted' = Idle /\ UNCHANGED latest_ready
  /\ UNCHANGED <<store, queue, changes, sub, cancelled, callVars, rxVars>>

SendDied ==
  /\ deleted.step = "send"
  /\ Send("Died")
  /\ UNCHANGED news
  /\ deleted' = Idle
  /\ UNCHANGED <<store, queue, changes, sub, latest_ready, cancelled, callVars>>

(***************************************************************************)
(* The subscriber task: update_latest.                                     *)
(***************************************************************************)

\* The subscriber stream hands over the pod of that name the store has now; without one,
\* or when is_pod_selected refuses it, there is nothing to do.
NextPod ==
  /\ ~cancelled /\ sub = Idle /\ queue # <<>>
  /\ queue' = Tail(queue)
  /\ LET now == { p \in Ready(store) : NameOf[p] = Head(queue) }
     IN IF now = {}
        THEN UNCHANGED sub
        ELSE \E p \in now : sub' = [step |-> "load", pod |-> p]
  /\ UNCHANGED <<store, deleted, changes, latest_ready, cancelled, callVars, rxVars>>

\* latest_ready changes when it is empty, or holds a pod of that name with another uid.
LoadLatest ==
  /\ sub.step = "load"
  /\ sub' = IF \/ latest_ready = NoPod
               \/ NameOf[latest_ready] = NameOf[sub.pod] /\ latest_ready # sub.pod
            THEN [sub EXCEPT !.step = "store"] ELSE Idle
  /\ UNCHANGED <<watchVars, latest_ready, cancelled, callVars, rxVars>>

StoreLatest ==
  /\ sub.step = "store"
  /\ latest_ready' = sub.pod
  /\ sub' = [sub EXCEPT !.step = "send"]
  /\ UNCHANGED <<watchVars, cancelled, callVars, rxVars>>

SendReady ==
  /\ sub.step = "send"
  /\ Send("Ready")
  /\ news' = news \cup { c \in Callers : waits[c] }
  /\ sub' = Idle
  /\ UNCHANGED <<watchVars, latest_ready, cancelled, callVars>>

(***************************************************************************)
(* ready_pod and wait_for_ready_pod.                                       *)
(***************************************************************************)

Return(c, p) ==
  /\ pc' = [pc EXCEPT ![c] = "idle"]
  /\ result' = [result EXCEPT ![c] = p]
  /\ waits' = [waits EXCEPT ![c] = FALSE]
  /\ rx' = [rx EXCEPT ![c] = <<>>]
  /\ lagged' = [lagged EXCEPT ![c] = FALSE]
  /\ news' = news \ {c}
  /\ cached' = [cached EXCEPT ![c] = NoPod]
  /\ found' = [found EXCEPT ![c] = NoPod]
  /\ seen' = [seen EXCEPT ![c] = {}]

\* A call begins; a waiting one subscribes before it looks.
Call(c) ==
  /\ pc[c] = "idle" /\ calls < MaxCalls
  /\ calls' = calls + 1
  /\ \E w \in BOOLEAN :
       /\ w => ~cancelled
       /\ waits' = [waits EXCEPT ![c] = w]
  /\ pc' = [pc EXCEPT ![c] = "load"]
  /\ result' = [result EXCEPT ![c] = NoPod]
  /\ UNCHANGED <<watchVars, sub, latest_ready, cancelled, cached, found, seen, rxVars>>

LoadCached(c) ==
  /\ pc[c] = "load"
  /\ cached' = [cached EXCEPT ![c] = latest_ready]
  /\ news' = news \ {c}
  /\ seen' = [seen EXCEPT ![c] = Ready(store)]
  /\ pc' = [pc EXCEPT ![c] = "scan"]
  /\ UNCHANGED <<watchVars, sub, latest_ready, cancelled, waits, found, result, calls, rx, lagged>>

\* Variant: the cached pod is known by its name alone.
ScanByName(c) ==
  /\ pc[c] = "scan"
  /\ IF \E p \in Ready(store) : cached[c] # NoPod /\ NameOf[p] = NameOf[cached[c]]
     THEN Return(c, cached[c])
     ELSE /\ \E p \in IF Ready(store) = {} THEN {NoPod} ELSE Ready(store) :
               found' = [found EXCEPT ![c] = p]
          /\ pc' = [pc EXCEPT ![c] = "store"]
          /\ UNCHANGED <<waits, cached, seen, result, rxVars>>
  /\ UNCHANGED <<watchVars, sub, latest_ready, cancelled, calls>>

\* One snapshot of the store: the cached pod if it is still ready, else any ready one.
Scan(c) ==
  /\ pc[c] = "scan"
  /\ IF cached[c] \in Ready(store)
     THEN Return(c, cached[c])
     ELSE /\ \E p \in IF Ready(store) = {} THEN {NoPod} ELSE Ready(store) :
               found' = [found EXCEPT ![c] = p]
          /\ pc' = [pc EXCEPT ![c] = "store"]
          /\ UNCHANGED <<waits, cached, seen, result, rxVars>>
  /\ UNCHANGED <<watchVars, sub, latest_ready, cancelled, calls>>

\* Variant: a call subscribes once it has found no pod.
StoreFoundSubscribes(c) ==
  /\ pc[c] = "store"
  /\ latest_ready' = found[c]
  /\ IF found[c] = NoPod /\ waits[c]
     THEN /\ pc' = [pc EXCEPT ![c] = "wait"]
          /\ rx' = [rx EXCEPT ![c] = <<>>]
          /\ UNCHANGED <<waits, cached, found, seen, result, lagged, news>>
     ELSE Return(c, found[c])
  /\ UNCHANGED <<watchVars, sub, cancelled, calls>>

StoreFound(c) ==
  /\ pc[c] = "store"
  /\ latest_ready' = found[c]
  /\ IF found[c] = NoPod /\ waits[c]
     THEN /\ pc' = [pc EXCEPT ![c] = "wait"]
          /\ UNCHANGED <<waits, cached, found, seen, result, rxVars>>
     ELSE Return(c, found[c])
  /\ UNCHANGED <<watchVars, sub, cancelled, calls>>

\* Ready, or having lagged, makes the call look again; Died does not.
Receive(c) ==
  /\ pc[c] = "wait"
  /\ lagged[c] \/ rx[c] # <<>>
  /\ IF lagged[c]
     THEN /\ lagged' = [lagged EXCEPT ![c] = FALSE]
          /\ pc' = [pc EXCEPT ![c] = "load"]
          /\ UNCHANGED rx
     ELSE /\ rx' = [rx EXCEPT ![c] = Tail(@)]
          /\ pc' = [pc EXCEPT ![c] = IF Head(rx[c]) = "Ready" THEN "load" ELSE "wait"]
          /\ UNCHANGED lagged
  /\ UNCHANGED <<watchVars, sub, latest_ready, cancelled, waits, cached, found, seen, result, calls, news>>

\* The deadline passes, or the watcher is shut down.
GiveUp(c) ==
  /\ pc[c] = "wait"
  /\ Return(c, NoPod)
  /\ UNCHANGED <<watchVars, sub, latest_ready, cancelled, calls>>

Shutdown ==
  /\ ~cancelled
  /\ cancelled' = TRUE
  /\ UNCHANGED <<watchVars, sub, latest_ready, callVars, rxVars>>

Next ==
  \/ \E p \in Pods : Apply(p) \/ Delete(p)
  \/ Relist \/ handle_deleted_pod \/ SendDied
  \/ NextPod \/ LoadLatest \/ StoreLatest \/ SendReady
  \/ \E c \in Callers : \/ Call(c) \/ LoadCached(c) \/ Scan(c) \/ StoreFound(c)
                        \/ Receive(c) \/ GiveUp(c)
  \/ Shutdown

Spec == Init /\ [][Next]_vars

(***************************************************************************)
(* Properties.                                                             *)
(***************************************************************************)

Step == [step : {"idle", "rcu", "load", "store", "send"}, pod : Pods \cup {NoPod}]

\* Every variable keeps its type: a receiver never holds more events than the channel.
TypeOK ==
  /\ store \in [Pods -> {"new", "pending", "ready", "gone"}]
  /\ queue \in Seq({ NameOf[p] : p \in Pods })
  /\ deleted \in Step /\ sub \in Step
  /\ latest_ready \in Pods \cup {NoPod}
  /\ {cached, found, result} \subseteq [Callers -> Pods \cup {NoPod}]
  /\ pc \in [Callers -> {"idle", "load", "scan", "store", "wait"}]
  /\ cancelled \in BOOLEAN /\ waits \in [Callers -> BOOLEAN]
  /\ rx \in [Callers -> Seq({"Ready", "Died"})] /\ \A c \in Callers : Len(rx[c]) <= EventCap
  /\ lagged \in [Callers -> BOOLEAN]
  /\ news \subseteq Callers /\ seen \in [Callers -> SUBSET Pods]
  /\ changes \in 0..MaxChanges /\ calls \in 0..MaxCalls

\* A call never hands out a stale cache: the pod it returns, name and uid, was ready at
\* some moment after the call last read latest_ready, whatever the tasks did meanwhile.
ReturnedWasReady ==
  [][\A c \in Callers :
       pc[c] # "idle" /\ pc'[c] = "idle" /\ result'[c] # NoPod => result'[c] \in seen[c]]_vars

\* No announcement is lost between looking and sleeping: a call that sleeps although a Ready
\* was sent after it last began to look has that event, or the notice that it missed events,
\* still to receive.  wait_for_ready_pod subscribes before it looks, and a lag counts as Ready.
\* Every variable keeps its type meanwhile.
AnnouncedIsReceived ==
  TypeOK /\ \A c \in news : pc[c] = "wait" => lagged[c] \/ "Ready" \in Range(rx[c])
=============================================================================
