--------------------------- MODULE ForwarderPool ---------------------------
(***************************************************************************)
(* The Forwarder: its pool of sessions to the ready pod (forwarder/pool.rs)*)
(* and what works on it concurrently: callers of connect_on_pod, which     *)
(* find, await or open a session (forwarder/mod.rs, lifecycle.rs), the     *)
(* prefetch and prune tasks (prefetch.rs), the reactor to pod changes and  *)
(* shutdown.                                                               *)
(*                                                                         *)
(* One step is what a task does between two awaits, or under one hold of   *)
(* the pool's lock.  A session is a number, in the order of opening.  The  *)
(* pod watcher appears as the set of ready pods and the one it remembers.  *)
(***************************************************************************)
EXTENDS Integers, Sequences, FiniteSets, Functions

CONSTANTS Callers, Pods, Ports,
          NameOf,       \* NameOf[p]: pods of a StatefulSet share a name, not a uid
          MaxSessions,  \* max_sessions
          OperatingMax, \* pairs a session opens (operating_max_streams)
          HardMax,      \* pairs its peer accepts (max_concurrent_streams)
          Threshold,    \* prefetch_threshold, in percent
          SpareCap,     \* SPARE_STREAM_CAP
          LowWatermark, \* SPARE_STREAM_LOW_WATERMARK
          NoPod,        \* None of Option<ReadyPod>
          MaxOpens,     \* bound: sessions opened
          MaxConnects   \* bound: calls of connect

ASSUME PoolAssumption ==
  /\ IsFiniteSet(Callers)
  /\ {MaxSessions, OperatingMax, MaxOpens, MaxConnects} \subseteq Nat \ {0}
  /\ HardMax \in Nat /\ HardMax >= OperatingMax
  /\ Threshold \in 0..100
  /\ SpareCap \in Nat /\ LowWatermark \in 0..SpareCap
  /\ NoPod \notin Pods
  /\ \A p \in Pods : NameOf[p] # NoPod

VARIABLES
  alive,      \* ready pods of the store
  past,       \* pods that have been deleted
  latest,     \* latest_ready
  died,       \* PodChange::Died not yet seen by the reactor: names
  sess,       \* sess[s]: state, pod reached, pod opened for, port, pairs in
              \* use, those of them spare, and whether a task opens spares
  opened,     \* sessions opened so far
  entries,    \* SessionPool::entries
  target,
  prefetch_in_flight,
  opening_count,
  snapshot,   \* session_snap
  pc, port, ready, retry, chosen, drained, slot,  \* a call of connect_on_pod
  connects,   \* calls made
  prefetch,   \* the prefetch task: step, pod, port, session
  down        \* shutdown: "up", "cancelled", "drained", "done"

watchVars == <<alive, past, latest, died>>
poolVars == <<entries, target, prefetch_in_flight, opening_count, snapshot>>
callVars == <<pc, port, ready, retry, chosen, drained, slot>>
vars == <<watchVars, sess, opened, poolVars, callVars, connects,
          prefetch, down>>

Sessions == 1..MaxOpens
Fresh == [state |-> "none", pod |-> NoPod, for |-> NoPod, port |-> 0, used |-> 0,
          spare |-> 0, warm |-> FALSE]
NoTask == [step |-> "none", pod |-> NoPod, port |-> 0, session |-> 0]

Init ==
  /\ alive = {} /\ past = {} /\ latest = NoPod /\ died = <<>>
  /\ sess = [s \in Sessions |-> Fresh] /\ opened = 0
  /\ entries = <<>> /\ target = NoPod /\ snapshot = <<>>
  /\ prefetch_in_flight = FALSE /\ opening_count = 0
  /\ pc = [c \in Callers |-> "idle"]
  /\ port = [c \in Callers |-> 0]
  /\ ready = [c \in Callers |-> NoPod]
  /\ retry = [c \in Callers |-> FALSE]
  /\ chosen = [c \in Callers |-> 0]
  /\ drained = [c \in Callers |-> {}]
  /\ slot = [c \in Callers |-> FALSE]
  /\ connects = 0
  /\ prefetch = NoTask
  /\ down = "up"

(***************************************************************************)
(* Sessions.                                                               *)
(***************************************************************************)

Open(s) == sess[s].state = "open"

\* The token of a session is cancelled; a dead one keeps its token.
IsCancelled(s) == sess[s].state = "cancelled"
IsDrained(s) == sess[s].state \in {"dead", "cancelled"}

\* Every handle is closed or at its hard limit.
IsFull(s) == IsDrained(s) \/ sess[s].used >= HardMax

\* Cancels the sessions of S.
CancelAll(S) ==
  [s \in Sessions |-> IF s \in S THEN [sess[s] EXCEPT !.state = "cancelled"] ELSE sess[s]]

\* The pod a connection to the name of p reaches now.
Reached(p) == { q \in alive : NameOf[q] = NameOf[p] }

\* Variant: the token of the new session is no child of session_cancel.
NewSessionOwnToken(p, q, prt) ==
  [state |-> "open", pod |-> q, for |-> p, port |-> prt, used |-> 0, spare |-> 0,
   warm |-> FALSE]

\* open_session with a child of session_cancel, for p, that reaches q.
NewSession(p, q, prt) ==
  [state |-> IF down = "up" THEN "open" ELSE "cancelled",
   pod |-> q, for |-> p, port |-> prt, used |-> 0, spare |-> 0, warm |-> FALSE]

\* The connection of a session breaks.
SessionDies(s) ==
  /\ Open(s)
  /\ sess' = [sess EXCEPT ![s].state = "dead"]
  /\ UNCHANGED <<watchVars, opened, poolVars, callVars, connects,
                 prefetch, down>>

\* The pairs left of the operating limit (operating_capacity).
Remaining(s) == IF Open(s) THEN OperatingMax - sess[s].used ELSE 0

\* replenish_spare_streams: the task opens one more spare stream, or is done.
Replenish(s) ==
  /\ sess[s].warm
  /\ sess' = IF sess[s].spare < SpareCap /\ ~IsFull(s) /\ Remaining(s) > 0
             THEN [sess EXCEPT ![s].used = @ + 1, ![s].spare = @ + 1]
             ELSE [sess EXCEPT ![s].warm = FALSE]
  /\ UNCHANGED <<watchVars, opened, poolVars, callVars, connects,
                 prefetch, down>>

\* A stream that was handed out is dropped.
StreamDropped(s) ==
  /\ sess[s].used > sess[s].spare
  /\ sess' = [sess EXCEPT ![s].used = @ - 1]
  /\ UNCHANGED <<watchVars, opened, poolVars, callVars, connects,
                 prefetch, down>>

(***************************************************************************)
(* The pod watcher, as far as the Forwarder uses it.                       *)
(***************************************************************************)

watchRest == <<sess, opened, poolVars, callVars, connects, prefetch, down>>

PodReady(p) ==
  /\ p \notin alive \cup past
  /\ \A q \in alive : NameOf[q] # NameOf[p]
  /\ alive' = alive \cup {p}
  /\ latest' = IF latest = NoPod THEN p ELSE latest
  /\ UNCHANGED <<past, died, watchRest>>

PodDeleted(p) ==
  /\ p \in alive
  /\ alive' = alive \ {p}
  /\ past' = past \cup {p}
  /\ IF latest = p
     THEN latest' = NoPod /\ died' = Append(died, NameOf[p])
     ELSE UNCHANGED <<latest, died>>
  /\ UNCHANGED watchRest

\* handle_pod_died, for the next event of the reactor.
HandlePodDied ==
  /\ died # <<>> /\ down # "done"
  /\ died' = Tail(died)
  /\ IF target # NoPod /\ NameOf[target] = Head(died) /\ target \notin alive
     THEN /\ target' = NoPod
          /\ sess' = CancelAll(Range(entries))
          /\ entries' = <<>>
          /\ snapshot' = <<>>
     ELSE UNCHANGED <<target, sess, entries, snapshot>>
  /\ UNCHANGED <<alive, past, latest, opened, prefetch_in_flight, opening_count, callVars,
                 connects, prefetch, down>>

(***************************************************************************)
(* connect_on_pod and ensure_session_for_pod.  Goto is where a call goes   *)
(* on; the slot is given up at the end of an attempt.                      *)
(***************************************************************************)

callRest == <<watchVars, opened, connects, prefetch, down>>

Goto(c, l) == pc' = [pc EXCEPT ![c] = l]

\* The call returns, fails or is dropped: its locals go, the slot with them.
End(c) ==
  /\ pc' = [pc EXCEPT ![c] = "idle"]
  /\ port' = [port EXCEPT ![c] = 0]
  /\ ready' = [ready EXCEPT ![c] = NoPod]
  /\ retry' = [retry EXCEPT ![c] = FALSE]
  /\ chosen' = [chosen EXCEPT ![c] = 0]
  /\ slot' = [slot EXCEPT ![c] = FALSE]
  /\ opening_count' = IF slot[c] THEN opening_count - 1 ELSE opening_count
  /\ UNCHANGED drained

\* A call with target_port 0 is refused before it begins, and changes nothing.
Connect(c, prt) ==
  /\ pc[c] = "idle" /\ connects < MaxConnects /\ down = "up"
  /\ connects' = connects + 1
  /\ port' = [port EXCEPT ![c] = prt]
  /\ retry' = [retry EXCEPT ![c] = TRUE]
  /\ Goto(c, "resolve")
  /\ UNCHANGED <<watchVars, sess, opened, poolVars, ready, chosen, drained, slot, prefetch,
                 down>>

\* wait_for_ready_pod: the pod remembered if it is still ready, else some ready pod.
Resolve(c) ==
  /\ pc[c] = "resolve" /\ down = "up"
  /\ \E p \in IF latest \in alive THEN {latest} ELSE alive :
       /\ latest' = p
       /\ ready' = [ready EXCEPT ![c] = p]
  /\ Goto(c, "check")
  /\ UNCHANGED <<alive, past, died, sess, opened, poolVars, port, retry, chosen, drained,
                 slot, connects, prefetch, down>>

ResolveFails(c) ==
  /\ pc[c] = "resolve" /\ (alive = {} \/ down # "up")
  /\ latest' = IF down = "up" THEN NoPod ELSE latest
  /\ End(c)
  /\ UNCHANGED <<alive, past, died, sess, opened, entries, target, prefetch_in_flight,
                 snapshot, connects, prefetch, down>>

Check(c) ==
  /\ pc[c] = "check"
  /\ Goto(c, IF target = ready[c] THEN "reuse" ELSE "drain")
  /\ UNCHANGED <<callRest, sess, poolVars, port, ready, retry, chosen, drained, slot>>

\* Looks again under the write lock, and takes the pool over for the pod it resolved.
Drain(c) ==
  /\ pc[c] = "drain"
  /\ IF target = ready[c]
     THEN UNCHANGED <<target, entries, snapshot, drained>>
     ELSE /\ target' = ready[c]
          /\ drained' = [drained EXCEPT ![c] = Range(entries)]
          /\ entries' = <<>>
          /\ snapshot' = <<>>
  /\ Goto(c, "cancel")
  /\ UNCHANGED <<callRest, sess, prefetch_in_flight, opening_count, port, ready, retry,
                 chosen, slot>>

\* What was drained is cancelled once the lock is released.
CancelDrained(c) ==
  /\ pc[c] = "cancel"
  /\ sess' = CancelAll(drained[c])
  /\ drained' = [drained EXCEPT ![c] = {}]
  /\ Goto(c, "reuse")
  /\ UNCHANGED <<callRest, poolVars, port, ready, retry, chosen, slot>>

\* Variant: any session with room will do.
ServesAnyPort(s, prt) == ~IsCancelled(s) /\ ~IsFull(s)

\* session_serves
Serves(s, prt) == sess[s].port = prt /\ ~IsCancelled(s) /\ ~IsFull(s)

\* The first session of the snapshot that serves the port, or 0.
Reusable(prt) ==
  LET found == { i \in DOMAIN snapshot : Serves(snapshot[i], prt) }
  IN IF found = {} THEN 0
     ELSE snapshot[CHOOSE i \in found : \A j \in found : i <= j]

\* try_reuse_session and find_reusable_session: on to maybe_prefetch, or to miss.
TryReuse(c, at, miss) ==
  /\ pc[c] = at
  /\ chosen' = [chosen EXCEPT ![c] = Reusable(port[c])]
  /\ Goto(c, IF Reusable(port[c]) # 0 THEN "prefetch" ELSE miss)
  /\ UNCHANGED <<callRest, sess, poolVars, port, ready, retry, drained, slot>>

\* Vec::extract_if: what is left of q, in its order, without the elements of gone.
Without(q, gone) ==
  LET kept[i \in 0..Len(q)] ==
        IF i = 0 THEN <<>>
        ELSE IF q[i] \in gone THEN kept[i - 1] ELSE Append(kept[i - 1], q[i])
  IN kept[Len(q)]

\* retire_dead_sessions
Retire(c) ==
  LET gone == { s \in Range(entries) : IsDrained(s) } IN
  /\ pc[c] = "retire"
  /\ entries' = Without(entries, gone)
  /\ snapshot' = IF gone = {} THEN snapshot ELSE entries'
  /\ sess' = CancelAll(gone)
  /\ Goto(c, "find")
  /\ UNCHANGED <<callRest, target, prefetch_in_flight, opening_count, port, ready, retry,
                 chosen, drained, slot>>

\* The coalescing gate: the waiter is registered under the lock.
Gate(c) ==
  /\ pc[c] = "gate"
  /\ Goto(c, IF opening_count > 0 \/ prefetch_in_flight THEN "wait" ELSE "reserve")
  /\ UNCHANGED <<callRest, sess, poolVars, port, ready, retry, chosen, drained, slot>>

\* Variant: the wait lasts as long as the open it waits for.
WaitForOpen(c) ==
  /\ pc[c] = "wait" /\ opening_count = 0 /\ ~prefetch_in_flight
  /\ Goto(c, "reuse again")
  /\ UNCHANGED <<callRest, sess, poolVars, port, ready, retry, chosen, drained, slot>>

\* Notified that a session is there, or five seconds have passed.
Wait(c) ==
  /\ pc[c] = "wait"
  /\ Goto(c, "reuse again")
  /\ UNCHANGED <<callRest, sess, poolVars, port, ready, retry, chosen, drained, slot>>

ReserveNewSlot(c) ==
  /\ pc[c] = "reserve"
  /\ IF Len(entries) + opening_count >= MaxSessions
     THEN End(c)
     ELSE /\ slot' = [slot EXCEPT ![c] = TRUE]
          /\ opening_count' = opening_count + 1
          /\ Goto(c, "permit")
          /\ UNCHANGED <<port, ready, retry, chosen, drained>>
  /\ UNCHANGED <<callRest, sess, entries, target, prefetch_in_flight, snapshot>>

\* A permit of portforward_semaphore, or none in time.
AcquirePermit(c) ==
  /\ pc[c] = "permit"
  /\ \/ /\ Goto(c, "open")
        /\ UNCHANGED <<opening_count, port, ready, retry, chosen, drained, slot>>
     \/ End(c)
  /\ UNCHANGED <<callRest, sess, entries, target, prefetch_in_flight, snapshot>>

\* open_session, which no timeout ends: a connection to a pod of that name, if there is one.
OpenSession(c) ==
  /\ pc[c] = "open" /\ opened < MaxOpens
  /\ \E q \in Reached(ready[c]) :
       sess' = [sess EXCEPT ![opened + 1] = NewSession(ready[c], q, port[c])]
  /\ opened' = opened + 1
  /\ chosen' = [chosen EXCEPT ![c] = opened + 1]
  /\ Goto(c, "install")
  /\ UNCHANGED <<watchVars, poolVars, port, ready, retry, drained, slot,
                 connects, prefetch, down>>

OpenFails(c) ==
  /\ pc[c] = "open"
  /\ End(c)
  /\ UNCHANGED <<callRest, sess, entries, target, prefetch_in_flight, snapshot>>

\* Variant: the session is installed whatever the target is by now.
InstallAlways(c) ==
  /\ pc[c] = "install"
  /\ entries' = Append(entries, chosen[c])
  /\ snapshot' = entries'
  /\ Goto(c, "prefetch")
  /\ UNCHANGED <<sess, opening_count, port, ready, retry, chosen, drained, slot>>
  /\ UNCHANGED <<callRest, target, prefetch_in_flight>>

\* install_if_current: a session for a pod that is no longer the target is cancelled and
\* the call starts again, once.
Install(c) ==
  /\ pc[c] = "install"
  /\ \/ /\ target = ready[c]
        /\ entries' = Append(entries, chosen[c])
        /\ snapshot' = entries'
        /\ Goto(c, "prefetch")
        /\ UNCHANGED <<sess, opening_count, port, ready, retry, chosen, drained, slot>>
     \/ /\ target # ready[c]
        /\ sess' = CancelAll({chosen[c]})
        /\ IF retry[c]
           THEN /\ Goto(c, "resolve")
                /\ retry' = [retry EXCEPT ![c] = FALSE]
                /\ chosen' = [chosen EXCEPT ![c] = 0]
                /\ slot' = [slot EXCEPT ![c] = FALSE]
                /\ opening_count' = opening_count - 1
                /\ UNCHANGED <<port, ready, drained>>
           ELSE End(c)
        /\ UNCHANGED <<entries, snapshot>>
  /\ UNCHANGED <<callRest, target, prefetch_in_flight>>

\* ensure_session_for_pod returns: the slot is given up, a stream is asked for.
Return(c) ==
  /\ Goto(c, "stream")
  /\ slot' = [slot EXCEPT ![c] = FALSE]
  /\ opening_count' = IF slot[c] THEN opening_count - 1 ELSE opening_count

\* maybe_prefetch: a task that opens spare streams is spawned when they run low.
SpawnReplenish(c) ==
  LET s == chosen[c] IN
  /\ pc[c] = "prefetch"
  /\ sess' = [sess EXCEPT ![s].warm = @ \/ (sess[s].spare <= LowWatermark /\ ~IsFull(s))]
  /\ Goto(c, "threshold")
  /\ UNCHANGED <<callRest, poolVars, port, ready, retry, chosen, drained, slot>>

\* A prefetch is due when the pairs in use reach the threshold's share of the capacity.
MaybePrefetch(c) ==
  LET s == chosen[c] IN
  /\ pc[c] = "threshold"
  /\ IF Remaining(s) > 0 /\ sess[s].used * 100 >= Remaining(s) * Threshold
     THEN Goto(c, "claim") /\ UNCHANGED <<slot, opening_count>>
     ELSE Return(c)
  /\ UNCHANGED <<callRest, sess, entries, target, prefetch_in_flight, snapshot, port, ready,
                 retry, chosen, drained>>

\* One prefetch at a time, for the target, while the pool has room.
ClaimPrefetch(c) ==
  /\ pc[c] = "claim"
  /\ IF prefetch_in_flight \/ Len(entries) >= MaxSessions \/ target # ready[c]
     THEN Return(c) /\ UNCHANGED prefetch_in_flight
     ELSE /\ prefetch_in_flight' = TRUE
          /\ Goto(c, "spawn")
          /\ UNCHANGED <<slot, opening_count>>
  /\ UNCHANGED <<callRest, sess, entries, target, snapshot, port, ready, retry, chosen,
                 drained>>

\* The prefetch task is spawned once background_tasks is locked, which shutdown holds.
SpawnPrefetch(c) ==
  /\ pc[c] = "spawn" /\ down # "drained"
  /\ prefetch' = [step |-> "open", pod |-> ready[c], port |-> port[c], session |-> 0]
  /\ Return(c)
  /\ UNCHANGED <<watchVars, sess, opened, entries, target, prefetch_in_flight, snapshot,
                 port, ready, retry, chosen, drained, connects, down>>

\* Session::connect: a spare stream, or else a new one.  The mux refuses a pair above its
\* operating limit, and the call fails with the error it is given.  Spares that are closed
\* are dropped on the way, those of a closed session all.
OpenStream(c) ==
  LET s == chosen[c] IN
  /\ pc[c] = "stream"
  /\ \E stale \in 0..sess[s].spare :
       \/ /\ Open(s) /\ stale < sess[s].spare
          /\ sess' = [sess EXCEPT ![s].used = @ - stale, ![s].spare = @ - stale - 1]
       \/ /\ stale = sess[s].spare
          /\ sess' = [sess EXCEPT
               ![s].used = IF Open(s) /\ @ - stale < OperatingMax THEN @ - stale + 1
                           ELSE @ - stale,
               ![s].spare = 0]
  /\ End(c)
  /\ UNCHANGED <<callRest, entries, target, prefetch_in_flight, snapshot>>

\* Variant: a dropped call takes its slot with it.
DropCallKeepsSlot(c) ==
  /\ pc[c] \notin {"idle", "cancel"}
  /\ sess' = IF pc[c] = "install" THEN CancelAll({chosen[c]}) ELSE sess
  /\ pc' = [pc EXCEPT ![c] = "idle"]
  /\ slot' = [slot EXCEPT ![c] = FALSE]
  /\ UNCHANGED <<callRest, poolVars, port, ready, retry, chosen, drained>>

\* The future is dropped at one of its awaits, by its owner or because the forwarder is
\* shut down.  A session not yet installed ends with it.
DropCall(c) ==
  /\ pc[c] \notin {"idle", "cancel"}
  /\ sess' = IF pc[c] = "install" THEN CancelAll({chosen[c]}) ELSE sess
  /\ End(c)
  /\ UNCHANGED <<callRest, entries, target, prefetch_in_flight, snapshot>>

(***************************************************************************)
(* Background tasks and shutdown.                                          *)
(***************************************************************************)

taskRest == <<watchVars, callVars, connects, down>>

PrefetchOpens ==
  /\ prefetch.step = "open" /\ opened < MaxOpens
  /\ \E q \in Reached(prefetch.pod) :
       sess' = [sess EXCEPT ![opened + 1] = NewSession(prefetch.pod, q, prefetch.port)]
  /\ opened' = opened + 1
  /\ prefetch' = [prefetch EXCEPT !.step = "install", !.session = opened + 1]
  /\ UNCHANGED <<poolVars, taskRest>>

PrefetchFails ==
  /\ prefetch.step = "open"
  /\ prefetch' = NoTask
  /\ prefetch_in_flight' = FALSE
  /\ UNCHANGED <<sess, opened, entries, target, opening_count, snapshot, taskRest>>

PrefetchInstalls ==
  /\ prefetch.step = "install"
  /\ prefetch_in_flight' = FALSE
  /\ IF Len(entries) < MaxSessions /\ target = prefetch.pod
     THEN /\ entries' = Append(entries, prefetch.session)
          /\ snapshot' = entries'
          /\ UNCHANGED sess
     ELSE /\ sess' = CancelAll({prefetch.session})
          /\ UNCHANGED <<entries, snapshot>>
  /\ prefetch' = NoTask
  /\ UNCHANGED <<opened, target, opening_count, taskRest>>

\* The entries to prune when those of old are older than idle_age: cancelled, or idle and
\* old, and never the last one.
Prunable(old) ==
  LET all == SelectSeq(entries,
               LAMBDA s : IsCancelled(s) \/ (sess[s].used = 0 /\ s \in old))
      limit == Len(entries) - 1
  IN Range(IF Len(all) <= limit THEN all ELSE SubSeq(all, 1, limit))

\* Variant: what is pruned is only forgotten.
PruneForgets ==
  /\ down # "done"
  /\ \E old \in SUBSET Range(entries) :
       /\ Prunable(old) # {}
       /\ entries' = Without(entries, Prunable(old))
       /\ snapshot' = entries'
       /\ UNCHANGED sess
  /\ UNCHANGED <<opened, target, prefetch_in_flight, opening_count, prefetch, taskRest>>

\* prune_once
PruneOnce ==
  /\ down # "done"
  /\ \E old \in SUBSET Range(entries) :
       /\ Prunable(old) # {}
       /\ entries' = Without(entries, Prunable(old))
       /\ snapshot' = entries'
       /\ sess' = CancelAll(Prunable(old))
  /\ UNCHANGED <<opened, target, prefetch_in_flight, opening_count, prefetch, taskRest>>

shutRest == <<watchVars, opened, callVars, connects>>

\* session_cancel is the parent of every session's token.
ShutdownCancels ==
  /\ down = "up"
  /\ down' = "cancelled"
  /\ sess' = CancelAll({ s \in Sessions : Open(s) \/ sess[s].state = "dead" })
  /\ UNCHANGED <<poolVars, prefetch, shutRest>>

\* drain_and_cancel_all
ShutdownDrains ==
  /\ down = "cancelled"
  /\ down' = "drained"
  /\ target' = NoPod
  /\ sess' = CancelAll(Range(entries))
  /\ entries' = <<>>
  /\ snapshot' = <<>>
  /\ UNCHANGED <<prefetch_in_flight, opening_count, prefetch, shutRest>>

\* The background tasks are aborted; a session the prefetch holds ends with it.
ShutdownAborts ==
  /\ down = "drained"
  /\ down' = "done"
  /\ sess' = [s \in Sessions |->
       [CancelAll(IF prefetch.step = "install" THEN {prefetch.session} ELSE {})[s]
          EXCEPT !.warm = FALSE]]
  /\ prefetch' = NoTask
  /\ UNCHANGED <<poolVars, shutRest>>

(***************************************************************************)
(* The specification.                                                      *)
(***************************************************************************)

\* One step of a call, whichever comes next; all but the end of open_session and DropCall.
Proceed(c) ==
  \/ Resolve(c) \/ ResolveFails(c)
  \/ Check(c) \/ Drain(c) \/ CancelDrained(c)
  \/ TryReuse(c, "reuse", "retire") \/ Retire(c) \/ TryReuse(c, "find", "gate")
  \/ Gate(c) \/ Wait(c) \/ TryReuse(c, "reuse again", "reserve")
  \/ ReserveNewSlot(c) \/ AcquirePermit(c) \/ Install(c)
  \/ SpawnReplenish(c) \/ MaybePrefetch(c)
  \/ ClaimPrefetch(c) \/ SpawnPrefetch(c) \/ OpenStream(c)

Step(c) == Proceed(c) \/ OpenSession(c) \/ OpenFails(c)

Next ==
  \/ \E c \in Callers : Step(c) \/ DropCall(c) \/ \E prt \in Ports : Connect(c, prt)
  \/ \E p \in Pods : PodReady(p) \/ PodDeleted(p)
  \/ HandlePodDied
  \/ \E s \in Sessions : SessionDies(s) \/ Replenish(s) \/ StreamDropped(s)
  \/ PrefetchOpens \/ PrefetchFails \/ PrefetchInstalls
  \/ PruneOnce
  \/ ShutdownCancels \/ ShutdownDrains \/ ShutdownAborts

Spec == Init /\ [][Next]_vars

\* The runtime polls a call whose await is over, or whose forwarder is shut down; a shutdown
\* that began goes on.  Nothing is assumed of open_session: of a peer that accepts the
\* connection and never answers no timeout of the code tells.
FairSpec ==
  /\ Spec
  /\ \A c \in Callers : WF_vars(Proceed(c)) /\ WF_vars(down # "up" /\ DropCall(c))
  /\ WF_vars(ShutdownDrains) /\ WF_vars(ShutdownAborts)

(***************************************************************************)
(* Properties.                                                             *)
(***************************************************************************)

Steps == {"idle", "resolve", "check", "drain", "cancel", "reuse", "retire", "find", "gate",
          "wait", "reuse again", "reserve", "permit", "open", "install", "prefetch",
          "threshold", "claim", "spawn", "stream"}

\* Every variable keeps its type: in particular opening_count never goes below 0, a
\* session is in the pool once, and no session has more pairs than it may open.
TypeOK ==
  /\ alive \subseteq Pods /\ past \subseteq Pods /\ latest \in Pods \cup {NoPod}
  /\ \A s \in Sessions : sess[s].used \in 0..OperatingMax /\ sess[s].spare \in 0..sess[s].used
  /\ opened \in 0..MaxOpens /\ connects \in 0..MaxConnects
  /\ IsInjective(entries) /\ Range(entries) \subseteq 1..opened
  /\ target \in Pods \cup {NoPod}
  /\ prefetch_in_flight \in BOOLEAN /\ opening_count \in 0..Cardinality(Callers)
  /\ pc \in [Callers -> Steps] /\ chosen \in [Callers -> 0..opened]
  /\ down \in {"up", "cancelled", "drained", "done"}

\* pool.rs:65-68: an open that fails, is refused or is dropped at any await gives its slot
\* back; opening_count counts the calls that hold one and is no more than max_sessions.
\* Every variable keeps its type meanwhile.
SlotsHeld ==
  /\ TypeOK
  /\ opening_count = Cardinality({ c \in Callers : slot[c] })
  /\ opening_count <= MaxSessions

\* The pool, and the snapshot read without its lock, hold only sessions opened for the
\* current target: neither an open nor a prefetch that was under way when the target
\* changed can bring a session of the former target back (install_if_current, Drain).
PoolFollowsTarget == \A s \in Range(entries) \cup Range(snapshot) : sess[s].for = target

\* No session is lost while it is open: it is in the pool, in the hands of the call or of
\* the prefetch that opened it, or among those a call is about to cancel.
NoSessionLost ==
  \A s \in Sessions : Open(s) =>
    \/ s \in Range(entries)
    \/ \E c \in Callers : s \in drained[c] \/ (pc[c] = "install" /\ chosen[c] = s)
    \/ prefetch.session = s

\* pool.rs:154-156: a call is never given a session of another port, which "would silently
\* send the traffic to that other port".
PortServed ==
  \A c \in Callers :
    pc[c] \in {"prefetch", "threshold", "claim", "spawn", "stream"} =>
      sess[chosen[c]].port = port[c]

\* Once shutdown has cancelled session_cancel no session is open, whatever opens and
\* prefetches were in flight and complete later.
ShutdownClosesAll == down # "up" => \A s \in Sessions : ~Open(s)

\* Every call of connect returns, unless it is its own open_session that never ends and the
\* forwarder stays up: it retries once, and the open of another call or of a prefetch, for
\* which it waits at the gate, cannot hold it up for good.
ConnectReturns ==
  \A c \in Callers : []<>(pc[c] = "idle") \/ <>[](pc[c] = "open" /\ down = "up")
=============================================================================
