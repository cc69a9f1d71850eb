---------------------- MODULE PortForwardSessionProofs ----------------------
(***************************************************************************)
(* A session is correct for any number of connections, openers and calls.  *)
(*                                                                         *)
(* The inductive invariant has two parts.  OpenInv is about open(): what   *)
(* its tasks do in each phase, what the server has answered to the probe   *)
(* and over which connections it asked.  StreamInv is about the calls of   *)
(* open_stream_pair: which handles a scan that has the counter to itself   *)
(* has looked at.  The parts meet in pool_len, which no longer changes     *)
(* once a call may be under way, and in the session's token.               *)
(***************************************************************************)

EXTENDS PortForwardSession, FiniteSetTheorems, TLAPS

(***************************************************************************)
(* Arithmetic modulo the number of handles.                                *)
(***************************************************************************)

\* Division with remainder.
LEMMA ModDiv ==
  ASSUME NEW n \in Nat, NEW m \in Nat \ {0}
  PROVE  /\ n % m \in 0 .. m - 1 /\ n \div m \in Nat /\ n = m * (n \div m) + (n % m)
  OBVIOUS

\* The remainder is unique.
LEMMA ModUnique ==
  ASSUME NEW m \in Nat \ {0}, NEW q \in Nat, NEW p \in Nat,
         NEW r \in 0 .. m - 1, NEW s \in 0 .. m - 1,
         m * q + r = m * p + s
  PROVE  r = s
<1>1. CASE q = p
  BY <1>1
<1>2. CASE q > p
  <2>1. PICK d \in Nat : q = p + 1 + d
    <3>1. q - p - 1 \in Nat /\ q = p + 1 + (q - p - 1)
      BY <1>2
    <3>. QED  BY <3>1
  <2>2. m * q = m * p + m + m * d /\ m * d >= 0
    BY <2>1
  <2>. QED  BY <2>2
<1>3. CASE q < p
  <2>1. PICK d \in Nat : p = q + 1 + d
    <3>1. p - q - 1 \in Nat /\ p = q + 1 + (p - q - 1)
      BY <1>3
    <3>. QED  BY <3>1
  <2>2. m * p = m * q + m + m * d /\ m * d >= 0
    BY <2>1
  <2>. QED  BY <2>2
<1>. QED  BY <1>1, <1>2, <1>3

\* The counter moves to the next handle, and from the last one to the first.
LEMMA ModNext ==
  ASSUME NEW n \in Nat, NEW m \in Nat \ {0}
  PROVE  /\ n % m \in 0 .. m - 1
         /\ (n + 1) % m = IF (n % m) = m - 1 THEN 0 ELSE (n % m) + 1
<1> DEFINE r == n % m
           q == n \div m
           s == (n + 1) % m
           p == (n + 1) \div m
<1>1. r \in 0 .. m - 1 /\ q \in Nat /\ n = m * q + r
  BY ModDiv
<1>2. s \in 0 .. m - 1 /\ p \in Nat /\ n + 1 = m * p + s
  <2>1. n + 1 \in Nat
    OBVIOUS
  <2>. QED  BY <2>1, ModDiv, Zenon
<1> HIDE DEF r, q, s, p
<1>3. CASE r = m - 1
  <2>1. m * (q + 1) + 0 = m * p + s /\ 0 \in 0 .. m - 1 /\ q + 1 \in Nat
    BY <1>1, <1>2, <1>3
  <2>. QED  BY <2>1, <1>1, <1>2, <1>3, ModUnique DEF r, s
<1>4. CASE r # m - 1
  <2>1. m * q + (r + 1) = m * p + s /\ r + 1 \in 0 .. m - 1
    BY <1>1, <1>2, <1>4
  <2>. QED  BY <2>1, <1>1, <1>2, <1>4, ModUnique DEF r, s
<1>. QED  BY <1>3, <1>4, <1>1 DEF r, s

\* Appending to a sequence of one element.
LEMMA AppendSecond == ASSUME NEW x, NEW y PROVE Append(<<x>>, y) = <<x, y>>
<1> DEFINE s == Append(<<x>>, y)
           t == <<x, y>>
           S == {x, y}
<1>0. <<x>> \in Seq(S) /\ Len(<<x>>) = 1 /\ y \in S /\ <<x>>[1] = x
  OBVIOUS
<1>1. s \in Seq(S) /\ Len(s) = 2 /\ s[1] = x /\ s[2] = y
  BY <1>0
<1>2. t \in Seq(S) /\ Len(t) = 2 /\ t[1] = x /\ t[2] = y
  OBVIOUS
<1> HIDE DEF s, t, S
<1>3. s = [i \in 1..2 |-> s[i]] /\ t = [i \in 1..2 |-> t[i]]
  BY <1>1, <1>2
<1>4. \A i \in 1..2 : s[i] = t[i]
  BY <1>1, <1>2
<1>. QED  BY <1>3, <1>4 DEF s, t

\* Sequences of at most two elements.
LEMMA ShortSequences ==
  /\ Len(<<>>) = 0
  /\ \A x : /\ Append(<<>>, x) = <<x>> /\ <<x>> # <<>> /\ Len(<<x>>) = 1
            /\ <<x>>[1] = x /\ Head(<<x>>) = x /\ Tail(<<x>>) = <<>>
  /\ \A x, y : /\ Append(<<x>>, y) = <<x, y>> /\ <<x, y>> # <<>> /\ Len(<<x, y>>) = 2
               /\ <<x, y>>[1] = x /\ <<x, y>>[2] = y
BY AppendSecond

(***************************************************************************)
(* The inductive invariant: open().                                        *)
(***************************************************************************)

Ended == {"spawn", "open", "failed", "dropped"}

\* The probe is the only task until it is done; the others then run until the last is done.
TasksFollowPhase ==
  /\ phase \in {"probe", "fallback"} =>
       /\ task[0] \in {"send", "wait", "refused"}
       /\ \A t \in Open!Tasks \ {0} : task[t] = "none"
  /\ phase = "extras" => /\ task[0] = "done"
                         /\ \A t \in Open!Tasks : task[t] \in {"send", "wait", "refused", "done"}
  /\ phase \in Ended => \A t \in Open!Tasks : task[t] = "none"

\* A request that was sent is on a connection.
OnConnection == \A t \in Open!Tasks : task[t] \in {"wait", "refused"} => on[t] \in Conns

\* A connection is upgraded by a task that is done.
UpgradedByDone ==
  /\ phase \in {"probe", "fallback"} => upgraded = 0
  /\ phase = "extras" => upgraded <= Cardinality({t \in Open!Tasks : task[t] = "done"})
  /\ phase \in {"probe", "fallback", "extras"} => tried_transports = 0

\* What the server answered to the tunnel, as long as the fallback may ask.
TunnelAnswer ==
  IF ws_err.kind = "UpgradeFailed" THEN <<ws_err.status>> ELSE <<>>

\* The probe knows what the server answered, and has signalled nothing yet.
AnswersKnown ==
  /\ phase = "probe" =>
       /\ ws_err = Open!NoError
       /\ answers = IF task[0] = "refused" THEN <<status>> ELSE <<>>
       /\ task[0] # "send" => names_valid
  /\ phase = "fallback" =>
       /\ answers = IF task[0] = "refused" THEN Append(TunnelAnswer, status) ELSE TunnelAnswer
       /\ names_valid
  /\ phase # "failed" => signals = <<>>

\* Gone or poisoned: the client's pool does not hand it out, even after taking it back.
NotHandedOut(c) == http[c] = "gone" \/ (http[c] # "absent" /\ c \in poisoned)

\* The connections the probe's requests went over.
RodeKnown ==
  /\ phase = "probe" /\ task[0] = "send" => rode = <<>>
  /\ phase = "probe" /\ task[0] # "send" =>
       on[0] \in Conns /\ rode = <<on[0]>> /\ http[on[0]] # "absent"
  /\ phase = "fallback" /\ task[0] = "send" =>
       \E c \in Conns : rode = <<c>> /\ NotHandedOut(c)
  /\ phase = "fallback" /\ task[0] # "send" =>
       \E c, d \in Conns : rode = <<c, d>> /\ c # d

OpenInv ==
  /\ Open!TypeOK /\ TasksFollowPhase /\ OnConnection /\ UpgradedByDone /\ AnswersKnown
  /\ RodeKnown /\ SignalsMatchOutcome /\ FallbackElsewhere

(***************************************************************************)
(* The inductive invariant: streams.                                       *)
(***************************************************************************)

Busy(o) == pc[o] # "idle"

\* The handles the last r rounds of a scan have looked at, the counter being at c.
Window(c, r, n) == {h \in 0 .. n - 1 : (h < c /\ c - h <= r) \/ (h >= c /\ c + n - h <= r)}

\* The handle a call is trying, and the ones a scan of its own has found without room.
CallOK(o) ==
  /\ Busy(o) => phase = "open"
  /\ pc[o] = "pick" => pool_len >= 2
  /\ pc[o] \in {"check", "open"} => at[o] \in Handles
  /\ pc[o] \notin {"check", "open"} => picks[o] = <<>>
  /\ picks[o] # <<>> => round[o] = 0
  /\ pc[o] = "pick" => round[o] = 0
  /\ alone[o] /\ pc[o] = "scan" => Window(next % pool_len, round[o], pool_len) \subseteq tried[o]
  /\ alone[o] /\ pc[o] \in {"check", "open"} =>
       Window(next % pool_len, round[o], pool_len) \subseteq tried[o] \cup {at[o]}

StreamInv == TypeOK /\ \A o \in Openers : CallOK(o)

Inv == OpenInv /\ StreamInv /\ CancelReachesAll

(***************************************************************************)
(* open() preserves its invariant.                                         *)
(***************************************************************************)

\* The first task is the probe's.
LEMMA ProbeIsTask == 0 \in Open!Tasks /\ PoolSize \in Nat \ {0}
BY RoutingAssumption DEF Open!Tasks

\* The others have positive numbers.
LEMMA TaskNumber == ASSUME NEW t \in Open!Tasks PROVE t > 0 <=> t # 0
BY RoutingAssumption DEF Open!Tasks

\* A task with a request of its own is the probe, or one of the others after it.
LEMMA PhaseOfTask ==
  ASSUME TasksFollowPhase, Open!TypeOK, NEW t \in Open!Tasks,
         task[t] \in {"send", "wait", "refused"}
  PROVE  \/ t = 0 /\ phase \in {"probe", "fallback"}
         \/ t # 0 /\ phase = "extras"
<1>1. phase \notin Ended
  BY Zenon DEF TasksFollowPhase
<1>2. phase \in {"probe", "fallback", "extras"}
  BY <1>1, Zenon DEF Open!TypeOK, Ended
<1>3. CASE phase = "extras"
  BY <1>3, Zenon DEF TasksFollowPhase
<1>4. CASE phase \in {"probe", "fallback"}
  BY <1>4, Zenon DEF TasksFollowPhase
<1>. QED  BY <1>2, <1>3, <1>4, Zenon

\* The initial states.
LEMMA OpenInit == Open!Init => OpenInv
<1> SUFFICES ASSUME Open!Init PROVE OpenInv
  BY Zenon
<1>1. /\ phase = "probe" /\ task = [t \in Open!Tasks |-> IF t = 0 THEN "send" ELSE "none"]
      /\ rode = <<>> /\ answers = <<>> /\ signals = <<>> /\ ws_err = Open!NoError
      /\ upgraded = 0 /\ tried_transports = 0 /\ pool_len = 0 /\ status = Open!NoStatus
  BY Zenon DEF Open!Init
<1>2. task[0] = "send" /\ \A t \in Open!Tasks \ {0} : task[t] = "none"
  BY <1>1, ProbeIsTask, Zenon
<1>3. /\ upgraded \in 0..PoolSize /\ tried_transports \in 0..upgraded
      /\ pool_len \in 0..tried_transports
  BY <1>1, ProbeIsTask
<1>4. Open!TypeOK
  <2>1. http \in [Conns -> {"absent", "idle", "busy", "answered", "gone"}]
    BY Zenon DEF Open!Init
  <2>2. task \in [Open!Tasks -> {"none", "send", "wait", "refused", "done"}]
    BY <1>1, Zenon
  <2>. QED  BY <1>1, <1>3, <2>1, <2>2, Zenon DEF Open!Init, Open!TypeOK
<1>5. TasksFollowPhase /\ OnConnection /\ UpgradedByDone
  BY <1>1, <1>2, ProbeIsTask, Zenon DEF TasksFollowPhase, OnConnection, UpgradedByDone, Ended
<1>6. AnswersKnown /\ RodeKnown
  BY <1>1, <1>2, Zenon DEF AnswersKnown, RodeKnown
<1>7. SignalsMatchOutcome /\ FallbackElsewhere
  BY <1>1, ShortSequences DEF SignalsMatchOutcome, FallbackElsewhere, Open!SignalsMatchOutcome,
     Open!FallbackElsewhere
<1>. QED  BY <1>4, <1>5, <1>6, <1>7, Zenon DEF OpenInv

\* Steps after the requests: the muxes are started, the token is cancelled.
LEMMA LaterStep ==
  ASSUME OpenInv, Open!TypeOK',
         phase' = phase \/ (phase = "spawn" /\ phase' = "open")
                        \/ (phase = "spawn" /\ phase' = "failed" /\ error'.kind = "Mux"),
         phase' = phase => UNCHANGED error,
         phase # "spawn" => UNCHANGED tried_transports,
         UNCHANGED <<task, on, http, poisoned, names_valid, status, ws_err, chosen, upgraded,
                     signals, rode, answers>>
  PROVE  OpenInv'
<1>1. TasksFollowPhase' /\ OnConnection'
  BY Zenon DEF OpenInv, TasksFollowPhase, OnConnection, Ended
<1>2. UpgradedByDone'
  BY Zenon DEF OpenInv, UpgradedByDone
<1>3. AnswersKnown'
  BY Zenon DEF OpenInv, AnswersKnown, TunnelAnswer
<1>4. RodeKnown'
  BY Zenon DEF OpenInv, RodeKnown, NotHandedOut
<1>5. SignalsMatchOutcome' /\ FallbackElsewhere'
  <2>1. FallbackElsewhere'
    BY Zenon DEF OpenInv, FallbackElsewhere, Open!FallbackElsewhere
  <2>2. CASE phase' = phase
    BY <2>1, <2>2, Zenon DEF OpenInv, SignalsMatchOutcome, Open!SignalsMatchOutcome
  <2>3. CASE phase = "spawn"
    BY <2>1, <2>3, Zenon DEF OpenInv, AnswersKnown, SignalsMatchOutcome, Open!SignalsMatchOutcome
  <2>. QED  BY <2>1, <2>2, <2>3, Zenon
<1>. QED  BY <1>1, <1>2, <1>3, <1>4, <1>5, Zenon DEF OpenInv

\* Session::with_config, and the token.
LEMMA MuxSteps ==
  ASSUME OpenInv, Open!PingAnswered \/ Open!MuxStarted \/ Open!AllStarted \/ Open!Cancel
  PROVE  OpenInv'
<1> USE DEF Open!http_vars, Open!outcome, Open!mux_vars, Open!history
<1>1. CASE Open!PingAnswered
  <2>1. Open!TypeOK'
    BY <1>1, Zenon DEF Open!PingAnswered, OpenInv, Open!TypeOK
  <2>. QED  BY <1>1, <2>1, LaterStep, Zenon DEF Open!PingAnswered
<1>2. CASE Open!MuxStarted
  <2>1. tried_transports' \in 0..upgraded' /\ pool_len' \in 0..tried_transports'
    BY <1>2 DEF Open!MuxStarted, OpenInv, Open!TypeOK
  <2>2. Open!TypeOK'
    BY <1>2, <2>1, Zenon DEF Open!MuxStarted, OpenInv, Open!TypeOK
  <2>. QED  BY <1>2, <2>2, LaterStep, Zenon DEF Open!MuxStarted
<1>3. CASE Open!AllStarted
  <2>1. Open!TypeOK'
    BY <1>3, Zenon DEF Open!AllStarted, OpenInv, Open!TypeOK
  <2>2. phase' = "failed" => error'.kind = "Mux"
    BY <1>3 DEF Open!AllStarted, Open!Err
  <2>3. phase = "spawn" /\ phase' \in {"open", "failed"}
    BY <1>3, Zenon DEF Open!AllStarted
  <2>. QED  BY <1>3, <2>1, <2>2, <2>3, LaterStep, Zenon DEF Open!AllStarted
<1>4. CASE Open!Cancel
  <2>1. Open!TypeOK'
    BY <1>4, Zenon DEF Open!Cancel, OpenInv, Open!TypeOK
  <2>. QED  BY <1>4, <2>1, LaterStep, Zenon DEF Open!Cancel
<1>. QED  BY <1>1, <1>2, <1>3, <1>4, Zenon

\* The future of open() is dropped.
LEMMA DropOpenStep ==
  ASSUME OpenInv, Open!DropOpen
  PROVE  OpenInv'
<1> USE DEF Open!http_vars, Open!outcome, Open!mux_vars, Open!history
<1>1. phase' = "dropped" /\ phase # "failed" /\ UNCHANGED <<rode, answers, signals>>
  BY Zenon DEF Open!DropOpen
<1>2. Open!TypeOK'
  BY Zenon DEF Open!DropOpen, OpenInv, Open!TypeOK
<1>3. TasksFollowPhase' /\ OnConnection' /\ UpgradedByDone'
  BY Zenon DEF Open!DropOpen, TasksFollowPhase, OnConnection, UpgradedByDone
<1>4. AnswersKnown' /\ RodeKnown'
  BY <1>1, Zenon DEF OpenInv, AnswersKnown, RodeKnown
<1>5. SignalsMatchOutcome' /\ FallbackElsewhere'
  BY <1>1, Zenon DEF OpenInv, AnswersKnown, SignalsMatchOutcome, FallbackElsewhere,
     Open!SignalsMatchOutcome, Open!FallbackElsewhere
<1>. QED  BY <1>2, <1>3, <1>4, <1>5, Zenon DEF OpenInv

\* The client's pool takes a connection back.
LEMMA PoolTakesBackStep ==
  ASSUME OpenInv, NEW c \in Conns, Open!PoolTakesBack(c)
  PROVE  OpenInv'
<1> USE DEF Open!http_vars, Open!outcome, Open!mux_vars, Open!history
<1>0. /\ http[c] = "answered" /\ http'[c] = "idle" /\ \A d \in Conns \ {c} : http'[d] = http[d]
      /\ http' \in [Conns -> {"absent", "idle", "busy", "answered", "gone"}]
  BY Zenon DEF Open!PoolTakesBack, OpenInv, Open!TypeOK
<1>u. UNCHANGED <<phase, task, on, poisoned, names_valid, status, ws_err, chosen, upgraded, error,
                  signals, tried_transports, pinged, pool_len, cancelled, rode, answers>>
  BY Zenon DEF Open!PoolTakesBack
<1>1. Open!TypeOK'
  BY <1>0, <1>u, Zenon DEF OpenInv, Open!TypeOK
<1>2. TasksFollowPhase' /\ OnConnection' /\ UpgradedByDone' /\ AnswersKnown'
  BY <1>u, Zenon DEF OpenInv, TasksFollowPhase, OnConnection, UpgradedByDone, AnswersKnown,
     TunnelAnswer
<1>3. \A d \in Conns : NotHandedOut(d) => NotHandedOut(d)'
  BY <1>0, <1>u, Zenon DEF NotHandedOut
<1>4. \A d \in Conns : http[d] # "absent" => http'[d] # "absent"
  BY <1>0, Zenon
<1>5. RodeKnown'
  BY <1>3, <1>4, <1>u, Zenon DEF OpenInv, RodeKnown
<1>6. SignalsMatchOutcome' /\ FallbackElsewhere'
  BY <1>u, Zenon DEF OpenInv, SignalsMatchOutcome, FallbackElsewhere,
     Open!SignalsMatchOutcome, Open!FallbackElsewhere
<1>. QED  BY <1>1, <1>2, <1>5, <1>6, Zenon DEF OpenInv

\* A step of one of the other tasks, after which more are to come: the probe's past and the
\* outcome stay as they are.
LEMMA ExtrasStep ==
  ASSUME OpenInv, phase = "extras", phase' = "extras", Open!TypeOK', TasksFollowPhase',
         OnConnection', UpgradedByDone', UNCHANGED <<signals, rode>>
  PROVE  OpenInv'
<1>1. AnswersKnown' /\ RodeKnown'
  BY Zenon DEF OpenInv, AnswersKnown, RodeKnown
<1>2. FallbackElsewhere'
  BY Zenon DEF OpenInv, FallbackElsewhere, Open!FallbackElsewhere
<1>3. SignalsMatchOutcome'
  BY Zenon DEF OpenInv, AnswersKnown, SignalsMatchOutcome, Open!SignalsMatchOutcome
<1>. QED  BY <1>1, <1>2, <1>3, Zenon DEF OpenInv

\* A step of the probe that ends neither the tunnel nor the fallback.
LEMMA ProbeStep ==
  ASSUME OpenInv, phase \in {"probe", "fallback"}, NEW l \in {"wait", "refused"},
         task' = [task EXCEPT ![0] = l], Open!TypeOK', OnConnection', AnswersKnown', RodeKnown',
         UNCHANGED <<phase, upgraded, tried_transports, signals>>
  PROVE  OpenInv'
<1>p. task'[0] = l /\ \A t \in Open!Tasks \ {0} : task'[t] = task[t]
  BY ProbeIsTask, Zenon DEF OpenInv, Open!TypeOK
<1>1. TasksFollowPhase'
  BY <1>p, Zenon DEF OpenInv, TasksFollowPhase, Ended
<1>2. UpgradedByDone'
  BY Zenon DEF OpenInv, UpgradedByDone
<1>3. SignalsMatchOutcome'
  BY Zenon DEF AnswersKnown, SignalsMatchOutcome, Open!SignalsMatchOutcome
<1>4. FallbackElsewhere'
  <2>1. CASE phase = "probe"
    <3>1. rode' = <<on'[0]>>
      BY <2>1, <1>p, Zenon DEF RodeKnown
    <3>. QED  BY <3>1, ShortSequences DEF FallbackElsewhere, Open!FallbackElsewhere
  <2>2. CASE phase = "fallback"
    <3>1. PICK c \in Conns, d \in Conns : rode' = <<c, d>> /\ c # d
      BY <2>2, <1>p, Zenon DEF RodeKnown
    <3>. QED  BY <3>1, ShortSequences, Zenon DEF FallbackElsewhere, Open!FallbackElsewhere
  <2>. QED  BY <2>1, <2>2, Zenon
<1>. QED  BY <1>1, <1>2, <1>3, <1>4, Zenon DEF OpenInv

\* A task of the join set moves without being done.
LEMMA OtherTaskMoves ==
  ASSUME OpenInv, phase = "extras", NEW t \in Open!Tasks \ {0}, task[t] # "done",
         NEW l \in {"wait", "refused"}, task' = [task EXCEPT ![t] = l],
         UNCHANGED <<phase, upgraded, tried_transports>>
  PROVE  TasksFollowPhase' /\ UpgradedByDone'
<1>p. task'[t] = l /\ \A u \in Open!Tasks \ {t} : task'[u] = task[u]
  BY Zenon DEF OpenInv, Open!TypeOK
<1>1. TasksFollowPhase'
  BY <1>p, ProbeIsTask, Zenon DEF OpenInv, TasksFollowPhase, Ended
<1>2. {u \in Open!Tasks : task'[u] = "done"} = {u \in Open!Tasks : task[u] = "done"}
  BY <1>p, Zenon
<1>3. UpgradedByDone'
  BY <1>2, Zenon DEF OpenInv, UpgradedByDone
<1>. QED  BY <1>1, <1>3

\* A request goes out over a connection that is idle and sound, or new.
LEMMA SendRequestStep ==
  ASSUME OpenInv, NEW t \in Open!Tasks, Open!SendRequest(t)
  PROVE  OpenInv'
<1> USE DEF Open!outcome, Open!mux_vars
<1>a. task[t] = "send" /\ task' = [task EXCEPT ![t] = "wait"] /\ names_valid
  BY Zenon DEF Open!SendRequest
<1>c. PICK c \in Conns :
        /\ http[c] = "absent" \/ (http[c] = "idle" /\ c \notin poisoned)
        /\ http' = [http EXCEPT ![c] = "busy"] /\ on' = [on EXCEPT ![t] = c]
        /\ rode' = IF t = 0 THEN Append(rode, c) ELSE rode
  BY Zenon DEF Open!SendRequest
<1>u. UNCHANGED <<phase, poisoned, names_valid, status, ws_err, chosen, upgraded, error, signals,
                  tried_transports, pinged, pool_len, cancelled, answers>>
  BY Zenon DEF Open!SendRequest
<1>1. Open!TypeOK'
  BY <1>a, <1>c, <1>u, Zenon DEF OpenInv, Open!TypeOK
<1>o. OnConnection'
  BY <1>a, <1>c, Zenon DEF OpenInv, Open!TypeOK, OnConnection
<1>2. \/ t = 0 /\ phase \in {"probe", "fallback"}
      \/ t # 0 /\ phase = "extras"
  BY <1>a, PhaseOfTask, Zenon DEF OpenInv
<1>3. CASE t = 0
  <2>1. task'[0] = "wait" /\ task[0] = "send" /\ on'[0] = c /\ http'[c] = "busy"
    BY <1>a, <1>c, <1>3, Zenon DEF OpenInv, Open!TypeOK
  <2>2. AnswersKnown'
    BY <1>a, <1>u, <2>1, Zenon DEF OpenInv, AnswersKnown, TunnelAnswer
  <2>3. RodeKnown'
    <3>1. CASE phase = "probe"
      <4>1. rode' = <<c>>
        BY <1>c, <1>3, <2>1, <3>1, ShortSequences, Zenon DEF OpenInv, RodeKnown
      <4>. QED  BY <1>u, <2>1, <3>1, <4>1, Zenon DEF RodeKnown
    <3>2. CASE phase = "fallback"
      <4>1. PICK d \in Conns : rode = <<d>> /\ NotHandedOut(d)
        BY <2>1, <3>2, Zenon DEF OpenInv, RodeKnown
      <4>2. rode' = <<d, c>> /\ d # c
        BY <1>c, <1>3, <4>1, ShortSequences, Zenon DEF NotHandedOut
      <4>. QED  BY <1>u, <2>1, <3>2, <4>2, Zenon DEF RodeKnown
    <3>. QED  BY <1>2, <1>3, <3>1, <3>2, Zenon
  <2>. QED  BY <1>a, <1>u, <1>o, <1>1, <1>2, <1>3, <2>2, <2>3, ProbeStep, Zenon
<1>4. CASE t # 0
  <2>1. TasksFollowPhase' /\ UpgradedByDone'
    BY <1>a, <1>u, <1>2, <1>4, OtherTaskMoves, Zenon
  <2>. QED  BY <1>o, <1>1, <1>2, <1>4, <1>c, <1>u, <2>1, ExtrasStep, Zenon
<1>. QED  BY <1>3, <1>4, Zenon

\* The server refuses the upgrade.
LEMMA RefuseStep ==
  ASSUME OpenInv, NEW t \in Open!Tasks, Open!Refuse(t)
  PROVE  OpenInv'
<1> USE DEF Open!outcome, Open!mux_vars
<1>a. /\ task[t] = "wait" /\ task' = [task EXCEPT ![t] = "refused"]
      /\ http' = [http EXCEPT ![on[t]] = "answered"]
      /\ t = 0 => status' \in Statuses /\ answers' = Append(answers, status')
      /\ t # 0 => UNCHANGED status
  BY TaskNumber, Zenon DEF Open!Refuse
<1>u. UNCHANGED <<phase, on, poisoned, names_valid, ws_err, chosen, upgraded, error, signals,
                  tried_transports, pinged, pool_len, cancelled, rode>>
  BY Zenon DEF Open!Refuse
<1>h. /\ http' \in [Conns -> {"absent", "idle", "busy", "answered", "gone"}]
      /\ \A d \in Conns : http[d] # "absent" => http'[d] # "absent"
  BY <1>a, Zenon DEF OpenInv, Open!TypeOK
<1>1. Open!TypeOK'
  BY <1>a, <1>h, <1>u, Zenon DEF OpenInv, Open!TypeOK
<1>o. OnConnection'
  BY <1>a, <1>u, Zenon DEF OpenInv, Open!TypeOK, OnConnection
<1>2. \/ t = 0 /\ phase \in {"probe", "fallback"}
      \/ t # 0 /\ phase = "extras"
  BY <1>a, PhaseOfTask, Zenon DEF OpenInv
<1>3. CASE t = 0
  <2>1. task'[0] = "refused" /\ task[0] = "wait"
    BY <1>a, <1>3, Zenon DEF OpenInv, Open!TypeOK
  <2>2. AnswersKnown'
    <3>1. CASE phase = "probe"
      <4>1. answers' = <<status'>>
        BY <1>a, <1>3, <2>1, <3>1, ShortSequences, Zenon DEF OpenInv, AnswersKnown
      <4>. QED  BY <1>u, <2>1, <3>1, <4>1, Zenon DEF OpenInv, AnswersKnown
    <3>2. CASE phase = "fallback"
      <4>1. answers' = Append(TunnelAnswer, status') /\ TunnelAnswer' = TunnelAnswer
        BY <1>a, <1>u, <1>3, <2>1, <3>2, Zenon DEF OpenInv, AnswersKnown, TunnelAnswer
      <4>. QED  BY <1>u, <2>1, <3>2, <4>1, Zenon DEF OpenInv, AnswersKnown
    <3>. QED  BY <1>2, <1>3, <3>1, <3>2, Zenon
  <2>3. RodeKnown'
    BY <1>u, <1>h, <2>1, Zenon DEF OpenInv, RodeKnown
  <2>. QED  BY <1>a, <1>u, <1>o, <1>1, <1>2, <1>3, <2>2, <2>3, ProbeStep, Zenon
<1>4. CASE t # 0
  <2>1. TasksFollowPhase' /\ UpgradedByDone'
    BY <1>a, <1>u, <1>2, <1>4, OtherTaskMoves, Zenon
  <2>. QED  BY <1>o, <1>1, <1>2, <1>4, <1>u, <2>1, ExtrasStep, Zenon
<1>. QED  BY <1>3, <1>4, Zenon

\* The last status in a history of at most two.
LastStatus(a) == IF a = <<>> THEN Open!NoStatus ELSE a[Len(a)]

\* It is the status itself, or the second of two.
LEMMA LastStatusFacts ==
  /\ LastStatus(<<>>) = Open!NoStatus
  /\ \A x : LastStatus(<<x>>) = x
  /\ \A x, y : LastStatus(<<x, y>>) = y
BY ShortSequences, Zenon DEF LastStatus

HttpTypes == [Conns -> {"absent", "idle", "busy", "answered", "gone"}]

\* What becomes of the client's connections, and of the probe's past, when a request ends.
LEMMA ClientFacts ==
  ASSUME Open!TypeOK, NEW h \in HttpTypes, NEW p \in SUBSET Conns, Open!Client(h, p)
  PROVE  /\ http' \in HttpTypes /\ poisoned' \subseteq Conns
         /\ on' \in [Open!Tasks -> Conns \cup {NoConn}] /\ status' = Open!NoStatus
         /\ phase' \notin {"spawn", "failed"} => http' = h /\ poisoned' = p /\ on' = on
         /\ phase' \in {"extras", "spawn"} => rode' = <<>> /\ answers' = <<>>
         /\ phase' \notin {"extras", "spawn"} => rode' = rode /\ answers' = answers
<1>1. CASE phase' \in {"spawn", "failed"}
  BY <1>1, Zenon DEF Open!Client, Open!TypeOK, HttpTypes, Open!history
<1>2. CASE phase' \notin {"spawn", "failed"}
  BY <1>2, Zenon DEF Open!Client, Open!TypeOK, HttpTypes, Open!history
<1>. QED  BY <1>1, <1>2, Zenon

\* The types of the rest, when a request of the probe fails.
LEMMA EndTypes ==
  ASSUME Open!TypeOK, http' \in HttpTypes, poisoned' \subseteq Conns,
         on' \in [Open!Tasks -> Conns \cup {NoConn}], status' = Open!NoStatus,
         phase' \in {"fallback", "extras", "spawn", "failed"},
         task' \in [Open!Tasks -> {"none", "send", "wait", "refused", "done"}],
         chosen' \in {Open!Tunnel, Open!Legacy}, upgraded' \in 0 .. PoolSize,
         tried_transports \in 0 .. upgraded',
         UNCHANGED <<names_valid, tried_transports, pinged, pool_len, cancelled>>
  PROVE  Open!TypeOK'
BY Zenon DEF Open!TypeOK, HttpTypes

\* The error of the probe's request agrees with what the server has answered so far.
Explains(e) ==
  /\ e.kind \in {"UpgradeFailed", "ProtocolViolation", "Kube", "Network", "Configuration"}
  /\ answers = IF phase = "probe"
               THEN IF e.kind = "UpgradeFailed" THEN <<e.status>> ELSE <<>>
               ELSE IF e.kind = "UpgradeFailed" THEN Append(TunnelAnswer, e.status)
                    ELSE TunnelAnswer
  /\ e.kind = "Configuration" => phase = "probe"
  /\ e.kind # "Configuration" => names_valid

\* The tunnel fails: the fallback is next.
LEMMA ToFallback ==
  ASSUME OpenInv, phase = "probe", phase' = "fallback", Open!TypeOK',
         NEW e, Explains(e), Open!should_fallback(e), ws_err' = e, NotHandedOut(on[0])',
         task[0] # "send", task' = [task EXCEPT ![0] = "send"],
         UNCHANGED <<names_valid, on, upgraded, tried_transports, signals, rode, answers>>
  PROVE  OpenInv'
<1>p. task'[0] = "send" /\ \A t \in Open!Tasks \ {0} : task'[t] = task[t]
  BY ProbeIsTask, Zenon DEF OpenInv, Open!TypeOK
<1>e. e.kind \in {"UpgradeFailed", "ProtocolViolation"}
  BY Zenon DEF Open!should_fallback
<1>r. on[0] \in Conns /\ rode = <<on[0]>>
  BY Zenon DEF OpenInv, RodeKnown
<1>1. TasksFollowPhase' /\ OnConnection'
  BY <1>p, Zenon DEF OpenInv, TasksFollowPhase, OnConnection, Ended
<1>2. UpgradedByDone'
  BY Zenon DEF OpenInv, UpgradedByDone
<1>3. AnswersKnown'
  <2>1. answers' = TunnelAnswer'
    BY Zenon DEF Explains, TunnelAnswer
  <2>2. names_valid' /\ signals' = <<>>
    BY <1>e, Zenon DEF OpenInv, AnswersKnown, Explains
  <2>. QED  BY <1>p, <2>1, <2>2, Zenon DEF AnswersKnown
<1>4. RodeKnown'
  BY <1>p, <1>r, Zenon DEF RodeKnown
<1>5. SignalsMatchOutcome'
  BY <1>3, Zenon DEF AnswersKnown, SignalsMatchOutcome, Open!SignalsMatchOutcome
<1>6. FallbackElsewhere'
  BY Zenon DEF OpenInv, FallbackElsewhere, Open!FallbackElsewhere
<1>. QED  BY <1>1, <1>2, <1>3, <1>4, <1>5, <1>6, Zenon DEF OpenInv

\* The probe fails for good: one signal, with the last status, unless the names are at fault.
LEMMA ProbeGivesUp ==
  ASSUME OpenInv, phase \in {"probe", "fallback"}, phase' = "failed", Open!TypeOK',
         NEW e, Explains(e), error' = e, task' = [task EXCEPT ![0] = "none"],
         \/ /\ phase = "probe" /\ ~Open!should_fallback(e)
            /\ signals' = IF e.kind \in {"Kube", "Network"} THEN Append(signals, Open!NoStatus)
                          ELSE signals
         \/ phase = "fallback" /\ signals' = Append(signals, Open!SignalStatus(e)),
         UNCHANGED <<upgraded, tried_transports, rode, answers>>
  PROVE  OpenInv'
<1>p. \A t \in Open!Tasks : task'[t] = "none"
  BY ProbeIsTask, Zenon DEF OpenInv, Open!TypeOK, TasksFollowPhase
<1>s. signals = <<>>
  BY Zenon DEF OpenInv, AnswersKnown
<1>1. TasksFollowPhase' /\ OnConnection' /\ UpgradedByDone' /\ AnswersKnown' /\ RodeKnown'
  BY <1>p, Zenon DEF TasksFollowPhase, OnConnection, UpgradedByDone, AnswersKnown, RodeKnown
<1>2. FallbackElsewhere'
  BY Zenon DEF OpenInv, FallbackElsewhere, Open!FallbackElsewhere
<1>3. CASE phase = "probe" /\ e.kind = "Configuration"
  <2>1. signals' = <<>>
    BY <1>3, <1>s, Zenon
  <2>2. SignalsMatchOutcome'
    BY <1>3, <2>1, Zenon DEF SignalsMatchOutcome, Open!SignalsMatchOutcome
  <2>. QED  BY <1>1, <1>2, <2>2, Zenon DEF OpenInv
<1>4. CASE phase = "probe" /\ e.kind # "Configuration"
  <2>1. e.kind \in {"Kube", "Network"}
    BY <1>4, Zenon DEF Explains, Open!should_fallback
  <2>2. signals' = <<Open!NoStatus>> /\ answers' = <<>>
    BY <1>4, <1>s, <2>1, ShortSequences, Zenon DEF Explains
  <2>3. SignalsMatchOutcome'
    BY <2>1, <2>2, Zenon DEF SignalsMatchOutcome, Open!SignalsMatchOutcome
  <2>. QED  BY <1>1, <1>2, <2>3, Zenon DEF OpenInv
<1>5. CASE phase = "fallback"
  <2>1. e.kind \notin {"Configuration", "Mux"}
    BY <1>5, Zenon DEF Explains
  <2>2. signals' = <<Open!SignalStatus(e)>>
    BY <1>5, <1>s, ShortSequences, Zenon
  <2>3. Open!SignalStatus(e) = LastStatus(answers)
    <3>1. CASE e.kind = "UpgradeFailed"
      <4>1. answers = Append(TunnelAnswer, e.status) /\ Open!SignalStatus(e) = e.status
        BY <1>5, <3>1, Zenon DEF Explains, Open!SignalStatus
      <4>2. CASE TunnelAnswer = <<>>
        <5>1. answers = <<e.status>>
          BY <4>1, <4>2, ShortSequences, Zenon
        <5>. QED  BY <4>1, <5>1, LastStatusFacts, Zenon
      <4>3. CASE TunnelAnswer = <<ws_err.status>>
        <5>1. answers = <<ws_err.status, e.status>>
          BY <4>1, <4>3, ShortSequences, Zenon
        <5>. QED  BY <4>1, <5>1, LastStatusFacts, Zenon
      <4>. QED  BY <4>2, <4>3, Zenon DEF TunnelAnswer
    <3>2. CASE e.kind # "UpgradeFailed" /\ ws_err.kind = "UpgradeFailed"
      BY <1>5, <3>2, LastStatusFacts, Zenon DEF Explains, TunnelAnswer, Open!SignalStatus
    <3>3. CASE e.kind # "UpgradeFailed" /\ ws_err.kind # "UpgradeFailed"
      BY <1>5, <3>3, LastStatusFacts, Zenon DEF Explains, TunnelAnswer, Open!SignalStatus
    <3>. QED  BY <3>1, <3>2, <3>3, Zenon
  <2>4. SignalsMatchOutcome'
    BY <2>1, <2>2, <2>3, Zenon DEF SignalsMatchOutcome, Open!SignalsMatchOutcome, LastStatus
  <2>. QED  BY <1>1, <1>2, <2>4, Zenon DEF OpenInv
<1>. QED  BY <1>3, <1>4, <1>5, Zenon

\* A request of the probe fails.
LEMMA ProbeFailsStep ==
  ASSUME OpenInv, phase \in {"probe", "fallback"}, NEW e, Explains(e), Open!ProbeFails(e),
         NEW h \in HttpTypes, NEW p \in SUBSET Conns, Open!Client(h, p),
         Open!should_fallback(e) =>
           /\ task[0] # "send"
           /\ phase = "probe" => h[on[0]] = "gone" \/ (h[on[0]] # "absent" /\ on[0] \in p),
         UNCHANGED <<names_valid, Open!mux_vars>>
  PROVE  OpenInv'
<1> USE DEF Open!mux_vars
<1>0. /\ Open!TypeOK /\ UNCHANGED <<chosen, upgraded>> /\ phase' \in {"fallback", "failed"}
      /\ task' \in [Open!Tasks -> {"none", "send", "wait", "refused", "done"}]
  BY ProbeIsTask, Zenon DEF OpenInv, Open!TypeOK, Open!ProbeFails
<1>1. /\ http' \in HttpTypes /\ poisoned' \subseteq Conns
      /\ on' \in [Open!Tasks -> Conns \cup {NoConn}] /\ status' = Open!NoStatus
      /\ phase' = "fallback" => http' = h /\ poisoned' = p /\ on' = on
      /\ rode' = rode /\ answers' = answers
  BY <1>0, ClientFacts, Zenon
<1>2. Open!TypeOK'
  BY <1>0, <1>1, EndTypes, Zenon DEF Open!TypeOK
<1>3. CASE phase' = "fallback"
  <2>1. /\ phase = "probe" /\ Open!should_fallback(e) /\ ws_err' = e
        /\ task' = [task EXCEPT ![0] = "send"] /\ UNCHANGED signals
    BY <1>3, Zenon DEF Open!ProbeFails
  <2>2. NotHandedOut(on[0])'
    BY <1>1, <1>3, <2>1, Zenon DEF NotHandedOut
  <2>. QED  BY <1>0, <1>1, <1>2, <1>3, <2>1, <2>2, ToFallback, Zenon
<1>4. CASE phase' = "failed"
  <2>1. /\ error' = e /\ task' = [task EXCEPT ![0] = "none"]
        /\ \/ /\ phase = "probe" /\ ~Open!should_fallback(e)
              /\ signals' = IF e.kind \in {"Kube", "Network"} THEN Append(signals, Open!NoStatus)
                            ELSE signals
           \/ phase = "fallback" /\ signals' = Append(signals, Open!SignalStatus(e))
    BY <1>4, Zenon DEF Open!ProbeFails
  <2>. QED  BY <1>0, <1>1, <1>2, <1>4, <2>1, ProbeGivesUp, Zenon
<1>. QED  BY <1>0, <1>3, <1>4, Zenon

\* No more tasks are done than the pool has connections, the one that is done next included.
LEMMA DoneTasks ==
  ASSUME NEW D \in SUBSET Open!Tasks, NEW t \in Open!Tasks \ D
  PROVE  /\ Cardinality(D) \in Nat /\ Cardinality(D \cup {t}) = Cardinality(D) + 1
         /\ Cardinality(D) + 1 <= PoolSize
<1>1. IsFiniteSet(Open!Tasks) /\ Cardinality(Open!Tasks) = PoolSize
  <2>1. 0 \in Int /\ PoolSize - 1 \in Int /\ ~(0 > PoolSize - 1) /\ PoolSize - 1 - 0 + 1 = PoolSize
    BY ProbeIsTask
  <2>. QED  BY <2>1, FS_Interval DEF Open!Tasks
<1>2. IsFiniteSet(D) /\ Cardinality(D) \in Nat
  BY <1>1, FS_Subset, FS_CardinalityType, Zenon
<1>3. Cardinality(D \cup {t}) = Cardinality(D) + 1
  BY <1>2, FS_AddElement, Zenon
<1>4. D \cup {t} \subseteq Open!Tasks
  OBVIOUS
<1>5. Cardinality(D \cup {t}) <= Cardinality(Open!Tasks)
  BY <1>1, <1>4, FS_Subset, Zenon
<1>. QED  BY <1>1, <1>2, <1>3, <1>5

\* The muxes are next: every connection that could be upgraded is, and nothing is signalled.
LEMMA ToSpawn ==
  ASSUME OpenInv, phase # "failed", phase' = "spawn", Open!TypeOK',
         \A t \in Open!Tasks : task'[t] = "none", rode' = <<>>, UNCHANGED signals
  PROVE  OpenInv'
<1>1. TasksFollowPhase' /\ OnConnection' /\ UpgradedByDone' /\ AnswersKnown' /\ RodeKnown'
  BY Zenon DEF OpenInv, TasksFollowPhase, OnConnection, UpgradedByDone, AnswersKnown, RodeKnown
<1>2. SignalsMatchOutcome'
  BY Zenon DEF OpenInv, AnswersKnown, SignalsMatchOutcome, Open!SignalsMatchOutcome
<1>3. FallbackElsewhere'
  BY ShortSequences DEF FallbackElsewhere, Open!FallbackElsewhere
<1>. QED  BY <1>1, <1>2, <1>3, Zenon DEF OpenInv

\* A task of the join set is done, with a connection or without.
LEMMA JoinExtraStep ==
  ASSUME OpenInv, phase = "extras", NEW t \in Open!Tasks \ {0}, task[t] # "done",
         NEW n \in {0, 1}, Open!JoinExtra(t, n),
         NEW h \in HttpTypes, NEW p \in SUBSET Conns, Open!Client(h, p),
         UNCHANGED <<names_valid, Open!mux_vars>>
  PROVE  OpenInv'
<1> USE DEF Open!mux_vars
<1> DEFINE D == {u \in Open!Tasks : task[u] = "done"}
<1>0. /\ Open!TypeOK /\ upgraded' = upgraded + n /\ UNCHANGED <<ws_err, chosen, error, signals>>
      /\ \/ phase' = "spawn" /\ task' = [u \in Open!Tasks |-> "none"]
         \/ phase' = "extras" /\ task' = [task EXCEPT ![t] = "done"]
  BY Zenon DEF OpenInv, Open!JoinExtra
<1>1. /\ http' \in HttpTypes /\ poisoned' \subseteq Conns
      /\ on' \in [Open!Tasks -> Conns \cup {NoConn}] /\ status' = Open!NoStatus
      /\ rode' = <<>> /\ (phase' = "extras" => on' = on)
  BY <1>0, ClientFacts, Zenon
<1>2. Cardinality(D) \in Nat /\ Cardinality(D \cup {t}) = Cardinality(D) + 1
      /\ Cardinality(D) + 1 <= PoolSize
  BY DoneTasks, Zenon
<1>3. upgraded <= Cardinality(D) /\ tried_transports = 0 /\ upgraded \in 0..PoolSize
  BY Zenon DEF OpenInv, UpgradedByDone, Open!TypeOK
<1> HIDE DEF D
<1>4. upgraded' \in 0..PoolSize /\ upgraded' <= Cardinality(D \cup {t})
      /\ tried_transports \in 0..upgraded'
  <2>1. upgraded' = upgraded + n /\ n \in {0, 1}
    BY <1>0, Zenon
  <2>2. upgraded' \in Nat /\ upgraded' <= Cardinality(D) + 1
    BY <2>1, <1>2, <1>3
  <2>. QED  BY <2>2, <1>2, <1>3, ProbeIsTask
<1>5. task' \in [Open!Tasks -> {"none", "send", "wait", "refused", "done"}]
  BY <1>0, Zenon DEF Open!TypeOK
<1>6. Open!TypeOK'
  BY <1>0, <1>1, <1>4, <1>5, EndTypes, Zenon DEF Open!TypeOK
<1>7. CASE phase' = "spawn"
  <2>1. \A u \in Open!Tasks : task'[u] = "none"
    BY <1>0, <1>7, Zenon
  <2>. QED  BY <1>0, <1>1, <1>6, <1>7, <2>1, ToSpawn, Zenon
<1>8. CASE phase' = "extras"
  <2>p. task'[t] = "done" /\ \A u \in Open!Tasks \ {t} : task'[u] = task[u]
    BY <1>0, <1>8, Zenon DEF Open!TypeOK
  <2>1. TasksFollowPhase' /\ OnConnection'
    BY <1>1, <1>8, <2>p, ProbeIsTask, Zenon DEF OpenInv, TasksFollowPhase, OnConnection, Ended
  <2>2. {u \in Open!Tasks : task'[u] = "done"} = D \cup {t}
    BY <2>p, Zenon DEF D
  <2>3. UpgradedByDone'
    BY <1>3, <1>4, <1>8, <2>2, Zenon DEF UpgradedByDone
  <2>4. AnswersKnown' /\ RodeKnown'
    BY <1>0, <1>8, Zenon DEF OpenInv, AnswersKnown, RodeKnown
  <2>5. FallbackElsewhere'
    BY <1>1, ShortSequences DEF FallbackElsewhere, Open!FallbackElsewhere
  <2>6. SignalsMatchOutcome'
    BY <1>0, <1>8, Zenon DEF OpenInv, AnswersKnown, SignalsMatchOutcome, Open!SignalsMatchOutcome
  <2>. QED  BY <1>6, <2>1, <2>3, <2>4, <2>5, <2>6, Zenon DEF OpenInv
<1>. QED  BY <1>0, <1>7, <1>8, Zenon

\* The probe has a connection: the others are next, or the mux.
LEMMA ProbeSucceedsStep ==
  ASSUME OpenInv, phase \in {"probe", "fallback"}, Open!Succeeded(0),
         NEW h \in HttpTypes, NEW p \in SUBSET Conns, Open!Client(h, p),
         UNCHANGED <<names_valid, Open!mux_vars>>
  PROVE  OpenInv'
<1> USE DEF Open!mux_vars
<1>0. /\ Open!TypeOK /\ chosen' \in {Open!Tunnel, Open!Legacy} /\ upgraded' = 1
      /\ phase' = IF PoolSize > 1 THEN "extras" ELSE "spawn"
      /\ task' = [u \in Open!Tasks |-> IF PoolSize = 1 THEN "none"
                                       ELSE IF u = 0 THEN "done" ELSE "send"]
      /\ UNCHANGED <<error, signals>>
  <2>1. ~(0 > 0)
    OBVIOUS
  <2>. QED  BY <2>1, Zenon DEF OpenInv, Open!Succeeded
<1>1. /\ http' \in HttpTypes /\ poisoned' \subseteq Conns
      /\ on' \in [Open!Tasks -> Conns \cup {NoConn}] /\ status' = Open!NoStatus
      /\ rode' = <<>>
  BY <1>0, ClientFacts, Zenon
<1>2. tried_transports = 0
  BY Zenon DEF OpenInv, UpgradedByDone
<1>3. 1 \in 0..PoolSize /\ 0 \in 0..1 /\ (PoolSize > 1 <=> PoolSize # 1)
  BY ProbeIsTask
<1>4. task' \in [Open!Tasks -> {"none", "send", "wait", "refused", "done"}]
  BY <1>0, Zenon
<1>5. Open!TypeOK'
  BY <1>0, <1>1, <1>2, <1>3, <1>4, EndTypes, Zenon
<1>6. CASE PoolSize = 1
  <2>1. phase' = "spawn" /\ \A u \in Open!Tasks : task'[u] = "none"
    BY <1>0, <1>3, <1>6, Zenon
  <2>. QED  BY <1>0, <1>1, <1>5, <2>1, ToSpawn, Zenon
<1>7. CASE PoolSize # 1
  <2>1. /\ phase' = "extras"
        /\ \A u \in Open!Tasks : task'[u] = IF u = 0 THEN "done" ELSE "send"
    BY <1>0, <1>3, <1>7, Zenon
  <2>2. TasksFollowPhase' /\ OnConnection'
    BY <2>1, ProbeIsTask, Zenon DEF TasksFollowPhase, OnConnection, Ended
  <2>3. {u \in Open!Tasks : task'[u] = "done"} = {0}
    BY <2>1, ProbeIsTask, Zenon
  <2>4. Cardinality({0}) = 1
    BY FS_Singleton, Zenon
  <2>5. upgraded' <= Cardinality({0})
    BY <1>0, <2>4
  <2>6. UpgradedByDone'
    BY <1>2, <2>1, <2>3, <2>5, Zenon DEF UpgradedByDone
  <2>7. AnswersKnown' /\ RodeKnown'
    BY <1>0, <2>1, Zenon DEF OpenInv, AnswersKnown, RodeKnown
  <2>8. FallbackElsewhere'
    BY <1>1, ShortSequences DEF FallbackElsewhere, Open!FallbackElsewhere
  <2>9. SignalsMatchOutcome'
    BY <1>0, <2>1, Zenon DEF OpenInv, AnswersKnown, SignalsMatchOutcome, Open!SignalsMatchOutcome
  <2>. QED  BY <1>5, <2>2, <2>6, <2>7, <2>8, <2>9, Zenon DEF OpenInv
<1>. QED  BY <1>6, <1>7, Zenon

\* The fields of an error.
LEMMA ErrFields == \A k, s : Open!Err(k, s).kind = k /\ Open!Err(k, s).status = s
BY DEF Open!Err

\* The names are invalid: no request is made, and nothing is signalled.
LEMMA InvalidNamesStep ==
  ASSUME OpenInv, Open!InvalidNames
  PROVE  OpenInv'
<1> DEFINE e == Open!Err("Configuration", Open!NoStatus)
<1>a. task[0] = "send" /\ ~names_valid /\ Open!ProbeFails(e) /\ Open!Client(http, poisoned)
      /\ UNCHANGED <<names_valid, Open!mux_vars>>
  BY Zenon DEF Open!InvalidNames
<1>e. e.kind = "Configuration"
  BY ErrFields, Zenon
<1> HIDE DEF e
<1>1. phase \in {"probe", "fallback"}
  BY <1>a, PhaseOfTask, ProbeIsTask, Zenon DEF OpenInv
<1>2. phase = "probe"
  BY <1>a, <1>1, Zenon DEF OpenInv, AnswersKnown
<1>3. Explains(e) /\ ~Open!should_fallback(e)
  BY <1>a, <1>e, <1>2, Zenon DEF OpenInv, AnswersKnown, Explains, Open!should_fallback
<1>4. http \in HttpTypes /\ poisoned \in SUBSET Conns
  BY Zenon DEF OpenInv, Open!TypeOK, HttpTypes
<1>. QED  BY <1>a, <1>1, <1>3, <1>4, ProbeFailsStep, Zenon

\* A refused upgrade fails with the status, and its connection is poisoned.
LEMMA PoisonRejectedStep ==
  ASSUME OpenInv, NEW t \in Open!Tasks, Open!PoisonRejected(t)
  PROVE  OpenInv'
<1> DEFINE e == Open!Err("UpgradeFailed", status)
           p == poisoned \cup {on[t]}
<1>a. task[t] = "refused" /\ Open!Failed(t, e) /\ Open!Client(http, p)
      /\ UNCHANGED <<names_valid, Open!mux_vars>>
  BY Zenon DEF Open!PoisonRejected
<1>e. e.kind = "UpgradeFailed" /\ e.status = status
  BY ErrFields, Zenon
<1>0. on[t] \in p /\ (on[t] \in Conns => p \in SUBSET Conns)
  BY Zenon DEF OpenInv, Open!TypeOK
<1> HIDE DEF e
<1>1. \/ t = 0 /\ phase \in {"probe", "fallback"}
      \/ t # 0 /\ phase = "extras"
  BY <1>a, PhaseOfTask, Zenon DEF OpenInv
<1>2. on[t] \in Conns
  BY <1>a, <1>1, Zenon DEF OpenInv, OnConnection
<1>3. http \in HttpTypes /\ p \in SUBSET Conns
  BY <1>0, <1>2, Zenon DEF OpenInv, Open!TypeOK, HttpTypes
<1> HIDE DEF p
<1>4. CASE t = 0
  <2>1. phase \in {"probe", "fallback"} /\ Open!ProbeFails(e) /\ task[0] = "refused"
    BY <1>a, <1>1, <1>4, Zenon DEF Open!Failed
  <2>2. Explains(e)
    BY <1>e, <2>1, Zenon DEF OpenInv, AnswersKnown, Explains
  <2>3. phase = "probe" => http[on[0]] # "absent"
    BY <2>1, Zenon DEF OpenInv, RodeKnown
  <2>. QED  BY <1>a, <1>0, <1>3, <1>4, <2>1, <2>2, <2>3, ProbeFailsStep, Zenon
<1>5. CASE t # 0
  <2>1. phase = "extras" /\ Open!JoinExtra(t, 0) /\ task[t] # "done"
    BY <1>a, <1>1, <1>5, Zenon DEF Open!Failed
  <2>. QED  BY <1>a, <1>3, <1>5, <2>1, JoinExtraStep, Zenon
<1>. QED  BY <1>4, <1>5, Zenon

\* A request fails in another way; its connection is gone.
LEMMA FailRequestStep ==
  ASSUME OpenInv, NEW t \in Open!Tasks, Open!FailRequest(t)
  PROVE  OpenInv'
<1> DEFINE h == [http EXCEPT ![on[t]] = "gone"]
<1>a. task[t] = "wait" /\ Open!Client(h, poisoned) /\ UNCHANGED <<names_valid, Open!mux_vars>>
  BY Zenon DEF Open!FailRequest
<1>k. PICK k \in {"Kube", "ProtocolViolation", "Network"} :
           Open!Failed(t, Open!Err(k, Open!NoStatus))
  BY Zenon DEF Open!FailRequest
<1> DEFINE e == Open!Err(k, Open!NoStatus)
<1>e. e.kind = k
  BY ErrFields, Zenon
<1>b. Open!Failed(t, e)
  BY <1>k
<1> HIDE DEF e
<1>1. \/ t = 0 /\ phase \in {"probe", "fallback"}
      \/ t # 0 /\ phase = "extras"
  BY <1>a, PhaseOfTask, Zenon DEF OpenInv
<1>3. /\ h \in HttpTypes /\ poisoned \in SUBSET Conns
      /\ on[t] \in Conns => h[on[t]] = "gone"
  BY Zenon DEF OpenInv, Open!TypeOK, HttpTypes
<1> HIDE DEF h
<1>4. CASE t = 0
  <2>1. phase \in {"probe", "fallback"} /\ Open!ProbeFails(e) /\ task[0] = "wait"
    BY <1>a, <1>b, <1>1, <1>4, Zenon DEF Open!Failed
  <2>2. Explains(e)
    BY <1>e, <2>1, Zenon DEF OpenInv, AnswersKnown, Explains
  <2>3. phase = "probe" => on[0] \in Conns
    BY <2>1, Zenon DEF OpenInv, RodeKnown
  <2>. QED  BY <1>a, <1>3, <1>4, <2>1, <2>2, <2>3, ProbeFailsStep, Zenon
<1>5. CASE t # 0
  <2>1. phase = "extras" /\ Open!JoinExtra(t, 0) /\ task[t] # "done"
    BY <1>a, <1>b, <1>1, <1>5, Zenon DEF Open!Failed
  <2>. QED  BY <1>a, <1>3, <1>5, <2>1, JoinExtraStep, Zenon
<1>. QED  BY <1>4, <1>5, Zenon

\* A connection is upgraded.
LEMMA UpgradeStep ==
  ASSUME OpenInv, NEW t \in Open!Tasks, Open!Upgrade(t)
  PROVE  OpenInv'
<1> DEFINE h == [http EXCEPT ![on[t]] = "gone"]
<1>a. task[t] = "wait" /\ Open!Succeeded(t) /\ Open!Client(h, poisoned)
      /\ UNCHANGED <<names_valid, Open!mux_vars>>
  BY Zenon DEF Open!Upgrade
<1>1. \/ t = 0 /\ phase \in {"probe", "fallback"}
      \/ t # 0 /\ phase = "extras"
  BY <1>a, PhaseOfTask, Zenon DEF OpenInv
<1>2. h \in HttpTypes /\ poisoned \in SUBSET Conns
  BY Zenon DEF OpenInv, Open!TypeOK, HttpTypes
<1> HIDE DEF h
<1>3. CASE t = 0
  BY <1>a, <1>1, <1>2, <1>3, ProbeSucceedsStep, Zenon
<1>4. CASE t # 0
  <2>1. phase = "extras" /\ Open!JoinExtra(t, 1) /\ task[t] # "done"
    BY <1>a, <1>1, <1>4, TaskNumber, Zenon DEF Open!Succeeded
  <2>. QED  BY <1>a, <1>2, <1>4, <2>1, JoinExtraStep, Zenon
<1>. QED  BY <1>3, <1>4, Zenon

\* Every step of open() preserves its invariant.
LEMMA OpenNext == ASSUME OpenInv, Open!Next PROVE OpenInv'
BY InvalidNamesStep, SendRequestStep, RefuseStep, PoisonRejectedStep, FailRequestStep, UpgradeStep,
   PoolTakesBackStep, MuxSteps, DropOpenStep, Zenon DEF Open!Next

(***************************************************************************)
(* The streams preserve theirs.                                            *)
(***************************************************************************)

\* Before the first round nothing has been looked at; after as many rounds as there are
\* handles, everything; and a round looks at the handle the counter is at.
LEMMA WindowFacts ==
  ASSUME NEW n \in Nat \ {0}, NEW c \in 0 .. n - 1
  PROVE  /\ Window(c, 0, n) = {}
         /\ Window(c, n, n) = 0 .. n - 1
         /\ \A r \in Nat : Window(IF c = n - 1 THEN 0 ELSE c + 1, r + 1, n)
                             \subseteq Window(c, r, n) \cup {c}
<1>1. Window(c, 0, n) = {}
  BY DEF Window
<1>2. Window(c, n, n) = 0 .. n - 1
  BY DEF Window
<1>3. ASSUME NEW r \in Nat, c = n - 1
      PROVE  Window(0, r + 1, n) \subseteq Window(c, r, n) \cup {c}
  BY <1>3 DEF Window
<1>4. ASSUME NEW r \in Nat, c # n - 1
      PROVE  Window(c + 1, r + 1, n) \subseteq Window(c, r, n) \cup {c}
  BY <1>4 DEF Window
<1>. QED  BY <1>1, <1>2, <1>3, <1>4, Zenon

\* The same for the counter the calls share.
LEMMA CounterFacts ==
  ASSUME next \in Nat, pool_len \in Nat \ {0}
  PROVE  /\ next % pool_len \in Handles /\ (next + 1) % pool_len \in Handles
         /\ Window(next % pool_len, 0, pool_len) = {}
         /\ Window((next + 1) % pool_len, 0, pool_len) = {}
         /\ Window(next % pool_len, pool_len, pool_len) = Handles
         /\ \A r \in Nat : Window((next + 1) % pool_len, r + 1, pool_len)
                             \subseteq Window(next % pool_len, r, pool_len) \cup {next % pool_len}
<1> DEFINE c == next % pool_len
           d == (next + 1) % pool_len
<1>0. next + 1 \in Nat
  OBVIOUS
<1>1. c \in 0 .. pool_len - 1 /\ d \in 0 .. pool_len - 1
  BY <1>0, ModDiv, Zenon
<1>2. d = IF c = pool_len - 1 THEN 0 ELSE c + 1
  BY ModNext, Zenon
<1> HIDE DEF c, d
<1>3. /\ Window(c, 0, pool_len) = {} /\ Window(d, 0, pool_len) = {}
      /\ Window(c, pool_len, pool_len) = 0 .. pool_len - 1
      /\ \A r \in Nat : Window(d, r + 1, pool_len) \subseteq Window(c, r, pool_len) \cup {c}
  BY <1>1, <1>2, WindowFacts, Zenon
<1>. QED  BY <1>1, <1>3, Zenon DEF c, d, Handles

\* What open() does to a session with calls under way: nothing but cancel it.
LEMMA OpenEffects ==
  ASSUME OpenInv, Open!Next
  PROVE  /\ pool_len' \in Nat /\ pool_len \in Nat /\ pool_len <= pool_len'
         /\ phase = "open" => phase' = "open" /\ pool_len' = pool_len
<1> USE DEF Open!mux_vars
<1>0. pool_len \in Nat /\ pool_len' \in Nat
  <2>1. Open!TypeOK /\ Open!TypeOK'
    BY OpenNext, Zenon DEF OpenInv
  <2>. QED  BY <2>1 DEF Open!TypeOK
<1>1. CASE Open!MuxStarted
  <2>1. phase = "spawn" /\ pool_len' = pool_len + IF pinged THEN 1 ELSE 0
    BY <1>1, Zenon DEF Open!MuxStarted
  <2>. QED  BY <1>0, <2>1
<1>2. CASE \/ Open!InvalidNames
           \/ \E t \in Open!Tasks :
                \/ Open!SendRequest(t) \/ Open!Refuse(t) \/ Open!PoisonRejected(t)
                \/ Open!FailRequest(t) \/ Open!Upgrade(t)
  <2>1. pool_len' = pool_len
    BY <1>2, Zenon DEF Open!InvalidNames, Open!SendRequest, Open!Refuse, Open!PoisonRejected,
       Open!FailRequest, Open!Upgrade
  <2>2. \E t \in Open!Tasks : task[t] \in {"send", "wait", "refused"}
    BY <1>2, ProbeIsTask, Zenon DEF Open!InvalidNames, Open!SendRequest, Open!Refuse,
       Open!PoisonRejected, Open!FailRequest, Open!Upgrade
  <2>3. phase # "open"
    BY <2>2, PhaseOfTask, Zenon DEF OpenInv
  <2>. QED  BY <1>0, <2>1, <2>3
<1>3. CASE \/ \E c \in Conns : Open!PoolTakesBack(c)
           \/ Open!PingAnswered \/ Open!AllStarted \/ Open!Cancel \/ Open!DropOpen
  <2>1. pool_len' = pool_len /\ (phase = "open" => phase' = "open")
    BY <1>3, Zenon DEF Open!PoolTakesBack, Open!PingAnswered, Open!AllStarted, Open!Cancel,
       Open!DropOpen
  <2>. QED  BY <1>0, <2>1
<1>. QED  BY <1>1, <1>2, <1>3, Zenon DEF Open!Next

\* A longer pool has the handles of a shorter one.
LEMMA Prefixes ==
  ASSUME NEW m \in Nat, NEW n \in Nat, m <= n
  PROVE  0 .. m - 1 \subseteq 0 .. n - 1 /\ 0 .. m \subseteq 0 .. n
OBVIOUS

\* A step of open(): the handles grow in number, and the token closes them all.
LEMMA OpeningStep ==
  ASSUME Inv, Opening
  PROVE  Inv'
<1> USE DEF streamVars
<1>a. /\ Open!Next /\ closed' = IF cancelled' THEN 0 .. pool_len' - 1 ELSE closed
      /\ UNCHANGED <<goaway, active, next, pc, picks, round, at, tried, alone, result, opens>>
  BY Zenon DEF Opening
<1>1. OpenInv' /\ Open!TypeOK'
  BY <1>a, OpenNext, Zenon DEF Inv, OpenInv
<1>2. /\ pool_len' \in Nat /\ pool_len \in Nat /\ pool_len <= pool_len'
      /\ phase = "open" => phase' = "open" /\ pool_len' = pool_len
  BY <1>a, OpenEffects, Zenon DEF Inv
<1>3. Handles \subseteq Handles' /\ 0..pool_len \subseteq 0..pool_len'
  BY <1>2, Prefixes, Zenon DEF Handles
<1>4. closed' \subseteq Handles' /\ (cancelled' => Handles' \subseteq closed')
  BY <1>a, <1>3, Zenon DEF Inv, StreamInv, TypeOK, Handles
<1>5. TypeOK'
  <2>0. {<<>>} \cup { <<h>> : h \in Handles } \subseteq {<<>>} \cup { <<h>> : h \in Handles' }
    BY <1>3, Zenon
  <2>1. picks \in [Openers -> {<<>>} \cup { <<h>> : h \in Handles' }]
    BY <2>0, Zenon DEF Inv, StreamInv, TypeOK
  <2>2. round \in [Openers -> 0..pool_len'] /\ tried \in [Openers -> SUBSET Handles']
    BY <1>3, Zenon DEF Inv, StreamInv, TypeOK
  <2>. QED  BY <1>a, <1>3, <1>4, <2>1, <2>2, Zenon DEF Inv, StreamInv, TypeOK
<1>6. ASSUME NEW o \in Openers PROVE CallOK(o)'
  <2>1. CallOK(o)
    BY Zenon DEF Inv, StreamInv
  <2>2. CASE phase = "open"
    BY <1>a, <1>2, <2>1, <2>2, Zenon DEF CallOK, Busy, Handles
  <2>3. CASE phase # "open"
    BY <1>a, <2>1, <2>3, Zenon DEF CallOK, Busy
  <2>. QED  BY <2>2, <2>3, Zenon
<1>7. StreamInv'
  BY <1>5, <1>6, Zenon DEF StreamInv
<1>8. CancelReachesAll'
  BY <1>1, <1>4, <1>5, Zenon DEF CancelReachesAll, SessionTypeOK
<1>. QED  BY <1>1, <1>7, <1>8, Zenon DEF Inv

\* What the calls do leaves open() where it is.
LEMMA OpenKept ==
  ASSUME OpenInv, UNCHANGED openVars, pool_len' = pool_len
  PROVE  OpenInv'
<1> USE DEF openVars
<1>1. Open!TypeOK'
  BY Zenon DEF OpenInv, Open!TypeOK
<1>2. TasksFollowPhase' /\ OnConnection' /\ UpgradedByDone'
  BY Zenon DEF OpenInv, TasksFollowPhase, OnConnection, UpgradedByDone, Ended
<1>3. AnswersKnown'
  BY Zenon DEF OpenInv, AnswersKnown, TunnelAnswer
<1>4. RodeKnown'
  BY Zenon DEF OpenInv, RodeKnown, NotHandedOut
<1>5. SignalsMatchOutcome' /\ FallbackElsewhere'
  BY Zenon DEF OpenInv, SignalsMatchOutcome, FallbackElsewhere, Open!SignalsMatchOutcome,
     Open!FallbackElsewhere
<1>. QED  BY <1>1, <1>2, <1>3, <1>4, <1>5, Zenon DEF OpenInv

\* A step of the streams keeps the invariant when it keeps theirs and opens no handle again.
LEMMA StreamsStep ==
  ASSUME Inv, UNCHANGED openVars, pool_len' = pool_len, closed \subseteq closed', StreamInv'
  PROVE  Inv'
<1>1. OpenInv' /\ Open!TypeOK'
  BY OpenKept, Zenon DEF Inv, OpenInv
<1>2. cancelled' = cancelled /\ Handles' = Handles
  BY Zenon DEF openVars, Handles
<1>3. CancelReachesAll'
  BY <1>1, <1>2, Zenon DEF Inv, StreamInv, CancelReachesAll, SessionTypeOK
<1>. QED  BY <1>1, <1>3, Zenon DEF Inv

\* The numbers of a session: a handle is one of those asked for, and the counter names one.
LEMMA HandleNumbers ==
  ASSUME Inv
  PROVE  /\ pool_len \in Nat /\ Handles \subseteq 0 .. PoolSize - 1 /\ next + 1 \in Nat
         /\ \A r \in 0..pool_len : r < pool_len => r + 1 \in 0..pool_len
         /\ \A n \in 0..MaxOpens : n < MaxOpens => n + 1 \in 0..MaxOpens
         /\ \A n \in 0..Limit : ~(n >= Limit) => n + 1 \in 0..Limit
         /\ \A n \in 0..Limit : n > 0 => n - 1 \in 0..Limit
         /\ 0 \in 0..pool_len
         /\ \A r \in 0..pool_len : r < pool_len => pool_len \in Nat \ {0}
         /\ pool_len >= 2 => pool_len \in Nat \ {0}
         /\ \A r \in 0..pool_len : r \in Nat
<1>1. /\ upgraded \in 0 .. PoolSize /\ tried_transports \in 0 .. upgraded
      /\ pool_len \in 0 .. tried_transports
  BY Zenon DEF Inv, OpenInv, Open!TypeOK
<1>2. PoolSize \in Nat /\ Limit \in Nat /\ MaxOpens \in Nat
  BY RoutingAssumption, Zenon
<1>3. next \in Nat
  BY Zenon DEF Inv, StreamInv, TypeOK
<1>. QED  BY <1>1, <1>2, <1>3 DEF Handles

\* A step of one call: the others see at most the counter move, and know it.
LEMMA CallStep ==
  ASSUME Inv, phase = "open", UNCHANGED openVars, pool_len' = pool_len, closed' = closed,
         NEW o \in Openers, TypeOK', CallOK(o)',
         \A p \in Openers \ {o} :
           /\ pc'[p] = pc[p] /\ picks'[p] = picks[p] /\ round'[p] = round[p]
           /\ at'[p] = at[p] /\ tried'[p] = tried[p]
           /\ alone'[p] => alone[p] /\ next' = next
  PROVE  Inv'
<1>1. ASSUME NEW p \in Openers \ {o} PROVE CallOK(p)'
  <2>1. CallOK(p)
    BY Zenon DEF Inv, StreamInv
  <2>2. phase' = phase /\ Handles' = Handles
    BY Zenon DEF openVars, Handles
  <2>. QED  BY <2>1, <2>2, Zenon DEF CallOK, Busy
<1>2. StreamInv'
  BY <1>1, Zenon DEF StreamInv
<1>. QED  BY <1>2, StreamsStep, Zenon

\* A handle is closed, says GOAWAY or has a pair released: the calls stay where they are.
LEMMA HandleStep ==
  ASSUME Inv, phase \in {"open", "spawn"}, UNCHANGED openVars, NEW h \in Handles,
         ReleasePair(h) \/ GoAway(h) \/ CloseHandle(h)
  PROVE  Inv'
<1>1. /\ UNCHANGED <<pool_len, next, pc, picks, round, at, tried, result, opens>>
      /\ \A p \in Openers : alone'[p] => alone[p]
      /\ alone' \in [Openers -> BOOLEAN]
  BY Zenon DEF ReleasePair, GoAway, CloseHandle, DisturbAll, Inv, StreamInv, TypeOK
<1>2. /\ closed \subseteq closed' /\ closed' \subseteq Handles /\ goaway' \subseteq Handles
      /\ active' = active \/ (active[h] > 0 /\ active' = [active EXCEPT ![h] = @ - 1])
  BY Zenon DEF ReleasePair, GoAway, CloseHandle, Inv, StreamInv, TypeOK
<1>3. active' \in [0 .. PoolSize - 1 -> 0..Limit]
  <2>1. active \in [0 .. PoolSize - 1 -> 0..Limit] /\ h \in 0 .. PoolSize - 1
    BY HandleNumbers, Zenon DEF Inv, StreamInv, TypeOK
  <2>2. active[h] \in 0..Limit
    BY <2>1, Zenon
  <2>3. active[h] > 0 => active[h] - 1 \in 0..Limit
    BY <2>2, HandleNumbers, Zenon
  <2>. QED  BY <1>2, <2>1, <2>3, Zenon
<1>4. Handles' = Handles /\ phase' = phase
  BY <1>1, Zenon DEF Handles, openVars
<1>5. TypeOK'
  BY <1>1, <1>2, <1>3, <1>4, Zenon DEF Inv, StreamInv, TypeOK
<1>6. ASSUME NEW p \in Openers PROVE CallOK(p)'
  <2>1. CallOK(p)
    BY Zenon DEF Inv, StreamInv
  <2>. QED  BY <1>1, <1>4, <2>1, Zenon DEF CallOK, Busy
<1>7. StreamInv'
  BY <1>5, <1>6, Zenon DEF StreamInv
<1>. QED  BY <1>1, <1>2, <1>7, StreamsStep, Zenon

\* open_stream_pair begins: nothing has been looked at.
LEMMA BeginStep ==
  ASSUME Inv, phase = "open", UNCHANGED openVars, NEW o \in Openers, Begin(o)
  PROVE  Inv'
<1>1. /\ pool_len' = pool_len /\ closed' = closed /\ goaway' = goaway /\ active' = active
      /\ next' = next /\ picks' = picks /\ at' = at
  BY Zenon DEF Begin, handleVars
<1>2. phase' = phase /\ Handles' = Handles
  BY <1>1, Zenon DEF Handles, openVars
<1>3. CallOK(o) /\ pc[o] = "idle"
  BY Zenon DEF Inv, StreamInv, Begin
<1>4. TypeOK'
  <2>1. opens' \in 0..MaxOpens /\ 0 \in 0..pool_len
    BY HandleNumbers, Zenon DEF Begin, Inv, StreamInv, TypeOK
  <2>. QED  BY <1>1, <1>2, <2>1, Zenon DEF Begin, Inv, StreamInv, TypeOK
<1>5. /\ pc'[o] = IF pool_len >= 2 THEN "pick" ELSE "scan"
      /\ round'[o] = 0
  BY Zenon DEF Begin, Inv, StreamInv, TypeOK
<1>6. Window(next % pool_len, 0, pool_len) = {}
  <2>1. next \in Nat /\ pool_len \in Nat
    BY HandleNumbers, Zenon DEF Inv, StreamInv, TypeOK
  <2>2. CASE pool_len = 0
    BY <2>2 DEF Window
  <2>3. CASE pool_len # 0
    BY <2>1, <2>3, CounterFacts, Zenon
  <2>. QED  BY <2>2, <2>3, Zenon
<1>7. CallOK(o)'
  BY <1>1, <1>2, <1>3, <1>5, <1>6, Zenon DEF CallOK
<1>8. \A p \in Openers \ {o} :
        /\ pc'[p] = pc[p] /\ picks'[p] = picks[p] /\ round'[p] = round[p]
        /\ at'[p] = at[p] /\ tried'[p] = tried[p]
        /\ alone'[p] => alone[p] /\ next' = next
  BY <1>1, Zenon DEF Begin, Inv, StreamInv, TypeOK
<1>. QED  BY <1>1, <1>4, <1>7, <1>8, CallStep, Zenon

\* pick_two: both picks are handles of the session, and the scan has not begun.
LEMMA PickTwoStep ==
  ASSUME Inv, phase = "open", UNCHANGED openVars, NEW o \in Openers, PickTwo(o)
  PROVE  Inv'
<1>1. /\ pool_len' = pool_len /\ closed' = closed /\ goaway' = goaway /\ active' = active
      /\ round' = round /\ tried' = tried /\ result' = result /\ opens' = opens
      /\ next' = next + 1 /\ pc' = [pc EXCEPT ![o] = "check"]
      /\ alone' = [p \in Openers |-> alone[p] /\ p = o]
  BY Zenon DEF PickTwo, handleVars, Disturb
<1>2. phase' = phase /\ Handles' = Handles
  BY <1>1, Zenon DEF Handles, openVars
<1>3. pool_len \in Nat \ {0} /\ next \in Nat /\ round[o] = 0
  BY HandleNumbers, Zenon DEF Inv, StreamInv, TypeOK, PickTwo, CallOK
<1>4. PICK a \in Handles, b \in Handles :
        at' = [at EXCEPT ![o] = a] /\ picks' = [picks EXCEPT ![o] = <<b>>]
  <2>1. PICK hash \in Handles :
          LET c == next % pool_len
              d == IF hash = c THEN (c + 1) % pool_len ELSE hash
              orders == { order \in {<<c, d>>, <<d, c>>} :
                            order[1] \in closed => order[2] \in closed }
          IN \E order \in orders :
               /\ at' = [at EXCEPT ![o] = order[1]]
               /\ picks' = [picks EXCEPT ![o] = <<order[2]>>]
    BY Zenon DEF PickTwo
  <2> DEFINE c == next % pool_len
             d == IF hash = c THEN (c + 1) % pool_len ELSE hash
  <2>2. c \in Handles
    BY <1>3, CounterFacts, Zenon
  <2>3. (c + 1) % pool_len \in Handles
    BY <1>3, <2>2, ModDiv DEF Handles
  <2>4. d \in Handles
    BY <2>3, Zenon
  <2>5. PICK order \in {<<c, d>>, <<d, c>>} :
          /\ at' = [at EXCEPT ![o] = order[1]]
          /\ picks' = [picks EXCEPT ![o] = <<order[2]>>]
    BY <2>1, Zenon
  <2> HIDE DEF c, d
  <2>6. order[1] \in Handles /\ order[2] \in Handles
    BY <2>2, <2>4, <2>5
  <2>. QED  BY <2>5, <2>6, Zenon
<1>5. a \in 0 .. PoolSize - 1 /\ next + 1 \in Nat
  BY HandleNumbers, Zenon
<1>6. TypeOK'
  <2>1. picks' \in [Openers -> {<<>>} \cup { <<h>> : h \in Handles }]
    BY <1>4, Zenon DEF Inv, StreamInv, TypeOK
  <2>2. alone' \in [Openers -> BOOLEAN]
    BY <1>1, Zenon DEF Inv, StreamInv, TypeOK
  <2>3. at' \in [Openers -> 0 .. PoolSize - 1]
    BY <1>4, <1>5, Zenon DEF Inv, StreamInv, TypeOK
  <2>. QED  BY <1>1, <1>2, <1>5, <2>1, <2>2, <2>3, Zenon DEF Inv, StreamInv, TypeOK
<1>7. pc'[o] = "check" /\ at'[o] = a
  BY <1>1, <1>4, Zenon DEF Inv, StreamInv, TypeOK
<1>8. Window(next' % pool_len', round'[o], pool_len') = {}
  BY <1>1, <1>3, CounterFacts, Zenon
<1>9. CallOK(o)'
  BY <1>1, <1>2, <1>3, <1>7, <1>8, Zenon DEF CallOK
<1>10. \A p \in Openers \ {o} :
        /\ pc'[p] = pc[p] /\ picks'[p] = picks[p] /\ round'[p] = round[p]
        /\ at'[p] = at[p] /\ tried'[p] = tried[p]
        /\ alone'[p] => alone[p] /\ next' = next
  BY <1>1, <1>4, Zenon DEF Inv, StreamInv, TypeOK
<1>. QED  BY <1>1, <1>6, <1>9, <1>10, CallStep, Zenon

\* A round of the scan: the counter moves past the handle it looks at.
LEMMA ScanStep ==
  ASSUME Inv, phase = "open", UNCHANGED openVars, NEW o \in Openers, Scan(o)
  PROVE  Inv'
<1>1. /\ pool_len' = pool_len /\ closed' = closed /\ goaway' = goaway /\ active' = active
      /\ picks' = picks /\ tried' = tried /\ result' = result /\ opens' = opens
      /\ next' = next + 1 /\ pc' = [pc EXCEPT ![o] = "check"]
      /\ alone' = [p \in Openers |-> alone[p] /\ p = o]
      /\ at' = [at EXCEPT ![o] = next % pool_len]
      /\ round' = [round EXCEPT ![o] = @ + 1]
      /\ pc[o] = "scan" /\ round[o] < pool_len
  BY Zenon DEF Scan, handleVars, Disturb
<1>2. phase' = phase /\ Handles' = Handles
  BY <1>1, Zenon DEF Handles, openVars
<1>3. /\ pool_len \in Nat \ {0} /\ next \in Nat /\ round[o] \in Nat
      /\ round[o] + 1 \in 0..pool_len /\ next + 1 \in Nat
  BY <1>1, HandleNumbers, Zenon DEF Inv, StreamInv, TypeOK
<1>4. next % pool_len \in Handles /\ next % pool_len \in 0 .. PoolSize - 1
  BY <1>3, CounterFacts, HandleNumbers, Zenon
<1>5. TypeOK'
  <2>1. round' \in [Openers -> 0..pool_len] /\ at' \in [Openers -> 0 .. PoolSize - 1]
    BY <1>1, <1>3, <1>4, Zenon DEF Inv, StreamInv, TypeOK
  <2>2. alone' \in [Openers -> BOOLEAN] /\ next' \in Nat
    BY <1>1, <1>3, Zenon DEF Inv, StreamInv, TypeOK
  <2>. QED  BY <1>1, <1>2, <2>1, <2>2, Zenon DEF Inv, StreamInv, TypeOK
<1>6. /\ pc'[o] = "check" /\ at'[o] = next % pool_len /\ round'[o] = round[o] + 1
      /\ alone'[o] => alone[o]
  BY <1>1, Zenon DEF Inv, StreamInv, TypeOK
<1>7. /\ picks[o] = <<>>
      /\ alone[o] => Window(next % pool_len, round[o], pool_len) \subseteq tried[o]
  BY <1>1, Zenon DEF Inv, StreamInv, CallOK
<1>8. Window((next + 1) % pool_len, round[o] + 1, pool_len)
        \subseteq Window(next % pool_len, round[o], pool_len) \cup {next % pool_len}
  BY <1>3, CounterFacts, Zenon
<1>9. CallOK(o)'
  <2>1. alone'[o] =>
          Window(next' % pool_len', round'[o], pool_len') \subseteq tried'[o] \cup {at'[o]}
    <3> SUFFICES ASSUME alone'[o]
                 PROVE  Window(next' % pool_len', round'[o], pool_len')
                          \subseteq tried'[o] \cup {at'[o]}
      OBVIOUS
    <3>1. Window(next' % pool_len', round'[o], pool_len')
            = Window((next + 1) % pool_len, round[o] + 1, pool_len)
      BY <1>1, <1>6, Zenon
    <3>2. Window(next % pool_len, round[o], pool_len) \subseteq tried[o]
      BY <1>6, <1>7, Zenon
    <3>. QED  BY <1>1, <1>6, <1>8, <3>1, <3>2, Zenon
  <2>2. picks'[o] = <<>> /\ at'[o] \in Handles'
    <3>1. picks'[o] = <<>>
      BY <1>1, <1>7, Zenon
    <3>2. at'[o] = next % pool_len /\ Handles' = Handles
      BY <1>2, <1>6, Zenon
    <3>3. at'[o] \in Handles
      BY <1>4, <3>2, Zenon
    <3>. QED  BY <3>1, <3>2, <3>3, Zenon
  <2>. QED  BY <1>2, <1>6, <2>1, <2>2, Zenon DEF CallOK
<1>10. \A p \in Openers \ {o} :
        /\ pc'[p] = pc[p] /\ picks'[p] = picks[p] /\ round'[p] = round[p]
        /\ at'[p] = at[p] /\ tried'[p] = tried[p]
        /\ alone'[p] => alone[p] /\ next' = next
  BY <1>1, Zenon DEF Inv, StreamInv, TypeOK
<1>. QED  BY <1>1, <1>5, <1>9, <1>10, CallStep, Zenon

\* A call ends: with a pair, which its handle has room for, or without.
LEMMA FinishStep ==
  ASSUME Inv, phase = "open", UNCHANGED openVars, NEW o \in Openers,
         NEW r \in {"ok", "closed", "exhausted"}, Finish(o, r),
         UNCHANGED <<pool_len, closed, goaway, next, round, at, tried, alone, opens>>,
         active' \in [0 .. PoolSize - 1 -> 0..Limit]
  PROVE  Inv'
<1>1. phase' = phase /\ Handles' = Handles
  BY Zenon DEF Handles, openVars
<1>2. /\ pc' = [pc EXCEPT ![o] = "idle"] /\ picks' = [picks EXCEPT ![o] = <<>>]
      /\ result' = [result EXCEPT ![o] = r]
  BY Zenon DEF Finish
<1>3. TypeOK'
  <2>1. picks' \in [Openers -> {<<>>} \cup { <<h>> : h \in Handles }]
    BY <1>2, Zenon DEF Inv, StreamInv, TypeOK
  <2>2. result' \in [Openers -> {"none", "ok", "closed", "exhausted"}]
    BY <1>2, Zenon DEF Inv, StreamInv, TypeOK
  <2>. QED  BY <1>1, <1>2, <2>1, <2>2, Zenon DEF Inv, StreamInv, TypeOK
<1>4. pc'[o] = "idle" /\ picks'[o] = <<>>
  BY <1>2, Zenon DEF Inv, StreamInv, TypeOK
<1>5. CallOK(o)'
  BY <1>4, Zenon DEF CallOK, Busy
<1>6. \A p \in Openers \ {o} :
        /\ pc'[p] = pc[p] /\ picks'[p] = picks[p] /\ round'[p] = round[p]
        /\ at'[p] = at[p] /\ tried'[p] = tried[p]
        /\ alone'[p] => alone[p] /\ next' = next
  BY <1>2, Zenon DEF Inv, StreamInv, TypeOK
<1>. QED  BY <1>3, <1>5, <1>6, CallStep, Zenon

\* try_open returns None: the handle is one that was found without room.
LEMMA TryNextStep ==
  ASSUME Inv, phase = "open", UNCHANGED openVars, NEW o \in Openers, TryNext(o),
         pc[o] \in {"check", "open"},
         UNCHANGED <<pool_len, closed, goaway, active, next, round, alone, opens>>
  PROVE  Inv'
<1>1. phase' = phase /\ Handles' = Handles
  BY Zenon DEF Handles, openVars
<1>2. CallOK(o) /\ at[o] \in Handles /\ tried[o] \subseteq Handles
  BY Zenon DEF Inv, StreamInv, CallOK, TypeOK
<1>3. /\ tried' = [tried EXCEPT ![o] = @ \cup {at[o]}] /\ result' = result
      /\ tried'[o] = tried[o] \cup {at[o]}
      /\ tried' \in [Openers -> SUBSET Handles]
  BY <1>2, Zenon DEF TryNext, Inv, StreamInv, TypeOK
<1>4. CASE picks[o] # <<>>
  <2>1. PICK h \in Handles : picks[o] = <<h>>
    BY <1>4, Zenon DEF Inv, StreamInv, TypeOK
  <2>2. Head(<<h>>) = h /\ Tail(<<h>>) = <<>>
    BY ShortSequences, Zenon
  <2>3. /\ at' = [at EXCEPT ![o] = h] /\ picks' = [picks EXCEPT ![o] = <<>>]
        /\ pc' = [pc EXCEPT ![o] = "check"]
    BY <1>4, <2>1, <2>2, Zenon DEF TryNext
  <2>4. h \in 0 .. PoolSize - 1 /\ pool_len \in Nat /\ next \in Nat
    BY HandleNumbers, Zenon DEF Inv, StreamInv, TypeOK
  <2>5. TypeOK'
    <3>1. picks' \in [Openers -> {<<>>} \cup { <<g>> : g \in Handles }]
      BY <2>3, Zenon DEF Inv, StreamInv, TypeOK
    <3>2. at' \in [Openers -> 0 .. PoolSize - 1]
      BY <2>3, <2>4, Zenon DEF Inv, StreamInv, TypeOK
    <3>. QED  BY <1>1, <1>3, <2>3, <3>1, <3>2, Zenon DEF Inv, StreamInv, TypeOK
  <2>6. pc'[o] = "check" /\ picks'[o] = <<>> /\ at'[o] = h
    BY <2>3, Zenon DEF Inv, StreamInv, TypeOK
  <2>7. Window(next % pool_len, round[o], pool_len) = {}
    <3>1. round[o] = 0
      BY <1>2, <1>4, Zenon DEF CallOK
    <3>2. pool_len \in Nat \ {0}
      BY <2>4 DEF Handles
    <3>. QED  BY <2>4, <3>1, <3>2, CounterFacts, Zenon
  <2>8. CallOK(o)'
    BY <1>1, <2>6, <2>7, Zenon DEF CallOK
  <2>9. \A p \in Openers \ {o} :
          /\ pc'[p] = pc[p] /\ picks'[p] = picks[p] /\ round'[p] = round[p]
          /\ at'[p] = at[p] /\ tried'[p] = tried[p]
          /\ alone'[p] => alone[p] /\ next' = next
    BY <1>3, <2>3, Zenon DEF Inv, StreamInv, TypeOK
  <2>. QED  BY <2>5, <2>8, <2>9, CallStep, Zenon
<1>5. CASE picks[o] = <<>>
  <2>1. pc' = [pc EXCEPT ![o] = "scan"] /\ at' = at /\ picks' = picks
    BY <1>5, Zenon DEF TryNext
  <2>2. TypeOK'
    BY <1>1, <1>3, <2>1, Zenon DEF Inv, StreamInv, TypeOK
  <2>3. pc'[o] = "scan"
    BY <2>1, Zenon DEF Inv, StreamInv, TypeOK
  <2>4. CallOK(o)'
    BY <1>1, <1>2, <1>3, <1>5, <2>1, <2>3, Zenon DEF CallOK
  <2>5. \A p \in Openers \ {o} :
          /\ pc'[p] = pc[p] /\ picks'[p] = picks[p] /\ round'[p] = round[p]
          /\ at'[p] = at[p] /\ tried'[p] = tried[p]
          /\ alone'[p] => alone[p] /\ next' = next
    BY <1>3, <2>1, Zenon DEF Inv, StreamInv, TypeOK
  <2>. QED  BY <2>2, <2>4, <2>5, CallStep, Zenon
<1>. QED  BY <1>4, <1>5, Zenon

\* try_open: the handle is passed over, or open, or takes a pair more.
LEMMA TryStep ==
  ASSUME Inv, phase = "open", UNCHANGED openVars, NEW o \in Openers, TryOpen(o) \/ OpenPair(o)
  PROVE  Inv'
<1>1. CASE TryOpen(o)
  <2>1. /\ pc[o] = "check"
        /\ UNCHANGED <<pool_len, closed, goaway, active, next, round, alone, opens>>
    BY <1>1, Zenon DEF TryOpen, handleVars
  <2>2. CASE at[o] \in closed
    BY <1>1, <2>1, <2>2, TryNextStep, Zenon DEF TryOpen
  <2>3. CASE at[o] \notin closed
    <3>1. pc' = [pc EXCEPT ![o] = "open"] /\ UNCHANGED <<at, picks, tried, result>>
      BY <1>1, <2>3, Zenon DEF TryOpen
    <3>2. phase' = phase /\ Handles' = Handles
      BY <2>1, Zenon DEF Handles, openVars
    <3>3. TypeOK'
      BY <2>1, <3>1, <3>2, Zenon DEF Inv, StreamInv, TypeOK
    <3>4. pc'[o] = "open" /\ CallOK(o)
      BY <3>1, Zenon DEF Inv, StreamInv, TypeOK
    <3>5. CallOK(o)'
      BY <2>1, <3>1, <3>2, <3>4, Zenon DEF CallOK
    <3>6. \A p \in Openers \ {o} :
            /\ pc'[p] = pc[p] /\ picks'[p] = picks[p] /\ round'[p] = round[p]
            /\ at'[p] = at[p] /\ tried'[p] = tried[p]
            /\ alone'[p] => alone[p] /\ next' = next
      BY <2>1, <3>1, Zenon DEF Inv, StreamInv, TypeOK
    <3>. QED  BY <2>1, <3>3, <3>5, <3>6, CallStep, Zenon
  <2>. QED  BY <2>2, <2>3, Zenon
<1>2. CASE OpenPair(o)
  <2>1. /\ pc[o] = "open" /\ at[o] \in Handles
        /\ UNCHANGED <<pool_len, closed, goaway, next, round, alone, opens>>
        /\ active \in [0 .. PoolSize - 1 -> 0..Limit]
    BY <1>2, Zenon DEF OpenPair, Inv, StreamInv, CallOK, TypeOK
  <2>2. CASE at[o] \in closed \cup goaway
    <3>1. Finish(o, "closed") /\ UNCHANGED <<active, at, tried>>
      BY <1>2, <2>2, Zenon DEF OpenPair
    <3>. QED  BY <2>1, <3>1, FinishStep, Zenon
  <2>3. CASE at[o] \notin closed \cup goaway /\ active[at[o]] >= Limit
    <3>1. TryNext(o) /\ UNCHANGED active
      BY <1>2, <2>3, Zenon DEF OpenPair
    <3>. QED  BY <2>1, <3>1, TryNextStep, Zenon
  <2>4. CASE at[o] \notin closed \cup goaway /\ ~(active[at[o]] >= Limit)
    <3>1. /\ active' = [active EXCEPT ![at[o]] = @ + 1]
          /\ Finish(o, "ok") /\ UNCHANGED <<at, tried>>
      BY <1>2, <2>4, Zenon DEF OpenPair
    <3>2. at[o] \in 0 .. PoolSize - 1
      BY <2>1, HandleNumbers, Zenon
    <3>3. active[at[o]] \in 0..Limit
      BY <2>1, <3>2, Zenon
    <3>4. active[at[o]] + 1 \in 0..Limit
      BY <2>4, <3>3, HandleNumbers, Zenon
    <3>5. active' \in [0 .. PoolSize - 1 -> 0..Limit]
      BY <2>1, <3>1, <3>2, <3>4, Zenon
    <3>. QED  BY <2>1, <3>1, <3>5, FinishStep, Zenon
  <2>. QED  BY <2>2, <2>3, <2>4, Zenon
<1>. QED  BY <1>1, <1>2, Zenon

\* CapacityExhausted ends the call.
LEMMA ExhaustedStep ==
  ASSUME Inv, phase = "open", UNCHANGED openVars, NEW o \in Openers, Exhausted(o)
  PROVE  Inv'
<1>1. /\ Finish(o, "exhausted")
      /\ UNCHANGED <<pool_len, closed, goaway, active, next, round, at, tried, alone, opens>>
  BY Zenon DEF Exhausted, handleVars
<1>2. active' \in [0 .. PoolSize - 1 -> 0..Limit]
  BY <1>1, Zenon DEF Inv, StreamInv, TypeOK
<1>. QED  BY <1>1, <1>2, FinishStep, Zenon

\* Every step of the session preserves the invariant.
LEMMA SessionStep ==
  ASSUME Inv, [SessionNext]_<<vars, openVars>>
  PROVE  Inv'
<1>1. CASE Opening
  BY <1>1, OpeningStep, Zenon
<1>2. CASE Streaming
  BY <1>2, BeginStep, PickTwoStep, ScanStep, ExhaustedStep, TryStep, HandleStep, Zenon
     DEF Streaming, Next
<1>3. CASE Breaking
  BY <1>3, HandleStep, Zenon DEF Breaking
<1>4. CASE UNCHANGED <<vars, openVars>>
  <2>1. UNCHANGED vars /\ UNCHANGED openVars
    BY <1>4, Zenon
  <2>2. Handles' = Handles /\ phase' = phase
    BY <2>1, Zenon DEF vars, openVars, Handles
  <2>3. TypeOK'
    BY <2>1, <2>2, Zenon DEF vars, Inv, StreamInv, TypeOK
  <2>4. ASSUME NEW o \in Openers PROVE CallOK(o)'
    BY <2>1, <2>2, Zenon DEF vars, Inv, StreamInv, CallOK, Busy
  <2>. QED  BY <2>1, <2>3, <2>4, StreamsStep, Zenon DEF vars, StreamInv
<1>. QED  BY <1>1, <1>2, <1>3, <1>4, Zenon DEF SessionNext

\* A session that was just asked for has no call under way.
LEMMA SessionStart == SessionInit => Inv
<1> SUFFICES ASSUME SessionInit PROVE Inv
  OBVIOUS
<1>1. OpenInv /\ Open!TypeOK
  BY OpenInit, Zenon DEF SessionInit, OpenInv
<1>2. /\ pool_len \in Nat /\ 0 \in 0..pool_len /\ 0 \in 0..Limit /\ 0 \in 0 .. PoolSize - 1
      /\ 0 \in 0..MaxOpens /\ 0 \in Nat
  BY <1>1, RoutingAssumption DEF Open!TypeOK
<1>3. TypeOK
  BY <1>2, Zenon DEF SessionInit, Idle, TypeOK
<1>4. ASSUME NEW o \in Openers PROVE CallOK(o)
  BY Zenon DEF SessionInit, Idle, CallOK, Busy
<1>5. pool_len = 0 /\ Handles = {}
  <2>1. pool_len = 0
    BY Zenon DEF SessionInit, Open!Init
  <2>. QED  BY <2>1 DEF Handles
<1>. QED  BY <1>1, <1>3, <1>4, <1>5, Zenon
     DEF Inv, StreamInv, CancelReachesAll, SessionTypeOK

(***************************************************************************)
(* The theorems.                                                           *)
(***************************************************************************)

\* A session is always in a state the invariant describes, whatever the number of
\* connections, tasks, callers and calls.
THEOREM SessionInvariant == SessionSpec => []Inv
<1>1. SessionInit => Inv
  BY SessionStart
<1>2. Inv /\ [SessionNext]_<<vars, openVars>> => Inv'
  BY SessionStep
<1>. QED  BY <1>1, <1>2, PTL DEF SessionSpec

\* connect.rs:292-317: one recovery signal when no connection could be upgraded, with the
\* last status the server gave, and none otherwise.
THEOREM SignalsAreExact == SessionSpec => []SignalsMatchOutcome
<1>1. Inv => SignalsMatchOutcome
  BY DEF Inv, OpenInv
<1>. QED  BY <1>1, SessionInvariant, PTL

\* connect.rs:45-49: the fallback never goes over the connection that refused the tunnel.
THEOREM FallbackGoesElsewhere == SessionSpec => []FallbackElsewhere
<1>1. Inv => FallbackElsewhere
  BY DEF Inv, OpenInv
<1>. QED  BY <1>1, SessionInvariant, PTL

\* session.rs:346-352: a cancelled session has no open handle, at any moment of open().
THEOREM CancelClosesEveryHandle == SessionSpec => []CancelReachesAll
<1>1. Inv => CancelReachesAll
  BY DEF Inv
<1>. QED  BY <1>1, SessionInvariant, PTL

\* session.rs:211-226: a scan that has the counter to itself reports CapacityExhausted only
\* after looking at every handle, wherever the counter stood when it began.
THEOREM ScanIsComplete == SessionSpec => AloneScansAll
<1> DEFINE Reported == \A o \in Openers :
             alone[o] /\ result[o] # "exhausted" /\ result'[o] = "exhausted" => tried[o] = Handles
<1>1. ASSUME Inv, [SessionNext]_<<vars, openVars>>
      PROVE  [Reported]_vars
  <2>1. CASE UNCHANGED result
    BY <2>1, Zenon
  <2>2. ASSUME NEW p \in Openers, NEW r \in {"none", "ok", "closed"},
               result' = [result EXCEPT ![p] = r]
        PROVE  Reported
    BY <1>1, <2>2, Zenon DEF Inv, StreamInv, TypeOK
  <2>3. ASSUME NEW p \in Openers, Exhausted(p)
        PROVE  Reported
    <3>1. /\ pc[p] = "scan" /\ round[p] = pool_len
          /\ \A o \in Openers \ {p} : result'[o] = result[o]
      BY <1>1, <2>3, Zenon DEF Exhausted, Finish, Inv, StreamInv, TypeOK
    <3>2. tried[p] \subseteq Handles
      BY <1>1, Zenon DEF Inv, StreamInv, TypeOK
    <3>3. alone[p] => Handles \subseteq tried[p]
      <4>1. pool_len \in Nat /\ next \in Nat
        BY <1>1, HandleNumbers, Zenon DEF Inv, StreamInv, TypeOK
      <4>2. CASE pool_len = 0
        BY <4>2 DEF Handles
      <4>3. CASE pool_len # 0
        <5>1. Window(next % pool_len, pool_len, pool_len) = Handles
          BY <4>1, <4>3, CounterFacts, Zenon
        <5>. QED  BY <1>1, <3>1, <5>1, Zenon DEF Inv, StreamInv, CallOK
      <4>. QED  BY <4>2, <4>3, Zenon
    <3>. QED  BY <3>1, <3>2, <3>3, Zenon
  <2>4. CASE Streaming
    BY <2>1, <2>2, <2>3, <2>4, Zenon DEF Streaming, Next, Begin, PickTwo, Scan, TryOpen, TryNext,
       OpenPair, Finish, ReleasePair, GoAway, CloseHandle
  <2>5. CASE Opening \/ Breaking
    BY <2>1, <2>5, Zenon DEF Opening, Breaking, streamVars, GoAway, CloseHandle
  <2>. QED  BY <1>1, <2>4, <2>5, Zenon DEF SessionNext, vars
<1>2. Inv /\ [SessionNext]_<<vars, openVars>> => [Reported]_vars
  BY <1>1
<1>. QED  BY <1>2, SessionInvariant, PTL DEF SessionSpec, AloneScansAll
=============================================================================
