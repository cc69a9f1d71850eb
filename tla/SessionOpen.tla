----------------------------- MODULE SessionOpen -----------------------------
(***************************************************************************)
(* SessionBuilder::open (client.rs): upgrade one connection of the         *)
(* apiserver, by the WebSocket tunnel or, when the server will not have    *)
(* that, by legacy SPDY (connect.rs); upgrade the others at the same time  *)
(* by the same protocol; then start a mux on each (Session::with_config).  *)
(*                                                                         *)
(* The connections belong to the client's pool (hyper), which takes the    *)
(* connection of a refused upgrade back when it likes, before or after the *)
(* code poisons it, and never hands out a poisoned one.                    *)
(***************************************************************************)
EXTENDS Integers, Sequences, FiniteSets

CONSTANTS PoolSize,   \* SessionBuilder::spdy_pool_size
          Conns,      \* HTTP connections of the client; there is one for every request
          NoConn,     \* not one of them
          Statuses    \* statuses other than 101

NoStatus == 0
Tunnel == "Spdy31Tunnel"
Legacy == "LegacySpdy"
Tasks == 0 .. PoolSize - 1     \* the probe is task 0

VARIABLES
  phase,       \* "probe", "fallback", "extras", "spawn", "open", "failed", "dropped"
  pc,          \* of a task: "none", "send", "wait", "refused", "done"
  on,          \* connection of a task's request
  http,        \* of a connection: "absent", "idle", "busy", "answered", "gone"
  poisoned,    \* connections
  names_valid, \* portforward_uri accepts the namespace and the pod
  status,      \* of the response the probe is looking at
  ws_err,      \* why the tunnel failed
  chosen,      \* chosen_protocol
  upgraded,    \* upgraded connections
  tried,       \* transports a mux has been started on, with or without success
  pinged,      \* the PING of the mux being started has been answered
  pool_len,    \* muxes of the session
  cancelled,   \* the session's token
  error,       \* what open() returned
  signals,     \* statuses of the RecoverySignals
  rode,        \* connections of the probe's requests
  answers      \* statuses the server gave to them

http_vars == <<on, http, poisoned>>
outcome == <<chosen, upgraded, error, signals>>
mux_vars == <<tried, pinged, pool_len, cancelled>>
history == <<rode, answers>>
vars == <<phase, pc, http_vars, names_valid, status, ws_err, outcome, mux_vars, history>>

Err(k, s) == [kind |-> k, status |-> s]
NoError == Err("none", NoStatus)

Init ==
  /\ phase = "probe"
  /\ pc = [t \in Tasks |-> IF t = 0 THEN "send" ELSE "none"]
  /\ on = [t \in Tasks |-> NoConn]
  /\ \E idle \in SUBSET Conns :
       http = [c \in Conns |-> IF c \in idle THEN "idle" ELSE "absent"]
  /\ poisoned = {}
  /\ names_valid \in BOOLEAN
  /\ status = NoStatus /\ ws_err = NoError /\ error = NoError
  /\ chosen = Tunnel /\ upgraded = 0 /\ signals = <<>>
  /\ tried = 0 /\ pinged = FALSE /\ pool_len = 0 /\ cancelled = FALSE
  /\ rode = <<>> /\ answers = <<>>

\* The client's connections after a request that has ended.  Once open() needs no more of
\* them, or of the past of the probe, they are left out.
Client(h, p) ==
  /\ status' = NoStatus
  /\ IF phase' \in {"spawn", "failed"}
     THEN /\ http' = [c \in Conns |-> "absent"] /\ poisoned' = {}
          /\ on' = [t \in Tasks |-> NoConn]
     ELSE http' = h /\ poisoned' = p /\ UNCHANGED on
  /\ IF phase' \in {"extras", "spawn"}
     THEN rode' = <<>> /\ answers' = <<>>
     ELSE UNCHANGED history

-----------------------------------------------------------------------------
(* What the end of a request leads to *)

should_fallback(e) == e.kind \in {"UpgradeFailed", "ProtocolViolation"}

\* Variant: the status of the tunnel goes first.
SignalStatusOfTunnel(e) ==
  IF ws_err.kind = "UpgradeFailed" THEN ws_err.status
  ELSE IF e.kind = "UpgradeFailed" THEN e.status ELSE NoStatus

\* The status of the signal when the fallback fails with e.
SignalStatus(e) ==
  IF e.kind = "UpgradeFailed" THEN e.status
  ELSE IF ws_err.kind = "UpgradeFailed" THEN ws_err.status ELSE NoStatus

\* The probe fails with e: on to the fallback, or open() returns e.
ProbeFails(e) ==
  /\ \/ /\ phase = "probe" /\ should_fallback(e)
        /\ phase' = "fallback" /\ ws_err' = e
        /\ pc' = [pc EXCEPT ![0] = "send"]
        /\ UNCHANGED <<error, signals>>
     \/ /\ phase = "probe" /\ ~should_fallback(e)
        /\ phase' = "failed" /\ error' = e
        /\ signals' = IF e.kind \in {"Kube", "Network"} THEN Append(signals, NoStatus)
                      ELSE signals
        /\ pc' = [pc EXCEPT ![0] = "none"]
        /\ UNCHANGED ws_err
     \/ /\ phase = "fallback"
        /\ phase' = "failed" /\ error' = e
        /\ signals' = Append(signals, SignalStatus(e))
        /\ pc' = [pc EXCEPT ![0] = "none"]
        /\ UNCHANGED ws_err
  /\ UNCHANGED <<chosen, upgraded>>

\* A task of the join set is done; after the last one the muxes are started.
JoinExtra(t, n) ==
  /\ upgraded' = upgraded + n
  /\ IF \A u \in Tasks \ {t} : pc[u] = "done"
     THEN phase' = "spawn" /\ pc' = [u \in Tasks |-> "none"]
     ELSE phase' = phase /\ pc' = [pc EXCEPT ![t] = "done"]
  /\ UNCHANGED <<ws_err, chosen, error, signals>>

Failed(t, e) == IF t = 0 THEN ProbeFails(e) ELSE JoinExtra(t, 0)

\* The probe decides the protocol of all connections; the others use it at once and do not
\* fall back.
Succeeded(t) ==
  IF t > 0 THEN JoinExtra(t, 1)
  ELSE /\ chosen' = IF phase = "probe" THEN Tunnel ELSE Legacy
       /\ upgraded' = 1
       /\ phase' = IF PoolSize > 1 THEN "extras" ELSE "spawn"
       /\ pc' = [u \in Tasks |-> IF PoolSize = 1 THEN "none"
                                 ELSE IF u = 0 THEN "done" ELSE "send"]
       /\ ws_err' = NoError
       /\ UNCHANGED <<error, signals>>

-----------------------------------------------------------------------------
(* A request: perform_ws_upgrade, perform_legacy_spdy_upgrade *)

\* The request is not built.
InvalidNames ==
  /\ pc[0] = "send" /\ ~names_valid
  /\ ProbeFails(Err("Configuration", NoStatus))
  /\ Client(http, poisoned)
  /\ UNCHANGED <<names_valid, mux_vars>>

\* An idle connection of the pool, or a new one.
SendRequest(t) ==
  /\ pc[t] = "send" /\ names_valid
  /\ \E c \in Conns :
       /\ http[c] = "absent" \/ (http[c] = "idle" /\ c \notin poisoned)
       /\ http' = [http EXCEPT ![c] = "busy"]
       /\ on' = [on EXCEPT ![t] = c]
       /\ rode' = IF t = 0 THEN Append(rode, c) ELSE rode
  /\ pc' = [pc EXCEPT ![t] = "wait"]
  /\ UNCHANGED <<phase, poisoned, names_valid, status, ws_err, outcome, mux_vars, answers>>

\* The response is not a 101.
Refuse(t) ==
  /\ pc[t] = "wait"
  /\ http' = [http EXCEPT ![on[t]] = "answered"]
  /\ pc' = [pc EXCEPT ![t] = "refused"]
  /\ \/ /\ t = 0
        /\ status' \in Statuses /\ answers' = Append(answers, status')
     \/ t > 0 /\ UNCHANGED <<status, answers>>
  /\ UNCHANGED <<phase, on, poisoned, names_valid, ws_err, outcome, mux_vars, rode>>

\* The pool has the connection of a refused upgrade back.
PoolTakesBack(c) ==
  /\ http[c] = "answered"
  /\ http' = [http EXCEPT ![c] = "idle"]
  /\ UNCHANGED <<phase, pc, on, poisoned, names_valid, status, ws_err, outcome, mux_vars,
                 history>>

\* Variant: the connection is left as it is.
PoisonNothing(t) ==
  /\ pc[t] = "refused"
  /\ Failed(t, Err("UpgradeFailed", status))
  /\ Client(http, poisoned)
  /\ UNCHANGED <<names_valid, mux_vars>>

\* poison_rejected_upgrade, and UpgradeFailed.  The client has recorded the
\* connection by the time it answers, so there is one to poison.
PoisonRejected(t) ==
  /\ pc[t] = "refused"
  /\ Failed(t, Err("UpgradeFailed", status))
  /\ Client(http, poisoned \cup {on[t]})
  /\ UNCHANGED <<names_valid, mux_vars>>

\* send fails, the negotiated protocol is another, or hyper::upgrade::on fails.
FailRequest(t) ==
  /\ pc[t] = "wait"
  /\ \E k \in {"Kube", "ProtocolViolation", "Network"} : Failed(t, Err(k, NoStatus))
  /\ Client([http EXCEPT ![on[t]] = "gone"], poisoned)
  /\ UNCHANGED <<names_valid, mux_vars>>

Upgrade(t) ==
  /\ pc[t] = "wait"
  /\ Succeeded(t)
  /\ Client([http EXCEPT ![on[t]] = "gone"], poisoned)
  /\ UNCHANGED <<names_valid, mux_vars>>

-----------------------------------------------------------------------------
(* Session::with_config: a mux on each transport, one after the other *)

\* The initial PING comes back, unless the mux has been cancelled before.
PingAnswered ==
  /\ phase = "spawn" /\ tried < upgraded /\ ~pinged /\ ~cancelled
  /\ pinged' = TRUE
  /\ UNCHANGED <<phase, pc, http_vars, names_valid, status, ws_err, outcome, tried,
                 pool_len, cancelled, history>>

\* MuxHandle::spawn returns: the mux, which may have been cancelled since, or an error.
MuxStarted ==
  /\ phase = "spawn" /\ tried < upgraded
  /\ tried' = tried + 1
  /\ pool_len' = pool_len + IF pinged THEN 1 ELSE 0
  /\ pinged' = FALSE
  /\ UNCHANGED <<phase, pc, http_vars, names_valid, status, ws_err, outcome, cancelled,
                 history>>

\* Only when no mux could be started open() fails.
AllStarted ==
  /\ phase = "spawn" /\ tried = upgraded
  /\ \/ pool_len > 0 /\ phase' = "open" /\ UNCHANGED error
     \/ pool_len = 0 /\ phase' = "failed" /\ error' = Err("Mux", NoStatus)
  /\ UNCHANGED <<pc, http_vars, names_valid, status, ws_err, chosen, upgraded, signals,
                 mux_vars, history>>

\* The token of the session, which the caller holds.
Cancel ==
  /\ ~cancelled
  /\ cancelled' = TRUE
  /\ UNCHANGED <<phase, pc, http_vars, names_valid, status, ws_err, outcome, tried, pinged,
                 pool_len, history>>

\* The caller drops the future of open(), and with it the requests of the join set.
DropOpen ==
  /\ phase \notin {"open", "failed", "dropped"}
  /\ phase' = "dropped"
  /\ pc' = [t \in Tasks |-> "none"]
  /\ UNCHANGED <<names_valid, ws_err, outcome, mux_vars, on, http, poisoned, status, history>>

Next ==
  \/ InvalidNames
  \/ \E t \in Tasks : SendRequest(t) \/ Refuse(t) \/ PoisonRejected(t) \/ FailRequest(t)
                      \/ Upgrade(t)
  \/ \E c \in Conns : PoolTakesBack(c)
  \/ PingAnswered \/ MuxStarted \/ AllStarted \/ Cancel \/ DropOpen

Spec == Init /\ [][Next]_vars

(***************************************************************************)
(* Properties.                                                             *)
(***************************************************************************)

\* Every variable keeps its type: no more connections are upgraded than the pool takes,
\* and no more muxes started than connections upgraded.
TypeOK ==
  /\ phase \in {"probe", "fallback", "extras", "spawn", "open", "failed", "dropped"}
  /\ pc \in [Tasks -> {"none", "send", "wait", "refused", "done"}]
  /\ on \in [Tasks -> Conns \cup {NoConn}]
  /\ http \in [Conns -> {"absent", "idle", "busy", "answered", "gone"}]
  /\ poisoned \subseteq Conns
  /\ names_valid \in BOOLEAN /\ cancelled \in BOOLEAN /\ pinged \in BOOLEAN
  /\ status \in Statuses \cup {NoStatus}
  /\ chosen \in {Tunnel, Legacy}
  /\ upgraded \in 0 .. PoolSize /\ tried \in 0 .. upgraded /\ pool_len \in 0 .. tried

\* connect.rs:300-317 and its tests ("a terminal failure must emit exactly one recovery
\* signal", "a successful fallback must not emit a recovery signal"): open() signals once
\* when no connection could be upgraded and the configuration is not to blame, never
\* otherwise, and the status it signals is the last one the server gave to the tunnel or
\* the fallback.  The failures of the other connections are not signalled.
SignalsMatchOutcome ==
  signals = IF phase = "failed" /\ error.kind \notin {"Configuration", "Mux"}
            THEN <<IF answers = <<>> THEN NoStatus ELSE answers[Len(answers)]>>
            ELSE <<>>

\* connect.rs:45-49 and its test, "the rejected connection must not be reused for the
\* legacy fallback": whether the pool takes the connection back before or after it is
\* poisoned, the fallback goes over another one.
FallbackElsewhere == Len(rode) = 2 => rode[1] # rode[2]
=============================================================================
