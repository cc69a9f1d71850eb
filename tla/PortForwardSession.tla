------------------------- MODULE PortForwardSession -------------------------
(***************************************************************************)
(* A session from SessionBuilder::open to its streams: SessionOpen decides *)
(* how many connections it has, SessionRouting spreads the streams over    *)
(* them.  They share pool_len, and the token: the handles have child       *)
(* tokens of the session's, so cancelling it closes them all, those that   *)
(* are started at that very moment included.                               *)
(***************************************************************************)
EXTENDS SessionRouting

CONSTANTS Conns, NoConn, Statuses

VARIABLES phase, task, on, http, poisoned, names_valid, status, ws_err, chosen, upgraded,
          tried_transports, pinged, cancelled, error, signals, rode, answers

Open == INSTANCE SessionOpen WITH pc <- task, tried <- tried_transports

openVars == <<phase, task, on, http, poisoned, names_valid, status, ws_err, chosen,
              upgraded, tried_transports, pinged, cancelled, error, signals, rode, answers>>
streamVars == <<goaway, active, next, pc, picks, round, at, tried, alone, result, opens>>

SessionInit == Open!Init /\ Idle

\* Variant: a handle has a token of its own.
OpeningDetached ==
  /\ Open!Next
  /\ closed' = IF cancelled' /\ ~cancelled THEN Handles ELSE closed
  /\ UNCHANGED streamVars

\* A step of open(), or of the session's token; a handle's token is a child of it.
Opening ==
  /\ Open!Next
  /\ closed' = IF cancelled' THEN 0 .. pool_len' - 1 ELSE closed
  /\ UNCHANGED streamVars

\* The session is in the caller's hands.
Streaming ==
  /\ phase = "open"
  /\ Next
  /\ UNCHANGED openVars

\* A mux may fail while the next ones are being started.
Breaking ==
  /\ phase = "spawn"
  /\ \E h \in Handles : CloseHandle(h) \/ GoAway(h)
  /\ UNCHANGED openVars

SessionNext == Opening \/ Streaming \/ Breaking

SessionSpec == SessionInit /\ [][SessionNext]_<<vars, openVars>>

(***************************************************************************)
(* Properties.                                                             *)
(***************************************************************************)

\* The types of both parts, and no handle beyond its limit.
SessionTypeOK == TypeOK /\ Open!TypeOK

\* connect.rs:292-317: open() emits exactly one recovery signal when no connection could be
\* upgraded, with the last status the server gave, and none otherwise; nothing that happens
\* to the session afterwards adds one.
SignalsMatchOutcome == Open!SignalsMatchOutcome

\* connect.rs:45-49: the legacy fallback never goes over the connection on which the tunnel
\* was refused, whenever the client's pool takes that one back.
FallbackElsewhere == Open!FallbackElsewhere

\* session.rs:152, 346-352: when the session's token is cancelled, at any moment of open()
\* or later, every handle of the session is closed, also the one whose PING was answered
\* just before and that with_config pushes afterwards.  Every variable keeps its type.
CancelReachesAll == SessionTypeOK /\ (cancelled => Handles \subseteq closed)
=============================================================================
