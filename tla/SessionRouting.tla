--------------------------- MODULE SessionRouting ---------------------------
(***************************************************************************)
(* Session::open_stream_pair (spdy-mux/src/session.rs): callers on several *)
(* threads spread their streams over the connections of one session by     *)
(* power of two choices, then by a round-robin scan, with one counter      *)
(* shared by all of them.                                                  *)
(*                                                                         *)
(* A step is one access to shared state: the counter, the token of a       *)
(* handle, the reservation of a pair.  The round-trip estimate decides     *)
(* only which of two handles is tried first, so either may be.             *)
(***************************************************************************)
EXTENDS Integers, Sequences, FiniteSets

CONSTANTS Openers,
          PoolSize,   \* connections asked for
          Limit,      \* pairs a handle accepts (operating_limit)
          MaxOpens    \* bound: calls of open_stream_pair

ASSUME RoutingAssumption == {PoolSize, Limit, MaxOpens} \subseteq Nat \ {0}

VARIABLES
  pool_len, \* handles of the session, at most PoolSize: pool.len()
  closed,   \* handles whose token is cancelled
  goaway,   \* handles that have received GOAWAY
  active,   \* active_pairs of a handle
  next,     \* the shared counter
  pc,       \* "idle", "pick", "check", "open", "scan"
  picks,    \* handles of the two choices still to try
  round,    \* rounds of the scan so far
  at,       \* handle being tried
  tried,    \* handles found without room since the call began
  alone,    \* no other caller has moved the counter, no handle has changed, since then
  result,   \* of an opener's last call
  opens     \* calls made

vars == <<pool_len, closed, goaway, active, next, pc, picks, round, at, tried, alone, result, opens>>
handleVars == <<pool_len, closed, goaway, active>>

Handles == 0 .. pool_len - 1

\* No call has been made yet.
Idle ==
  /\ closed = {} /\ goaway = {}
  /\ active = [h \in 0 .. PoolSize - 1 |-> 0]
  /\ next = 0
  /\ pc = [o \in Openers |-> "idle"]
  /\ picks = [o \in Openers |-> <<>>]
  /\ round = [o \in Openers |-> 0]
  /\ at = [o \in Openers |-> 0]
  /\ tried = [o \in Openers |-> {}]
  /\ alone = [o \in Openers |-> TRUE]
  /\ result = [o \in Openers |-> "none"]
  /\ opens = 0

Init == pool_len \in 1 .. PoolSize /\ Idle

\* Others of o no longer have the counter, or the handles, to themselves.
Disturb(o) == alone' = [p \in Openers |-> alone[p] /\ p = o]
DisturbAll == alone' = [p \in Openers |-> FALSE]

Begin(o) ==
  /\ pc[o] = "idle" /\ opens < MaxOpens
  /\ opens' = opens + 1
  /\ pc' = [pc EXCEPT ![o] = IF pool_len >= 2 THEN "pick" ELSE "scan"]
  /\ round' = [round EXCEPT ![o] = 0]
  /\ tried' = [tried EXCEPT ![o] = {}]
  /\ alone' = [alone EXCEPT ![o] = TRUE]
  /\ result' = [result EXCEPT ![o] = "none"]
  /\ UNCHANGED <<handleVars, next, picks, at>>

\* pick_two: the counter gives the first handle, a hash of it the second, which is moved
\* on when it is the first.
PickTwo(o) ==
  /\ pc[o] = "pick"
  /\ next' = next + 1
  /\ Disturb(o)
  /\ \E hash \in Handles :
       LET a == next % pool_len
           b == IF hash = a THEN (a + 1) % pool_len ELSE hash
           \* handle_cost: a closed handle costs more than any other
           orders == { order \in {<<a, b>>, <<b, a>>} :
                         order[1] \in closed => order[2] \in closed }
       IN \E order \in orders :
            /\ at' = [at EXCEPT ![o] = order[1]]
            /\ picks' = [picks EXCEPT ![o] = <<order[2]>>]
  /\ pc' = [pc EXCEPT ![o] = "check"]
  /\ UNCHANGED <<handleVars, round, tried, result, opens>>

\* Variant: the scan takes the counter as it is.
ScanStuck(o) ==
  /\ pc[o] = "scan" /\ round[o] < pool_len
  /\ at' = [at EXCEPT ![o] = next % pool_len]
  /\ round' = [round EXCEPT ![o] = @ + 1]
  /\ pc' = [pc EXCEPT ![o] = "check"]
  /\ UNCHANGED <<handleVars, next, picks, tried, alone, result, opens>>

\* One round of the scan.
Scan(o) ==
  /\ pc[o] = "scan" /\ round[o] < pool_len
  /\ at' = [at EXCEPT ![o] = next % pool_len]
  /\ next' = next + 1
  /\ Disturb(o)
  /\ round' = [round EXCEPT ![o] = @ + 1]
  /\ pc' = [pc EXCEPT ![o] = "check"]
  /\ UNCHANGED <<handleVars, picks, tried, result, opens>>

Finish(o, r) ==
  /\ pc' = [pc EXCEPT ![o] = "idle"]
  /\ picks' = [picks EXCEPT ![o] = <<>>]
  /\ result' = [result EXCEPT ![o] = r]

Exhausted(o) ==
  /\ pc[o] = "scan" /\ round[o] = pool_len
  /\ Finish(o, "exhausted")
  /\ UNCHANGED <<handleVars, next, round, at, tried, alone, opens>>

\* try_open returns None: on to the second choice, or to the scan.
TryNext(o) ==
  /\ tried' = [tried EXCEPT ![o] = @ \cup {at[o]}]
  /\ IF picks[o] # <<>>
     THEN /\ at' = [at EXCEPT ![o] = Head(picks[o])]
          /\ picks' = [picks EXCEPT ![o] = Tail(@)]
          /\ pc' = [pc EXCEPT ![o] = "check"]
     ELSE /\ pc' = [pc EXCEPT ![o] = "scan"]
          /\ UNCHANGED <<at, picks>>
  /\ UNCHANGED result

\* try_open, first half: is_closed.
TryOpen(o) ==
  /\ pc[o] = "check"
  /\ IF at[o] \in closed
     THEN TryNext(o)
     ELSE /\ pc' = [pc EXCEPT ![o] = "open"]
          /\ UNCHANGED <<at, picks, tried, result>>
  /\ UNCHANGED <<handleVars, next, round, alone, opens>>

\* try_open, second half: the mux takes or refuses the pair (PairCapacity has its steps).
\* An error other than CapacityExhausted ends the call.
OpenPair(o) ==
  LET h == at[o] IN
  /\ pc[o] = "open"
  /\ IF h \in closed \cup goaway
     THEN Finish(o, "closed") /\ UNCHANGED <<active, at, tried>>
     ELSE IF active[h] >= Limit
          THEN TryNext(o) /\ UNCHANGED active
          ELSE /\ active' = [active EXCEPT ![h] = @ + 1]
               /\ Finish(o, "ok")
               /\ UNCHANGED <<at, tried>>
  /\ UNCHANGED <<pool_len, closed, goaway, next, round, alone, opens>>

ReleasePair(h) ==
  /\ active[h] > 0
  /\ active' = [active EXCEPT ![h] = @ - 1]
  /\ DisturbAll
  /\ UNCHANGED <<pool_len, closed, goaway, next, pc, picks, round, at, tried, result, opens>>

GoAway(h) ==
  /\ h \notin goaway \cup closed
  /\ goaway' = goaway \cup {h}
  /\ UNCHANGED <<pool_len, closed, active, next, pc, picks, round, at, tried, alone, result, opens>>

CloseHandle(h) ==
  /\ h \notin closed
  /\ closed' = closed \cup {h}
  /\ UNCHANGED <<pool_len, goaway, active, next, pc, picks, round, at, tried, alone, result, opens>>

Next ==
  \/ \E o \in Openers :
       Begin(o) \/ PickTwo(o) \/ Scan(o) \/ Exhausted(o) \/ TryOpen(o) \/ OpenPair(o)
  \/ \E h \in Handles : ReleasePair(h) \/ GoAway(h) \/ CloseHandle(h)

Spec == Init /\ [][Next]_vars

(***************************************************************************)
(* Properties.                                                             *)
(***************************************************************************)

\* Every variable keeps its type, and no handle carries more pairs than its limit.
TypeOK ==
  /\ closed \subseteq Handles /\ goaway \subseteq Handles
  /\ active \in [0 .. PoolSize - 1 -> 0..Limit]
  /\ next \in Nat
  /\ pc \in [Openers -> {"idle", "pick", "check", "open", "scan"}]
  /\ picks \in [Openers -> {<<>>} \cup { <<h>> : h \in Handles }]
  /\ round \in [Openers -> 0..pool_len] /\ at \in [Openers -> 0 .. PoolSize - 1]
  /\ tried \in [Openers -> SUBSET Handles]
  /\ alone \in [Openers -> BOOLEAN]
  /\ result \in [Openers -> {"none", "ok", "closed", "exhausted"}]
  /\ opens \in 0..MaxOpens

\* session.rs:193-194: a call "Falls back to a round-robin scan when both picks are at
\* capacity or closed".  A call that reports CapacityExhausted with the counter to itself
\* has found every handle of the session closed or at its limit, wherever the counter
\* stood.  (Calls that share the counter with others may skip a handle.)
AloneScansAll ==
  [][\A o \in Openers : alone[o] /\ result[o] # "exhausted" /\ result'[o] = "exhausted"
       => tried[o] = Handles]_vars
=============================================================================
