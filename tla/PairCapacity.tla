---------------------------- MODULE PairCapacity ----------------------------
(***************************************************************************)
(* Admission of stream pairs on one MuxHandle (mux/handle.rs, stream.rs).  *)
(*                                                                         *)
(* open_stream_pair reserves a slot with fetch_add, compares the value it  *)
(* got back with two limits and undoes the reservation when it is too      *)
(* high; the two guards of a Stream give the slot back on drop.  Nothing   *)
(* but the atomic counter orders the callers, so every atomic access is a  *)
(* step of its own.                                                        *)
(*                                                                         *)
(* What realize_stream_pair does is the subject of StreamLifecycle; here   *)
(* it succeeds or fails.                                                   *)
(***************************************************************************)
EXTENDS Integers, FiniteSets

CONSTANTS Pairs,               \* callers, each owning one pair at a time
          LocalOperatingMax,   \* MuxConfig::operating_max_streams
          LocalMaxConcurrent,  \* MuxConfig::max_concurrent_streams
          PeerLimits           \* the MAX_CONCURRENT_STREAMS values of the peer

ASSUME PairsFinite == IsFiniteSet(Pairs)
ASSUME LimitsAreNat ==
  /\ LocalOperatingMax \in Nat
  /\ LocalMaxConcurrent \in Nat
  /\ PeerLimits \subseteq Nat

VARIABLES active_pairs,         \* Arc<AtomicUsize>
          peer_max_concurrent,  \* Arc<AtomicU32>, 0 = unlimited
          shut,                 \* closed is cancelled, or goaway_received
          pc,                   \* where each caller is in open_stream_pair
          prev,                 \* what its fetch_add returned, 0 outside the call
          owners,               \* the objects that keep the pair alive
          armed,                \* PairReleaseGuard::armed
          streamGuard,          \* a StreamGuard owns the slot
          broken                \* a realize failed and took the senders

vars == <<active_pairs, peer_max_concurrent, shut, pc, prev, owners, armed,
          streamGuard, broken>>

\* The caller has added to the counter and not yet given the slot back.
Holding == {"operating", "hard", "undo", "live"}
OwnerKinds == {"Stream", "DataStream", "ErrorStream"}
Holders == {p \in Pairs : pc[p] \in Holding}
Admitted == {p \in Pairs : pc[p] = "live"}

\* operating_limit(): min(local, peer), where a peer limit of 0 is no limit.
operating_limit ==
  IF peer_max_concurrent > 0 /\ peer_max_concurrent < LocalOperatingMax
  THEN peer_max_concurrent ELSE LocalOperatingMax

\* hard_limit(), with the local maximum in its place.
hard_limit ==
  IF peer_max_concurrent > 0 /\ peer_max_concurrent < LocalMaxConcurrent
  THEN peer_max_concurrent ELSE LocalMaxConcurrent

Init ==
  /\ active_pairs = 0
  /\ peer_max_concurrent = 0
  /\ shut = FALSE
  /\ pc = [p \in Pairs |-> "idle"]
  /\ prev = [p \in Pairs |-> 0]
  /\ owners = [p \in Pairs |-> {}]
  /\ armed = [p \in Pairs |-> FALSE]
  /\ streamGuard = [p \in Pairs |-> FALSE]
  /\ broken = [p \in Pairs |-> FALSE]

-----------------------------------------------------------------------------
(* open_stream_pair *)

\* The early returns on a closed mux or after a GOAWAY.
CheckOpen(p) ==
  /\ pc[p] = "idle"
  /\ ~shut
  /\ pc' = [pc EXCEPT ![p] = "reserve"]
  /\ UNCHANGED <<active_pairs, peer_max_concurrent, shut, prev, owners, armed,
                 streamGuard, broken>>

\* active_pairs.fetch_add(1)
FetchAdd(p) ==
  /\ pc[p] = "reserve"
  /\ prev' = [prev EXCEPT ![p] = active_pairs]
  /\ active_pairs' = active_pairs + 1
  /\ pc' = [pc EXCEPT ![p] = "operating"]
  /\ UNCHANGED <<peer_max_concurrent, shut, owners, armed, streamGuard, broken>>

\* Variant: the limit is compared with > instead of >=.
OperatingCheckOffByOne(p) ==
  /\ pc[p] = "operating"
  /\ pc' = [pc EXCEPT ![p] = IF prev[p] > operating_limit THEN "undo" ELSE "hard"]
  /\ UNCHANGED <<active_pairs, peer_max_concurrent, shut, prev, owners, armed,
                 streamGuard, broken>>

\* Variant: the caller's own reservation counts against it.
OperatingCheckEager(p) ==
  /\ pc[p] = "operating"
  /\ pc' = [pc EXCEPT ![p] = IF prev[p] + 1 >= operating_limit THEN "undo" ELSE "hard"]
  /\ UNCHANGED <<active_pairs, peer_max_concurrent, shut, prev, owners, armed,
                 streamGuard, broken>>

OperatingCheck(p) ==
  /\ pc[p] = "operating"
  /\ pc' = [pc EXCEPT ![p] = IF prev[p] >= operating_limit THEN "undo" ELSE "hard"]
  /\ UNCHANGED <<active_pairs, peer_max_concurrent, shut, prev, owners, armed,
                 streamGuard, broken>>

\* The hard limit re-reads the peer's; past it the Stream exists, unopened,
\* with an armed PairReleaseGuard.
HardCheck(p) ==
  /\ pc[p] = "hard"
  /\ \/ /\ prev[p] >= hard_limit
        /\ pc' = [pc EXCEPT ![p] = "undo"]
        /\ UNCHANGED <<owners, armed>>
     \/ /\ prev[p] < hard_limit
        /\ pc' = [pc EXCEPT ![p] = "live"]
        /\ owners' = [owners EXCEPT ![p] = {"Stream"}]
        /\ armed' = [armed EXCEPT ![p] = TRUE]
  /\ UNCHANGED <<active_pairs, peer_max_concurrent, shut, prev, streamGuard, broken>>

\* Variant: CapacityExhausted is returned with the slot still taken.
FetchSubForgotten(p) ==
  /\ pc[p] = "undo"
  /\ pc' = [pc EXCEPT ![p] = "idle"]
  /\ prev' = [prev EXCEPT ![p] = 0]
  /\ UNCHANGED <<active_pairs, peer_max_concurrent, shut, owners, armed,
                 streamGuard, broken>>

\* The fetch_sub before CapacityExhausted is returned.
FetchSub(p) ==
  /\ pc[p] = "undo"
  /\ active_pairs' = active_pairs - 1
  /\ pc' = [pc EXCEPT ![p] = "idle"]
  /\ prev' = [prev EXCEPT ![p] = 0]
  /\ UNCHANGED <<peer_max_concurrent, shut, owners, armed, streamGuard, broken>>

-----------------------------------------------------------------------------
(* The Stream and its two guards *)

\* split(): the two halves share the state that holds the guard.
Split(p) ==
  /\ owners[p] = {"Stream"}
  /\ owners' = [owners EXCEPT ![p] = {"DataStream", "ErrorStream"}]
  /\ UNCHANGED <<active_pairs, peer_max_concurrent, shut, pc, prev, armed,
                 streamGuard, broken>>

\* ensure_realized and finish_unopened_stream / finish_shared_open: the slot
\* passes from the PairReleaseGuard, disarmed, to a StreamGuard.
RealizeOk(p) ==
  /\ ~shut
  /\ armed' = [armed EXCEPT ![p] = FALSE]
  /\ streamGuard' = [streamGuard EXCEPT ![p] = TRUE]
  /\ UNCHANGED broken

\* A failed realize leaves the Stream unopened, without its senders.
RealizeFails(p) ==
  /\ broken' = [broken EXCEPT ![p] = TRUE]
  /\ UNCHANGED <<armed, streamGuard>>

EnsureOpen(p) ==
  /\ pc[p] = "live"
  /\ ~streamGuard[p]
  /\ ~broken[p]
  /\ RealizeOk(p) \/ RealizeFails(p)
  /\ UNCHANGED <<active_pairs, peer_max_concurrent, shut, pc, prev, owners>>

\* The fetch_subs of the guards that still own the slot of p when they drop.
PairReleaseGuardDrop(p) == IF armed[p] THEN 1 ELSE 0
StreamGuardDrop(p) == IF streamGuard[p] THEN 1 ELSE 0

\* One owner is dropped; the last one drops the guards.
DropOwner(p) ==
  /\ \E o \in owners[p] : owners' = [owners EXCEPT ![p] = @ \ {o}]
  /\ \/ /\ owners'[p] # {}
        /\ UNCHANGED <<active_pairs, pc, prev, armed, streamGuard, broken>>
     \/ /\ owners'[p] = {}
        /\ active_pairs' = active_pairs - PairReleaseGuardDrop(p) - StreamGuardDrop(p)
        /\ pc' = [pc EXCEPT ![p] = "idle"]
        /\ armed' = [armed EXCEPT ![p] = FALSE]
        /\ prev' = [prev EXCEPT ![p] = 0]
        /\ streamGuard' = [streamGuard EXCEPT ![p] = FALSE]
        /\ broken' = [broken EXCEPT ![p] = FALSE]
  /\ UNCHANGED <<peer_max_concurrent, shut>>

-----------------------------------------------------------------------------
(* The reader *)

\* SETTINGS with MAX_CONCURRENT_STREAMS.
PeerSettings ==
  /\ \E max \in PeerLimits : peer_max_concurrent' = max
  /\ UNCHANGED <<active_pairs, shut, pc, prev, owners, armed, streamGuard, broken>>

\* GOAWAY, or the transport breaks.
Shut ==
  /\ ~shut
  /\ shut' = TRUE
  /\ UNCHANGED <<active_pairs, peer_max_concurrent, pc, prev, owners, armed,
                 streamGuard, broken>>

Next ==
  \/ \E p \in Pairs :
       \/ CheckOpen(p) \/ FetchAdd(p) \/ OperatingCheck(p) \/ HardCheck(p)
       \/ FetchSub(p) \/ Split(p) \/ EnsureOpen(p) \/ DropOwner(p)
  \/ PeerSettings
  \/ Shut

Spec == Init /\ [][Next]_vars

-----------------------------------------------------------------------------
\* Types.  In particular active_pairs is never lowered below zero, whichever of
\* the guards of a pair (PairReleaseGuard, StreamGuard) is dropped last.
TypeOK ==
  /\ active_pairs \in Nat
  /\ peer_max_concurrent \in Nat
  /\ shut \in BOOLEAN
  /\ pc \in [Pairs -> Holding \cup {"idle", "reserve"}]
  /\ prev \in [Pairs -> Nat]
  /\ owners \in [Pairs -> SUBSET OwnerKinds]
  /\ armed \in [Pairs -> BOOLEAN]
  /\ streamGuard \in [Pairs -> BOOLEAN]
  /\ broken \in [Pairs -> BOOLEAN]

\* The counter is the number of slots held: every reservation is given back
\* once, by exactly one of FetchSub, PairReleaseGuard and StreamGuard, however
\* the callers interleave and whether or not the pair was split or realized.
SlotAccounting == active_pairs = Cardinality(Holders)

\* The callers that got a Stream never exceed the operating cap (nor the
\* protocol cap), although the counter itself overshoots both while callers
\* race through open_stream_pair.
AdmittedWithinLimit ==
  /\ Cardinality(Admitted) <= LocalOperatingMax
  /\ Cardinality(Admitted) <= LocalMaxConcurrent

-----------------------------------------------------------------------------
\* Where a caller is, seen from outside.
PlaceOf(l) ==
  CASE l \in {"idle", "reserve"} -> "out"
    [] l \in {"operating", "hard"} -> "door"
    [] l = "undo" -> "denied"
    [] l = "live" -> "in"

Cap == IF LocalOperatingMax < LocalMaxConcurrent THEN LocalOperatingMax
       ELSE LocalMaxConcurrent

Room == INSTANCE Admission
          WITH Callers <- Pairs, peer <- peer_max_concurrent,
               place <- [p \in Pairs |-> PlaceOf(pc[p])], seen <- prev

\* fetch_add, the two comparisons and the fetch_subs of handle.rs and of the guards amount
\* to counting and deciding under a lock: a caller is admitted only while fewer than the
\* smaller local limit are, and CapacityExhausted is returned only to one that found the
\* limit reached by others, reservations about to be undone included (handle.rs:336-386).
ImplementsAdmission == Room!ASpec
=============================================================================
