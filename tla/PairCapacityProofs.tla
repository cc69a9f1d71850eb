------------------------- MODULE PairCapacityProofs -------------------------
(***************************************************************************)
(* SlotAccounting and AdmittedWithinLimit for any set of callers and any   *)
(* limits.                                                                 *)
(*                                                                         *)
(* The counter says how many slots are held but not by whom, so neither    *)
(* property is inductive.  A caller keeps what its fetch_add returned, its *)
(* ticket; the callers whose ticket is below k are never more than k,      *)
(* because a new ticket below k is handed out only while fewer than k      *)
(* slots are held.  Being admitted means having a ticket below the limit.  *)
(***************************************************************************)
EXTENDS PairCapacity, FiniteSetTheorems, TLAPS

\* The holders whose fetch_add returned less than k.
Below(k) == {p \in Holders : prev[p] < k}

\* Which guard owns the slot of p, and the ticket p was admitted with.
Ownership(p) ==
  /\ pc[p] = "live" => (armed[p] <=> ~streamGuard[p]) /\ owners[p] # {}
  /\ pc[p] # "live" => ~armed[p] /\ ~streamGuard[p] /\ owners[p] = {}
  /\ pc[p] \in {"hard", "live"} => prev[p] < LocalOperatingMax
  /\ pc[p] = "live" => prev[p] < LocalMaxConcurrent

Tickets ==
  /\ Cardinality(Below(LocalOperatingMax)) <= LocalOperatingMax
  /\ Cardinality(Below(LocalMaxConcurrent)) <= LocalMaxConcurrent

IndInv ==
  /\ TypeOK
  /\ \A p \in Pairs : Ownership(p)
  /\ SlotAccounting
  /\ Tickets
-----------------------------------------------------------------------------

\* Every set the invariant counts is a finite set of callers.
LEMMA FiniteCallers ==
  ASSUME NEW S \in SUBSET Pairs
  PROVE  IsFiniteSet(S) /\ Cardinality(S) \in Nat
BY PairsFinite, FS_Subset, FS_CardinalityType

\* The sets of owners a pair goes through.
LEMMA OwnerSets ==
  /\ {} \in SUBSET OwnerKinds
  /\ {"Stream"} \in SUBSET OwnerKinds
  /\ {"DataStream", "ErrorStream"} \in SUBSET OwnerKinds
  /\ \A S \in SUBSET OwnerKinds : \A o : S \ {o} \in SUBSET OwnerKinds
BY DEF OwnerKinds

\* A caller that takes a slot gets the number of slots held as its ticket, so
\* the count and both ticket bounds survive (fetch_add of open_stream_pair).
LEMMA TakeSlot ==
  ASSUME IndInv, NEW p \in Pairs, pc[p] \notin Holding, pc'[p] \in Holding,
         \A q \in Pairs \ {p} : pc'[q] = pc[q] /\ prev'[q] = prev[q],
         prev'[p] = active_pairs, active_pairs' = active_pairs + 1
  PROVE  SlotAccounting' /\ Tickets'
<1>1. Holders' = Holders \cup {p} /\ p \notin Holders /\ Holders \in SUBSET Pairs
  BY DEF Holders
<1>2. active_pairs = Cardinality(Holders)
  BY DEF IndInv, SlotAccounting
<1>3. Cardinality(Holders') = Cardinality(Holders) + 1
  BY <1>1, FiniteCallers, FS_AddElement
<1>4. SlotAccounting'
  BY <1>2, <1>3 DEF SlotAccounting
<1>5. ASSUME NEW k \in Nat, Cardinality(Below(k)) <= k
      PROVE  Cardinality(Below(k)') <= k
  <2>1. Below(k) \in SUBSET Holders /\ p \notin Below(k) /\ IsFiniteSet(Holders)
    BY <1>1, FiniteCallers DEF Below
  <2>2. Cardinality(Below(k)) <= Cardinality(Holders) /\ Cardinality(Below(k)) \in Nat
        /\ Cardinality(Holders) \in Nat /\ IsFiniteSet(Below(k))
    BY <2>1, <1>1, FS_Subset, FiniteCallers DEF Below
  <2>3. CASE active_pairs < k
    <3>1. Below(k)' = Below(k) \cup {p}
      BY <1>1, <2>3 DEF Below, Holders
    <3>2. Cardinality(Below(k) \cup {p}) = Cardinality(Below(k)) + 1
      BY <2>1, <2>2, FS_AddElement
    <3>3. Cardinality(Below(k)) + 1 <= k
      BY <2>2, <2>3, <1>2
    <3>. QED  BY <3>1, <3>2, <3>3
  <2>4. CASE ~(active_pairs < k)
    <3>1. Below(k)' = Below(k)
      BY <1>1, <2>4 DEF Below, Holders
    <3>. QED  BY <3>1, <1>5
  <2>. QED  BY <2>3, <2>4
<1>. QED  BY <1>4, <1>5, LimitsAreNat DEF Tickets, IndInv

\* A caller that gives its slot back lowers the counter by one and leaves the
\* tickets of the others alone (the fetch_sub of the undo and of the guards).
LEMMA GiveSlotBack ==
  ASSUME IndInv, NEW p \in Pairs, pc[p] \in Holding, pc'[p] \notin Holding,
         \A q \in Pairs \ {p} : pc'[q] = pc[q] /\ prev'[q] = prev[q],
         active_pairs' = active_pairs - 1
  PROVE  SlotAccounting' /\ Tickets'
<1>1. Holders' = Holders \ {p} /\ p \in Holders /\ Holders \in SUBSET Pairs
  BY DEF Holders
<1>2. Cardinality(Holders') = Cardinality(Holders) - 1
  BY <1>1, FiniteCallers, FS_RemoveElement
<1>3. SlotAccounting'
  BY <1>2 DEF SlotAccounting, IndInv
<1>4. ASSUME NEW k \in Nat, Cardinality(Below(k)) <= k
      PROVE  Cardinality(Below(k)') <= k
  <2>1. Below(k)' \in SUBSET Below(k) /\ Below(k) \in SUBSET Pairs
        /\ Below(k)' \in SUBSET Pairs
    BY <1>1 DEF Below, Holders
  <2>2. Cardinality(Below(k)') <= Cardinality(Below(k))
    BY <2>1, FiniteCallers, FS_Subset
  <2>. QED  BY <2>1, <2>2, <1>4, FiniteCallers
<1>. QED  BY <1>3, <1>4, LimitsAreNat DEF Tickets, IndInv

\* A step that moves no caller in or out of a slot keeps count and tickets.
LEMMA SameSlots ==
  ASSUME IndInv, active_pairs' = active_pairs,
         \A q \in Pairs : /\ pc'[q] \in Holding <=> pc[q] \in Holding
                          /\ pc[q] \in Holding => prev'[q] = prev[q]
  PROVE  SlotAccounting' /\ Tickets'
<1>1. Holders' = Holders
  BY DEF Holders
<1>2. \A k : Below(k)' = Below(k)
  BY <1>1 DEF Below, Holders
<1>. QED  BY <1>1, <1>2 DEF IndInv, SlotAccounting, Tickets
-----------------------------------------------------------------------------

\* The invariant holds in a new MuxHandle.
LEMMA InitInv == Init => IndInv
<1> SUFFICES ASSUME Init PROVE IndInv
  OBVIOUS
<1>1. TypeOK
  <2>1. owners \in [Pairs -> SUBSET OwnerKinds]
    BY OwnerSets DEF Init
  <2>2. pc \in [Pairs -> Holding \cup {"idle", "reserve"}]
    BY DEF Init, Holding
  <2>3. armed \in [Pairs -> BOOLEAN] /\ streamGuard \in [Pairs -> BOOLEAN]
        /\ broken \in [Pairs -> BOOLEAN] /\ prev \in [Pairs -> Nat]
    BY DEF Init
  <2>4. active_pairs = 0 /\ peer_max_concurrent = 0 /\ shut = FALSE
    BY Zenon DEF Init
  <2>5. active_pairs \in Nat /\ peer_max_concurrent \in Nat
    BY <2>4
  <2>6. shut \in BOOLEAN
    BY <2>4
  <2>. QED  BY <2>1, <2>2, <2>3, <2>5, <2>6, Zenon DEF TypeOK
<1>2. \A p \in Pairs : Ownership(p)
  BY DEF Init, Ownership
<1>3. Holders = {} /\ \A k : Below(k) = {}
  BY DEF Init, Holders, Holding, Below
<1>4. SlotAccounting /\ Tickets
  BY <1>3, FS_EmptySet, LimitsAreNat DEF Init, SlotAccounting, Tickets
<1>. QED  BY <1>1, <1>2, <1>4 DEF IndInv

\* Every step of a caller, of the application and of the reader keeps it.
LEMMA StepInv == IndInv /\ [Next]_vars => IndInv'
<1> SUFFICES ASSUME IndInv, [Next]_vars PROVE IndInv'
  OBVIOUS
<1>t. TypeOK /\ SlotAccounting /\ \A p \in Pairs : Ownership(p)
  BY DEF IndInv
<1>n. active_pairs \in Nat
  BY <1>t, FiniteCallers DEF SlotAccounting, Holders
<1> USE DEF Holding
<1>1. ASSUME NEW p \in Pairs, CheckOpen(p)  PROVE IndInv'
  <2>1. TypeOK' /\ \A q \in Pairs : Ownership(q)'
    BY <1>1, <1>t DEF CheckOpen, TypeOK, Ownership
  <2>2. SlotAccounting' /\ Tickets'
    BY <1>1, <1>t, SameSlots DEF CheckOpen, TypeOK
  <2>. QED  BY <2>1, <2>2 DEF IndInv
<1>2. ASSUME NEW p \in Pairs, FetchAdd(p)  PROVE IndInv'
  <2>1. TypeOK' /\ \A q \in Pairs : Ownership(q)'
    BY <1>2, <1>t, <1>n DEF FetchAdd, TypeOK, Ownership
  <2>2. SlotAccounting' /\ Tickets'
    BY <1>2, <1>t, TakeSlot DEF FetchAdd, TypeOK
  <2>. QED  BY <2>1, <2>2 DEF IndInv
<1>3. ASSUME NEW p \in Pairs, OperatingCheck(p)  PROVE IndInv'
  <2>1. TypeOK' /\ \A q \in Pairs : Ownership(q)'
    BY <1>3, <1>t, LimitsAreNat DEF OperatingCheck, operating_limit, TypeOK, Ownership
  <2>2. SlotAccounting' /\ Tickets'
    BY <1>3, <1>t, SameSlots DEF OperatingCheck, TypeOK
  <2>. QED  BY <2>1, <2>2 DEF IndInv
<1>4. ASSUME NEW p \in Pairs, HardCheck(p)  PROVE IndInv'
  <2>1. TypeOK'
    <3>1. owners' \in [Pairs -> SUBSET OwnerKinds]
      BY <1>4, <1>t, OwnerSets DEF HardCheck, TypeOK
    <3>2. armed' \in [Pairs -> BOOLEAN] /\ streamGuard' \in [Pairs -> BOOLEAN]
          /\ broken' \in [Pairs -> BOOLEAN]
      BY <1>4, <1>t DEF HardCheck, TypeOK
    <3>. QED  BY <1>4, <1>t, <3>1, <3>2 DEF HardCheck, TypeOK
  <2>2. \A q \in Pairs : Ownership(q)'
    BY <1>4, <1>t, LimitsAreNat DEF HardCheck, hard_limit, TypeOK, Ownership
  <2>3. SlotAccounting' /\ Tickets'
    BY <1>4, <1>t, SameSlots DEF HardCheck, TypeOK
  <2>. QED  BY <2>1, <2>2, <2>3 DEF IndInv
<1>5. ASSUME NEW p \in Pairs, FetchSub(p)  PROVE IndInv'
  <2>1. active_pairs' = active_pairs - 1
    BY <1>5 DEF FetchSub
  <2>2. SlotAccounting' /\ Tickets'
    BY <1>5, <1>t, <2>1, GiveSlotBack DEF FetchSub, TypeOK
  <2>3. active_pairs' \in Nat
    BY <2>2, FiniteCallers DEF SlotAccounting, Holders
  <2>4. TypeOK' /\ \A q \in Pairs : Ownership(q)'
    BY <1>5, <1>t, <2>3 DEF FetchSub, TypeOK, Ownership
  <2>. QED  BY <2>2, <2>4 DEF IndInv
<1>6. ASSUME NEW p \in Pairs, Split(p)  PROVE IndInv'
  <2>1. TypeOK' /\ \A q \in Pairs : Ownership(q)'
    BY <1>6, <1>t, OwnerSets DEF Split, TypeOK, Ownership
  <2>2. SlotAccounting' /\ Tickets'
    BY <1>6, <1>t, SameSlots DEF Split, TypeOK
  <2>. QED  BY <2>1, <2>2 DEF IndInv
<1>7. ASSUME NEW p \in Pairs, EnsureOpen(p)  PROVE IndInv'
  <2>1. TypeOK' /\ \A q \in Pairs : Ownership(q)'
    BY <1>7, <1>t DEF EnsureOpen, RealizeOk, RealizeFails, TypeOK, Ownership
  <2>2. SlotAccounting' /\ Tickets'
    BY <1>7, <1>t, SameSlots DEF EnsureOpen, TypeOK
  <2>. QED  BY <2>1, <2>2 DEF IndInv
<1>8. ASSUME NEW p \in Pairs, DropOwner(p)  PROVE IndInv'
  <2> USE DEF PairReleaseGuardDrop, StreamGuardDrop
  <2>o. pc[p] = "live"
    BY <1>8, <1>t DEF DropOwner, Ownership
  <2>1. SlotAccounting' /\ Tickets'
    <3>1. CASE owners'[p] # {}
      BY <1>8, <1>t, <3>1, SameSlots DEF DropOwner, TypeOK
    <3>2. CASE owners'[p] = {}
      <4>1. active_pairs' = active_pairs - 1
        BY <1>8, <1>t, <1>n, <2>o, <3>2 DEF DropOwner, TypeOK, Ownership
      <4>. QED
        BY <1>8, <1>t, <2>o, <3>2, <4>1, GiveSlotBack DEF DropOwner, TypeOK
    <3>. QED  BY <3>1, <3>2
  <2>2. TypeOK'
    <3>1. owners' \in [Pairs -> SUBSET OwnerKinds]
      BY <1>8, <1>t, OwnerSets DEF DropOwner, TypeOK
    <3>2. armed' \in [Pairs -> BOOLEAN] /\ streamGuard' \in [Pairs -> BOOLEAN]
          /\ broken' \in [Pairs -> BOOLEAN]
      BY <1>8, <1>t DEF DropOwner, TypeOK
    <3>3. active_pairs' \in Nat
      BY <2>1, FiniteCallers DEF SlotAccounting, Holders
    <3>. QED  BY <1>8, <1>t, <3>1, <3>2, <3>3 DEF DropOwner, TypeOK
  <2>3. \A q \in Pairs : Ownership(q)'
    BY <1>8, <1>t, <2>o DEF DropOwner, TypeOK, Ownership
  <2>. QED  BY <2>1, <2>2, <2>3 DEF IndInv
<1>9. CASE PeerSettings \/ Shut \/ UNCHANGED vars
  <2>1. TypeOK' /\ \A q \in Pairs : Ownership(q)'
    BY <1>9, <1>t, LimitsAreNat DEF PeerSettings, Shut, vars, TypeOK, Ownership
  <2>2. SlotAccounting' /\ Tickets'
    BY <1>9, <1>t, SameSlots DEF PeerSettings, Shut, vars
  <2>. QED  BY <2>1, <2>2 DEF IndInv
<1>. QED
  BY <1>1, <1>2, <1>3, <1>4, <1>5, <1>6, <1>7, <1>8, <1>9 DEF Next

\* The inductive invariant holds in every reachable state.
LEMMA Invariant == Spec => []IndInv
<1>. QED  BY InitInv, StepInv, PTL DEF Spec

\* Every variable keeps its type for any number of callers; above all the
\* unsigned active_pairs is never taken below zero by a release.
THEOREM TypeCorrect == Spec => []TypeOK
<1>1. IndInv => TypeOK
  BY DEF IndInv
<1>. QED  BY <1>1, Invariant, PTL

\* active_pairs is the number of slots held, for any number of callers: no
\* interleaving of opens, failed opens, splits and drops leaks or releases
\* a slot twice.
THEOREM SlotsAccounted == Spec => []SlotAccounting
<1>1. IndInv => SlotAccounting
  BY DEF IndInv
<1>. QED  BY <1>1, Invariant, PTL

\* The pairs handed out never exceed the operating cap or the protocol cap,
\* whatever the callers race through and whatever the peer advertises.
THEOREM AdmissionBounded == Spec => []AdmittedWithinLimit
<1>1. IndInv => AdmittedWithinLimit
  <2> SUFFICES ASSUME IndInv PROVE AdmittedWithinLimit
    OBVIOUS
  <2>1. /\ Admitted \in SUBSET Below(LocalOperatingMax)
        /\ Admitted \in SUBSET Below(LocalMaxConcurrent)
        /\ Below(LocalOperatingMax) \in SUBSET Pairs
        /\ Below(LocalMaxConcurrent) \in SUBSET Pairs
    BY DEF Admitted, Below, Holders, Holding, IndInv, Ownership
  <2>2. /\ Cardinality(Admitted) <= Cardinality(Below(LocalOperatingMax))
        /\ Cardinality(Admitted) <= Cardinality(Below(LocalMaxConcurrent))
    BY <2>1, FS_Subset, FiniteCallers
  <2>3. /\ Cardinality(Admitted) \in Nat
        /\ Cardinality(Below(LocalOperatingMax)) \in Nat
        /\ Cardinality(Below(LocalMaxConcurrent)) \in Nat
    BY <2>1, FiniteCallers DEF Admitted
  <2>. QED  BY <2>2, <2>3, LimitsAreNat DEF IndInv, Tickets, AdmittedWithinLimit
<1>. QED  BY <1>1, Invariant, PTL
-----------------------------------------------------------------------------

\* Counting in the room is counting here.
LEMMA SameCount ==
  ASSUME NEW S
  PROVE  Room!Cardinality(S) = Cardinality(S)
BY DEF Room!Cardinality, Cardinality

\* Seen from outside, those present are the holders and those inside are the admitted.
LEMMA RoomSets ==
  ASSUME TypeOK
  PROVE  Room!Present = Holders /\ Room!Inside = Admitted
<1>1. \A p \in Pairs : pc[p] \in Holding \cup {"idle", "reserve"}
  BY DEF TypeOK
<1>. QED  BY <1>1 DEF Room!Present, Room!Inside, Holders, Admitted, Holding, PlaceOf

\* While a caller with a ticket below both limits is about to be admitted a place is free.
LEMMA FreePlace ==
  ASSUME IndInv, NEW p \in Pairs, pc[p] = "hard", prev[p] < LocalMaxConcurrent
  PROVE  Cardinality(Admitted) < Cap
<1>1. /\ Admitted \cup {p} \in SUBSET Below(LocalOperatingMax)
      /\ Admitted \cup {p} \in SUBSET Below(LocalMaxConcurrent)
      /\ Below(LocalOperatingMax) \in SUBSET Pairs
      /\ Below(LocalMaxConcurrent) \in SUBSET Pairs
      /\ p \notin Admitted /\ Admitted \in SUBSET Pairs
  BY DEF Admitted, Below, Holders, Holding, IndInv, Ownership
<1>2. Cardinality(Admitted \cup {p}) = Cardinality(Admitted) + 1
  BY <1>1, FiniteCallers, FS_AddElement
<1>3. /\ Cardinality(Admitted \cup {p}) <= Cardinality(Below(LocalOperatingMax))
      /\ Cardinality(Admitted \cup {p}) <= Cardinality(Below(LocalMaxConcurrent))
  BY <1>1, FS_Subset, FiniteCallers
<1>4. /\ Cardinality(Admitted) \in Nat
      /\ Cardinality(Below(LocalOperatingMax)) \in Nat
      /\ Cardinality(Below(LocalMaxConcurrent)) \in Nat
  BY <1>1, FiniteCallers
<1>. QED  BY <1>2, <1>3, <1>4, LimitsAreNat DEF IndInv, Tickets, Cap

\* Every step is a step of the room, or changes nothing that can be seen from outside.
LEMMA StepSimulation == IndInv /\ [Next]_vars => [Room!ANext]_(Room!avars)
<1> SUFFICES ASSUME IndInv, [Next]_vars PROVE [Room!ANext]_(Room!avars)
  OBVIOUS
<1> DEFINE place == [p \in Pairs |-> PlaceOf(pc[p])]
<1>t. TypeOK /\ SlotAccounting /\ \A p \in Pairs : Ownership(p)
  BY DEF IndInv
<1>p. pc \in [Pairs -> Holding \cup {"idle", "reserve"}] /\ prev \in [Pairs -> Nat]
  BY <1>t DEF TypeOK
<1>m. ASSUME NEW p \in Pairs, NEW l, pc' = [pc EXCEPT ![p] = l]
      PROVE  place' = [place EXCEPT ![p] = PlaceOf(l)]
  BY <1>m, <1>p
<1>s. ASSUME place' = place, prev' = prev, peer_max_concurrent' = peer_max_concurrent
      PROVE  UNCHANGED Room!avars
  BY <1>s DEF Room!avars
<1>i. ASSUME NEW p \in Pairs PROVE place[p] = PlaceOf(pc[p])
  OBVIOUS
<1>1. ASSUME NEW p \in Pairs, CheckOpen(p)  PROVE UNCHANGED Room!avars
  <2>1. place[p] = "out" /\ place' = [place EXCEPT ![p] = "out"]
    BY <1>1, <1>m, <1>i DEF CheckOpen, PlaceOf
  <2>2. place' = place
    BY <2>1
  <2>. QED  BY <2>2, <1>1, <1>s DEF CheckOpen
<1>2. ASSUME NEW p \in Pairs, FetchAdd(p)  PROVE Room!Arrive(p)
  <2>1. place[p] = "out" /\ place' = [place EXCEPT ![p] = "door"]
    BY <1>2, <1>m, <1>i DEF FetchAdd, PlaceOf
  <2>2. prev' = [prev EXCEPT ![p] = Room!Cardinality(Room!Present)]
    BY <1>2, <1>t, RoomSets, SameCount DEF FetchAdd, SlotAccounting
  <2>. QED  BY <2>1, <2>2, <1>2 DEF FetchAdd, Room!Arrive
<1>3. ASSUME NEW p \in Pairs, OperatingCheck(p)
      PROVE  Room!Deny(p) \/ UNCHANGED Room!avars
  <2>1. CASE prev[p] >= operating_limit
    <3>1. place[p] = "door" /\ place' = [place EXCEPT ![p] = "denied"]
      BY <1>3, <2>1, <1>m, <1>i DEF OperatingCheck, PlaceOf
    <3>2. prev[p] >= Room!Limit
      BY <2>1, <1>t, <1>p, LimitsAreNat DEF operating_limit, Room!Limit, Cap, TypeOK
    <3>. QED  BY <3>1, <3>2, <1>3 DEF OperatingCheck, Room!Deny
  <2>2. CASE ~(prev[p] >= operating_limit)
    <3>1. place[p] = "door" /\ place' = [place EXCEPT ![p] = "door"]
      BY <1>3, <2>2, <1>m, <1>i DEF OperatingCheck, PlaceOf
    <3>2. place' = place
      BY <3>1
    <3>. QED  BY <3>2, <1>3, <1>s DEF OperatingCheck
  <2>. QED  BY <2>1, <2>2
<1>4. ASSUME NEW p \in Pairs, HardCheck(p)  PROVE Room!Deny(p) \/ Room!Admit(p)
  <2>0. place[p] = "door"
    BY <1>4, <1>i DEF HardCheck, PlaceOf
  <2>1. CASE prev[p] >= hard_limit
    <3>1. pc' = [pc EXCEPT ![p] = "undo"]
      BY <1>4, <2>1, <1>t, <1>p, LimitsAreNat DEF HardCheck, hard_limit, TypeOK
    <3>2. place' = [place EXCEPT ![p] = "denied"]
      BY <3>1, <1>m DEF PlaceOf
    <3>3. prev[p] >= Room!Limit
      BY <2>1, <1>t, <1>p, LimitsAreNat DEF hard_limit, Room!Limit, Cap, TypeOK
    <3>. QED  BY <2>0, <3>2, <3>3, <1>4 DEF HardCheck, Room!Deny
  <2>2. CASE ~(prev[p] >= hard_limit)
    <3>1. pc' = [pc EXCEPT ![p] = "live"] /\ pc[p] = "hard"
      BY <1>4, <2>2 DEF HardCheck
    <3>2. place' = [place EXCEPT ![p] = "in"]
      BY <3>1, <1>m DEF PlaceOf
    <3>3. prev[p] < LocalMaxConcurrent
      BY <2>2, <1>t, <1>p, LimitsAreNat DEF hard_limit, TypeOK
    <3>4. Room!Cardinality(Room!Inside) < Cap
      BY <3>1, <3>3, <1>t, FreePlace, RoomSets, SameCount
    <3>. QED  BY <2>0, <3>2, <3>4, <1>4 DEF HardCheck, Room!Admit
  <2>. QED  BY <2>1, <2>2
<1>5. ASSUME NEW p \in Pairs, FetchSub(p)  PROVE Room!Leave(p)
  <2>1. place[p] = "denied" /\ place' = [place EXCEPT ![p] = "out"]
    BY <1>5, <1>m, <1>i DEF FetchSub, PlaceOf
  <2>. QED  BY <2>1, <1>5 DEF FetchSub, Room!Leave
<1>6. ASSUME NEW p \in Pairs, Split(p) \/ EnsureOpen(p)  PROVE UNCHANGED Room!avars
  BY <1>6, <1>s DEF Split, EnsureOpen
<1>7. ASSUME NEW p \in Pairs, DropOwner(p)
      PROVE  Room!Leave(p) \/ UNCHANGED Room!avars
  <2>1. CASE owners'[p] # {}
    BY <1>7, <2>1, <1>s DEF DropOwner
  <2>2. CASE owners'[p] = {}
    <3>1. pc[p] = "live"
      BY <1>7, <1>t DEF DropOwner, Ownership
    <3>2. place[p] = "in" /\ place' = [place EXCEPT ![p] = "out"]
      BY <1>7, <2>2, <3>1, <1>m, <1>i DEF DropOwner, PlaceOf
    <3>. QED  BY <2>2, <3>2, <1>7 DEF DropOwner, Room!Leave
  <2>. QED  BY <2>1, <2>2
<1>8. ASSUME PeerSettings  PROVE Room!ChangeLimit
  BY <1>8 DEF PeerSettings, Room!ChangeLimit
<1>9. ASSUME Shut \/ UNCHANGED vars  PROVE UNCHANGED Room!avars
  BY <1>9, <1>s DEF Shut, vars
<1>. QED
  BY <1>1, <1>2, <1>3, <1>4, <1>5, <1>6, <1>7, <1>8, <1>9 DEF Next, Room!ANext

\* The counter with its undone reservations implements the room, for any number of callers
\* and any limits: no caller is refused unless the limit was reached when it reserved.
THEOREM AdmissionRefined == Spec => ImplementsAdmission
<1>1. Init => Room!AInit
  BY DEF Init, Room!AInit, PlaceOf
<1>. QED
  BY <1>1, StepSimulation, Invariant, PTL DEF Spec, ImplementsAdmission, Room!ASpec
=============================================================================
