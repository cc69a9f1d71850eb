------------------------------ MODULE Admission ------------------------------
(***************************************************************************)
(* What a MuxHandle promises its callers about capacity: a room with Cap   *)
(* places.  Who comes in counts, at once, those inside and at the door; is *)
(* let in only while a place is free; and is sent away only if the count   *)
(* had reached the limit that the peer and the room set.                   *)
(***************************************************************************)
EXTENDS Integers, FiniteSets

CONSTANTS Callers, Cap, PeerLimits

VARIABLES peer,    \* the peer's limit, 0 when it has none
          place,   \* of a caller: "out", "door", "denied", "in"
          seen     \* what a caller at the door has counted

avars == <<peer, place, seen>>

Places == {"out", "door", "denied", "in"}
Inside == {c \in Callers : place[c] = "in"}
Present == {c \in Callers : place[c] # "out"}
Limit == IF peer > 0 /\ peer < Cap THEN peer ELSE Cap

AInit ==
  /\ peer = 0
  /\ place = [c \in Callers |-> "out"]
  /\ seen = [c \in Callers |-> 0]

Arrive(c) ==
  /\ place[c] = "out"
  /\ place' = [place EXCEPT ![c] = "door"]
  /\ seen' = [seen EXCEPT ![c] = Cardinality(Present)]
  /\ UNCHANGED peer

Admit(c) ==
  /\ place[c] = "door"
  /\ Cardinality(Inside) < Cap
  /\ place' = [place EXCEPT ![c] = "in"]
  /\ UNCHANGED <<peer, seen>>

Deny(c) ==
  /\ place[c] = "door"
  /\ seen[c] >= Limit
  /\ place' = [place EXCEPT ![c] = "denied"]
  /\ UNCHANGED <<peer, seen>>

Leave(c) ==
  /\ place[c] \in {"denied", "in"}
  /\ place' = [place EXCEPT ![c] = "out"]
  /\ seen' = [seen EXCEPT ![c] = 0]
  /\ UNCHANGED peer

ChangeLimit == peer' \in PeerLimits /\ UNCHANGED <<place, seen>>

ANext ==
  \/ \E c \in Callers : Arrive(c) \/ Admit(c) \/ Deny(c) \/ Leave(c)
  \/ ChangeLimit

ASpec == AInit /\ [][ANext]_avars
=============================================================================
