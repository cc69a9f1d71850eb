------------------------------ MODULE LossyPipe ------------------------------
(***************************************************************************)
(* What streams promise the application that reads them: of each the bytes *)
(* 1, 2, ... of the peer in order, but for the missing ones, of which the  *)
(* stream knows the number, and the end only when there is nothing more to *)
(* come, unless it is aborted.                                             *)
(***************************************************************************)
EXTENDS Integers, Sequences

CONSTANT Streams

VARIABLES written,  \* bytes the peer has written
          closed,   \* it will write no more
          flying,   \* bytes on their way
          read,     \* bytes the application has read
          eof,      \* it has read the end
          missing,  \* number of bytes lost
          aborted   \* streams

pvars == <<written, closed, flying, read, eof, missing, aborted>>

PInit ==
  /\ written = [s \in Streams |-> 0] /\ closed = [s \in Streams |-> FALSE]
  /\ flying = [s \in Streams |-> <<>>] /\ read = [s \in Streams |-> <<>>]
  /\ eof = [s \in Streams |-> FALSE] /\ missing = [s \in Streams |-> 0] /\ aborted = {}

\* The peer writes; what it writes may be lost at once, and the stream aborted for that.
Write(s) ==
  LET more == [i \in 1 .. written'[s] - written[s] |-> written[s] + i]
  IN /\ ~closed[s] /\ written'[s] >= written[s]
     /\ written' = [written EXCEPT ![s] = written'[s]]
     /\ closed' \in {closed, [closed EXCEPT ![s] = TRUE]}
     /\ \/ flying' = [flying EXCEPT ![s] = @ \o more] /\ UNCHANGED missing
        \/ missing' = [missing EXCEPT ![s] = @ + Len(more)] /\ UNCHANGED flying
     /\ aborted' \in {aborted, aborted \cup {s}}
     /\ UNCHANGED <<read, eof>>

\* Some bytes on their way do not arrive.
Lose(s) ==
  /\ \E i \in 1 .. Len(flying[s]), j \in 1 .. Len(flying[s]) :
       /\ i <= j
       /\ flying' = [flying EXCEPT ![s] = SubSeq(@, 1, i-1) \o SubSeq(@, j+1, Len(@))]
       /\ missing' = [missing EXCEPT ![s] = @ + j - i + 1]
  /\ UNCHANGED <<written, closed, read, eof, aborted>>

Read(s) ==
  /\ ~eof[s]
  /\ \E n \in 1 .. Len(flying[s]) :
       /\ read' = [read EXCEPT ![s] = @ \o SubSeq(flying[s], 1, n)]
       /\ flying' = [flying EXCEPT ![s] = SubSeq(@, n+1, Len(@))]
  /\ UNCHANGED <<written, closed, eof, missing, aborted>>

ReadEnd(s) ==
  /\ ~eof[s]
  /\ (closed[s] /\ flying[s] = <<>>) \/ s \in aborted
  /\ eof' = [eof EXCEPT ![s] = TRUE]
  /\ UNCHANGED <<written, closed, flying, read, missing, aborted>>

Abort ==
  /\ aborted \subseteq aborted'
  /\ UNCHANGED <<written, closed, flying, read, eof, missing>>

PNext == Abort \/ \E s \in Streams : Write(s) \/ Lose(s) \/ Read(s) \/ ReadEnd(s)

PSpec == PInit /\ [][PNext]_pvars
=============================================================================
