----------------------------- MODULE EventFeed -----------------------------
(***************************************************************************)
(* What the live timeline promises its viewers, without channels, locks or *)
(* handlers.  Captured events are recorded; some recorded events are then  *)
(* announced, one after another, which gives each of them a rank; a viewer *)
(* sees announced events only, each at most once, and in the order of      *)
(* their ranks.  A viewer may skip events, but it never sees an older one  *)
(* after a newer one.                                                      *)
(***************************************************************************)
EXTENDS Naturals

CONSTANTS Events,   \* captured events
          Viewers   \* connections to the live stream

VARIABLES recorded, \* the events that are in the events table
          rank,     \* rank[e] > 0: e was announced, as number rank[e]
          last,     \* the highest rank given so far
          seen,     \* seen[v]: the events v was shown
          top       \* top[v]: the rank of the newest event v was shown

vars == <<recorded, rank, last, seen, top>>

Init ==
  /\ recorded = {}
  /\ rank = [e \in Events |-> 0]
  /\ last = 0
  /\ seen = [v \in Viewers |-> {}]
  /\ top = [v \in Viewers |-> 0]

Record(e) ==
  /\ e \notin recorded
  /\ recorded' = recorded \cup {e}
  /\ UNCHANGED <<rank, last, seen, top>>

Announce(e) ==
  /\ e \in recorded
  /\ rank[e] = 0
  /\ last' = last + 1
  /\ rank' = [rank EXCEPT ![e] = last + 1]
  /\ UNCHANGED <<recorded, seen, top>>

Show(v, e) ==
  /\ rank[e] > top[v]
  /\ seen' = [seen EXCEPT ![v] = @ \cup {e}]
  /\ top' = [top EXCEPT ![v] = rank[e]]
  /\ UNCHANGED <<recorded, rank, last>>

Next ==
  \/ \E e \in Events : Record(e) \/ Announce(e)
  \/ \E v \in Viewers, e \in Events : Show(v, e)

Spec == Init /\ [][Next]_vars
=============================================================================
