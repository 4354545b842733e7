---------------------------- MODULE MCRecording ----------------------------
(* The instances of Recording that TLC checks: four start requests, two    *)
(* of which ask for the same name, at most two of them handled at a time.  *)
EXTENDS Recording, TLC

CONSTANTS s1, s2, s3, s4, backup, reset, signup

MCNameOf ==
  [s \in Starts |-> IF s = s3 THEN backup ELSE IF s = s4 THEN reset ELSE signup]

\* Requests of one kind and of one name are interchangeable.
Symmetry == Permutations({s1, s2}) \cup Permutations(Stops) \cup Permutations(Events)
=============================================================================
