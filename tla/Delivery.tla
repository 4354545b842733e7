------------------------------ MODULE Delivery ------------------------------
(***************************************************************************)
(* An at-least-once delivery: what is offered may be stored, again and     *)
(* again, until it is settled; only what was stored is settled, and        *)
(* nothing is stored after that.                                           *)
(***************************************************************************)
EXTENDS Naturals

CONSTANT Items

VARIABLES
  offered,  \* what the source has
  settled,  \* what it will not offer again
  stored    \* stored[x]: how often x was stored

Init ==
  /\ offered = {}
  /\ settled = {}
  /\ stored = [x \in Items |-> 0]

Offer(x) ==
  /\ x \notin offered
  /\ offered' = offered \cup {x}
  /\ UNCHANGED <<settled, stored>>

Store(x) ==
  /\ x \in offered \ settled
  /\ stored' = [stored EXCEPT ![x] = @ + 1]
  /\ UNCHANGED <<offered, settled>>

Settle(X) ==
  /\ \A x \in X : stored[x] > 0
  /\ settled' = settled \cup X
  /\ UNCHANGED <<offered, stored>>

Next ==
  \/ \E x \in Items : Offer(x) \/ Store(x)
  \/ \E X \in SUBSET offered : Settle(X)

Spec == Init /\ [][Next]_<<offered, settled, stored>>
=============================================================================
