---------------------------- MODULE MCFaultRules ----------------------------
(***************************************************************************)
(* The instances of FaultRules that TLC checks: a rule with a limit of one *)
(* hit and one without a limit that expires, and two concurrent requests   *)
(* that both rules fit.                                                    *)
(***************************************************************************)
EXTENDS FaultRules, TLC

CONSTANTS limited, expiring

MCNameOf == [r \in Rules |-> r]
MCMaxHits == [r \in Rules |-> IF r = limited THEN 1 ELSE 0]
MCTTL == [r \in Rules |-> IF r = expiring THEN 1 ELSE 0]
MCFits == [q \in Requests |-> Rules]

\* Requests differ in nothing here: every rule fits each of them.
Symmetry == Permutations(Requests)
=============================================================================
