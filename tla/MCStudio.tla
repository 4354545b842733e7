------------------------------ MODULE MCStudio ------------------------------
(* Two tabs whose users come and go, with a page for all events and with a *)
(* page for one; a tab that stays where it is; and a client that reads     *)
(* four events in pages of two.                                            *)
EXTENDS Studio

MCSetups ==
  {[tab |-> TRUE, visits |-> TRUE, walk |-> FALSE, events |-> 2, stamps |-> 1, limit |-> 2],
   [tab |-> TRUE, visits |-> FALSE, walk |-> FALSE, events |-> 3, stamps |-> 1, limit |-> 3],
   [tab |-> TRUE, visits |-> TRUE, walk |-> FALSE, events |-> 2, stamps |-> 2, limit |-> 1],
   [tab |-> FALSE, visits |-> FALSE, walk |-> TRUE, events |-> 4, stamps |-> 3, limit |-> 1]}
=============================================================================
