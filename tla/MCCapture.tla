----------------------------- MODULE MCCapture -----------------------------
(* Rows of two tables, of which a poll selects two, messages, of which a   *)
(* fetch returns two, and commands on three queues and on others.          *)
EXTENDS Capture

MCTable == <<1, 2, 1>>

\* A line feed, and a byte beyond ASCII.
MCEscapes == [LF |-> <<"n">>, E9 |-> <<"x", "e", "9">>]

MCQueues == {<<"j">>, <<"j", Quote>>, <<"j", "E9">>}

MCShapes ==
  {[verb |-> "LPUSH", keys |-> <<<<"j">>>>, long |-> FALSE],
   [verb |-> "LPUSH", keys |-> <<<<"j">>>>, long |-> TRUE],
   [verb |-> "RPOP", keys |-> <<<<"j", Quote>>>>, long |-> FALSE],
   [verb |-> "RPUSH", keys |-> <<<<"j", "E9">>>>, long |-> FALSE],
   [verb |-> "BRPOP", keys |-> <<<<"u">>, <<"j">>>>, long |-> FALSE],
   [verb |-> "LMOVE", keys |-> <<<<"j">>, <<"u", "LF">>>>, long |-> FALSE],
   [verb |-> "LLEN", keys |-> <<<<"j">>>>, long |-> FALSE]}

MCSetups ==
  {[services |-> {"postgres"}, rows |-> 3, mails |-> 0, time |-> 1, commands |-> 0],
   [services |-> {"mailpit"}, rows |-> 0, mails |-> 3, time |-> 3, commands |-> 0],
   [services |-> {"redis"}, rows |-> 0, mails |-> 0, time |-> 1, commands |-> 3],
   [services |-> {"postgres", "mailpit"}, rows |-> 1, mails |-> 1, time |-> 2, commands |-> 0]}
=============================================================================
