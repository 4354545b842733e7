----------------------------- MODULE MailPoller -----------------------------
(***************************************************************************)
(* The Mailpit adapter.  At every tick it fetches the newest messages from *)
(* Mailpit's API and emits an event for each that was created after the    *)
(* last one it has seen, oldest first.  What it has seen is one moment in  *)
(* memory, its watermark, set to the present when the adapter starts.      *)
(*                                                                         *)
(* Mailpit (external) stamps a message when it accepts it and lists it     *)
(* some time later, so two messages may share a stamp, and one may be      *)
(* listed after another that was stamped later.                            *)
(***************************************************************************)
EXTENDS AdapterHost, Sequences

CONSTANTS
  Mails,
  NoMail,
  FetchLimit,  \* messages a fetch returns
  MaxDelay,    \* how long after its stamp a message may be listed
  MaxTime      \* bound: the clock

ASSUME NoMailAssumption == NoMail \notin Mails
ASSUME MailSizes ==
  /\ IsFiniteSet(Mails)
  /\ FetchLimit \in Nat \ {0}
  /\ MaxDelay \in Nat
  /\ MaxTime \in Nat

VARIABLES
  clock,       \* the clock of the machine that runs Mailpit and the agent
  inbox,       \* the messages in the order in which they came to be listed
  created,     \* created[m]: the stamp of message m, 0 when it was not sent yet
  mailPc,      \* the adapter's goroutine
  since,       \* when the adapter last started
  seenTime,    \* lastSeenTime, the watermark
  seenID,      \* lastSeenID
  response,    \* the messages fetched that are still to be handled
  mailCopies,  \* mailCopies[m]: events stored for message m, over all runs
  dropped      \* messages whose event the sink did not store

mailVars == <<clock, inbox, created, mailPc, since, seenTime, seenID, response,
              mailCopies, dropped>>
boxVars == <<clock, inbox, created>>

MailStates == {"none", "waiting", "handling", "ended"}

\* What Mailpit's API knows of.
Listed == {m \in Mails : created[m] > 0}

MailTypeOK ==
  /\ clock \in Nat \ {0}
  /\ inbox \in Seq(Mails)
  /\ created \in [Mails -> Nat]
  /\ mailPc \in MailStates
  /\ since \in Nat
  /\ seenTime \in Nat
  /\ seenID \in Mails \cup {NoMail}
  /\ response \subseteq Listed
  /\ mailPc # "handling" => response = {}
  /\ mailCopies \in [Mails -> Nat]
  /\ dropped \subseteq Mails

MailInit ==
  /\ clock = 1
  /\ inbox = <<>>
  /\ created = [m \in Mails |-> 0]
  /\ mailPc = "none"
  /\ since = 0
  /\ seenTime = 0
  /\ seenID = NoMail
  /\ response = {}
  /\ mailCopies = [m \in Mails |-> 0]
  /\ dropped = {}

-----------------------------------------------------------------------------
(* Mailpit and the clock.                                                  *)

Tick ==
  /\ clock < MaxTime
  /\ clock' = clock + 1
  /\ UNCHANGED <<inbox, created, mailPc, since, seenTime, seenID, response, mailCopies,
                 dropped>>

\* A message that was accepted at t comes to be listed.
List(m, t) ==
  /\ m \notin Listed
  /\ t > 0 /\ t >= clock - MaxDelay
  /\ created' = [created EXCEPT ![m] = t]
  /\ inbox' = Append(inbox, m)
  /\ UNCHANGED <<clock, mailPc, since, seenTime, seenID, response, mailCopies, dropped>>

-----------------------------------------------------------------------------
(* The adapter.                                                            *)

\* Mutant: the watermark begins at the zero time.
StartMailFromZero ==
  /\ life = "up"
  /\ mailPc = "none"
  /\ mailPc' = "waiting"
  /\ since' = clock
  /\ seenTime' = 0
  /\ UNCHANGED <<boxVars, seenID, response, mailCopies, dropped>>

StartMail ==
  /\ life = "up"
  /\ mailPc = "none"
  /\ mailPc' = "waiting"
  /\ since' = clock
  /\ seenTime' = clock
  /\ UNCHANGED <<boxVars, seenID, response, mailCopies, dropped>>

\* Mutant: a page of the oldest messages.
OldestPage(S) ==
  /\ S \subseteq Listed
  /\ Cardinality(S) <= FetchLimit
  /\ S # Listed => Cardinality(S) = FetchLimit
  /\ \A m \in S, n \in Listed \ S : created[m] <= created[n]

\* The newest messages; which of several with the same stamp is Mailpit's choice.
Newest(S) ==
  /\ S \subseteq Listed
  /\ Cardinality(S) <= FetchLimit
  /\ S # Listed => Cardinality(S) = FetchLimit
  /\ \A m \in S, n \in Listed \ S : created[n] <= created[m]

\* A fetch that fails, or answers with something else, leaves everything as it was.
Fetch ==
  /\ life = "up"
  /\ mailPc = "waiting"
  /\ \E S \in SUBSET Mails : Newest(S) /\ S # {} /\ response' = S
  /\ mailPc' = "handling"
  /\ UNCHANGED <<boxVars, since, seenTime, seenID, mailCopies, dropped>>

\* Mutant: it is walked from its beginning.
IsNewest(m) == m \in response /\ \A n \in response : created[n] <= created[m]

\* The response is walked from its end, the oldest message.
IsOldest(m) == m \in response /\ \A n \in response : created[m] <= created[n]

IsNew(m) == created[m] > seenTime /\ m # seenID

Handles(m) ==
  /\ life = "up"
  /\ mailPc = "handling"
  /\ IsOldest(m)
  /\ response' = response \ {m}

SkipMail(m) ==
  /\ Handles(m)
  /\ ~IsNew(m)
  /\ UNCHANGED <<boxVars, mailPc, since, seenTime, seenID, mailCopies, dropped>>

\* The watermark moves whether or not the event is stored.
SeeMail(m) ==
  /\ Handles(m)
  /\ IsNew(m)
  /\ seenTime' = created[m]
  /\ seenID' = m
  /\ UNCHANGED <<boxVars, mailPc, since>>

StoreMail(m) ==
  /\ SeeMail(m)
  /\ mailCopies' = [mailCopies EXCEPT ![m] = @ + 1]
  /\ UNCHANGED dropped

DropMail(m) ==
  /\ SeeMail(m)
  /\ dropped' = dropped \cup {m}
  /\ UNCHANGED mailCopies

EndOfMails ==
  /\ life = "up"
  /\ mailPc = "handling"
  /\ response = {}
  /\ mailPc' = "waiting"
  /\ UNCHANGED <<boxVars, since, seenTime, seenID, response, mailCopies, dropped>>

\* With the context ended a fetch fails, and so does every Emit of a response under
\* way: its messages move the watermark, which goes away with the goroutine.
MailEnds ==
  /\ life = "stopping"
  /\ mailPc \in {"waiting", "handling"}
  /\ mailPc' = "ended"
  /\ response' = {}
  /\ UNCHANGED <<boxVars, since, seenTime, seenID, mailCopies, dropped>>

\* Nothing of what the adapter knew is kept.
MailForgotten ==
  /\ mailPc' = "none"
  /\ seenTime' = 0
  /\ since' = 0
  /\ seenID' = NoMail
  /\ response' = {}
  /\ UNCHANGED <<boxVars, mailCopies, dropped>>

MailPolls ==
  \/ Fetch
  \/ \E m \in Mails : SkipMail(m) \/ StoreMail(m) \/ DropMail(m)
  \/ EndOfMails

MailStep ==
  \/ Tick
  \/ \E m \in Mails, t \in 1 .. clock : List(m, t)
  \/ StartMail
  \/ MailPolls
  \/ MailEnds

\* The adapter in an agent that runs, stops and is killed.
MailNext ==
  \/ MailStep /\ UNCHANGED hostVars
  \/ (Up \/ CtrlC) /\ UNCHANGED mailVars
  \/ Gone /\ MailForgotten

MailSpec == HostInit /\ MailInit /\ [][MailNext]_<<hostVars, mailVars>>

-----------------------------------------------------------------------------
(* The agent polls: what is below the watermark will not be looked at.     *)
Polling == mailPc \in {"waiting", "handling"}

\* n came to be listed before m.
Precedes(n, m) ==
  \E i, j \in 1 .. Len(inbox) : i < j /\ inbox[i] = n /\ inbox[j] = m

\* Another message shares its stamp, or was listed first with a later one.
Overtaken(m) ==
  \E n \in Listed \ {m} :
    \/ created[n] = created[m]
    \/ created[n] > created[m] /\ Precedes(n, m)

\* A fetch may not have reached it.
Crowded(m) ==
  Cardinality({n \in Listed \ {m} : created[n] >= created[m]}) >= FetchLimit

Excused(m) ==
  \/ created[m] <= since
  \/ m \in dropped
  \/ Overtaken(m)
  \/ Crowded(m)

(* No message is recorded twice, also when the agent restarts and Mailpit  *)
(* still lists what an earlier run has seen.                               *)
NoMailTwice == \A m \in Mails : mailCopies[m] <= 1

(* A message the watermark has passed was recorded, or there is a reason:  *)
(* it was there before the adapter started, its event was not stored,      *)
(* another message overtook it, or too many came at once.                  *)
MissedForAReason ==
  Polling =>
    \A m \in Listed : created[m] <= seenTime /\ mailCopies[m] = 0 => Excused(m)

(* A message that is listed is passed by the watermark in the end, if the  *)
(* run lasts: fetches are not put off for ever by new messages.            *)
EveryMailSeen ==
  \A m \in Mails : m \in Listed ~> created[m] <= seenTime \/ ~Polling
=============================================================================
