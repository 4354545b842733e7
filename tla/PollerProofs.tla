---------------------------- MODULE PollerProofs ----------------------------
(***************************************************************************)
(* Proofs about the two adapters that poll, for any number of rows,        *)
(* messages, tables and runs.                                              *)
(***************************************************************************)
EXTENDS AuditPoller, MailPoller, FiniteSetTheorems, TLAPS

(***************************************************************************)
(* AuditPoller.  The argument is an account kept per row: one event for a  *)
(* row that is marked or about to be, and one for each round that was      *)
(* broken off.                                                             *)
(***************************************************************************)

\* A row is in one place: still to be read, stored in this round, or marked.
Rounds ==
  /\ emitted \cap marked = {}
  /\ batch \cap (marked \cup emitted) = {}
  /\ auditPc \in {"none", "waiting"} => emitted = {}

\* A row on its way to the mark was stored.
StoredFirst == \A r \in marked \cup emitted : copies[r] > 0

Accounted(r) ==
  IF r \in marked \cup emitted
  THEN copies[r] <= lostMarks + Over + 1
  ELSE copies[r] <= lostMarks + Over

Accounts == \A r \in AuditRows : Accounted(r)

AuditInv ==
  /\ HostTypeOK
  /\ AuditTypeOK
  /\ Rounds
  /\ StoredFirst
  /\ Accounts

-----------------------------------------------------------------------------
(* Nothing is stored before the first run.                                 *)
LEMMA AuditInitInvariant == HostInit /\ AuditInit => AuditInv
<1> SUFFICES ASSUME HostInit, AuditInit
             PROVE  AuditInv
  OBVIOUS
<1> USE DEF HostInit, AuditInit
<1>1. HostTypeOK /\ AuditTypeOK
  BY DEF HostTypeOK, LifeStates, AuditTypeOK, AuditStates
<1>2. Rounds /\ StoredFirst
  BY DEF Rounds, StoredFirst
<1>3. Accounts
  BY DEF Accounts, Accounted, Over
<1> QED
  BY <1>1, <1>2, <1>3 DEF AuditInv

(* A batch is made of rows that are visible and not marked.                *)
LEMMA BatchIsUnmarked ==
  ASSUME NEW S \in SUBSET AuditRows
  PROVE  FirstOf(S) \subseteq S
BY DEF FirstOf

(* A step of the application or of the adapter keeps the invariant.        *)
LEMMA AuditStepInvariant ==
  ASSUME AuditInv, AuditStep, UNCHANGED hostVars
  PROVE  AuditInv'
<1> USE DEF AuditInv
<1>h. HostTypeOK' /\ Over' = Over
  BY DEF HostTypeOK, Over, hostVars
<1>o. Over \in Int /\ lostMarks \in Nat
  BY DEF Over, HostTypeOK, AuditTypeOK
<1>1. ASSUME NEW r \in AuditRows, Insert(r)
      PROVE  AuditInv'
  <2> USE <1>1 DEF Insert
  <2>1. AuditTypeOK'
    BY DEF AuditTypeOK
  <2>2. Rounds' /\ StoredFirst'
    BY DEF Rounds, StoredFirst
  <2>3. Accounts'
    BY <1>h DEF Accounts, Accounted
  <2> QED
    BY <1>h, <2>1, <2>2, <2>3
<1>2. CASE StartAudit \/ AuditUnreachable \/ AuditEnds
  <2> USE <1>2
  <2>0. /\ UNCHANGED <<committed, marked, emitted, copies, lostMarks>>
        /\ auditPc' \in AuditStates \ {"none", "reading"}
        /\ auditPc' = "waiting" => emitted = {}
        /\ batch' = {}
    BY DEF StartAudit, AuditUnreachable, AuditEnds, AuditStates, Rounds, AuditTypeOK
  <2>1. triggers' \subseteq Tables
    <3>1. CASE StartAudit
      <4>1. PICK k \in 0 .. NumTables : triggers' = triggers \cup 1 .. k
        BY <3>1 DEF StartAudit
      <4>2. 1 .. k \subseteq Tables
        BY AuditSizes DEF Tables
      <4> QED
        BY <4>1, <4>2 DEF AuditTypeOK
    <3>2. CASE AuditUnreachable \/ AuditEnds
      BY <3>2 DEF AuditUnreachable, AuditEnds, AuditTypeOK
    <3> QED
      BY <3>1, <3>2
  <2>2. AuditTypeOK'
    BY <2>0, <2>1 DEF AuditTypeOK
  <2>3. Rounds' /\ StoredFirst'
    BY <2>0 DEF Rounds, StoredFirst
  <2>4. Accounts'
    BY <1>h, <2>0 DEF Accounts, Accounted
  <2> QED
    BY <1>h, <2>2, <2>3, <2>4
<1>3. CASE SelectRows
  <2> USE <1>3 DEF SelectRows
  <2>1. batch' \subseteq committed \ marked
    BY BatchIsUnmarked DEF AuditTypeOK
  <2>2. emitted = {}
    BY DEF Rounds
  <2>3. AuditTypeOK'
    BY <2>1 DEF AuditTypeOK, AuditStates
  <2>4. Rounds' /\ StoredFirst'
    BY <2>1, <2>2 DEF Rounds, StoredFirst
  <2>5. Accounts'
    BY <1>h, <2>2 DEF Accounts, Accounted
  <2> QED
    BY <1>h, <2>3, <2>4, <2>5
<1>4. ASSUME NEW r \in AuditRows, StoreRow(r)
      PROVE  AuditInv'
  <2> USE <1>4 DEF StoreRow, Reads
  <2>1. /\ copies[r] \in Nat
        /\ copies'[r] = copies[r] + 1
        /\ \A s \in AuditRows \ {r} : copies'[s] = copies[s]
        /\ copies' \in [AuditRows -> Nat]
    BY DEF AuditTypeOK
  <2>2. r \notin marked \cup emitted
    BY DEF Rounds
  <2>3. AuditTypeOK'
    BY <2>1 DEF AuditTypeOK
  <2>4. Rounds'
    BY <2>2 DEF Rounds
  <2>5. StoredFirst'
    BY <2>1 DEF StoredFirst, AuditTypeOK
  <2>6. Accounted(r)'
    BY <1>h, <1>o, <2>1, <2>2 DEF Accounts, Accounted
  <2>7. \A s \in AuditRows \ {r} : Accounted(s)'
    BY <1>h, <2>1 DEF Accounts, Accounted
  <2> QED
    BY <1>h, <2>3, <2>4, <2>5, <2>6, <2>7 DEF Accounts
<1>5. ASSUME NEW r \in AuditRows, SkipRow(r)
      PROVE  AuditInv'
  <2> USE <1>5 DEF SkipRow, Reads
  <2>1. AuditTypeOK'
    BY DEF AuditTypeOK
  <2>2. Rounds' /\ StoredFirst'
    BY DEF Rounds, StoredFirst
  <2>3. Accounts'
    BY <1>h DEF Accounts, Accounted
  <2> QED
    BY <1>h, <2>1, <2>2, <2>3
<1>6. CASE EndOfRows
  <2> USE <1>6 DEF EndOfRows
  <2>1. AuditTypeOK'
    BY DEF AuditTypeOK, AuditStates
  <2>2. Rounds' /\ StoredFirst'
    BY DEF Rounds, StoredFirst
  <2>3. Accounts'
    BY <1>h DEF Accounts, Accounted
  <2> QED
    BY <1>h, <2>1, <2>2, <2>3
<1>7. CASE MarkRows
  <2> USE <1>7 DEF MarkRows
  <2>1. AuditTypeOK'
    BY DEF AuditTypeOK, AuditStates
  <2>2. marked' \cup emitted' = marked \cup emitted
    OBVIOUS
  <2>3. Rounds' /\ StoredFirst'
    BY <2>2 DEF Rounds, StoredFirst, AuditTypeOK
  <2>4. Accounts'
    BY <1>h, <2>2 DEF Accounts, Accounted
  <2> QED
    BY <1>h, <2>1, <2>3, <2>4
<1>8. CASE MarkFails
  <2> USE <1>8 DEF MarkFails
  <2>1. AuditTypeOK'
    BY DEF AuditTypeOK, AuditStates
  <2>2. Rounds' /\ StoredFirst'
    BY DEF Rounds, StoredFirst
  <2>3. \A r \in AuditRows : copies[r] \in Nat /\ copies[r] <= lostMarks + Over + 1
    BY <1>o DEF AuditTypeOK, Accounts, Accounted
  <2>4. Accounts'
    BY <1>h, <1>o, <2>3 DEF Accounts, Accounted
  <2> QED
    BY <1>h, <2>1, <2>2, <2>4
<1> QED
  BY <1>1, <1>2, <1>3, <1>4, <1>5, <1>6, <1>7, <1>8 DEF AuditStep, AuditPolls

(* A step of the agent keeps it: a round that ends with the run counts.    *)
LEMMA AuditHostInvariant ==
  ASSUME AuditInv,
         \/ (Up \/ CtrlC) /\ UNCHANGED auditVars
         \/ Gone /\ AuditForgotten
         \/ UNCHANGED <<hostVars, auditVars>>
  PROVE  AuditInv'
<1> USE DEF AuditInv
<1>1. CASE \/ (Up \/ CtrlC) /\ UNCHANGED auditVars
           \/ UNCHANGED <<hostVars, auditVars>>
  <2>1. HostTypeOK' /\ Over' = Over
    BY <1>1 DEF Up, CtrlC, HostTypeOK, LifeStates, Over, hostVars
  <2>2. UNCHANGED auditVars
    BY <1>1
  <2>3. AuditTypeOK' /\ Rounds' /\ StoredFirst'
    BY <2>2 DEF AuditTypeOK, Rounds, StoredFirst, auditVars
  <2>4. Accounts'
    BY <2>1, <2>2 DEF Accounts, Accounted, auditVars
  <2> QED
    BY <2>1, <2>3, <2>4
<1>2. CASE Gone /\ AuditForgotten
  <2> USE <1>2 DEF AuditForgotten
  <2>1. HostTypeOK' /\ Over' = Over + 1 /\ Over \in Int
    BY DEF Gone, HostTypeOK, LifeStates, Over
  <2>2. AuditTypeOK'
    BY DEF AuditTypeOK, AuditStates
  <2>3. Rounds' /\ StoredFirst'
    BY DEF Rounds, StoredFirst
  <2>4. \A r \in AuditRows : copies[r] \in Nat /\ copies[r] <= lostMarks + Over + 1
    BY <2>1 DEF AuditTypeOK, Accounts, Accounted
  <2>5. Accounts'
    BY <2>1, <2>4 DEF AuditTypeOK, Accounts, Accounted
  <2> QED
    BY <2>1, <2>2, <2>3, <2>5
<1> QED
  BY <1>1, <1>2

(* The inductive invariant holds of every behaviour.                       *)
THEOREM AuditInvariance == AuditSpec => []AuditInv
<1>1. AuditInv /\ [AuditNext]_<<hostVars, auditVars>> => AuditInv'
  BY AuditStepInvariant, AuditHostInvariant DEF AuditNext
<1> QED
  BY AuditInitInvariant, <1>1, PTL DEF AuditSpec

(* No row is stored more often than once, once more for each UPDATE that   *)
(* failed, and once more for each run that ended.                          *)
THEOREM DuplicatesAreAccountedFor == AuditSpec => []DuplicatesHaveACause
<1>1. AuditInv => DuplicatesHaveACause
  <2> SUFFICES ASSUME AuditInv, NEW r \in AuditRows
               PROVE  copies[r] <= 1 + lostMarks + Over
    BY DEF DuplicatesHaveACause
  <2>1. copies[r] \in Nat /\ lostMarks \in Nat /\ Over \in Int
    BY DEF AuditInv, HostTypeOK, AuditTypeOK, Over
  <2> QED
    BY <2>1 DEF AuditInv, Accounts, Accounted
<1> QED
  BY AuditInvariance, <1>1, PTL

(* Every step of the adapter is a step of an at-least-once delivery, or    *)
(* none at all.                                                            *)
LEMMA AuditStepDelivers ==
  AuditInv /\ [AuditNext]_<<hostVars, auditVars>>
    => [Promise!Next]_<<committed, marked, copies>>
<1> SUFFICES ASSUME AuditInv, [AuditNext]_<<hostVars, auditVars>>
             PROVE  [Promise!Next]_<<committed, marked, copies>>
  OBVIOUS
<1>1. ASSUME NEW r \in AuditRows, Insert(r)
      PROVE  Promise!Offer(r)
  BY <1>1 DEF Insert, Promise!Offer
<1>2. ASSUME NEW r \in AuditRows, StoreRow(r)
      PROVE  Promise!Store(r)
  <2>1. r \in committed \ marked
    BY <1>2 DEF StoreRow, Reads, AuditInv, AuditTypeOK, Rounds
  <2> QED
    BY <1>2, <2>1 DEF StoreRow, Promise!Store
<1>3. ASSUME MarkRows
      PROVE  Promise!Settle(emitted) /\ emitted \in SUBSET committed
  BY <1>3 DEF MarkRows, Promise!Settle, AuditInv, StoredFirst, AuditTypeOK
<1>4. CASE \/ StartAudit \/ AuditUnreachable \/ AuditEnds
           \/ SelectRows \/ EndOfRows \/ MarkFails
           \/ \E r \in AuditRows : SkipRow(r)
  BY <1>4 DEF StartAudit, AuditUnreachable, AuditEnds, SelectRows, EndOfRows, MarkFails,
              SkipRow
<1>5. CASE UNCHANGED auditVars \/ AuditForgotten
  BY <1>5 DEF auditVars, AuditForgotten
<1> QED
  BY <1>1, <1>2, <1>3, <1>4, <1>5 DEF AuditNext, AuditStep, AuditPolls, Promise!Next

(* The adapter implements the at-least-once delivery, with the mark in the *)
(* audit table as the acknowledgement.                                     *)
THEOREM AuditDelivers == AuditSpec => ImplementsDelivery
<1>1. AuditInit => Promise!Init
  BY DEF AuditInit, Promise!Init
<1> QED
  BY AuditInvariance, AuditStepDelivers, <1>1, PTL
     DEF AuditSpec, ImplementsDelivery, Promise!Spec

-----------------------------------------------------------------------------
(***************************************************************************)
(* MailPoller.  The argument for what is missed follows a message that is  *)
(* not in the response under way: the watermark has passed it, the fetch   *)
(* did not reach it, or it came to be listed after all of the response.    *)
(***************************************************************************)

Known(m) == m = NoMail \/ (m \in Listed /\ created[m] <= seenTime)

\* Nothing is stamped or seen in the future, and the watermark only moves forward, to
\* the stamp of a message that is listed.
Times ==
  /\ \A m \in Mails : created[m] <= clock
  /\ mailPc = "none" => seenID = NoMail
  /\ Polling =>
       /\ since <= seenTime
       /\ seenTime = since \/ \E n \in Listed : created[n] = seenTime
       /\ Known(seenID)

\* Every listed message has its place in the order of listing.
Places ==
  /\ \A i \in 1 .. Len(inbox) : inbox[i] \in Listed
  /\ \A m \in Listed : \E i \in 1 .. Len(inbox) : inbox[i] = m

\* What was recorded is behind the watermark.
Once ==
  \A m \in Mails :
    /\ mailCopies[m] <= 1
    /\ mailCopies[m] = 1 => m \in Listed /\ (Polling => created[m] <= seenTime)

\* Whatever a response does not hold is settled, out of reach, or newer.
Fetched ==
  mailPc = "handling" =>
    \A m \in Listed \ response :
      \/ created[m] <= seenTime
      \/ Crowded(m)
      \/ \A n \in response : Precedes(n, m)

MailInv ==
  /\ HostTypeOK
  /\ MailTypeOK
  /\ Times
  /\ Places
  /\ Once
  /\ Fetched
  /\ MissedForAReason

-----------------------------------------------------------------------------
(* No message is listed before the first run.                              *)
LEMMA MailInitInvariant == HostInit /\ MailInit => MailInv
<1> SUFFICES ASSUME HostInit, MailInit
             PROVE  MailInv
  OBVIOUS
<1> USE DEF HostInit, MailInit
<1>1. HostTypeOK /\ MailTypeOK
  BY DEF HostTypeOK, LifeStates, MailTypeOK, MailStates, Listed
<1>2. Times /\ Places /\ Once
  BY DEF Times, Places, Once, Polling, Listed
<1>3. Fetched /\ MissedForAReason
  BY DEF Fetched, MissedForAReason, Polling
<1> QED
  BY <1>1, <1>2, <1>3 DEF MailInv

(* A fetch that leaves a message out returned as many as it could, all of  *)
(* them at least as new.                                                   *)
LEMMA LeftOut ==
  ASSUME NEW S \in SUBSET Mails, Newest(S), NEW m \in Listed \ S,
         created \in [Mails -> Nat]
  PROVE  Crowded(m)
<1> DEFINE T == {n \in Listed \ {m} : created[n] >= created[m]}
<1>1. S \subseteq T
  BY DEF Newest, Listed
<1>2. IsFiniteSet(T)
  BY MailSizes, FS_Subset DEF Listed
<1>3. Cardinality(S) <= Cardinality(T)
  BY <1>1, <1>2, FS_Subset
<1>4. Cardinality(S) = FetchLimit /\ Cardinality(T) \in Nat /\ FetchLimit \in Nat
  BY <1>2, FS_CardinalityType, MailSizes DEF Newest
<1> QED
  BY <1>3, <1>4 DEF Crowded

(* More messages leave a crowded one crowded.                              *)
LEMMA StillCrowded ==
  ASSUME NEW m \in Mails, Crowded(m), Listed \subseteq Listed',
         \A n \in Listed \cup {m} : created'[n] = created[n]
  PROVE  Crowded(m)'
<1> DEFINE T == {n \in Listed \ {m} : created[n] >= created[m]}
           U == {n \in Listed' \ {m} : created'[n] >= created'[m]}
<1>1. T \subseteq U
  OBVIOUS
<1>2. IsFiniteSet(U)
  BY MailSizes, FS_Subset DEF Listed
<1>3. Cardinality(T) <= Cardinality(U)
  BY <1>1, <1>2, FS_Subset
<1>4. Cardinality(T) \in Nat /\ Cardinality(U) \in Nat /\ FetchLimit \in Nat
  BY <1>1, <1>2, FS_Subset, FS_CardinalityType, MailSizes
<1>5. Cardinality(T) >= FetchLimit
  BY DEF Crowded
<1> QED
  BY <1>3, <1>4, <1>5 DEF Crowded

(* While no message comes to be listed, the reasons remain.                *)
LEMMA SameBox ==
  ASSUME UNCHANGED <<inbox, created, since>>, dropped \subseteq dropped', NEW m \in Mails
  PROVE  /\ Listed' = Listed
         /\ Crowded(m)' = Crowded(m)
         /\ Overtaken(m)' = Overtaken(m)
         /\ \A n \in Mails : Precedes(n, m)' = Precedes(n, m)
         /\ Excused(m) => Excused(m)'
BY DEF Listed, Crowded, Overtaken, Precedes, Excused

(* A message that comes to be listed takes the last place, and what held   *)
(* of the others still does.                                               *)
LEMMA ListInvariant ==
  ASSUME MailInv, NEW x \in Mails, NEW t \in 1 .. clock, List(x, t), UNCHANGED hostVars
  PROVE  MailInv'
<1> USE DEF MailInv, List
<1>1. /\ clock \in Nat /\ Len(inbox) \in Nat /\ seenTime \in Nat /\ since \in Nat
      /\ created \in [Mails -> Nat] /\ t \in Nat \ {0} /\ t <= clock
  BY DEF MailTypeOK
<1>2. /\ created'[x] = t
      /\ \A m \in Mails \ {x} : created'[m] = created[m]
      /\ created' \in [Mails -> Nat]
      /\ Listed' = Listed \cup {x}
      /\ x \notin Listed
  BY <1>1 DEF Listed
<1>3. /\ Len(inbox') = Len(inbox) + 1
      /\ inbox'[Len(inbox) + 1] = x
      /\ \A i \in 1 .. Len(inbox) : inbox'[i] = inbox[i]
      /\ inbox' \in Seq(Mails)
  BY DEF MailTypeOK
<1>4. HostTypeOK' /\ MailTypeOK'
  BY <1>2, <1>3 DEF HostTypeOK, hostVars, MailTypeOK
<1>5. Polling' = Polling
  BY DEF Polling
<1>6. Places'
  <2>1. \A i \in 1 .. Len(inbox') : i = Len(inbox) + 1 \/ i \in 1 .. Len(inbox)
    BY <1>1, <1>3
  <2>2. \A i \in 1 .. Len(inbox) : i \in 1 .. Len(inbox')
    BY <1>1, <1>3
  <2>3. Len(inbox) + 1 \in 1 .. Len(inbox')
    BY <1>1, <1>3
  <2>4. \A i \in 1 .. Len(inbox') : inbox'[i] \in Listed'
    BY <1>2, <1>3, <2>1 DEF Places
  <2>5. ASSUME NEW m \in Listed'
        PROVE  \E i \in 1 .. Len(inbox') : inbox'[i] = m
    <3>1. CASE m = x
      BY <1>3, <2>3, <3>1
    <3>2. CASE m \in Listed
      BY <1>3, <2>2, <3>2 DEF Places
    <3> QED
      BY <1>2, <3>1, <3>2
  <2> QED
    BY <2>4, <2>5 DEF Places
<1>7. Times'
  <2>1. \A m \in Mails : created'[m] <= clock'
    BY <1>1, <1>2 DEF Times
  <2>2. ASSUME Polling
        PROVE  /\ since' <= seenTime'
               /\ seenTime' = since' \/ \E n \in Listed' : created'[n] = seenTime'
               /\ Known(seenID)'
    <3>1. Known(seenID)'
      BY <1>2, <2>2 DEF Times, Known, Listed, MailTypeOK
    <3>2. ASSUME NEW n \in Listed, created[n] = seenTime
          PROVE  n \in Listed' /\ created'[n] = seenTime'
      BY <1>2, <3>2 DEF Listed
    <3> QED
      BY <2>2, <3>1, <3>2 DEF Times
  <2> QED
    BY <1>5, <2>1, <2>2 DEF Times, MailTypeOK
<1>8. Once'
  BY <1>2, <1>5 DEF Once, Listed
<1>9. \A n, m \in Mails : Precedes(n, m) => Precedes(n, m)'
  <2>1. \A i \in 1 .. Len(inbox) : i \in 1 .. Len(inbox')
    BY <1>1, <1>3
  <2> QED
    BY <1>3, <2>1 DEF Precedes
<1>10. \A n \in Listed : Precedes(n, x)'
  <2> SUFFICES ASSUME NEW n \in Listed
               PROVE  Precedes(n, x)'
    OBVIOUS
  <2>1. PICK i \in 1 .. Len(inbox) : inbox[i] = n
    BY DEF Places
  <2>2. /\ i \in 1 .. Len(inbox') /\ Len(inbox) + 1 \in 1 .. Len(inbox')
        /\ i < Len(inbox) + 1
    BY <1>1, <1>3
  <2> QED
    BY <1>3, <2>1, <2>2 DEF Precedes
<1>11. \A m \in Listed : Crowded(m) => Crowded(m)'
  <2>1. \A m \in Listed : m \in Mails /\ created'[m] = created[m]
    BY <1>2 DEF Listed
  <2> QED
    BY <1>2, <2>1, StillCrowded
<1>12. Fetched'
  <2> SUFFICES ASSUME mailPc = "handling", NEW m \in Listed' \ response
               PROVE  \/ created'[m] <= seenTime
                      \/ Crowded(m)'
                      \/ \A n \in response : Precedes(n, m)'
    BY DEF Fetched
  <2>1. CASE m = x
    BY <1>10, <2>1 DEF MailTypeOK
  <2>2. CASE m \in Listed
    <3>1. m \in Mails /\ created'[m] = created[m] /\ response \subseteq Mails
      BY <1>2, <2>2 DEF Listed, MailTypeOK
    <3> QED
      BY <1>9, <1>11, <2>2, <3>1 DEF Fetched
  <2> QED
    BY <1>2, <2>1, <2>2
<1>13. MissedForAReason'
  <2> SUFFICES ASSUME Polling, NEW m \in Listed', created'[m] <= seenTime,
                      mailCopies[m] = 0
               PROVE  Excused(m)'
    BY <1>5 DEF MissedForAReason
  <2>1. CASE m = x
    <3>1. CASE seenTime = since
      BY <2>1, <3>1 DEF Excused
    <3>2. ASSUME NEW n \in Listed, created[n] = seenTime
          PROVE  Excused(m)'
      <4>1. n \in Listed' \ {x} /\ created'[n] = seenTime
        BY <1>2, <3>2 DEF Listed
      <4>2. Overtaken(x)'
        BY <1>1, <1>2, <1>10, <2>1, <4>1 DEF Overtaken
      <4> QED
        BY <2>1, <4>2 DEF Excused
    <3> QED
      BY <3>1, <3>2 DEF Times
  <2>2. CASE m \in Listed
    <3>1. m \in Mails /\ created'[m] = created[m]
      BY <1>2, <2>2 DEF Listed
    <3>2. Excused(m)
      BY <2>2, <3>1 DEF MissedForAReason
    <3>3. Overtaken(m) => Overtaken(m)'
      <4>1. \A n \in Listed : n \in Mails /\ n \in Listed' /\ created'[n] = created[n]
        BY <1>2 DEF Listed
      <4> QED
        BY <1>9, <3>1, <4>1 DEF Overtaken
    <3> QED
      BY <1>11, <2>2, <3>1, <3>2, <3>3 DEF Excused
  <2> QED
    BY <1>2, <2>1, <2>2
<1> QED
  BY <1>4, <1>6, <1>7, <1>8, <1>12, <1>13

(* The watermark moves to a message: whatever it passes on the way shares  *)
(* its stamp, was out of the fetch's reach, or came to be listed later.    *)
LEMMA SeeInvariant ==
  ASSUME MailInv, NEW x \in Mails, StoreMail(x) \/ DropMail(x), UNCHANGED hostVars
  PROVE  MailInv'
<1> USE DEF MailInv
<1>1. /\ mailPc = "handling" /\ x \in response
      /\ \A n \in response : created[x] <= created[n]
      /\ response' = response \ {x}
      /\ created[x] > seenTime
      /\ seenTime' = created[x]
      /\ seenID' = x
      /\ UNCHANGED <<clock, inbox, created, mailPc, since>>
      /\ dropped \subseteq dropped' /\ dropped' \subseteq Mails
  BY DEF StoreMail, DropMail, SeeMail, Handles, IsOldest, IsNew, boxVars, MailTypeOK
<1>2. /\ seenTime \in Nat /\ since \in Nat /\ created \in [Mails -> Nat]
      /\ x \in Listed /\ clock \in Nat /\ response \subseteq Listed
  BY <1>1 DEF MailTypeOK
<1>3. /\ mailCopies' \in [Mails -> Nat]
      /\ \A m \in Mails \ {x} : mailCopies'[m] = mailCopies[m]
      /\ \/ mailCopies'[x] = mailCopies[x] + 1
         \/ mailCopies'[x] = mailCopies[x] /\ x \in dropped'
  <2>1. mailCopies \in [Mails -> Nat]
    BY DEF MailTypeOK
  <2>2. CASE StoreMail(x)
    <3>1. mailCopies' = [mailCopies EXCEPT ![x] = @ + 1]
      BY <2>2 DEF StoreMail
    <3>2. mailCopies[x] + 1 \in Nat
      BY <2>1
    <3> QED
      BY <2>1, <3>1, <3>2
  <2>3. CASE DropMail(x)
    BY <2>1, <2>3 DEF DropMail
  <2> QED
    BY <2>2, <2>3
<1>4. mailCopies[x] = 0
  <2>1. mailCopies[x] \in Nat /\ mailCopies[x] <= 1
    BY DEF MailTypeOK, Once
  <2>2. mailCopies[x] # 1
    BY <1>1, <1>2 DEF Once, Polling
  <2> QED
    BY <2>1, <2>2
<1>5. /\ Listed' = Listed
      /\ Polling' = Polling /\ Polling
      /\ \A m \in Mails : /\ Crowded(m)' = Crowded(m)
                          /\ Overtaken(m)' = Overtaken(m)
                          /\ Excused(m) => Excused(m)'
                          /\ \A n \in Mails : Precedes(n, m)' = Precedes(n, m)
  BY <1>1, SameBox DEF Polling, Listed
<1>6. HostTypeOK' /\ MailTypeOK'
  <2>1. seenTime' \in Nat
    BY <1>1, <1>2
  <2> QED
    BY <1>1, <1>3, <1>5, <2>1 DEF HostTypeOK, hostVars, MailTypeOK
<1>7. Times'
  BY <1>1, <1>2, <1>5 DEF Times, Known
<1>8. Places'
  BY <1>1, <1>5 DEF Places
<1>9. Once'
  BY <1>1, <1>2, <1>3, <1>4, <1>5 DEF Once, Listed
<1>10. Fetched'
  <2> SUFFICES ASSUME NEW m \in Listed \ response'
               PROVE  \/ created[m] <= seenTime'
                      \/ Crowded(m)
                      \/ \A n \in response' : Precedes(n, m)
    <3>1. \A m \in Listed : m \in Mails
      BY DEF Listed
    <3>2. response' \subseteq Mails
      BY <1>1, <1>2, <3>1
    <3> QED
      BY <1>1, <1>5, <3>1, <3>2 DEF Fetched
  <2>1. CASE m = x
    BY <1>1, <1>2, <2>1
  <2>2. CASE m # x
    BY <1>1, <1>2, <2>2 DEF Fetched, Listed
  <2> QED
    BY <2>1, <2>2
<1>11. MissedForAReason'
  <2> SUFFICES ASSUME NEW m \in Listed, created[m] <= created[x], mailCopies'[m] = 0
               PROVE  Excused(m)'
    BY <1>1, <1>5 DEF MissedForAReason
  <2>m. m \in Mails /\ created[m] \in Nat
    BY <1>2 DEF Listed
  <2>1. CASE m = x
    BY <1>3, <1>4, <2>1 DEF Excused
  <2>2. CASE m # x /\ created[m] <= seenTime
    BY <1>3, <1>5, <2>m, <2>2 DEF MissedForAReason
  <2>3. CASE m # x /\ created[m] = created[x]
    <3>1. Overtaken(m)
      BY <1>2, <2>3 DEF Overtaken
    <3> QED
      BY <1>5, <2>m, <3>1 DEF Excused
  <2>4. CASE m # x /\ created[m] > seenTime /\ created[m] < created[x]
    <3>1. m \notin response
      BY <1>1, <1>2, <2>m, <2>4
    <3>2. Crowded(m) \/ Precedes(x, m)
      BY <1>1, <1>2, <2>m, <2>4, <3>1 DEF Fetched
    <3>3. Precedes(x, m) => Overtaken(m)
      BY <1>2, <2>4 DEF Overtaken
    <3> QED
      BY <1>5, <2>m, <3>2, <3>3 DEF Excused
  <2> QED
    BY <1>2, <2>m, <2>1, <2>2, <2>3, <2>4
<1> QED
  BY <1>6, <1>7, <1>8, <1>9, <1>10, <1>11

(* Any other step of the adapter keeps the invariant.                      *)
LEMMA MailStepInvariant ==
  ASSUME MailInv, MailStep, UNCHANGED hostVars
  PROVE  MailInv'
<1> USE DEF MailInv
<1>h. HostTypeOK'
  BY DEF HostTypeOK, hostVars
<1>1. CASE \E m \in Mails, t \in 1 .. clock : List(m, t)
  BY <1>1, ListInvariant
<1>2. CASE \E m \in Mails : StoreMail(m) \/ DropMail(m)
  BY <1>2, SeeInvariant
<1>3. CASE Tick
  <2> USE <1>3 DEF Tick
  <2>1. \A m \in Mails : /\ Crowded(m)' = Crowded(m) /\ (Excused(m) => Excused(m)')
                         /\ \A n \in Mails : Precedes(n, m)' = Precedes(n, m)
    BY SameBox
  <2>2. Listed' = Listed /\ Polling' = Polling
    BY DEF Listed, Polling
  <2>3. MailTypeOK' /\ Places' /\ Once'
    BY <2>2 DEF MailTypeOK, Places, Once
  <2>4. Times'
    BY <2>2 DEF Times, Known, MailTypeOK
  <2>5. Fetched' /\ MissedForAReason'
    BY <2>1, <2>2 DEF Fetched, MissedForAReason, Listed, MailTypeOK
  <2> QED
    BY <1>h, <2>3, <2>4, <2>5
<1>4. CASE StartMail
  <2> USE <1>4 DEF StartMail, boxVars
  <2>1. Listed' = Listed
    BY DEF Listed
  <2>2. MailTypeOK'
    BY <2>1 DEF MailTypeOK, MailStates
  <2>3. Times'
    BY <2>1 DEF Times, Known, MailTypeOK, Listed
  <2>4. Places' /\ Fetched'
    BY <2>1 DEF Places, Fetched
  <2>5. Once'
    BY <2>1 DEF Once, Times
  <2>6. MissedForAReason'
    BY DEF MissedForAReason, Excused
  <2> QED
    BY <1>h, <2>2, <2>3, <2>4, <2>5, <2>6
<1>5. CASE Fetch
  <2> USE <1>5 DEF Fetch, boxVars
  <2>1. PICK S \in SUBSET Mails : Newest(S) /\ response' = S
    OBVIOUS
  <2>2. \A m \in Mails : Crowded(m)' = Crowded(m) /\ (Excused(m) => Excused(m)')
    BY SameBox
  <2>3. Listed' = Listed /\ Polling' = Polling
    BY DEF Listed, Polling
  <2>4. MailTypeOK'
    BY <2>1, <2>3 DEF MailTypeOK, MailStates, Newest
  <2>5. Times' /\ Places' /\ Once'
    BY <2>3 DEF Times, Known, Places, Once
  <2>6. Fetched'
    BY <2>1, <2>2, <2>3, LeftOut DEF Fetched, MailTypeOK, Listed
  <2>7. MissedForAReason'
    BY <2>2, <2>3 DEF MissedForAReason, Listed
  <2> QED
    BY <1>h, <2>4, <2>5, <2>6, <2>7
<1>6. ASSUME NEW x \in Mails, SkipMail(x)
      PROVE  MailInv'
  <2> USE <1>6 DEF SkipMail, Handles, boxVars
  <2>1. \A m \in Mails : /\ Crowded(m)' = Crowded(m) /\ (Excused(m) => Excused(m)')
                         /\ \A n \in Mails : Precedes(n, m)' = Precedes(n, m)
    BY SameBox
  <2>2. Listed' = Listed /\ Polling' = Polling
    BY DEF Listed, Polling
  <2>3. MailTypeOK' /\ Times' /\ Places' /\ Once'
    BY <2>2 DEF MailTypeOK, Times, Known, Places, Once
  <2>4. created[x] <= seenTime
    BY NoMailAssumption DEF IsNew, Times, Known, Polling, MailTypeOK
  <2>5. Fetched'
    BY <2>1, <2>2, <2>4 DEF Fetched, MailTypeOK, Listed
  <2>6. MissedForAReason'
    BY <2>1, <2>2 DEF MissedForAReason, Listed
  <2> QED
    BY <1>h, <2>3, <2>5, <2>6
<1>7. CASE EndOfMails \/ MailEnds
  <2>1. /\ UNCHANGED <<clock, inbox, created, since, seenTime, seenID, mailCopies, dropped>>
        /\ mailPc' \in {"waiting", "ended"} /\ response' = {}
        /\ Polling' => Polling
    BY <1>7 DEF EndOfMails, MailEnds, boxVars, Polling
  <2>2. \A m \in Mails : Excused(m) => Excused(m)'
    BY <2>1, SameBox
  <2>3. Listed' = Listed
    BY <2>1 DEF Listed
  <2>4. MailTypeOK' /\ Times' /\ Places' /\ Once'
    BY <2>1, <2>3 DEF MailTypeOK, MailStates, Times, Known, Places, Once
  <2>5. Fetched'
    BY <2>1 DEF Fetched
  <2>6. MissedForAReason'
    BY <2>1, <2>2, <2>3 DEF MissedForAReason, Listed
  <2> QED
    BY <1>h, <2>4, <2>5, <2>6
<1> QED
  BY <1>1, <1>2, <1>3, <1>4, <1>5, <1>6, <1>7 DEF MailStep, MailPolls

(* A step of the agent keeps it.                                           *)
LEMMA MailHostInvariant ==
  ASSUME MailInv,
         \/ (Up \/ CtrlC) /\ UNCHANGED mailVars
         \/ Gone /\ MailForgotten
         \/ UNCHANGED <<hostVars, mailVars>>
  PROVE  MailInv'
<1> USE DEF MailInv
<1>1. HostTypeOK'
  BY DEF Up, CtrlC, Gone, HostTypeOK, LifeStates, hostVars
<1>2. CASE UNCHANGED mailVars
  <2> USE <1>2 DEF mailVars
  <2>1. /\ Listed' = Listed /\ Polling' = Polling
        /\ \A m \in Mails : /\ Crowded(m)' = Crowded(m) /\ (Excused(m) => Excused(m)')
                            /\ \A n \in Mails : Precedes(n, m)' = Precedes(n, m)
    BY SameBox DEF Listed, Polling
  <2>2. MailTypeOK' /\ Times' /\ Places' /\ Once'
    BY <2>1 DEF MailTypeOK, Times, Known, Places, Once
  <2>3. Fetched' /\ MissedForAReason'
    BY <2>1 DEF Fetched, MissedForAReason, Listed, MailTypeOK
  <2> QED
    BY <1>1, <2>2, <2>3
<1>3. CASE MailForgotten
  <2> USE <1>3 DEF MailForgotten, boxVars
  <2>1. Listed' = Listed /\ ~Polling'
    BY DEF Listed, Polling
  <2>2. MailTypeOK' /\ Times' /\ Places' /\ Once'
    BY <2>1 DEF MailTypeOK, MailStates, Times, Places, Once
  <2>3. Fetched' /\ MissedForAReason'
    BY <2>1 DEF Fetched, MissedForAReason
  <2> QED
    BY <1>1, <2>2, <2>3
<1> QED
  BY <1>2, <1>3 DEF mailVars

(* The inductive invariant holds of every behaviour.                       *)
THEOREM MailInvariance == MailSpec => []MailInv
<1>1. MailInv /\ [MailNext]_<<hostVars, mailVars>> => MailInv'
  BY MailStepInvariant, MailHostInvariant DEF MailNext
<1> QED
  BY MailInitInvariant, <1>1, PTL DEF MailSpec

(* No message is recorded twice, over any number of runs.                  *)
THEOREM MailsAreRecordedOnce == MailSpec => []NoMailTwice
<1>1. MailInv => NoMailTwice
  BY DEF MailInv, Once, NoMailTwice
<1> QED
  BY MailInvariance, <1>1, PTL

(* A message that was passed over has one of the four reasons.             *)
THEOREM MissesAreExcused == MailSpec => []MissedForAReason
<1>1. MailInv => MissedForAReason
  BY DEF MailInv
<1> QED
  BY MailInvariance, <1>1, PTL
=============================================================================
