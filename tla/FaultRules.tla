----------------------------- MODULE FaultRules -----------------------------
(***************************************************************************)
(* Fault rules: the handlers that create, enable, disable and delete them, *)
(* and Engine.Check, which a request calls to find the fault to apply.     *)
(* Check is three separate steps on the shared table - read all rules,     *)
(* pick the first that matches, count a hit - with no transaction around   *)
(* them, and one Check runs per request.  Nothing under src/ calls the     *)
(* engine yet; the requests below are the concurrent handler goroutines of *)
(* the proxy it is written for.                                            *)
(*                                                                         *)
(* Ids are fresh ULIDs, so each element of Rules is created at most once.  *)
(* The match fields of a rule (service, method, path...) against those of  *)
(* a request are abstracted to the relation Fits.  Time moves between any  *)
(* two steps, and several rules may be created in one millisecond.         *)
(***************************************************************************)
EXTENDS Integers, FiniteSets

CONSTANTS Rules,      \* fault rules that may be created
          Requests,   \* goroutines that call Engine.Check, request after request
          NameOf,     \* NameOf[r]: the name rule r is created with
          MaxHits,    \* MaxHits[r]: safety.maxHits, 0 for no limit
          TTL,        \* TTL[r]: safety.expiresAfter, 0 for none
          Fits,       \* Fits[q]: the rules whose match fields fit q's requests
          Seeds,      \* the values of hitCount in the bodies of creation requests
          MaxTime,    \* bound: the clock stops here
          MaxApplied, \* bound: no Check begins once a rule was applied so often
          NoRule      \* Check returned no fault

ASSUME RequestsAssumption == IsFiniteSet(Requests)
ASSUME LimitsAssumption ==
  /\ MaxHits \in [Rules -> Nat]
  /\ TTL \in [Rules -> Nat]
ASSUME FitsAssumption == Fits \in [Requests -> SUBSET Rules]
ASSUME SeedsAssumption == Seeds \subseteq Int
ASSUME BoundsAssumption == MaxTime \in Nat /\ MaxApplied \in Nat
ASSUME NoRuleAssumption == NoRule \notin Rules

VARIABLES
  present,   \* the rows of the table fault_rules
  enabled,   \* the column enabled
  hits,      \* the column hit_count
  created,   \* the column created_at_ms, -1 before the rule was ever created
  now,       \* the wall clock
  pc,        \* pc[q]: where q's Check is
  snap,      \* snap[q]: of the rows q read, those that Open held of
  chosen,    \* chosen[q]: what FindFirstMatch returned
  seed,      \* history: hit_count as r was created
  applied,   \* history: how often r was returned to be applied
  lost,      \* history: how often that was not counted
  late       \* history: how often since r went out of service

tableVars == <<present, enabled, hits, created, seed>>
vars == <<tableVars, now, pc, snap, chosen, applied, lost, late>>

CheckStates == {"idle", "listed", "matched", "result"}
N == Cardinality(Requests)

Init ==
  /\ present = {}
  /\ enabled = [r \in Rules |-> FALSE]
  /\ hits = [r \in Rules |-> 0]
  /\ created = [r \in Rules |-> -1]
  /\ now = 0
  /\ pc = [q \in Requests |-> "idle"]
  /\ snap = [q \in Requests |-> {}]
  /\ chosen = [q \in Requests |-> NoRule]
  /\ seed = [r \in Rules |-> 0]
  /\ applied = [r \in Rules |-> 0]
  /\ lost = [r \in Rules |-> 0]
  /\ late = [r \in Rules |-> 0]

-----------------------------------------------------------------------------
(* The parts of Match.  The first two conditions look at columns only, so  *)
(* evaluating them on the copies that List returned is evaluating them on  *)
(* the rows when they were read.                                           *)

\* Mutants: the limit is off by one; disabled rules are not skipped.
OpenOffByOne(r) == enabled[r] /\ (MaxHits[r] > 0 => hits[r] <= MaxHits[r])
OpenDisabled(r) == MaxHits[r] > 0 => hits[r] < MaxHits[r]

Open(r) == enabled[r] /\ (MaxHits[r] > 0 => hits[r] < MaxHits[r])

Expired(r) == TTL[r] > 0 /\ now - created[r] > TTL[r]

InService(r) == r \in present /\ enabled[r] /\ ~Expired(r)

-----------------------------------------------------------------------------
(* The handlers of the API                                                 *)

\* POST /api/fault-rules with a body that ValidateRule accepts.  The INSERT fails
\* on a name in use.  hitCount is taken from the body.
CreateFaultRule(r, on, h) ==
  /\ created[r] = -1
  /\ \A s \in present : NameOf[s] # NameOf[r]
  /\ present' = present \cup {r}
  /\ enabled' = [enabled EXCEPT ![r] = on]
  /\ hits' = [hits EXCEPT ![r] = h]
  /\ created' = [created EXCEPT ![r] = now]
  /\ seed' = [seed EXCEPT ![r] = h]
  /\ UNCHANGED <<now, pc, snap, chosen, applied, lost, late>>

\* PATCH /api/fault-rules/{id}: an unknown id updates no row and is no error.
UpdateFaultRule(r, on) ==
  /\ r \in present
  /\ enabled' = [enabled EXCEPT ![r] = on]
  /\ late' = [late EXCEPT ![r] = IF on THEN 0 ELSE @]
  /\ UNCHANGED <<present, hits, created, seed, now, pc, snap, chosen, applied, lost>>

DeleteFaultRule(r) ==
  /\ r \in present
  /\ present' = present \ {r}
  /\ UNCHANGED <<enabled, hits, created, seed, now, pc, snap, chosen, applied, lost, late>>

Tick ==
  /\ now < MaxTime
  /\ now' = now + 1
  /\ UNCHANGED <<tableVars, pc, snap, chosen, applied, lost, late>>

-----------------------------------------------------------------------------
(* Engine.Check and Apply                                                  *)

CheckStep(q, from, to) ==
  /\ pc[q] = from
  /\ pc' = [pc EXCEPT ![q] = to]

ListRules(q) ==
  /\ \A r \in Rules : applied[r] < MaxApplied
  /\ CheckStep(q, "idle", "listed")
  /\ snap' = [snap EXCEPT ![q] = {r \in present : Open(r)}]
  /\ UNCHANGED <<tableVars, now, chosen, applied, lost, late>>

\* The SELECT fails: Check returns the error and no fault.
ListRulesFails(q) ==
  /\ CheckStep(q, "idle", "result")
  /\ UNCHANGED <<tableVars, now, snap, chosen, applied, lost, late>>

\* The rules Match holds of, at the moment FindFirstMatch runs.
Matching(q) == {r \in snap[q] \cap Fits[q] : ~Expired(r)}

\* The rows come in the order of created_at_ms, in any order within one.
FindFirstMatch(q) ==
  /\ \E r \in Matching(q) :
       /\ \A s \in Matching(q) : created[r] <= created[s]
       /\ chosen' = [chosen EXCEPT ![q] = r]
  /\ CheckStep(q, "listed", "matched")
  /\ UNCHANGED <<tableVars, now, snap, applied, lost, late>>

\* Mutant: Check goes on with the nil that FindFirstMatch returned.
NoMatchUnchecked(q) ==
  /\ Matching(q) = {}
  /\ CheckStep(q, "listed", "matched")
  /\ UNCHANGED <<tableVars, now, snap, chosen, applied, lost, late>>

NoMatch(q) ==
  /\ Matching(q) = {}
  /\ CheckStep(q, "listed", "result")
  /\ UNCHANGED <<tableVars, now, snap, chosen, applied, lost, late>>

\* Check returns the fault whether or not the UPDATE counted it.
ReturnFault(q) ==
  LET r == chosen[q] IN
  /\ CheckStep(q, "matched", "result")
  /\ applied' = [applied EXCEPT ![r] = @ + 1]
  /\ late' = [late EXCEPT ![r] = IF InService(r) THEN 0 ELSE @ + 1]
  /\ UNCHANGED <<present, enabled, created, seed, now, snap, chosen>>

\* hit_count = hit_count + 1 in the database; a deleted rule has no row to update.
IncrementHitCount(q) ==
  LET r == chosen[q] IN
  /\ ReturnFault(q)
  /\ IF r \in present
     THEN hits' = [hits EXCEPT ![r] = @ + 1] /\ UNCHANGED lost
     ELSE lost' = [lost EXCEPT ![r] = @ + 1] /\ UNCHANGED hits

\* The UPDATE fails: the error is logged, the fault still applies.
IncrementFails(q) ==
  /\ ReturnFault(q)
  /\ lost' = [lost EXCEPT ![chosen[q]] = @ + 1]
  /\ UNCHANGED hits

\* Apply sleeps, answers or drops the request, or lets it go on to the target;
\* the table is not touched and the goroutine takes its next request.
Apply(q) ==
  /\ CheckStep(q, "result", "idle")
  /\ snap' = [snap EXCEPT ![q] = {}]
  /\ chosen' = [chosen EXCEPT ![q] = NoRule]
  /\ UNCHANGED <<tableVars, now, applied, lost, late>>
-----------------------------------------------------------------------------
Next ==
  \/ \E r \in Rules, on \in BOOLEAN, h \in Seeds : CreateFaultRule(r, on, h)
  \/ \E r \in Rules, on \in BOOLEAN : UpdateFaultRule(r, on)
  \/ \E r \in Rules : DeleteFaultRule(r)
  \/ Tick
  \/ \E q \in Requests :
       \/ ListRules(q)
       \/ ListRulesFails(q)
       \/ FindFirstMatch(q)
       \/ NoMatch(q)
       \/ IncrementHitCount(q)
       \/ IncrementFails(q)
       \/ Apply(q)

Spec == Init /\ [][Next]_vars
-----------------------------------------------------------------------------
TypeOK ==
  /\ present \subseteq Rules
  /\ enabled \in [Rules -> BOOLEAN]
  /\ hits \in [Rules -> Int]
  /\ created \in [Rules -> Nat \cup {-1}]
  /\ \A r \in present : created[r] \in 0 .. now
  /\ now \in Nat
  /\ pc \in [Requests -> CheckStates]
  /\ snap \in [Requests -> SUBSET Rules]
  /\ chosen \in [Requests -> Rules \cup {NoRule}]
  /\ \A q \in Requests : pc[q] = "matched" => chosen[q] \in Rules
  /\ seed \in [Rules -> Int]
  /\ applied \in [Rules -> Nat]
  /\ lost \in [Rules -> Nat]
  /\ late \in [Rules -> Nat]

(* The documented limit, up to what the missing transaction costs: a rule  *)
(* with maxHits is applied at most once more per concurrent request than   *)
(* its limit leaves room for, plus once for every hit that could not be    *)
(* counted.  A rule created at or past its limit is never applied.         *)
HitLimit ==
  \A r \in Rules : MaxHits[r] > 0 =>
    IF seed[r] < MaxHits[r]
    THEN applied[r] <= (MaxHits[r] - seed[r]) + (N - 1) + lost[r]
    ELSE applied[r] = 0

(* A rule that is disabled, deleted or expired is applied only by requests *)
(* that were already being checked: at most once per goroutine until it is *)
(* enabled again.                                                          *)
LateHits == \A r \in Rules : late[r] <= N

(* The limit as documented: docs/cli.md, --max-hits, "Safety: max hits".   *)
(* Stated for rules created with no hits, whose hits were all counted.     *)
MaxHitsRespected ==
  \A r \in Rules :
    MaxHits[r] > 0 /\ seed[r] = 0 /\ lost[r] = 0 => applied[r] <= MaxHits[r]
=============================================================================
