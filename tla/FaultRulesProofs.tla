------------------------- MODULE FaultRulesProofs -------------------------
(***************************************************************************)
(* Proofs about FaultRules, for any rules, limits, expiry times and any    *)
(* finite number of concurrent requests.  Both bounds come from counting   *)
(* the requests that may still apply a rule: each of them was let in while *)
(* the rule was open, and there are at most N of them.                     *)
(***************************************************************************)
EXTENDS FaultRules, FiniteSetTheorems, TLAPS

\* The requests that may still apply r, whatever happens to r.
Holding(r) ==
  {q \in Requests : \/ pc[q] = "listed" /\ r \in snap[q]
                    \/ pc[q] = "matched" /\ chosen[q] = r}

\* Those that will not find r expired.
Committed(r) ==
  {q \in Requests : \/ pc[q] = "listed" /\ r \in snap[q] /\ ~Expired(r)
                    \/ pc[q] = "matched" /\ chosen[q] = r}

\* Nobody has seen a rule that was not created yet.
Fresh ==
  \A r \in Rules : created[r] = -1 =>
    /\ r \notin present
    /\ hits[r] = 0 /\ seed[r] = 0 /\ applied[r] = 0 /\ lost[r] = 0 /\ late[r] = 0
    /\ \A q \in Requests : r \notin snap[q] /\ chosen[q] # r

\* hit_count is what was applied and counted, on top of what it began with.
Accounting == \A r \in Rules : hits[r] = seed[r] + applied[r] - lost[r]

\* The hits of a rule, and those it may still get.
Limit(r) ==
  MaxHits[r] > 0 =>
    IF seed[r] < MaxHits[r]
    THEN hits[r] + Cardinality(Holding(r)) <= MaxHits[r] + N - 1
    ELSE applied[r] = 0 /\ lost[r] = 0 /\ Holding(r) = {}

\* The late applications of a rule, and those it may still get.
Service(r) ==
  IF InService(r) THEN late[r] = 0
                  ELSE late[r] + Cardinality(Committed(r)) <= N

Bounds == \A r \in Rules : Limit(r) /\ Service(r)

IInv == TypeOK /\ Fresh /\ Accounting /\ Bounds
-----------------------------------------------------------------------------
(* A set of requests is finite, and has at most N elements.                *)
LEMMA Counting ==
  ASSUME NEW S \in SUBSET Requests
  PROVE  /\ Cardinality(S) \in Nat
         /\ N \in Nat
         /\ Cardinality(S) <= N
         /\ \A T \in SUBSET S : Cardinality(T) \in Nat /\ Cardinality(T) <= Cardinality(S)
         /\ \A q \in S : Cardinality(S \ {q}) = Cardinality(S) - 1
<1>1. IsFiniteSet(S)
  BY RequestsAssumption, FS_Subset
<1>2. Cardinality(S) \in Nat /\ N \in Nat /\ Cardinality(S) <= N
  BY <1>1, RequestsAssumption, FS_Subset, FS_CardinalityType DEF N
<1>3. \A T \in SUBSET S : Cardinality(T) \in Nat /\ Cardinality(T) <= Cardinality(S)
  BY <1>1, FS_Subset, FS_CardinalityType
<1>4. \A q \in S : Cardinality(S \ {q}) = Cardinality(S) - 1
  BY <1>1, FS_RemoveElement
<1> QED
  BY <1>2, <1>3, <1>4

(* The program starts in a state of the right types.                       *)
LEMMA TypeInit == Init => TypeOK
BY NoRuleAssumption DEF Init, TypeOK, CheckStates

(* No handler, no Check and no tick of the clock breaks the types.         *)
LEMMA TypeStep == TypeOK /\ [Next]_vars => TypeOK'
<1> SUFFICES ASSUME TypeOK, [Next]_vars
             PROVE  TypeOK'
  OBVIOUS
<1> USE DEF TypeOK, CheckStates
<1>1. CASE UNCHANGED vars
  BY <1>1 DEF vars, tableVars
<1>2. ASSUME NEW r \in Rules, NEW on \in BOOLEAN, NEW h \in Seeds, CreateFaultRule(r, on, h)
      PROVE  TypeOK'
  <2>1. h \in Int
    BY SeedsAssumption
  <2>2. now \in 0 .. now
    OBVIOUS
  <2>3. \A s \in present' : created'[s] \in 0 .. now'
    BY <1>2, <2>2 DEF CreateFaultRule
  <2> QED
    BY <1>2, <2>1, <2>3 DEF CreateFaultRule
<1>3. ASSUME NEW r \in Rules, NEW on \in BOOLEAN, UpdateFaultRule(r, on)
      PROVE  TypeOK'
  BY <1>3 DEF UpdateFaultRule
<1>4. ASSUME NEW r \in Rules, DeleteFaultRule(r)
      PROVE  TypeOK'
  BY <1>4 DEF DeleteFaultRule
<1>5. CASE Tick
  BY <1>5 DEF Tick, tableVars
<1>6. ASSUME NEW q \in Requests, ListRules(q) \/ ListRulesFails(q) \/ NoMatch(q)
      PROVE  TypeOK'
  BY <1>6 DEF ListRules, ListRulesFails, NoMatch, CheckStep, tableVars
<1>7. ASSUME NEW q \in Requests, FindFirstMatch(q)
      PROVE  TypeOK'
  BY <1>7 DEF FindFirstMatch, Matching, CheckStep, tableVars
<1>8. ASSUME NEW q \in Requests, IncrementHitCount(q) \/ IncrementFails(q)
      PROVE  TypeOK'
  <2>1. chosen[q] \in Rules
    BY <1>8 DEF IncrementHitCount, IncrementFails, ReturnFault, CheckStep
  <2> QED
    BY <1>8, <2>1 DEF IncrementHitCount, IncrementFails, ReturnFault, CheckStep
<1>9. ASSUME NEW q \in Requests, Apply(q)
      PROVE  TypeOK'
  BY <1>9 DEF Apply, CheckStep, tableVars
<1> QED
  BY <1>1, <1>2, <1>3, <1>4, <1>5, <1>6, <1>7, <1>8, <1>9 DEF Next

(* Every variable keeps its type, and a request that goes on to count a    *)
(* hit has a rule to count it for.                                         *)
THEOREM TypeCorrect == Spec => []TypeOK
<1> QED
  BY TypeInit, TypeStep, PTL DEF Spec
-----------------------------------------------------------------------------
(* The invariant holds initially.                                          *)
LEMMA InitInvariant == Init => IInv
<1> SUFFICES ASSUME Init
             PROVE  IInv
  OBVIOUS
<1>1. TypeOK
  BY TypeInit
<1>2. Fresh /\ Accounting
  BY NoRuleAssumption DEF Init, Fresh, Accounting
<1>3. ASSUME NEW r \in Rules
      PROVE  Limit(r) /\ Service(r)
  <2>1. Holding(r) = {} /\ Committed(r) = {}
    BY DEF Init, Holding, Committed
  <2>2. N \in Nat /\ Cardinality({}) = 0
    BY Counting, FS_EmptySet
  <2>3. ~InService(r) /\ hits[r] = 0 /\ seed[r] = 0 /\ late[r] = 0
    BY DEF Init, InService
  <2>4. Limit(r)
    BY <2>1, <2>2, <2>3, LimitsAssumption DEF Limit
  <2>5. Service(r)
    BY <2>1, <2>2, <2>3 DEF Service
  <2> QED
    BY <2>4, <2>5
<1> QED
  BY <1>1, <1>2, <1>3 DEF IInv, Bounds

(* A step that lets no further request hold r keeps the bound on its hits. *)
LEMMA LimitKept ==
  ASSUME IInv, NEW r \in Rules, Holding(r)' \subseteq Holding(r),
         hits'[r] = hits[r], seed'[r] = seed[r],
         applied'[r] = applied[r], lost'[r] = lost[r]
  PROVE  Limit(r)'
<1>1. Limit(r) /\ hits[r] \in Int
  BY DEF IInv, Bounds, TypeOK
<1>2. Holding(r) \in SUBSET Requests
  BY DEF Holding
<1>3. /\ Cardinality(Holding(r)) \in Nat /\ Cardinality(Holding(r)') \in Nat
      /\ Cardinality(Holding(r)') <= Cardinality(Holding(r))
  BY <1>2, Counting
<1>4. N \in Nat /\ MaxHits[r] \in Nat
  BY Counting, LimitsAssumption
<1>5. CASE seed[r] < MaxHits[r]
  BY <1>1, <1>3, <1>4, <1>5 DEF Limit
<1>6. CASE ~(seed[r] < MaxHits[r])
  BY <1>1, <1>6 DEF Limit
<1> QED
  BY <1>5, <1>6

(* A step that neither applies r nor puts it back into service keeps the   *)
(* bound on its late applications, unless it lets a request commit to it.  *)
LEMMA ServiceKept ==
  ASSUME IInv, TypeOK', NEW r \in Rules, Committed(r)' \subseteq Committed(r),
         late'[r] = late[r], InService(r)' => InService(r)
  PROVE  Service(r)'
<1>1. Service(r) /\ late[r] \in Nat
  BY DEF IInv, Bounds, TypeOK
<1>2. Committed(r) \in SUBSET Requests
  BY DEF Committed
<1>3. /\ Cardinality(Committed(r)) \in Nat /\ Cardinality(Committed(r)') \in Nat
      /\ Cardinality(Committed(r)') <= Cardinality(Committed(r))
      /\ Cardinality(Committed(r)) <= N /\ N \in Nat
  BY <1>2, Counting
<1>4. CASE InService(r)
  BY <1>1, <1>3, <1>4 DEF Service
<1>5. CASE ~InService(r)
  BY <1>1, <1>3, <1>5 DEF Service
<1> QED
  BY <1>4, <1>5

(* A rule with no late applications yet is within the bound on them.       *)
LEMMA NoneLate ==
  ASSUME NEW r \in Rules, late'[r] = 0
  PROVE  Service(r)'
<1>1. Committed(r)' \in SUBSET Requests
  BY DEF Committed
<1>2. Cardinality(Committed(r)') \in Nat /\ Cardinality(Committed(r)') <= N
  BY <1>1, Counting
<1> QED
  BY <1>2 DEF Service

(* The handlers and the clock keep the invariant.                          *)
LEMMA TableInvariant ==
  ASSUME IInv, TypeOK',
         \/ \E r \in Rules, on \in BOOLEAN, h \in Seeds : CreateFaultRule(r, on, h)
         \/ \E r \in Rules, on \in BOOLEAN : UpdateFaultRule(r, on)
         \/ \E r \in Rules : DeleteFaultRule(r)
         \/ Tick
  PROVE  IInv'
<1>i. TypeOK /\ Fresh /\ Accounting
  BY DEF IInv
<1> USE <1>i
<1>1. UNCHANGED <<pc, snap, chosen, applied, lost>>
  BY DEF CreateFaultRule, UpdateFaultRule, DeleteFaultRule, Tick
<1>2. \A r \in Rules : Holding(r)' = Holding(r)
  BY <1>1 DEF Holding
<1>3. ASSUME NEW r \in Rules, NEW on \in BOOLEAN, NEW h \in Seeds, CreateFaultRule(r, on, h)
      PROVE  IInv'
  <2> USE <1>3 DEF CreateFaultRule
  <2>1. /\ applied[r] = 0 /\ lost[r] = 0 /\ late[r] = 0
        /\ Holding(r) = {} /\ Committed(r) = {}
    BY DEF Fresh, Holding, Committed
  <2>2. h \in Int /\ hits'[r] = h /\ seed'[r] = h /\ created'[r] = now /\ now \in Nat
    BY SeedsAssumption DEF TypeOK
  <2>3. \A s \in Rules \ {r} :
          /\ hits'[s] = hits[s] /\ seed'[s] = seed[s] /\ created'[s] = created[s]
          /\ s \in present' <=> s \in present
          /\ enabled'[s] = enabled[s]
    BY DEF TypeOK
  <2>4. Fresh'
    BY <1>1, <2>2, <2>3 DEF Fresh
  <2>5. Accounting'
    BY <1>1, <2>1, <2>2, <2>3 DEF Accounting
  <2>6. Limit(r)' /\ Service(r)'
    <3>1. Limit(r)'
      <4>1. N \in Nat /\ MaxHits[r] \in Nat /\ Cardinality({}) = 0
        BY Counting, LimitsAssumption, FS_EmptySet
      <4>2. /\ Holding(r)' = {} /\ Cardinality(Holding(r)') = 0
            /\ applied'[r] = 0 /\ lost'[r] = 0
        BY <1>1, <1>2, <2>1, <4>1
      <4>3. h < MaxHits[r] => h + 0 <= MaxHits[r] + N - 1
        BY <2>2, <4>1
      <4> QED
        BY <2>2, <4>2, <4>3 DEF Limit
    <3>2. Service(r)'
      BY <2>1, NoneLate
    <3> QED
      BY <3>1, <3>2
  <2>7. ASSUME NEW s \in Rules \ {r}
        PROVE  Limit(s)' /\ Service(s)'
    <3>1. Expired(s)' = Expired(s) /\ InService(s)' = InService(s)
      BY <2>3 DEF Expired, InService
    <3>2. Committed(s)' = Committed(s)
      BY <1>1, <3>1 DEF Committed
    <3>3. Limit(s)'
      BY <1>1, <1>2, <2>3, LimitKept
    <3>4. Service(s)'
      BY <3>1, <3>2, ServiceKept
    <3> QED
      BY <3>3, <3>4
  <2> QED
    BY <2>4, <2>5, <2>6, <2>7 DEF IInv, Bounds
<1>4. ASSUME NEW r \in Rules, NEW on \in BOOLEAN, UpdateFaultRule(r, on)
      PROVE  IInv'
  <2> USE <1>4 DEF UpdateFaultRule
  <2>1. Fresh' /\ Accounting'
    <3>1. \A s \in Rules : late'[s] = late[s] \/ late'[s] = 0
      BY DEF TypeOK
    <3>2. Fresh'
      BY <1>1, <3>1 DEF Fresh
    <3>3. Accounting'
      BY <1>1 DEF Accounting
    <3> QED
      BY <3>2, <3>3
  <2>2. ASSUME NEW s \in Rules
        PROVE  Limit(s)' /\ Service(s)'
    <3>1. Limit(s)'
      BY <1>1, <1>2, LimitKept
    <3>2. CASE s = r /\ on
      <4>1. late'[s] = 0
        BY <3>2 DEF TypeOK
      <4> QED
        BY <3>1, <4>1, NoneLate
    <3>3. CASE s # r \/ ~on
      <4>1. late'[s] = late[s]
        BY <3>3 DEF TypeOK
      <4>2. Expired(s)' = Expired(s)
        BY DEF Expired
      <4>3. InService(s)' => InService(s)
        BY <3>3, <4>2 DEF InService, TypeOK
      <4>4. Committed(s)' = Committed(s)
        BY <1>1, <4>2 DEF Committed
      <4> QED
        BY <3>1, <4>1, <4>3, <4>4, ServiceKept
    <3> QED
      BY <3>2, <3>3
  <2> QED
    BY <2>1, <2>2 DEF IInv, Bounds
<1>5. ASSUME NEW r \in Rules, DeleteFaultRule(r)
      PROVE  IInv'
  <2> USE <1>5 DEF DeleteFaultRule
  <2>1. Fresh' /\ Accounting'
    BY <1>1 DEF Fresh, Accounting
  <2>2. ASSUME NEW s \in Rules
        PROVE  Limit(s)' /\ Service(s)'
    <3>1. Limit(s)'
      BY <1>1, <1>2, LimitKept
    <3>2. Expired(s)' = Expired(s)
      BY DEF Expired
    <3>3. InService(s)' => InService(s)
      BY <3>2 DEF InService
    <3>4. Committed(s)' = Committed(s)
      BY <1>1, <3>2 DEF Committed
    <3> QED
      BY <3>1, <3>3, <3>4, ServiceKept
  <2> QED
    BY <2>1, <2>2 DEF IInv, Bounds
<1>6. CASE Tick
  <2> USE <1>6 DEF Tick, tableVars
  <2>1. Fresh' /\ Accounting'
    BY <1>1 DEF Fresh, Accounting
  <2>2. ASSUME NEW s \in Rules
        PROVE  Limit(s)' /\ Service(s)'
    <3>1. Limit(s)'
      BY <1>1, <1>2, LimitKept
    <3>2. Expired(s) => Expired(s)'
      <4>1. now \in Int /\ created[s] \in Int /\ TTL[s] \in Nat
        BY LimitsAssumption DEF TypeOK
      <4> QED
        BY <4>1 DEF Expired
    <3>3. InService(s)' => InService(s)
      BY <3>2 DEF InService
    <3>4. Committed(s)' \subseteq Committed(s)
      BY <1>1, <3>2 DEF Committed
    <3> QED
      BY <3>1, <3>3, <3>4, ServiceKept
  <2> QED
    BY <2>1, <2>2 DEF IInv, Bounds
<1> QED
  BY <1>3, <1>4, <1>5, <1>6

(* A Check keeps the invariant.                                            *)
LEMMA CheckInvariant ==
  ASSUME IInv, TypeOK', NEW q \in Requests,
         \/ ListRules(q)
         \/ ListRulesFails(q)
         \/ FindFirstMatch(q)
         \/ NoMatch(q)
         \/ IncrementHitCount(q)
         \/ IncrementFails(q)
         \/ Apply(q)
  PROVE  IInv'
<1>i. TypeOK /\ Fresh /\ Accounting
  BY DEF IInv
<1> USE <1>i
<1>e. /\ UNCHANGED <<present, enabled, created, seed, now>>
      /\ \A r \in Rules : Expired(r)' = Expired(r) /\ InService(r)' = InService(r)
  BY DEF ListRules, ListRulesFails, FindFirstMatch, NoMatch, IncrementHitCount,
         IncrementFails, ReturnFault, Apply, tableVars, Expired, InService
<1>1. CASE ListRules(q)
  <2> USE <1>1 DEF ListRules, CheckStep, tableVars
  <2>1. Fresh' /\ Accounting'
    BY DEF Fresh, Accounting, TypeOK
  <2>2. ASSUME NEW r \in Rules
        PROVE  Limit(r)' /\ Service(r)'
    <3>1. CASE r \in present /\ Open(r)
      <4>1. Committed(r)' \subseteq Committed(r) \/ InService(r)
        BY <1>e, <3>1 DEF Committed, InService, Open, TypeOK
      <4>2. Service(r)'
        BY <1>e, <4>1, ServiceKept DEF IInv, Bounds, Service
      <4>3. Limit(r)'
        <5>1. Holding(r)' \in SUBSET Requests
          BY DEF Holding
        <5>2. /\ Cardinality(Holding(r)') \in Nat /\ Cardinality(Holding(r)') <= N
              /\ N \in Nat
          BY <5>1, Counting
        <5>3. MaxHits[r] > 0 => hits[r] < MaxHits[r]
          BY <3>1 DEF Open
        <5>4. MaxHits[r] \in Nat /\ hits[r] \in Int /\ seed[r] \in Int
          BY LimitsAssumption DEF TypeOK
        <5>5. MaxHits[r] > 0 => seed[r] < MaxHits[r]
          <6>1. Limit(r) /\ hits[r] = seed[r] + applied[r] - lost[r]
            BY DEF IInv, Bounds, Accounting
          <6> QED
            BY <5>3, <5>4, <6>1 DEF Limit
        <5> QED
          BY <5>2, <5>3, <5>4, <5>5 DEF Limit
      <4> QED
        BY <4>2, <4>3
    <3>2. CASE ~(r \in present /\ Open(r))
      <4>1. Holding(r)' \subseteq Holding(r) /\ Committed(r)' \subseteq Committed(r)
        BY <1>e, <3>2 DEF Holding, Committed, TypeOK
      <4> QED
        BY <1>e, <4>1, LimitKept, ServiceKept
    <3> QED
      BY <3>1, <3>2
  <2> QED
    BY <2>1, <2>2 DEF IInv, Bounds
<1>2. CASE ListRulesFails(q) \/ FindFirstMatch(q) \/ NoMatch(q) \/ Apply(q)
  <2> USE <1>2 DEF ListRulesFails, FindFirstMatch, NoMatch, Apply, CheckStep, tableVars
  <2>1. UNCHANGED <<hits, seed, applied, lost, late>>
    OBVIOUS
  <2>2. ASSUME NEW r \in Rules
        PROVE  /\ Holding(r)' \subseteq Holding(r)
               /\ Committed(r)' \subseteq Committed(r)
               /\ r \in snap'[q] => r \in snap[q]
               /\ chosen'[q] = r => r \in snap[q] \/ chosen[q] = r
    <3>1. CASE FindFirstMatch(q)
      <4>1. PICK s \in Matching(q) : chosen' = [chosen EXCEPT ![q] = s]
        BY <3>1
      <4>2. s \in snap[q] /\ ~Expired(s) /\ pc[q] = "listed" /\ s \in Rules
        BY <3>1, <4>1 DEF Matching, TypeOK
      <4> QED
        BY <1>e, <3>1, <4>1, <4>2 DEF Holding, Committed, TypeOK
    <3>2. CASE ListRulesFails(q) \/ NoMatch(q) \/ Apply(q)
      <4>1. r # NoRule
        BY NoRuleAssumption
      <4> QED
        BY <1>e, <3>2, <4>1 DEF Holding, Committed, TypeOK
    <3> QED
      BY <3>1, <3>2
  <2>3. \A p \in Requests \ {q} : snap'[p] = snap[p] /\ chosen'[p] = chosen[p]
    BY DEF TypeOK
  <2>4. Fresh'
    BY <1>e, <2>1, <2>2, <2>3 DEF Fresh
  <2>5. Accounting'
    BY <2>1 DEF Accounting
  <2>6. ASSUME NEW r \in Rules
        PROVE  Limit(r)' /\ Service(r)'
    BY <1>e, <2>1, <2>2, LimitKept, ServiceKept
  <2> QED
    BY <2>4, <2>5, <2>6 DEF IInv, Bounds
<1>3. CASE IncrementHitCount(q) \/ IncrementFails(q)
  <2> DEFINE r == chosen[q]
  <2> USE <1>3 DEF IncrementHitCount, IncrementFails, ReturnFault, CheckStep
  <2>1. /\ r \in Rules /\ pc[q] = "matched" /\ pc' = [pc EXCEPT ![q] = "result"]
        /\ UNCHANGED <<snap, chosen>>
    BY DEF TypeOK
  <2>2. /\ applied' = [applied EXCEPT ![r] = @ + 1]
        /\ late' = [late EXCEPT ![r] = IF InService(r) THEN 0 ELSE @ + 1]
    OBVIOUS
  <2>3. \/ hits' = [hits EXCEPT ![r] = @ + 1] /\ lost' = lost
        \/ hits' = hits /\ lost' = [lost EXCEPT ![r] = @ + 1]
    OBVIOUS
  <2>4. Fresh'
    <3>1. created[r] # -1
      BY <2>1 DEF Fresh
    <3> QED
      BY <1>e, <2>1, <2>2, <2>3, <3>1 DEF Fresh, TypeOK
  <2>5. Accounting'
    BY <1>e, <2>1, <2>2, <2>3 DEF Accounting, TypeOK
  <2>6. /\ q \in Holding(r) /\ Holding(r)' = Holding(r) \ {q}
        /\ q \in Committed(r) /\ Committed(r)' = Committed(r) \ {q}
    BY <1>e, <2>1 DEF Holding, Committed, TypeOK
  <2>7. /\ Holding(r) \in SUBSET Requests /\ Committed(r) \in SUBSET Requests
    BY DEF Holding, Committed
  <2>8. Limit(r)'
    <3>1. /\ Cardinality(Holding(r)') = Cardinality(Holding(r)) - 1
          /\ Cardinality(Holding(r)) \in Nat /\ N \in Nat
      BY <2>6, <2>7, Counting
    <3>2. hits[r] \in Int /\ hits'[r] \in {hits[r], hits[r] + 1} /\ seed'[r] = seed[r]
      BY <1>e, <2>1, <2>3 DEF TypeOK
    <3>3. MaxHits[r] > 0 =>
            /\ seed[r] < MaxHits[r]
            /\ hits[r] + Cardinality(Holding(r)) <= MaxHits[r] + N - 1
      BY <2>1, <2>6 DEF IInv, Bounds, Limit
    <3>4. MaxHits[r] \in Nat
      BY <2>1, LimitsAssumption
    <3>5. MaxHits[r] > 0 =>
            hits'[r] + Cardinality(Holding(r)') <= MaxHits[r] + N - 1
      BY <3>1, <3>2, <3>3, <3>4
    <3> QED
      BY <3>2, <3>3, <3>5, <2>1 DEF Limit
  <2>9. Service(r)'
    <3>1. CASE InService(r)
      <4>1. late'[r] = 0
        BY <2>1, <2>2, <3>1 DEF TypeOK
      <4> QED
        BY <2>1, <4>1, NoneLate
    <3>2. CASE ~InService(r)
      <4>1. /\ Cardinality(Committed(r)') = Cardinality(Committed(r)) - 1
            /\ Cardinality(Committed(r)) \in Nat /\ N \in Nat
        BY <2>6, <2>7, Counting
      <4>2. late'[r] = late[r] + 1 /\ late[r] \in Nat
        BY <2>1, <2>2, <3>2 DEF TypeOK
      <4>3. late[r] + Cardinality(Committed(r)) <= N
        BY <2>1, <3>2 DEF IInv, Bounds, Service
      <4>4. late'[r] + Cardinality(Committed(r)') <= N
        BY <4>1, <4>2, <4>3
      <4> QED
        BY <1>e, <2>1, <3>2, <4>4 DEF Service
    <3> QED
      BY <3>1, <3>2
  <2>10. ASSUME NEW s \in Rules \ {r}
         PROVE  Limit(s)' /\ Service(s)'
    <3>1. Holding(s)' \subseteq Holding(s) /\ Committed(s)' \subseteq Committed(s)
      BY <1>e, <2>1 DEF Holding, Committed, TypeOK
    <3>2. /\ hits'[s] = hits[s] /\ applied'[s] = applied[s]
          /\ lost'[s] = lost[s] /\ late'[s] = late[s]
      BY <2>1, <2>2, <2>3 DEF TypeOK
    <3> QED
      BY <1>e, <3>1, <3>2, LimitKept, ServiceKept
  <2> QED
    BY <2>4, <2>5, <2>8, <2>9, <2>10 DEF IInv, Bounds
<1> QED
  BY <1>1, <1>2, <1>3

(* IInv is inductive.                                                      *)
LEMMA StepInvariant == IInv /\ [Next]_vars => IInv'
<1> SUFFICES ASSUME IInv, [Next]_vars
             PROVE  IInv'
  OBVIOUS
<1>t. TypeOK'
  BY TypeStep DEF IInv
<1>1. CASE UNCHANGED vars
  <2>1. Fresh' /\ Accounting'
    BY <1>1 DEF IInv, Fresh, Accounting, vars, tableVars
  <2>2. ASSUME NEW r \in Rules
        PROVE  Limit(r)' /\ Service(r)'
    <3>1. Holding(r)' = Holding(r) /\ Committed(r)' = Committed(r) /\ InService(r)' = InService(r)
      BY <1>1 DEF Holding, Committed, InService, Expired, vars, tableVars
    <3> QED
      BY <1>t, <1>1, <3>1, LimitKept, ServiceKept DEF vars, tableVars
  <2> QED
    BY <1>t, <2>1, <2>2 DEF IInv, Bounds
<1>2. ASSUME NEW q \in Requests,
             \/ ListRules(q) \/ ListRulesFails(q) \/ FindFirstMatch(q) \/ NoMatch(q)
             \/ IncrementHitCount(q) \/ IncrementFails(q) \/ Apply(q)
      PROVE  IInv'
  BY <1>t, <1>2, CheckInvariant
<1> QED
  BY <1>t, <1>1, <1>2, TableInvariant DEF Next

(* IInv holds in every state the program reaches.                          *)
THEOREM Invariance == Spec => []IInv
<1> QED
  BY InitInvariant, StepInvariant, PTL DEF Spec
-----------------------------------------------------------------------------
(* A limited rule is applied at most N - 1 times more than its limit left  *)
(* room for, plus once for each hit that could not be counted, for any     *)
(* limits and any number N of concurrent requests.                         *)
THEOREM HitsAreLimited == Spec => []HitLimit
<1>1. IInv => HitLimit
  <2> SUFFICES ASSUME IInv, NEW r \in Rules, MaxHits[r] > 0
               PROVE  IF seed[r] < MaxHits[r]
                      THEN applied[r] <= (MaxHits[r] - seed[r]) + (N - 1) + lost[r]
                      ELSE applied[r] = 0
    BY DEF HitLimit
  <2>1. Limit(r) /\ hits[r] = seed[r] + applied[r] - lost[r]
    BY DEF IInv, Bounds, Accounting
  <2>2. /\ hits[r] \in Int /\ seed[r] \in Int /\ MaxHits[r] \in Nat
        /\ applied[r] \in Nat /\ lost[r] \in Nat
    BY LimitsAssumption DEF IInv, TypeOK
  <2>3. Holding(r) \in SUBSET Requests
    BY DEF Holding
  <2>4. Cardinality(Holding(r)) \in Nat /\ N \in Nat
    BY <2>3, Counting
  <2> QED
    BY <2>1, <2>2, <2>4 DEF Limit
<1> QED
  BY <1>1, Invariance, PTL

(* A rule that is out of service is applied at most once more by each      *)
(* concurrent request, whichever way it went out of service.               *)
THEOREM LateHitsAreFew == Spec => []LateHits
<1>1. IInv => LateHits
  <2> SUFFICES ASSUME IInv, NEW r \in Rules
               PROVE  late[r] <= N
    BY DEF LateHits
  <2>1. Service(r) /\ late[r] \in Nat
    BY DEF IInv, Bounds, TypeOK
  <2>2. Committed(r) \in SUBSET Requests
    BY DEF Committed
  <2>3. Cardinality(Committed(r)) \in Nat /\ N \in Nat
    BY <2>2, Counting
  <2> QED
    BY <2>1, <2>3 DEF Service
<1> QED
  BY <1>1, Invariance, PTL

(* The documented limit is lost to concurrency alone: as long as requests  *)
(* are checked one after another, maxHits is respected for every rule whose *)
(* hits were counted, whatever the table's handlers do (Engine.Check).     *)
THEOREM LimitHoldsWithoutConcurrency ==
  ASSUME N <= 1
  PROVE  Spec => []MaxHitsRespected
<1>1. TypeOK /\ HitLimit => MaxHitsRespected
  <2> SUFFICES ASSUME TypeOK, HitLimit, NEW r \in Rules,
                      MaxHits[r] > 0, seed[r] = 0, lost[r] = 0
               PROVE  applied[r] <= MaxHits[r]
    BY DEF MaxHitsRespected
  <2>1. MaxHits[r] \in Nat /\ applied[r] \in Nat /\ N \in Nat
    BY LimitsAssumption, RequestsAssumption, FS_CardinalityType DEF TypeOK, N
  <2>2. applied[r] <= (MaxHits[r] - 0) + (N - 1) + 0
    BY <2>1 DEF HitLimit
  <2> QED
    BY <2>1, <2>2
<1> QED
  BY <1>1, TypeCorrect, HitsAreLimited, PTL
=============================================================================
