---------------------------- MODULE StudioProofs ----------------------------
(***************************************************************************)
(* Proofs about EventPages and Studio, for any number of events, pages of  *)
(* any size and any number of broken connections.  What the list misses    *)
(* and repeats is settled by an account of every broadcast event, and by   *)
(* counting: a list in which nothing appears three times cannot be full    *)
(* with less than a page of events.                                        *)
(***************************************************************************)
EXTENDS Studio, FiniteSetTheorems, SequenceTheorems, TLAPS

\* A walk starts at the first page, and what it did not meet lies ahead, or shares the
\* millisecond of a page's last event.
Ahead(e) == walkPc = "walking" /\ (cursor = 0 \/ at[e] < cursor)

Walked ==
  /\ walkPc = "idle" => cursor = 0
  /\ walkPc # "idle" => \A e \in known \ met : at[e] \in edges \/ Ahead(e)

\* No event is broadcast or handled twice.
Distinct == IsInjective(feed) /\ IsInjective(heard)

\* What a connection holds are broadcasts in their order, after all that was handled.
InTurn ==
  /\ ToSet(wire) \subseteq ToSet(feed)
  /\ \A i, j \in DOMAIN wire : i < j => Rank(wire[i]) < Rank(wire[j])
  /\ \A h \in ToSet(heard), w \in ToSet(wire) : Rank(h) < Rank(w)

\* A broadcast event was handled, is under way, was missed, or is in an answer.
Accounted == ToSet(feed) \subseteq ToSet(heard) \cup ToSet(wire) \cup missed \cup asked

\* An answer has everything that was stored, or is a whole page.
Answered ==
  fetch = "answered" =>
    /\ IsInjective(answer)
    /\ ToSet(answer) \subseteq asked
    /\ Len(answer) = PageLimit \/ ToSet(answer) = asked

\* An event is listed by the response and by the stream, which lists what it handled.
NeverThrice(list) ==
  \A i, j, k \in DOMAIN list :
    i < j /\ j < k => ~(list[i] = list[j] /\ list[j] = list[k])

ListedTwice ==
  /\ ToSet(items) \subseteq Stored
  /\ NeverThrice(items)
  /\ \A i, j \in DOMAIN items : i < j /\ items[i] = items[j] => items[i] \in ToSet(heard)

StudioInv ==
  /\ TypeOK
  /\ Walked
  /\ Distinct
  /\ InTurn
  /\ Accounted
  /\ Answered
  /\ ListedTwice
  /\ HolesHaveACause

-----------------------------------------------------------------------------
(* Sequences.                                                              *)

(* A sequence of bounded length is a sequence.                             *)
LEMMA BoundedLength ==
  ASSUME NEW S, NEW n \in Nat, NEW s
  PROVE  s \in SeqOf(S, n) <=> s \in Seq(S) /\ Len(s) <= n
BY DEF SeqOf

(* The elements of a sequence are those at its places.                     *)
LEMMA Elements ==
  ASSUME NEW S, NEW s \in Seq(S)
  PROVE  /\ DOMAIN s = 1 .. Len(s)
         /\ ToSet(s) \subseteq S
         /\ \A i \in 1 .. Len(s) : s[i] \in ToSet(s)
         /\ \A x \in ToSet(s) : \E i \in 1 .. Len(s) : s[i] = x
BY DEF ToSet

(* The empty sequence has none, and is as short as any bound.              *)
LEMMA NoElements ==
  ASSUME NEW S, NEW n \in Nat
  PROVE  /\ ToSet(<<>>) = {} /\ IsInjective(<<>>)
         /\ DOMAIN <<>> = {}
         /\ <<>> \in SeqOf(S, n)
<1>1. DOMAIN <<>> = {}
  OBVIOUS
<1>2. ToSet(<<>>) = {} /\ IsInjective(<<>>)
  BY <1>1 DEF ToSet, IsInjective
<1>3. <<>> \in [1 .. 0 -> S] /\ 0 \in 0 .. n
  OBVIOUS
<1>4. <<>> \in SeqOf(S, n)
  BY <1>3 DEF SeqOf
<1> QED
  BY <1>1, <1>2, <1>4

(* Append adds one at the end.                                             *)
LEMMA Appended ==
  ASSUME NEW S, NEW s \in Seq(S), NEW x \in S
  PROVE  /\ Append(s, x) \in Seq(S)
         /\ Len(Append(s, x)) = Len(s) + 1
         /\ \A i \in 1 .. Len(s) : Append(s, x)[i] = s[i]
         /\ Append(s, x)[Len(s) + 1] = x
         /\ ToSet(Append(s, x)) = ToSet(s) \cup {x}
         /\ x \notin ToSet(s) /\ IsInjective(s) => IsInjective(Append(s, x))
<1> DEFINE t == Append(s, x)
<1>1. /\ t \in Seq(S) /\ Len(t) = Len(s) + 1 /\ Len(s) \in Nat
      /\ \A i \in 1 .. Len(s) : t[i] = s[i]
      /\ t[Len(s) + 1] = x
  OBVIOUS
<1> HIDE DEF t
<1>2. ToSet(t) \subseteq ToSet(s) \cup {x}
  <2> SUFFICES ASSUME NEW y \in ToSet(t), y # x
               PROVE  y \in ToSet(s)
    OBVIOUS
  <2>1. PICK i \in 1 .. Len(t) : t[i] = y
    BY <1>1, Elements
  <2>2. i \in 1 .. Len(s) /\ s[i] = y
    BY <1>1, <2>1
  <2> QED
    BY <2>2, Elements
<1>3. ToSet(s) \cup {x} \subseteq ToSet(t)
  <2>1. \A i \in 1 .. Len(t) : t[i] \in ToSet(t)
    BY <1>1, Elements
  <2>2. x \in ToSet(t)
    BY <1>1, <2>1
  <2>3. ASSUME NEW y \in ToSet(s)
        PROVE  y \in ToSet(t)
    <3>1. PICK i \in 1 .. Len(s) : s[i] = y
      BY Elements
    <3> QED
      BY <1>1, <2>1, <3>1
  <2> QED
    BY <2>2, <2>3
<1>4. ToSet(Append(s, x)) = ToSet(s) \cup {x}
  BY <1>2, <1>3 DEF t
<1>5. ASSUME x \notin ToSet(s), IsInjective(s)
      PROVE  IsInjective(Append(s, x))
  BY <1>5, Elements DEF IsInjective
<1> QED
  BY <1>4, <1>5

(* Tail takes the first one away.                                          *)
LEMMA Beheaded ==
  ASSUME NEW S, NEW s \in Seq(S), s # <<>>
  PROVE  /\ Head(s) = s[1] /\ Head(s) \in ToSet(s)
         /\ Tail(s) \in Seq(S)
         /\ Len(Tail(s)) = Len(s) - 1
         /\ \A i \in 1 .. Len(s) - 1 : Tail(s)[i] = s[i + 1]
         /\ ToSet(s) = ToSet(Tail(s)) \cup {Head(s)}
<1>1. /\ Len(s) \in Nat \ {0}
      /\ Tail(s) \in Seq(S)
      /\ Len(Tail(s)) = Len(s) - 1
      /\ \A i \in 1 .. Len(s) - 1 : Tail(s)[i] = s[i + 1]
  BY HeadTailProperties, EmptySeq
<1>2. Head(s) = s[1] /\ Head(s) \in ToSet(s)
  BY <1>1, Elements
<1>3. ASSUME NEW x \in ToSet(Tail(s))
      PROVE  x \in ToSet(s)
  <2>1. PICK i \in 1 .. Len(Tail(s)) : Tail(s)[i] = x
    BY <1>1, Elements
  <2>2. i + 1 \in 1 .. Len(s) /\ s[i + 1] = x
    BY <1>1, <2>1
  <2> QED
    BY <2>2, Elements
<1>4. ASSUME NEW x \in ToSet(s), x # Head(s)
      PROVE  x \in ToSet(Tail(s))
  <2>1. PICK i \in 1 .. Len(s) : s[i] = x
    BY Elements
  <2>2. i # 1 /\ i - 1 \in 1 .. Len(s) - 1 /\ Tail(s)[i - 1] = x
    BY <1>1, <1>2, <1>4, <2>1
  <2> QED
    BY <1>1, <2>2, Elements
<1> QED
  BY <1>1, <1>2, <1>3, <1>4

(* A list that is cut keeps its front.                                     *)
LEMMA CutKeepsFront ==
  ASSUME NEW S, NEW s \in Seq(S), NEW n \in Nat
  PROVE  /\ Cut(s, n) \in Seq(S)
         /\ Len(Cut(s, n)) = IF n <= Len(s) THEN n ELSE Len(s)
         /\ \A i \in 1 .. Len(Cut(s, n)) : Cut(s, n)[i] = s[i]
<1> DEFINE m == IF n <= Len(s) THEN n ELSE Len(s)
<1>1. m \in Nat /\ m <= Len(s) /\ \A i \in 1 .. m : s[i] \in S
  OBVIOUS
<1>2. Min({n, Len(s)}) = m
  BY DEF Min
<1>3. Cut(s, n) = SubSeq(s, 1, m)
  BY <1>2 DEF Cut
<1> HIDE DEF m
<1>4. /\ SubSeq(s, 1, m) \in Seq(S)
      /\ Len(SubSeq(s, 1, m)) = m
      /\ \A i \in 1 .. m : SubSeq(s, 1, m)[i] = s[i]
  BY <1>1, SubSeqProperties
<1> QED
  BY <1>3, <1>4 DEF m

InFront(x, s, n) == Cut(<<x>> \o s, n)

(* An event put in front of a list that is then cut.                       *)
LEMMA PutBefore ==
  ASSUME NEW S, NEW s \in Seq(S), NEW x \in S, NEW n \in Nat \ {0}
  PROVE  LET t == InFront(x, s, n)
         IN  /\ t \in Seq(S)
             /\ Len(t) \in 1 .. n
             /\ Len(t) <= Len(s) + 1
             /\ Len(t) < n => Len(t) = Len(s) + 1
             /\ t[1] = x
             /\ \A i \in 2 .. Len(t) : t[i] = s[i - 1]
<1> DEFINE t == InFront(x, s, n)
<1>1. t = Cut(<<x>> \o s, n)
  BY DEF InFront
<1> HIDE DEF t
<1>2. /\ <<x>> \o s \in Seq(S)
      /\ Len(<<x>> \o s) = Len(s) + 1
      /\ (<<x>> \o s)[1] = x
      /\ \A i \in 2 .. Len(s) + 1 : (<<x>> \o s)[i] = s[i - 1]
  <2>1. <<x>> \in Seq(S) /\ Len(<<x>>) = 1 /\ <<x>>[1] = x
    OBVIOUS
  <2>2. Len(s) \in Nat
    OBVIOUS
  <2> QED
    BY <2>1, <2>2, ConcatProperties
<1> DEFINE u == <<x>> \o s
<1> HIDE DEF u
<1>3. /\ u \in Seq(S)
      /\ Len(u) = Len(s) + 1
      /\ u[1] = x
      /\ \A i \in 2 .. Len(s) + 1 : u[i] = s[i - 1]
      /\ Len(s) \in Nat
  BY <1>2 DEF u
<1>4. /\ t \in Seq(S)
      /\ Len(t) = IF n <= Len(u) THEN n ELSE Len(u)
      /\ \A i \in 1 .. Len(t) : t[i] = u[i]
  BY <1>3, <1>1, CutKeepsFront DEF u
<1>5. /\ Len(t) \in 1 .. n
      /\ Len(t) <= Len(s) + 1
      /\ Len(t) < n => Len(t) = Len(s) + 1
  BY <1>3, <1>4
<1>6. t[1] = x
  BY <1>3, <1>4, <1>5
<1>7. ASSUME NEW i \in 2 .. Len(t)
      PROVE  t[i] = s[i - 1]
  <2>1. i \in 1 .. Len(t) /\ i \in 2 .. Len(s) + 1
    BY <1>3, <1>5
  <2> QED
    BY <1>3, <1>4, <2>1
<1> QED
  BY <1>4, <1>5, <1>6, <1>7 DEF t

-----------------------------------------------------------------------------
(* Counting.                                                               *)

(* There are n numbers from 1 to n.                                        *)
LEMMA FirstNumbers ==
  ASSUME NEW n \in Nat
  PROVE  IsFiniteSet(1 .. n) /\ Cardinality(1 .. n) = n
<1>1. /\ IsFiniteSet(1 .. n)
      /\ Cardinality(1 .. n) = IF 1 > n THEN 0 ELSE n - 1 + 1
  BY FS_Interval
<1>2. (IF 1 > n THEN 0 ELSE n - 1 + 1) = n
  OBVIOUS
<1> QED
  BY <1>1, <1>2

(* A sequence without repetitions is as long as the set of its elements.   *)
LEMMA CountedOnce ==
  ASSUME NEW S, IsFiniteSet(S), NEW s \in Seq(S), IsInjective(s)
  PROVE  /\ Cardinality(ToSet(s)) = Len(s)
         /\ Len(s) <= Cardinality(S)
<1>1. Len(s) \in Nat /\ IsFiniteSet(1 .. Len(s)) /\ Cardinality(1 .. Len(s)) = Len(s)
  BY FirstNumbers
<1>2. IsFiniteSet(ToSet(s)) /\ Cardinality(ToSet(s)) <= Cardinality(S)
  BY Elements, FS_Subset
<1>3. s \in [1 .. Len(s) -> ToSet(s)]
  BY Elements
<1>4. s \in Injection(1 .. Len(s), ToSet(s))
  BY <1>3 DEF Injection
<1>5. s \in Surjection(1 .. Len(s), ToSet(s))
  BY <1>3, Elements DEF Surjection
<1>6. Cardinality(1 .. Len(s)) = Cardinality(ToSet(s))
  BY <1>2, <1>4, <1>5, FS_Injection
<1> QED
  BY <1>1, <1>2, <1>6

(* One in which nothing appears three times is at most twice as long: each *)
(* place goes to its element, and to whether that element came before.     *)
LEMMA CountedTwice ==
  ASSUME NEW S, IsFiniteSet(S), NEW s \in Seq(S), NeverThrice(s)
  PROVE  Len(s) <= 2 * Cardinality(ToSet(s))
<1> DEFINE again(i) == \E h \in 1 .. Len(s) : h < i /\ s[h] = s[i]
           turn(i) == IF again(i) THEN 2 ELSE 1
           f == [i \in 1 .. Len(s) |-> <<s[i], turn(i)>>]
           T == ToSet(s) \X (1 .. 2)
<1>1. Len(s) \in Nat /\ IsFiniteSet(1 .. Len(s)) /\ Cardinality(1 .. Len(s)) = Len(s)
  BY FirstNumbers
<1>2. IsFiniteSet(ToSet(s)) /\ Cardinality(ToSet(s)) \in Nat
  BY Elements, FS_Subset, FS_CardinalityType
<1>3. IsFiniteSet(1 .. 2) /\ Cardinality(1 .. 2) = 2
  BY FirstNumbers
<1>4. IsFiniteSet(T) /\ Cardinality(T) = Cardinality(ToSet(s)) * 2
  BY <1>2, <1>3, FS_Product
<1>5. f \in [1 .. Len(s) -> T]
  <2> SUFFICES ASSUME NEW i \in 1 .. Len(s)
               PROVE  <<s[i], turn(i)>> \in T
    OBVIOUS
  <2>1. s[i] \in ToSet(s)
    BY Elements
  <2>2. turn(i) \in 1 .. 2
    OBVIOUS
  <2> QED
    BY <2>1, <2>2
<1>6. ASSUME NEW i \in 1 .. Len(s), NEW j \in 1 .. Len(s), i < j, f[i] = f[j]
      PROVE  FALSE
  <2>1. s[i] = s[j] /\ turn(i) = turn(j)
    BY <1>6
  <2>2. turn(j) = 2
    BY <2>1, <1>6
  <2>3. again(i)
    BY <2>1, <2>2
  <2>4. PICK h \in 1 .. Len(s) : h < i /\ s[h] = s[i]
    BY <2>3
  <2> QED
    BY <2>1, <2>4, <1>6, Elements DEF NeverThrice
<1>7. f \in Injection(1 .. Len(s), T)
  <2> SUFFICES ASSUME NEW i \in 1 .. Len(s), NEW j \in 1 .. Len(s), f[i] = f[j]
               PROVE  i = j
    BY <1>5 DEF Injection, IsInjective
  <2> HIDE DEF f
  <2>1. i < j \/ j < i \/ i = j
    OBVIOUS
  <2> QED
    BY <2>1, <1>6
<1>8. Cardinality(1 .. Len(s)) <= Cardinality(T)
  BY <1>4, <1>7, FS_Injection
<1> QED
  BY <1>1, <1>2, <1>4, <1>8

-----------------------------------------------------------------------------
(* Ranks: the place of an event among the broadcasts.                      *)

Place(s, e) == SelectInSeq(s, LAMBDA f : f = e)

(* The place of what a sequence without repetitions has, and has not.      *)
LEMMA PlaceInSequence ==
  ASSUME NEW S, NEW s \in Seq(S), IsInjective(s)
  PROVE  /\ \A i \in 1 .. Len(s) : Place(s, s[i]) = i
         /\ \A e : e \notin ToSet(s) => Place(s, e) = 0
<1>1. ASSUME NEW i \in 1 .. Len(s)
      PROVE  Place(s, s[i]) = i
  <2>1. {j \in 1 .. Len(s) : s[j] = s[i]} = {i}
    BY DEF IsInjective
  <2>2. Min({i}) = i
    BY DEF Min
  <2> QED
    BY <2>1, <2>2 DEF Place, SelectInSeq
<1>2. ASSUME NEW e, e \notin ToSet(s)
      PROVE  Place(s, e) = 0
  <2>1. {j \in 1 .. Len(s) : s[j] = e} = {}
    BY <1>2, Elements
  <2> QED
    BY <2>1 DEF Place, SelectInSeq
<1> QED
  BY <1>1, <1>2

(* A broadcast gets the next place, and changes no other.                  *)
LEMMA PlaceWhenAppended ==
  ASSUME NEW S, NEW s \in Seq(S), IsInjective(s), NEW x \in S, x \notin ToSet(s)
  PROVE  /\ Place(Append(s, x), x) = Len(s) + 1
         /\ \A e : e # x => Place(Append(s, x), e) = Place(s, e)
         /\ Place(s, x) = 0
<1> DEFINE t == Append(s, x)
<1>1. /\ t \in Seq(S) /\ IsInjective(t)
      /\ Len(t) = Len(s) + 1 /\ Len(s) \in Nat
      /\ t[Len(s) + 1] = x
      /\ \A i \in 1 .. Len(s) : t[i] = s[i]
      /\ ToSet(t) = ToSet(s) \cup {x}
  BY Appended
<1> HIDE DEF t
<1>2. /\ \A i \in 1 .. Len(t) : Place(t, t[i]) = i
      /\ \A e : e \notin ToSet(t) => Place(t, e) = 0
  BY <1>1, PlaceInSequence
<1>3. Place(t, x) = Len(s) + 1
  BY <1>1, <1>2
<1>4. ASSUME NEW e, e # x
      PROVE  Place(t, e) = Place(s, e)
  <2>1. CASE e \in ToSet(s)
    <3>1. PICK i \in 1 .. Len(s) : s[i] = e
      BY <2>1, Elements
    <3>2. Place(s, e) = i
      BY <3>1, PlaceInSequence
    <3>3. i \in 1 .. Len(t) /\ t[i] = e
      BY <3>1, <1>1
    <3> QED
      BY <3>2, <3>3, <1>2
  <2>2. CASE e \notin ToSet(s)
    BY <2>2, <1>1, <1>2, <1>4, PlaceInSequence
  <2> QED
    BY <2>1, <2>2
<1> QED
  BY <1>3, <1>4, PlaceInSequence DEF t

(* What was broadcast has a positive rank, which is its place.             *)
LEMMA Ranked ==
  ASSUME NEW S, NEW s \in Seq(S), IsInjective(s), NEW e
  PROVE  /\ Place(s, e) \in 0 .. Len(s)
         /\ e \in ToSet(s) <=> Place(s, e) > 0
         /\ e \in ToSet(s) => s[Place(s, e)] = e
<1>1. CASE e \in ToSet(s)
  <2>1. PICK i \in 1 .. Len(s) : s[i] = e
    BY <1>1, Elements
  <2>2. Place(s, e) = i
    BY <2>1, PlaceInSequence
  <2> QED
    BY <1>1, <2>1, <2>2
<1>2. CASE e \notin ToSet(s)
  <2>1. Place(s, e) = 0 /\ Len(s) \in Nat
    BY <1>2, PlaceInSequence
  <2> QED
    BY <1>2, <2>1
<1> QED
  BY <1>1, <1>2

(* Ranks are places in the feed.                                           *)
LEMMA RankIsPlace ==
  ASSUME NEW e
  PROVE  Rank(e) = Place(feed, e) /\ Rank(e)' = Place(feed', e)
<1>1. Rank(e) = Place(feed, e)
  BY DEF Rank, Place
<1>2. Rank(e)' = Place(feed', e)
  BY DEF Rank, Place, SelectInSeq
<1> QED
  BY <1>1, <1>2

-----------------------------------------------------------------------------
(* The table and its pages.                                                *)

(* The events are finitely many.                                           *)
LEMMA FiniteEvents ==
  ASSUME NEW S \in SUBSET Events
  PROVE  IsFiniteSet(S) /\ Cardinality(S) \in Nat
<1>1. IsFiniteSet(Events)
  BY PageSizes, FirstNumbers DEF Events
<1> QED
  BY <1>1, FS_Subset, FS_CardinalityType

(* A sequence of different events is no longer than there are events.      *)
LEMMA FewEvents ==
  ASSUME NEW s \in Seq(Events), IsInjective(s)
  PROVE  s \in SeqOf(Events, NumEvents)
<1>1. IsFiniteSet(Events) /\ Cardinality(Events) = NumEvents
  BY PageSizes, FirstNumbers DEF Events
<1>2. Len(s) <= NumEvents
  BY <1>1, CountedOnce
<1> QED
  BY <1>2, PageSizes, BoundedLength

(* A page lists different events, is full unless it has all, and has the   *)
(* newest ones.                                                            *)
LEMMA Page ==
  ASSUME NEW limit \in Nat, NEW before, NEW page \in ListByTimestamp(limit, before)
  PROVE  /\ page \in Seq(Events) /\ Len(page) <= limit
         /\ IsInjective(page)
         /\ ToSet(page) \subseteq Older(before)
         /\ Len(page) = limit \/ ToSet(page) = Older(before)
         /\ \A e \in Older(before) \ ToSet(page), f \in ToSet(page) : at[e] <= at[f]
BY BoundedLength DEF ListByTimestamp

(* An event is stored once, and keeps its stamp.                           *)
LEMMA InsertKeeps ==
  ASSUME PagesTypeOK, Walked, NEW e \in Events, NEW t \in 1 .. MaxStamp, Insert(e, t)
  PROVE  PagesTypeOK' /\ Walked' /\ Stored' = Stored \cup {e} /\ e \notin Stored
<1>1. e \notin Stored
  BY DEF Insert, Events
<1>2. Stored' = Stored \cup {e}
  BY PageSizes DEF Insert, Stored, PagesTypeOK
<1>3. \A x \in Stored : at'[x] = at[x]
  BY <1>1 DEF Insert, PagesTypeOK, Stored
<1>4. PagesTypeOK'
  BY <1>2, PageSizes DEF PagesTypeOK, Insert, walkVars
<1>5. Walked'
  BY <1>3 DEF Walked, Ahead, Insert, walkVars, PagesTypeOK
<1> QED
  BY <1>1, <1>2, <1>4, <1>5

(* The first page is read without a cursor, so all that is stored is ahead. *)
LEMMA WalkBeginsKeeps ==
  ASSUME PagesTypeOK, Walked, WalkBegins
  PROVE  PagesTypeOK' /\ Walked'
<1>1. PagesTypeOK'
  BY DEF PagesTypeOK, WalkBegins, Stored
<1>2. Walked'
  BY DEF Walked, Ahead, WalkBegins
<1> QED
  BY <1>1, <1>2

(* What a page leaves ahead is older than its last event, or as old.       *)
LEMMA WalkReadsKeeps ==
  ASSUME PagesTypeOK, Walked, WalkReads
  PROVE  PagesTypeOK' /\ Walked'
<1>1. PICK page \in ListByTimestamp(WalkLimit, cursor) :
        /\ met' = met \cup ToSet(page)
        /\ WalkEnds(page) \/ WalkGoesOn(page)
  BY DEF WalkReads
<1>2. /\ page \in Seq(Events)
      /\ ToSet(page) \subseteq Older(cursor)
      /\ Len(page) = WalkLimit \/ ToSet(page) = Older(cursor)
      /\ \A e \in Older(cursor) \ ToSet(page), f \in ToSet(page) : at[e] <= at[f]
  BY PageSizes, Page
<1>3. walkPc = "walking" /\ at' = at /\ known' = known /\ Stored' = Stored
  BY DEF WalkReads, Stored
<1>4. ToSet(page) \subseteq Stored
  BY <1>2 DEF Older
<1>5. \A e \in known \ met : at[e] \in edges \/ e \in Older(cursor)
  BY <1>3 DEF Walked, Ahead, Older, PagesTypeOK
<1>6. CASE WalkEnds(page)
  <2>1. PagesTypeOK'
    BY <1>1, <1>3, <1>4, <1>6 DEF PagesTypeOK, WalkEnds
  <2>2. ToSet(page) = Older(cursor)
    BY <1>2, <1>6 DEF WalkEnds
  <2>3. Walked'
    BY <1>1, <1>3, <1>5, <1>6, <2>2 DEF Walked, WalkEnds
  <2> QED
    BY <2>1, <2>3
<1>7. CASE WalkGoesOn(page)
  <2>1. Last(page) \in ToSet(page)
    BY <1>2, <1>7, PageSizes, Elements DEF WalkGoesOn, Last
  <2>2. at[Last(page)] \in 1 .. MaxStamp
    BY <2>1, <1>4 DEF PagesTypeOK, Stored
  <2>3. PagesTypeOK'
    <3>1. cursor' \in 0 .. MaxStamp
      BY <1>7, <2>2, PageSizes DEF WalkGoesOn
    <3>2. edges' \subseteq 1 .. MaxStamp
      BY <1>7, <2>2 DEF PagesTypeOK, WalkGoesOn
    <3>3. met' \subseteq Stored
      BY <1>1, <1>4 DEF PagesTypeOK
    <3> QED
      BY <1>3, <1>7, <3>1, <3>2, <3>3 DEF PagesTypeOK, WalkGoesOn
  <2>4. \A e \in known \ met' : at[e] \in edges \/ at[e] <= at[Last(page)]
    BY <1>1, <1>2, <1>5, <2>1
  <2>5. \A e \in known : at[e] \in Nat
    BY DEF PagesTypeOK, Stored
  <2>6. Walked'
    <3>1. CASE cursor' = at[Last(page)] /\ edges' = edges \cup {at[Last(page)]}
      <4> SUFFICES ASSUME NEW e \in known \ met'
                   PROVE  at[e] \in edges' \/ at[e] < cursor'
        BY <1>3, <1>7 DEF Walked, Ahead, WalkGoesOn
      <4> QED
        BY <2>2, <2>4, <2>5, <3>1
    <3>2. CASE cursor' = 0
      BY <1>3, <1>7, <3>2 DEF Walked, Ahead, WalkGoesOn
    <3> QED
      BY <1>7, <3>1, <3>2 DEF WalkGoesOn
  <2> QED
    BY <2>3, <2>6
<1> QED
  BY <1>1, <1>6, <1>7

-----------------------------------------------------------------------------
(* What an action leaves alone.                                            *)

(* A page has at least one event, and the list holds two pages.            *)
LEMMA Limits ==
  ASSUME TypeOK
  PROVE  PageLimit \in Nat \ {0} /\ CopyLimit \in Nat \ {0} /\ CopyLimit = 2 * PageLimit
<1>1. setup.limit \in Nat \ {0}
  BY SetupsAssumption DEF TypeOK
<1> QED
  BY <1>1 DEF PageLimit, CopyLimit

(* A page of other stored events crowds an event out.                      *)
LEMMA CrowdedOut ==
  ASSUME TypeOK, NEW e, NEW S \in SUBSET (Stored \ {e}), PageLimit <= Cardinality(S)
  PROVE  Crowded(e)
<1>1. /\ IsFiniteSet(Stored \ {e})
      /\ Cardinality(Stored \ {e}) \in Nat
      /\ Cardinality(S) \in Nat
  BY FiniteEvents DEF Stored
<1>2. Cardinality(S) <= Cardinality(Stored \ {e})
  BY <1>1, FS_Subset
<1> QED
  BY <1>1, <1>2, Limits DEF Crowded

(* It stays crowded out: nothing is deleted.                               *)
LEMMA CrowdedStays ==
  ASSUME TypeOK, Stored \subseteq Stored', setup' = setup, NEW e, Crowded(e)
  PROVE  Crowded(e)'
<1>1. /\ IsFiniteSet(Stored' \ {e})
      /\ Cardinality(Stored' \ {e}) \in Nat
      /\ Cardinality(Stored \ {e}) \in Nat
  BY FiniteEvents DEF Stored
<1>2. Cardinality(Stored \ {e}) <= Cardinality(Stored' \ {e})
  BY <1>1, FS_Subset
<1>3. PageLimit' = PageLimit
  BY DEF PageLimit
<1> QED
  BY <1>1, <1>2, <1>3, Limits DEF Crowded

(* An action that leaves the table and the client that reads it alone.     *)
LEMMA PagesKept ==
  ASSUME TypeOK, Walked, UNCHANGED <<pageVars, setup>>
  PROVE  /\ PagesTypeOK' /\ Walked'
         /\ Stored' = Stored
         /\ PageLimit' = PageLimit /\ CopyLimit' = CopyLimit
         /\ \A e : Crowded(e) => Crowded(e)'
<1>1. Stored' = Stored
  BY DEF pageVars, Stored
<1>2. PagesTypeOK' /\ Walked'
  BY <1>1 DEF TypeOK, PagesTypeOK, Walked, Ahead, pageVars
<1>3. PageLimit' = PageLimit /\ CopyLimit' = CopyLimit
  BY DEF PageLimit, CopyLimit
<1> QED
  BY <1>1, <1>2, <1>3, CrowdedStays

(* One that leaves the stream alone.                                       *)
LEMMA StreamKept ==
  ASSUME Distinct, InTurn, feed' = feed, wire' = wire, heard' = heard
  PROVE  Distinct' /\ InTurn'
<1>1. \A e : Rank(e)' = Rank(e)
  BY RankIsPlace
<1>2. InTurn'
  BY <1>1 DEF InTurn
<1> QED
  BY <1>2 DEF Distinct

(* One that leaves the list alone.                                         *)
LEMMA ListKept ==
  ASSUME ListedTwice, items' = items,
         Stored \subseteq Stored', ToSet(heard) \subseteq ToSet(heard')
  PROVE  ListedTwice'
BY DEF ListedTwice, NeverThrice

(* One that only adds to the table, or reads it.                           *)
LEMMA TableAlone ==
  ASSUME StudioInv, PagesTypeOK', Walked', Stored \subseteq Stored',
         UNCHANGED <<setup, streamVars, listVars, fetchVars, mounted>>
  PROVE  StudioInv'
<1>1. TypeOK'
  BY DEF StudioInv, TypeOK, streamVars, listVars, fetchVars, PageLimit, CopyLimit
<1>2. Distinct' /\ InTurn'
  BY StreamKept DEF StudioInv, streamVars
<1>3. Accounted'
  BY DEF StudioInv, Accounted, streamVars, fetchVars
<1>4. Answered'
  BY DEF StudioInv, Answered, fetchVars, PageLimit
<1>5. ListedTwice'
  BY ListKept DEF StudioInv, streamVars, listVars
<1>6. HolesHaveACause'
  <2> SUFFICES ASSUME copy = "response",
                      NEW e \in Stored', e \notin ToSet(items), e \in ToSet(feed),
                      e \notin ToSet(wire) \cup missed \cup overwritten
               PROVE  Crowded(e)'
    BY DEF HolesHaveACause, streamVars, listVars
  <2>1. e \in Stored
    BY DEF StudioInv, TypeOK
  <2>2. Crowded(e)
    BY <2>1 DEF StudioInv, HolesHaveACause
  <2> QED
    BY <2>2, CrowdedStays DEF StudioInv
<1> QED
  BY <1>1, <1>2, <1>3, <1>4, <1>5, <1>6 DEF StudioInv

-----------------------------------------------------------------------------
(* The agent's steps, and the stream's.                                    *)

(* A stored event is not broadcast yet, and can crowd others out.          *)
LEMMA StoreKeeps ==
  ASSUME StudioInv, Store
  PROVE  StudioInv'
<1>1. PICK e \in Events, t \in 1 .. MaxStamp : Insert(e, t)
  BY DEF Store
<1>2. PagesTypeOK' /\ Walked' /\ Stored \subseteq Stored'
  BY <1>1, InsertKeeps DEF StudioInv, TypeOK
<1> QED
  BY <1>2, TableAlone DEF Store

(* Reading a page changes nothing that the tab has.                        *)
LEMMA WalkKeeps ==
  ASSUME StudioInv, Walk
  PROVE  StudioInv'
<1>1. PagesTypeOK /\ Walked
  BY DEF StudioInv, TypeOK
<1>2. Stored' = Stored
  BY DEF Walk, WalkBegins, WalkReads, Stored
<1>3. PagesTypeOK' /\ Walked'
  BY <1>1, WalkBeginsKeeps, WalkReadsKeeps DEF Walk
<1> QED
  BY <1>2, <1>3, TableAlone DEF Walk

(* A broadcast event goes to the end of the feed, and of the wire if there *)
(* is one with room.                                                       *)
LEMMA BroadcastKeeps ==
  ASSUME StudioInv, NEW e \in Events, Broadcast(e)
  PROVE  StudioInv'
<1> USE DEF StudioInv
<1>1. /\ PagesTypeOK' /\ Walked' /\ Stored' = Stored
      /\ PageLimit' = PageLimit /\ CopyLimit' = CopyLimit
      /\ \A x : Crowded(x) => Crowded(x)'
  BY PagesKept DEF Broadcast
<1>2. /\ feed \in Seq(Events) /\ wire \in Seq(Events) /\ heard \in Seq(Events)
      /\ Len(wire) <= StreamCap
  BY PageSizes, StreamCapAssumption, BoundedLength DEF TypeOK
<1>3. e \notin ToSet(feed) /\ e \in Stored
  BY DEF Broadcast
<1>4. feed' \in Seq(Events) /\ ToSet(feed') = ToSet(feed) \cup {e} /\ IsInjective(feed')
  BY <1>2, <1>3, Appended DEF Broadcast, Distinct
<1>5. /\ \A x : x # e => Rank(x)' = Rank(x)
      /\ Rank(e)' = Len(feed) + 1
      /\ \A x : Rank(x) \in 0 .. Len(feed)
  BY <1>2, <1>3, RankIsPlace, PlaceWhenAppended, Ranked DEF Broadcast, Distinct
<1>6. Len(feed) \in Nat /\ Len(wire) \in Nat
  BY <1>2
<1>7. heard' = heard /\ stream' = stream /\ ToSet(heard) \subseteq ToSet(feed)
  BY DEF Broadcast, TypeOK
<1>8. \/ /\ stream = "listening" /\ Len(wire) < StreamCap
         /\ wire' = Append(wire, e) /\ missed' = missed
      \/ wire' = wire /\ missed' = missed \cup {e}
  BY DEF Broadcast
<1>9. /\ wire' \in Seq(Events) /\ Len(wire') <= StreamCap
      /\ stream # "listening" => wire' = <<>>
      /\ ToSet(wire') \cup missed' = ToSet(wire) \cup missed \cup {e}
  <2>1. CASE /\ stream = "listening" /\ Len(wire) < StreamCap
             /\ wire' = Append(wire, e) /\ missed' = missed
    <3>1. wire' \in Seq(Events) /\ Len(wire') = Len(wire) + 1 /\ ToSet(wire') = ToSet(wire) \cup {e}
      BY <1>2, <2>1, Appended
    <3> QED
      BY <1>6, <2>1, <3>1, StreamCapAssumption
  <2>2. CASE wire' = wire /\ missed' = missed \cup {e}
    BY <1>2, <2>2 DEF TypeOK
  <2> QED
    BY <1>8, <2>1, <2>2
<1>10. TypeOK'
  <2>1. feed' \in SeqOf(Events, NumEvents) /\ ToSet(feed') \subseteq Stored'
    BY <1>1, <1>3, <1>4, FewEvents DEF TypeOK
  <2>2. wire' \in SeqOf(Events, StreamCap)
    BY <1>9, StreamCapAssumption, BoundedLength
  <2>3. missed' \subseteq ToSet(feed') /\ ToSet(heard') \subseteq ToSet(feed')
    BY <1>4, <1>7, <1>8 DEF TypeOK
  <2> QED
    BY <1>1, <1>7, <1>9, <2>1, <2>2, <2>3 DEF TypeOK, Broadcast, listVars, fetchVars
<1>11. Distinct'
  BY <1>4, <1>7 DEF Distinct
<1>12. InTurn'
  <2>1. CASE /\ stream = "listening" /\ Len(wire) < StreamCap
             /\ wire' = Append(wire, e) /\ missed' = missed
    <3>1. /\ DOMAIN wire = 1 .. Len(wire) /\ DOMAIN wire' = 1 .. Len(wire) + 1
          /\ \A i \in 1 .. Len(wire) : wire'[i] = wire[i] /\ wire[i] \in ToSet(wire)
          /\ wire'[Len(wire) + 1] = e
          /\ ToSet(wire') = ToSet(wire) \cup {e}
      BY <1>2, <2>1, Appended, Elements
    <3>2. ToSet(wire) \subseteq ToSet(feed) /\ e \notin ToSet(wire) /\ e \notin ToSet(heard)
      BY <1>3, <1>7 DEF InTurn
    <3>3. \A x \in ToSet(wire) \cup ToSet(heard) : Rank(x)' = Rank(x) /\ Rank(x)' < Rank(e)'
      BY <1>5, <1>6, <3>2
    <3>4. ASSUME NEW i \in DOMAIN wire', NEW j \in DOMAIN wire', i < j
          PROVE  Rank(wire[i])' < Rank(wire[j])'
      <4>1. i \in 1 .. Len(wire)
        BY <1>6, <3>1, <3>4
      <4>2. CASE j \in 1 .. Len(wire)
        BY <3>1, <3>3, <3>4, <4>1, <4>2 DEF InTurn
      <4>3. CASE j = Len(wire) + 1
        BY <3>1, <3>3, <4>1, <4>3
      <4> QED
        BY <1>6, <3>1, <4>2, <4>3
    <3>5. \A h \in ToSet(heard'), w \in ToSet(wire') : Rank(h)' < Rank(w)'
      BY <1>7, <3>1, <3>3 DEF InTurn
    <3> QED
      BY <1>4, <3>1, <3>2, <3>4, <3>5 DEF InTurn
  <2>2. CASE wire' = wire /\ missed' = missed \cup {e}
    <3>1. ToSet(wire) \subseteq ToSet(feed) /\ e \notin ToSet(wire) /\ e \notin ToSet(heard)
      BY <1>3, <1>7 DEF InTurn
    <3>2. \A x \in ToSet(wire) \cup ToSet(heard) : Rank(x)' = Rank(x)
      BY <1>5, <3>1
    <3>3. \A i \in DOMAIN wire : wire[i] \in ToSet(wire)
      BY <1>2, Elements
    <3> QED
      BY <1>4, <1>7, <2>2, <3>1, <3>2, <3>3 DEF InTurn
  <2> QED
    BY <1>8, <2>1, <2>2
<1>13. Accounted'
  BY <1>4, <1>7, <1>9 DEF Accounted, Broadcast, fetchVars
<1>14. Answered'
  BY <1>1 DEF Answered, Broadcast, fetchVars
<1>15. ListedTwice'
  BY <1>1, <1>7, ListKept DEF Broadcast, listVars
<1>16. HolesHaveACause'
  <2> SUFFICES ASSUME copy = "response", NEW x \in Stored, x \notin ToSet(items),
                      x \in ToSet(feed'), x \notin ToSet(wire') \cup missed' \cup overwritten
               PROVE  Crowded(x)'
    BY <1>1 DEF HolesHaveACause, Broadcast, listVars
  <2>1. x \in ToSet(feed) /\ x \notin ToSet(wire) \cup missed \cup overwritten
    BY <1>4, <1>9
  <2> QED
    BY <1>1, <2>1 DEF HolesHaveACause
<1> QED
  BY <1>1, <1>10, <1>11, <1>12, <1>13, <1>14, <1>15, <1>16

(* The stream opens with nothing on it.                                    *)
LEMMA OpenKeeps ==
  ASSUME StudioInv, Open \/ Reconnect
  PROVE  StudioInv'
<1> USE DEF StudioInv
<1>1. /\ UNCHANGED <<pageVars, setup, feed, wire, heard, missed, listVars, fetchVars, mounted>>
      /\ stream' \in {"opening", "listening"}
      /\ wire = <<>>
  BY DEF Open, Reconnect, TypeOK
<1>2. /\ PagesTypeOK' /\ Walked' /\ Stored' = Stored
      /\ PageLimit' = PageLimit /\ CopyLimit' = CopyLimit
      /\ \A x : Crowded(x) => Crowded(x)'
  BY <1>1, PagesKept
<1>3. TypeOK'
  BY <1>1, <1>2 DEF TypeOK, listVars, fetchVars
<1>4. Distinct' /\ InTurn'
  BY <1>1, StreamKept
<1>5. Accounted' /\ Answered'
  BY <1>1, <1>2 DEF Accounted, Answered, fetchVars
<1>6. ListedTwice'
  BY <1>1, <1>2, ListKept DEF listVars
<1>7. HolesHaveACause'
  BY <1>1, <1>2 DEF HolesHaveACause, listVars
<1> QED
  BY <1>2, <1>3, <1>4, <1>5, <1>6, <1>7

(* What was under way when it breaks is missed.                            *)
LEMMA BreakKeeps ==
  ASSUME StudioInv, Break
  PROVE  StudioInv'
<1> USE DEF StudioInv
<1>1. /\ PagesTypeOK' /\ Walked' /\ Stored' = Stored
      /\ PageLimit' = PageLimit /\ CopyLimit' = CopyLimit
      /\ \A x : Crowded(x) => Crowded(x)'
  BY PagesKept DEF Break
<1>2. /\ wire' = <<>> /\ ToSet(wire') = {} /\ DOMAIN wire' = {}
      /\ wire' \in SeqOf(Events, StreamCap)
      /\ missed' = missed \cup ToSet(wire) /\ feed' = feed /\ heard' = heard
  <2>1. /\ ToSet(<<>>) = {} /\ DOMAIN <<>> = {}
        /\ <<>> \in SeqOf(Events, StreamCap)
    BY StreamCapAssumption, NoElements
  <2> QED
    BY <2>1 DEF Break
<1>3. TypeOK'
  BY <1>1, <1>2 DEF TypeOK, InTurn, Break, listVars, fetchVars
<1>4. Distinct' /\ InTurn'
  BY <1>2 DEF Distinct, InTurn
<1>5. Accounted' /\ Answered'
  BY <1>1, <1>2 DEF Accounted, Answered, Break, fetchVars
<1>6. ListedTwice'
  BY <1>1, <1>2, ListKept DEF Break, listVars
<1>7. HolesHaveACause'
  BY <1>1, <1>2 DEF HolesHaveACause, Break, listVars
<1> QED
  BY <1>1, <1>3, <1>4, <1>5, <1>6, <1>7

-----------------------------------------------------------------------------
(* The handler.                                                            *)

(* What is handled next was not handled before, and comes after all that   *)
(* was.                                                                    *)
LEMMA NextInTurn ==
  ASSUME TypeOK, Distinct, InTurn, wire # <<>>
  PROVE  /\ Head(wire) \in Events /\ Head(wire) \in ToSet(feed)
         /\ Head(wire) \notin ToSet(heard)
         /\ \A h \in ToSet(heard) : Rank(h) < Rank(Head(wire))
         /\ \A w \in ToSet(Tail(wire)) : Rank(Head(wire)) < Rank(w)
<1>1. wire \in Seq(Events) /\ feed \in Seq(Events)
  BY PageSizes, StreamCapAssumption, BoundedLength DEF TypeOK
<1>2. /\ Head(wire) = wire[1] /\ Head(wire) \in ToSet(wire)
      /\ Tail(wire) \in Seq(Events)
      /\ Len(Tail(wire)) = Len(wire) - 1
      /\ \A i \in 1 .. Len(wire) - 1 : Tail(wire)[i] = wire[i + 1]
  BY <1>1, Beheaded
<1>3. \A e : Rank(e) \in Nat
  BY <1>1, RankIsPlace, Ranked DEF Distinct
<1>4. /\ Head(wire) \in Events /\ Head(wire) \in ToSet(feed)
      /\ \A h \in ToSet(heard) : Rank(h) < Rank(Head(wire))
  BY <1>1, <1>2, Elements DEF InTurn
<1>5. Head(wire) \notin ToSet(heard)
  BY <1>3, <1>4
<1>6. ASSUME NEW w \in ToSet(Tail(wire))
      PROVE  Rank(Head(wire)) < Rank(w)
  <2>1. PICK i \in 1 .. Len(Tail(wire)) : Tail(wire)[i] = w
    BY <1>2, Elements
  <2>2. 1 \in DOMAIN wire /\ i + 1 \in DOMAIN wire /\ 1 < i + 1 /\ wire[i + 1] = w
    BY <1>1, <1>2, <2>1
  <2> QED
    BY <1>2, <2>2 DEF InTurn
<1> QED
  BY <1>4, <1>5, <1>6

(* An event the stream did not list before, in front of the list.          *)
LEMMA PutInFrontLists ==
  ASSUME TypeOK, ListedTwice, NEW e \in Stored, e \notin ToSet(heard),
         copy # "null", PutInFront(e)
  PROVE  /\ items' \in SeqOf(Events, CopyLimit) /\ items' # <<>>
         /\ e \in ToSet(items')
         /\ ToSet(items') \subseteq Stored
         /\ NeverThrice(items')
         /\ \A i, j \in DOMAIN items' :
              i < j /\ items'[i] = items'[j] => items'[i] \in ToSet(heard) \cup {e}
         /\ \A x \in ToSet(items) \ ToSet(items') : Crowded(x)
<1>1. /\ PageLimit \in Nat \ {0} /\ CopyLimit \in Nat \ {0} /\ CopyLimit = 2 * PageLimit
  BY Limits
<1>2. items \in Seq(Events) /\ e \in Events /\ Len(items) \in Nat
  BY <1>1, BoundedLength DEF TypeOK, Stored
<1>3. items' = InFront(e, items, CopyLimit)
  BY DEF PutInFront, InFront
<1>4. /\ items' \in Seq(Events)
      /\ Len(items') \in 1 .. CopyLimit
      /\ Len(items') <= Len(items) + 1
      /\ Len(items') < CopyLimit => Len(items') = Len(items) + 1
      /\ items'[1] = e
      /\ \A i \in 2 .. Len(items') : items'[i] = items[i - 1]
  <2> DEFINE t == InFront(e, items, CopyLimit)
  <2>1. /\ t \in Seq(Events)
        /\ Len(t) \in 1 .. CopyLimit
        /\ Len(t) <= Len(items) + 1
        /\ Len(t) < CopyLimit => Len(t) = Len(items) + 1
        /\ t[1] = e
        /\ \A i \in 2 .. Len(t) : t[i] = items[i - 1]
    BY <1>1, <1>2, PutBefore
  <2>2. items' = t
    BY <1>3
  <2> HIDE DEF t
  <2> QED
    BY <2>1, <2>2
<1>5. /\ DOMAIN items' = 1 .. Len(items') /\ DOMAIN items = 1 .. Len(items)
      /\ \A i \in 1 .. Len(items) : items[i] \in ToSet(items)
      /\ \A x \in ToSet(items) : \E i \in 1 .. Len(items) : items[i] = x
      /\ \A i \in 1 .. Len(items') : items'[i] \in ToSet(items')
      /\ \A x \in ToSet(items') : \E i \in 1 .. Len(items') : items'[i] = x
  BY <1>2, <1>4, Elements
<1>6. \A i \in 2 .. Len(items') : i - 1 \in 1 .. Len(items) /\ items'[i] = items[i - 1]
  BY <1>2, <1>4
<1>7. items' \in SeqOf(Events, CopyLimit) /\ items' # <<>> /\ e \in ToSet(items')
  <2>1. items' \in SeqOf(Events, CopyLimit)
    BY <1>1, <1>4, BoundedLength
  <2>2. 1 \in 1 .. Len(items') /\ items' # <<>>
    BY <1>4
  <2> QED
    BY <1>4, <1>5, <2>1, <2>2
<1>8. ToSet(items') \subseteq Stored
  <2>1. ToSet(items) \subseteq Stored
    BY DEF ListedTwice
  <2>2. ASSUME NEW i \in 1 .. Len(items')
        PROVE  items'[i] \in Stored
    <3>1. i = 1 \/ i \in 2 .. Len(items')
      BY <1>4
    <3> QED
      BY <1>4, <1>5, <1>6, <2>1, <3>1
  <2> QED
    BY <1>5, <2>2
<1>9. ASSUME NEW i \in 1 .. Len(items'), NEW j \in 1 .. Len(items'),
             i < j, items'[i] = items'[j]
      PROVE  /\ i = 1 => items[j - 1] = e
             /\ i # 1 => /\ i - 1 \in 1 .. Len(items) /\ items'[i] = items[i - 1]
                         /\ items[i - 1] = items[j - 1] /\ i - 1 < j - 1
             /\ j - 1 \in 1 .. Len(items) /\ items'[j] = items[j - 1]
  <2>1. j \in 2 .. Len(items')
    BY <1>4, <1>9
  <2>2. i # 1 => i \in 2 .. Len(items')
    BY <1>4
  <2> QED
    BY <1>4, <1>6, <1>9, <2>1, <2>2
<1>10. NeverThrice(items')
  <2> SUFFICES ASSUME NEW i \in 1 .. Len(items'), NEW j \in 1 .. Len(items'),
                      NEW k \in 1 .. Len(items'), i < j, j < k,
                      items'[i] = items'[j], items'[j] = items'[k]
               PROVE  FALSE
    BY <1>5 DEF NeverThrice
  <2>1. /\ j - 1 \in 1 .. Len(items) /\ k - 1 \in 1 .. Len(items)
        /\ j - 1 < k - 1 /\ items[j - 1] = items[k - 1]
    <3>1. j # 1
      BY <1>4
    <3> QED
      BY <1>9, <3>1
  <2>2. CASE i = 1
    <3>1. items[j - 1] = e
      BY <1>9, <2>2
    <3>2. e \in ToSet(heard)
      BY <1>5, <2>1, <3>1 DEF ListedTwice
    <3> QED
      BY <3>2
  <2>3. CASE i # 1
    <3>1. i - 1 \in 1 .. Len(items) /\ i - 1 < j - 1 /\ items[i - 1] = items[j - 1]
      BY <1>9, <2>3
    <3> QED
      BY <1>5, <2>1, <3>1 DEF ListedTwice, NeverThrice
  <2> QED
    BY <2>2, <2>3
<1>11. ASSUME NEW i \in 1 .. Len(items'), NEW j \in 1 .. Len(items'),
              i < j, items'[i] = items'[j]
       PROVE  items'[i] \in ToSet(heard) \cup {e}
  <2>1. CASE i = 1
    BY <1>4, <2>1
  <2>2. CASE i # 1
    <3>1. /\ i - 1 \in DOMAIN items /\ j - 1 \in DOMAIN items /\ i - 1 < j - 1
          /\ items[i - 1] = items[j - 1] /\ items'[i] = items[i - 1]
      BY <1>5, <1>9, <1>11, <2>2
    <3> QED
      BY <3>1 DEF ListedTwice
  <2> QED
    BY <2>1, <2>2
<1>12. ASSUME NEW x \in ToSet(items), x \notin ToSet(items')
       PROVE  Crowded(x)
  <2>1. PICK i \in 1 .. Len(items) : items[i] = x
    BY <1>5
  <2>2. ~(i + 1 \in 1 .. Len(items'))
    <3> SUFFICES ASSUME i + 1 \in 1 .. Len(items')
                 PROVE  FALSE
      OBVIOUS
    <3>1. i + 1 \in 2 .. Len(items') /\ (i + 1) - 1 = i
      BY <1>4
    <3>2. items'[i + 1] = x
      BY <1>4, <2>1, <3>1
    <3> QED
      BY <1>5, <1>12, <3>2
  <2>3. Len(items') = CopyLimit
    BY <1>1, <1>2, <1>4, <2>2
  <2>4. IsFiniteSet(Events) /\ Cardinality(ToSet(items')) \in Nat
    BY <1>4, Elements, FiniteEvents
  <2>5. CopyLimit <= 2 * Cardinality(ToSet(items'))
    BY <1>4, <1>10, <2>3, <2>4, CountedTwice
  <2>6. PageLimit <= Cardinality(ToSet(items'))
    BY <1>1, <2>4, <2>5
  <2>7. ToSet(items') \subseteq Stored \ {x}
    BY <1>8, <1>12
  <2> QED
    BY <2>6, <2>7, CrowdedOut
<1> QED
  BY <1>5, <1>7, <1>8, <1>10, <1>11, <1>12

(* What is handled leaves the wire, and the list gets it unless it throws. *)
LEMMA HandleKeeps ==
  ASSUME StudioInv, Handle
  PROVE  StudioInv'
<1> USE DEF StudioInv
<1> DEFINE e == Head(wire)
<1>1. /\ PagesTypeOK' /\ Walked' /\ Stored' = Stored
      /\ PageLimit' = PageLimit /\ CopyLimit' = CopyLimit
      /\ \A x : Crowded(x) => Crowded(x)'
  BY PagesKept DEF Handle
<1>2. /\ wire \in Seq(Events) /\ Len(wire) <= StreamCap /\ wire # <<>>
      /\ heard \in Seq(Events)
      /\ ToSet(feed) \subseteq Stored
  BY PageSizes, StreamCapAssumption, BoundedLength DEF TypeOK, Handle
<1>3. /\ e \in Events /\ e \in ToSet(feed) /\ e \notin ToSet(heard)
      /\ \A h \in ToSet(heard) : Rank(h) < Rank(e)
      /\ \A w \in ToSet(Tail(wire)) : Rank(e) < Rank(w)
  BY <1>2, NextInTurn
<1>4. /\ Tail(wire) \in Seq(Events)
      /\ Len(Tail(wire)) = Len(wire) - 1
      /\ \A i \in 1 .. Len(wire) - 1 : Tail(wire)[i] = wire[i + 1]
      /\ ToSet(wire) = ToSet(Tail(wire)) \cup {e}
  BY <1>2, Beheaded
<1>5. /\ wire' = Tail(wire) /\ heard' = Append(heard, e) /\ PutInFront(e)
      /\ UNCHANGED <<pageVars, setup, feed, stream, missed, overwritten, fetchVars, mounted>>
  BY DEF Handle
<1> HIDE DEF e
<1>6. /\ heard' \in Seq(Events) /\ ToSet(heard') = ToSet(heard) \cup {e}
      /\ IsInjective(heard')
  BY <1>2, <1>3, <1>5, Appended DEF Distinct
<1>7. \A x : Rank(x)' = Rank(x)
  BY <1>5, RankIsPlace
<1>8. Distinct'
  BY <1>5, <1>6 DEF Distinct
<1>9. InTurn'
  <2>1. ToSet(wire') \subseteq ToSet(feed')
    BY <1>4, <1>5 DEF InTurn
  <2>2. ASSUME NEW i \in DOMAIN wire', NEW j \in DOMAIN wire', i < j
        PROVE  Rank(Tail(wire)[i]) < Rank(Tail(wire)[j])
    <3>1. /\ i \in 1 .. Len(wire) - 1 /\ j \in 1 .. Len(wire) - 1
          /\ i + 1 \in DOMAIN wire /\ j + 1 \in DOMAIN wire /\ i + 1 < j + 1
      BY <1>2, <1>4, <1>5, <2>2
    <3>2. Rank(wire[i + 1]) < Rank(wire[j + 1])
      BY <3>1 DEF InTurn
    <3> QED
      BY <1>4, <3>1, <3>2
  <2>3. \A h \in ToSet(heard'), w \in ToSet(wire') : Rank(h) < Rank(w)
    BY <1>3, <1>4, <1>5, <1>6 DEF InTurn
  <2> QED
    BY <1>5, <1>7, <2>1, <2>2, <2>3 DEF InTurn
<1>10. Accounted'
  BY <1>4, <1>5, <1>6 DEF Accounted, fetchVars
<1>11. Answered'
  BY <1>1, <1>5 DEF Answered, fetchVars
<1>12. /\ wire' \in SeqOf(Events, StreamCap)
       /\ heard' \in SeqOf(Events, NumEvents)
       /\ stream' # "listening" => wire' = <<>>
       /\ ToSet(heard') \subseteq ToSet(feed')
       /\ overwritten' \subseteq ToSet(heard')
  <2>1. Len(Tail(wire)) <= StreamCap
    BY <1>2, <1>4, StreamCapAssumption
  <2>2. wire' \in SeqOf(Events, StreamCap)
    BY <1>4, <1>5, <2>1, StreamCapAssumption, BoundedLength
  <2>3. heard' \in SeqOf(Events, NumEvents)
    BY <1>6, FewEvents
  <2>4. stream' = "listening"
    BY <1>2, <1>5 DEF TypeOK
  <2> QED
    BY <1>3, <1>5, <1>6, <2>2, <2>3, <2>4 DEF TypeOK
<1>13. CASE copy = "null"
  <2>1. UNCHANGED <<copy, items, stale>>
    BY <1>5, <1>13 DEF PutInFront
  <2>2. TypeOK'
    BY <1>1, <1>5, <1>12, <2>1 DEF TypeOK, fetchVars
  <2>3. ListedTwice'
    BY <1>1, <1>6, <2>1, ListKept
  <2>4. HolesHaveACause'
    BY <1>13, <2>1 DEF HolesHaveACause
  <2> QED
    BY <1>1, <1>8, <1>9, <1>10, <1>11, <2>2, <2>3, <2>4
<1>14. CASE copy # "null"
  <2>1. /\ items' \in SeqOf(Events, CopyLimit) /\ items' # <<>>
        /\ e \in ToSet(items')
        /\ ToSet(items') \subseteq Stored
        /\ NeverThrice(items')
        /\ \A i, j \in DOMAIN items' :
             i < j /\ items'[i] = items'[j] => items'[i] \in ToSet(heard) \cup {e}
        /\ \A x \in ToSet(items) \ ToSet(items') : Crowded(x)
    BY <1>2, <1>3, <1>5, <1>14, PutInFrontLists
  <2>2. /\ copy' = IF copy = "none" THEN "stream" ELSE copy
        /\ stale' = FALSE
    BY <1>5, <1>14 DEF PutInFront
  <2>3. copy' \in {"stream", "response"}
    BY <1>14, <2>2 DEF TypeOK
  <2>4. TypeOK'
    BY <1>1, <1>5, <1>12, <2>1, <2>2, <2>3 DEF TypeOK, fetchVars
  <2>5. ListedTwice'
    BY <1>1, <1>6, <2>1 DEF ListedTwice, NeverThrice
  <2>6. HolesHaveACause'
    <3> SUFFICES ASSUME copy = "response", NEW x \in Stored, x \notin ToSet(items'),
                        x \in ToSet(feed),
                        x \notin ToSet(wire') \cup missed \cup overwritten
                 PROVE  Crowded(x)'
      BY <1>1, <1>5, <2>2 DEF HolesHaveACause
    <3>1. CASE x \in ToSet(items)
      BY <1>1, <2>1, <3>1
    <3>2. CASE x \notin ToSet(items)
      <4>1. x \notin ToSet(wire)
        BY <1>4, <1>5, <2>1
      <4> QED
        BY <1>1, <3>2, <4>1 DEF HolesHaveACause
    <3> QED
      BY <3>1, <3>2
  <2> QED
    BY <1>1, <1>8, <1>9, <1>10, <1>11, <2>4, <2>5, <2>6
<1> QED
  BY <1>13, <1>14

-----------------------------------------------------------------------------
(* The page, the request and its answer.                                   *)

(* Opening and leaving the page, and the passing of time, list nothing.    *)
LEMMA PageKeeps ==
  ASSUME StudioInv, Show \/ Hide \/ Age
  PROVE  StudioInv'
<1> USE DEF StudioInv
<1>1. /\ UNCHANGED <<pageVars, setup, streamVars, copy, items, overwritten, answer, asked>>
      /\ fetch' \in {fetch, "asked"}
      /\ mounted' \in BOOLEAN /\ stale' \in BOOLEAN
  BY DEF Show, Hide, Age, TypeOK, listVars, fetchVars
<1>2. /\ PagesTypeOK' /\ Walked' /\ Stored' = Stored
      /\ PageLimit' = PageLimit /\ CopyLimit' = CopyLimit
      /\ \A x : Crowded(x) => Crowded(x)'
  BY <1>1, PagesKept
<1>3. TypeOK'
  BY <1>1, <1>2 DEF TypeOK, streamVars
<1>4. Distinct' /\ InTurn'
  BY <1>1, StreamKept DEF streamVars
<1>5. Accounted'
  BY <1>1 DEF Accounted, streamVars
<1>6. Answered'
  BY <1>1, <1>2 DEF Answered
<1>7. ListedTwice'
  BY <1>1, <1>2, ListKept DEF streamVars
<1>8. HolesHaveACause'
  BY <1>1, <1>2 DEF HolesHaveACause, streamVars
<1> QED
  BY <1>2, <1>3, <1>4, <1>5, <1>6, <1>7, <1>8

(* A list that is dropped misses nothing.                                  *)
LEMMA CollectKeeps ==
  ASSUME StudioInv, Collect
  PROVE  StudioInv'
<1> USE DEF StudioInv
<1>1. /\ PagesTypeOK' /\ Walked' /\ Stored' = Stored
      /\ PageLimit' = PageLimit /\ CopyLimit' = CopyLimit
  BY PagesKept DEF Collect
<1>2. /\ items' = <<>> /\ ToSet(items') = {} /\ DOMAIN items' = {}
      /\ items' \in SeqOf(Events, CopyLimit)
      /\ copy' = "none"
  BY Limits, NoElements DEF Collect
<1>3. TypeOK'
  BY <1>1, <1>2 DEF TypeOK, Collect, streamVars, fetchVars
<1>4. Distinct' /\ InTurn'
  BY StreamKept DEF Collect, streamVars
<1>5. Accounted' /\ Answered'
  BY <1>1 DEF Accounted, Answered, Collect, streamVars, fetchVars
<1>6. ListedTwice' /\ HolesHaveACause'
  BY <1>2 DEF ListedTwice, NeverThrice, HolesHaveACause
<1> QED
  BY <1>1, <1>3, <1>4, <1>5, <1>6

(* The table is read from its first page.                                  *)
LEMMA AnswerKeeps ==
  ASSUME StudioInv, Answer
  PROVE  StudioInv'
<1> USE DEF StudioInv
<1>1. /\ PagesTypeOK' /\ Walked' /\ Stored' = Stored
      /\ PageLimit' = PageLimit /\ CopyLimit' = CopyLimit
      /\ \A x : Crowded(x) => Crowded(x)'
  BY PagesKept DEF Answer
<1>2. /\ answer' \in SeqOf(Events, PageLimit)
      /\ IsInjective(answer')
      /\ ToSet(answer') \subseteq Stored
      /\ Len(answer') = PageLimit \/ ToSet(answer') = Stored
  <2>1. Older(0) = Stored
    BY DEF Older
  <2>2. answer' \in ListByTimestamp(PageLimit, 0)
    BY DEF Answer
  <2> QED
    BY <2>1, <2>2 DEF ListByTimestamp
<1>3. asked' = Stored /\ fetch' = "answered"
  BY DEF Answer
<1>4. TypeOK'
  BY <1>1, <1>2, <1>3 DEF TypeOK, Answer, streamVars, listVars
<1>5. Distinct' /\ InTurn'
  BY StreamKept DEF Answer, streamVars
<1>6. Accounted'
  BY <1>3 DEF Accounted, TypeOK, Answer, streamVars
<1>7. Answered'
  BY <1>1, <1>2, <1>3 DEF Answered
<1>8. ListedTwice'
  BY <1>1, ListKept DEF Answer, streamVars, listVars
<1>9. HolesHaveACause'
  BY <1>1 DEF HolesHaveACause, Answer, streamVars, listVars
<1> QED
  BY <1>1, <1>4, <1>5, <1>6, <1>7, <1>8, <1>9

(* What fails changes no list.                                             *)
LEMMA FetchFailsKeeps ==
  ASSUME StudioInv, FetchFails
  PROVE  StudioInv'
<1> USE DEF StudioInv
<1>1. /\ PagesTypeOK' /\ Walked' /\ Stored' = Stored
      /\ PageLimit' = PageLimit /\ CopyLimit' = CopyLimit
      /\ \A x : Crowded(x) => Crowded(x)'
  BY PagesKept DEF FetchFails
<1>2. answer' \in SeqOf(Events, PageLimit) /\ fetch' \in {"none", "asked"}
  BY Limits, NoElements DEF FetchFails
<1>3. TypeOK'
  BY <1>1, <1>2 DEF TypeOK, FetchFails, streamVars, listVars
<1>4. Distinct' /\ InTurn'
  BY StreamKept DEF FetchFails, streamVars
<1>5. Accounted' /\ Answered'
  BY <1>2 DEF Accounted, Answered, FetchFails, streamVars
<1>6. ListedTwice'
  BY <1>1, ListKept DEF FetchFails, streamVars, listVars
<1>7. HolesHaveACause'
  BY <1>1 DEF HolesHaveACause, FetchFails, streamVars, listVars
<1> QED
  BY <1>1, <1>3, <1>4, <1>5, <1>6, <1>7

(* An event that a response leaves out was stored after it was made, or    *)
(* had to give way to a page of others.                                    *)
LEMMA ArriveKeeps ==
  ASSUME StudioInv, Arrive
  PROVE  StudioInv'
<1> USE DEF StudioInv
<1>1. /\ PagesTypeOK' /\ Walked' /\ Stored' = Stored
      /\ PageLimit' = PageLimit /\ CopyLimit' = CopyLimit
      /\ \A x : Crowded(x) => Crowded(x)'
  BY PagesKept DEF Arrive
<1>2. /\ PageLimit \in Nat \ {0} /\ CopyLimit \in Nat \ {0} /\ CopyLimit = 2 * PageLimit
  BY Limits
<1>3. /\ fetch = "answered" /\ fetch' = "none"
      /\ items' = answer /\ answer' = <<>>
      /\ copy' = IF answer = <<>> THEN "null" ELSE "response"
      /\ stale' = FALSE
      /\ missed' = missed \ asked
      /\ overwritten' = ToSet(heard) \ asked
      /\ UNCHANGED <<pageVars, setup, feed, stream, wire, heard, asked, mounted>>
  BY DEF Arrive
<1>4. /\ IsInjective(answer)
      /\ ToSet(answer) \subseteq asked
      /\ Len(answer) = PageLimit \/ ToSet(answer) = asked
  BY <1>3 DEF Answered
<1>5. answer \in Seq(Events) /\ Len(answer) <= PageLimit
  BY <1>2, BoundedLength DEF TypeOK
<1>6. items' \in SeqOf(Events, CopyLimit) /\ answer' \in SeqOf(Events, PageLimit)
  <2>1. Len(answer) <= CopyLimit
    BY <1>2, <1>5
  <2>2. items' \in SeqOf(Events, CopyLimit)
    BY <1>2, <1>3, <1>5, <2>1, BoundedLength
  <2> QED
    BY <1>2, <1>3, <2>2, NoElements
<1>7. TypeOK'
  BY <1>1, <1>3, <1>6 DEF TypeOK
<1>8. Distinct' /\ InTurn'
  BY <1>3, StreamKept
<1>9. Accounted' /\ Answered'
  BY <1>3 DEF Accounted, Answered
<1>10. ListedTwice'
  <2>1. ToSet(items') \subseteq Stored'
    BY <1>1, <1>3, <1>4 DEF TypeOK
  <2>2. ASSUME NEW i \in DOMAIN answer, NEW j \in DOMAIN answer, i < j
        PROVE  answer[i] # answer[j]
    <3>1. i \in Nat /\ j \in Nat /\ i # j
      BY <1>5, <2>2
    <3> QED
      BY <1>4, <3>1 DEF IsInjective
  <2> QED
    BY <1>3, <2>1, <2>2 DEF ListedTwice, NeverThrice
<1>11. HolesHaveACause'
  <2> SUFFICES ASSUME NEW e \in Stored, e \notin ToSet(answer), e \in ToSet(feed),
                      e \notin ToSet(wire) \cup (missed \ asked) \cup (ToSet(heard) \ asked)
               PROVE  Crowded(e)'
    BY <1>1, <1>3 DEF HolesHaveACause
  <2>1. e \in asked
    BY DEF Accounted
  <2>2. Len(answer) = PageLimit
    BY <1>4, <2>1
  <2>3. Cardinality(ToSet(answer)) = PageLimit
    BY <1>4, <1>5, <2>2, CountedOnce, FiniteEvents
  <2>4. ToSet(answer) \subseteq Stored \ {e}
    BY <1>4 DEF TypeOK
  <2>5. Crowded(e)
    BY <1>2, <2>3, <2>4, CrowdedOut
  <2> QED
    BY <1>1, <2>5
<1> QED
  BY <1>1, <1>7, <1>8, <1>9, <1>10, <1>11

-----------------------------------------------------------------------------
(* The invariant.                                                          *)

(* The tab begins with nothing.                                            *)
LEMMA InitInv ==
  ASSUME Init
  PROVE  StudioInv
<1>1. /\ Stored = {}
      /\ setup \in Setups /\ setup.limit \in Nat \ {0} /\ setup.tab \in BOOLEAN
  BY SetupsAssumption DEF Init, PagesInit, Stored
<1>2. PageLimit \in Nat /\ CopyLimit \in Nat
  BY <1>1 DEF PageLimit, CopyLimit
<1>3. /\ ToSet(<<>>) = {} /\ IsInjective(<<>>) /\ DOMAIN <<>> = {}
      /\ <<>> \in SeqOf(Events, NumEvents) /\ <<>> \in SeqOf(Events, StreamCap)
      /\ <<>> \in SeqOf(Events, PageLimit) /\ <<>> \in SeqOf(Events, CopyLimit)
  BY <1>2, PageSizes, StreamCapAssumption, NoElements
<1>4. PagesTypeOK /\ Walked
  BY <1>1, PageSizes DEF Init, PagesInit, PagesTypeOK, Walked
<1>5. TypeOK
  BY <1>1, <1>3, <1>4 DEF Init, TypeOK
<1>6. Distinct /\ InTurn /\ Accounted
  BY <1>3 DEF Init, Distinct, InTurn, Accounted
<1>7. Answered
  BY DEF Init, Answered
<1>8. ListedTwice /\ HolesHaveACause
  BY <1>3 DEF Init, ListedTwice, NeverThrice, HolesHaveACause
<1> QED
  BY <1>4, <1>5, <1>6, <1>7, <1>8 DEF StudioInv

(* Every step keeps the invariant.                                         *)
LEMMA StepInv ==
  ASSUME StudioInv, [Next]_vars
  PROVE  StudioInv'
<1>1. CASE Store
  BY <1>1, StoreKeeps
<1>2. CASE \E e \in Events : Broadcast(e)
  BY <1>2, BroadcastKeeps
<1>3. CASE Open \/ Reconnect
  BY <1>3, OpenKeeps
<1>4. CASE Break
  BY <1>4, BreakKeeps
<1>5. CASE Handle
  BY <1>5, HandleKeeps
<1>6. CASE Show \/ Hide \/ Age
  BY <1>6, PageKeeps
<1>7. CASE Collect
  BY <1>7, CollectKeeps
<1>8. CASE Answer
  BY <1>8, AnswerKeeps
<1>9. CASE FetchFails
  BY <1>9, FetchFailsKeeps
<1>10. CASE Arrive
  BY <1>10, ArriveKeeps
<1>11. CASE Walk
  BY <1>11, WalkKeeps
<1>12. CASE UNCHANGED vars
  <2>1. UNCHANGED <<pageVars, setup, streamVars, listVars, fetchVars, mounted>>
    BY <1>12 DEF vars
  <2>2. PagesTypeOK' /\ Walked' /\ Stored' = Stored
    BY <2>1, PagesKept DEF StudioInv
  <2> QED
    BY <2>1, <2>2, TableAlone
<1> QED
  BY <1>1, <1>2, <1>3, <1>4, <1>5, <1>6, <1>7, <1>8, <1>9, <1>10, <1>11, <1>12
  DEF Next, Tab

(* In every state the tab can reach, whatever breaks: the invariant that   *)
(* the theorems below rest on.                                             *)
THEOREM StudioInvariance == Spec => []StudioInv
BY InitInv, StepInv, PTL DEF Spec

(* The variables keep their types; above all, the list never grows beyond  *)
(* two pages, however many events the stream brings (useSSE's slice).      *)
THEOREM StudioTypes == Spec => []TypeOK
<1>1. StudioInv => TypeOK
  BY DEF StudioInv
<1> QED
  BY <1>1, StudioInvariance, PTL

(* No event is listed more than twice: once by a response and once by the  *)
(* stream, which brings no event a second time (useSSE, useEvents).        *)
THEOREM ListedTwiceAtMost == Spec => []TwiceAtMost
<1>1. StudioInv => TwiceAtMost
  <2> SUFFICES ASSUME StudioInv, NEW e \in Events
               PROVE  Copies(e) <= 2
    BY DEF TwiceAtMost
  <2> DEFINE P == {i \in DOMAIN items : items[i] = e}
  <2>1. DOMAIN items = 1 .. Len(items) /\ Len(items) \in Nat
    BY Limits, BoundedLength DEF StudioInv, TypeOK
  <2>2. \A i, j, k \in P : ~(i < j /\ j < k)
    BY DEF StudioInv, ListedTwice, NeverThrice
  <2>3. P \subseteq 1 .. Len(items)
    BY <2>1
  <2>4. Copies(e) = Cardinality(P)
    BY DEF Copies
  <2> HIDE DEF P
  <2>5. CASE P = {}
    BY <2>4, <2>5, FS_EmptySet
  <2>6. CASE P # {}
    <3>1. PICK i \in P : TRUE
      BY <2>6
    <3>2. CASE P \subseteq {i}
      <4>1. P = {i}
        BY <3>1, <3>2
      <4> QED
        BY <2>4, <4>1, FS_Singleton
    <3>3. CASE ~(P \subseteq {i})
      <4>1. PICK j \in P : j # i
        BY <3>3
      <4>2. ASSUME NEW k \in P, k # i, k # j
            PROVE  FALSE
        <5>1. i \in Nat /\ j \in Nat /\ k \in Nat
          BY <2>1, <2>3, <3>1, <4>1, <4>2
        <5>2. \/ (i < j /\ j < k) \/ (i < k /\ k < j) \/ (j < i /\ i < k)
              \/ (j < k /\ k < i) \/ (k < i /\ i < j) \/ (k < j /\ j < i)
          BY <4>1, <4>2, <5>1
        <5> QED
          BY <2>2, <3>1, <4>1, <4>2, <5>2, Zenon
      <4>3. P = {i} \cup {j}
        BY <3>1, <4>1, <4>2
      <4>4. IsFiniteSet({i}) /\ Cardinality({i}) = 1
        BY FS_Singleton
      <4>5. j \notin {i}
        BY <4>1
      <4>6. Cardinality({i} \cup {j}) = Cardinality({i}) + 1
        BY <4>4, <4>5, FS_AddElement
      <4> QED
        BY <2>4, <4>3, <4>4, <4>6
    <3> QED
      BY <3>2, <3>3
  <2> QED
    BY <2>5, <2>6
<1> QED
  BY <1>1, StudioInvariance, PTL

(* What is missing from a fetched list is under way, went by while the     *)
(* stream was away, was overtaken by an older response, or had to give way *)
(* to a page of other events (useSSE, useEvents, handleListEvents).        *)
THEOREM HolesAreExplained == Spec => []HolesHaveACause
<1>1. StudioInv => HolesHaveACause
  BY DEF StudioInv
<1> QED
  BY <1>1, StudioInvariance, PTL

(* Reading all pages by the cursor misses nothing that was there, but for  *)
(* events of the very millisecond at which a page ends (ListByTimestamp).  *)
THEOREM WalksMissOnlyTies == Spec => []WalkSkipsOnlyTies
<1>1. StudioInv => WalkSkipsOnlyTies
  BY DEF StudioInv, Walked, Ahead, WalkSkipsOnlyTies
<1> QED
  BY <1>1, StudioInvariance, PTL

-----------------------------------------------------------------------------
(* The tab as a viewer of the feed.                                        *)

Ranks == [e \in Events |-> Rank(e)]
TopRank == IF heard = <<>> THEN 0 ELSE Rank(Last(heard))

(* What leaves the broadcasts and the handled events alone leaves the      *)
(* ranks alone.                                                            *)
LEMMA RanksKept ==
  ASSUME feed' = feed, heard' = heard
  PROVE  /\ Ranks' = Ranks /\ TopRank' = TopRank
         /\ Len(feed') = Len(feed) /\ ToSet(heard') = ToSet(heard)
<1>1. \A e : Rank(e)' = Rank(e)
  BY RankIsPlace
<1> QED
  BY <1>1 DEF Ranks, TopRank

(* A broadcast gets the next rank, and what the tab was shown keeps its.   *)
LEMMA RanksWhenBroadcast ==
  ASSUME StudioInv, NEW e \in Events, Broadcast(e)
  PROVE  /\ Ranks[e] = 0
         /\ Len(feed') = Len(feed) + 1
         /\ Ranks' = [Ranks EXCEPT ![e] = Len(feed) + 1]
         /\ TopRank' = TopRank /\ ToSet(heard') = ToSet(heard)
<1>1. /\ feed \in Seq(Events) /\ heard \in Seq(Events) /\ IsInjective(feed)
      /\ ToSet(heard) \subseteq ToSet(feed)
      /\ e \notin ToSet(feed)
      /\ feed' = Append(feed, e) /\ heard' = heard
  BY PageSizes, BoundedLength DEF StudioInv, TypeOK, Distinct, Broadcast
<1>2. /\ Rank(e) = 0 /\ Rank(e)' = Len(feed) + 1
      /\ \A x : x # e => Rank(x)' = Rank(x)
      /\ Len(feed') = Len(feed) + 1
  BY <1>1, RankIsPlace, PlaceWhenAppended, Appended
<1>3. Ranks' = [Ranks EXCEPT ![e] = Len(feed) + 1]
  BY <1>2 DEF Ranks
<1>4. TopRank' = TopRank
  <2>1. CASE heard = <<>>
    BY <1>1, <2>1 DEF TopRank
  <2>2. CASE heard # <<>>
    <3>1. Len(heard) \in 1 .. Len(heard)
      BY <1>1, <2>2, EmptySeq
    <3>2. Last(heard) \in ToSet(heard)
      BY <1>1, <3>1, Elements DEF Last
    <3>3. Last(heard) # e
      BY <1>1, <3>2
    <3> QED
      BY <1>1, <1>2, <2>2, <3>3 DEF TopRank
  <2> QED
    BY <2>1, <2>2
<1> QED
  BY <1>1, <1>2, <1>3, <1>4 DEF Ranks

(* What is handled has a higher rank than all the tab was shown.           *)
LEMMA RanksWhenHandled ==
  ASSUME StudioInv, Handle
  PROVE  /\ Head(wire) \in Events
         /\ Ranks[Head(wire)] > TopRank
         /\ Ranks' = Ranks /\ Len(feed') = Len(feed)
         /\ TopRank' = Ranks[Head(wire)]
         /\ ToSet(heard') = ToSet(heard) \cup {Head(wire)}
<1> DEFINE e == Head(wire)
<1>1. /\ feed \in Seq(Events) /\ heard \in Seq(Events) /\ IsInjective(feed)
      /\ wire # <<>>
      /\ feed' = feed /\ heard' = Append(heard, e)
  BY PageSizes, BoundedLength DEF StudioInv, TypeOK, Distinct, Handle
<1>2. /\ e \in Events /\ e \in ToSet(feed)
      /\ \A h \in ToSet(heard) : Rank(h) < Rank(e)
  BY <1>1, NextInTurn DEF StudioInv
<1> HIDE DEF e
<1>3. \A x : Rank(x)' = Rank(x)
  BY <1>1, RankIsPlace
<1>4. Rank(e) > 0 /\ Rank(e) \in Nat
  BY <1>1, <1>2, RankIsPlace, Ranked
<1>5. /\ Len(heard') = Len(heard) + 1 /\ Len(heard) \in Nat
      /\ heard'[Len(heard) + 1] = e
      /\ ToSet(heard') = ToSet(heard) \cup {e}
      /\ heard' # <<>>
  BY <1>1, <1>2, Appended
<1>6. TopRank' = Rank(e)
  BY <1>3, <1>5 DEF TopRank, Last
<1>7. Rank(e) > TopRank
  <2>1. CASE heard = <<>>
    BY <1>4, <2>1 DEF TopRank
  <2>2. CASE heard # <<>>
    <3>1. Len(heard) \in 1 .. Len(heard)
      BY <1>1, <2>2, EmptySeq
    <3>2. Last(heard) \in ToSet(heard)
      BY <1>1, <3>1, Elements DEF Last
    <3>3. Rank(Last(heard)) < Rank(e)
      BY <1>2, <3>2
    <3>4. Rank(Last(heard)) \in Nat
      BY <1>1, RankIsPlace, Ranked
    <3> QED
      BY <1>4, <2>2, <3>3, <3>4 DEF TopRank
  <2> QED
    BY <2>1, <2>2
<1> QED
  BY <1>1, <1>2, <1>3, <1>5, <1>6, <1>7 DEF Ranks, e

(* The tab, across all its connections and however often they break, is a  *)
(* viewer of the feed: storing records an event, a broadcast announces it, *)
(* the handler shows it, and all else is not seen by the viewer.           *)
THEOREM TabImplementsFeed == Spec => ImplementsFeed
<1>1. Init => Feed!Init
  <2> SUFFICES ASSUME Init
               PROVE  Feed!Init
    OBVIOUS
  <2>1. feed = <<>> /\ heard = <<>> /\ Stored = {}
    BY DEF Init, PagesInit, Stored
  <2>2. <<>> \in Seq(Events) /\ ToSet(<<>>) = {} /\ IsInjective(<<>>) /\ Len(<<>>) = 0
    BY NoElements
  <2>3. \A e \in Events : Rank(e) = 0
    BY <2>1, <2>2, RankIsPlace, PlaceInSequence
  <2> QED
    BY <2>1, <2>2, <2>3 DEF Feed!Init
<1>2. StudioInv /\ [Next]_vars => [Feed!Next]_(Feed!vars)
  <2> SUFFICES ASSUME StudioInv, [Next]_vars
               PROVE  Feed!Next \/ UNCHANGED Feed!vars
    OBVIOUS
  <2>1. CASE Store
    <3>1. PICK e \in Events, t \in 1 .. MaxStamp : Insert(e, t)
      BY <2>1 DEF Store
    <3>2. Stored' = Stored \cup {e} /\ e \notin Stored
      BY <3>1, InsertKeeps DEF StudioInv, TypeOK
    <3>3. feed' = feed /\ heard' = heard
      BY <2>1 DEF Store, streamVars
    <3>4. Feed!Record(e)
      BY <3>2, <3>3, RanksKept DEF Feed!Record, Ranks, TopRank
    <3> QED
      BY <3>4 DEF Feed!Next
  <2>2. ASSUME NEW e \in Events, Broadcast(e)
        PROVE  Feed!Next
    <3>1. e \in Stored /\ Stored' = Stored
      BY <2>2 DEF Broadcast, pageVars, Stored
    <3>2. Feed!Announce(e)
      BY <2>2, <3>1, RanksWhenBroadcast DEF Feed!Announce, Ranks, TopRank
    <3> QED
      BY <3>2 DEF Feed!Next
  <2>3. CASE Handle
    <3>1. Stored' = Stored
      BY <2>3 DEF Handle, pageVars, Stored
    <3>2. Feed!Show("tab", Head(wire))
      BY <2>3, <3>1, RanksWhenHandled DEF Feed!Show, Ranks, TopRank
    <3>3. Head(wire) \in Events
      BY <2>3, RanksWhenHandled
    <3> QED
      BY <3>2, <3>3 DEF Feed!Next
  <2>4. ASSUME Stored' = Stored, feed' = feed, heard' = heard
        PROVE  UNCHANGED Feed!vars
    BY <2>4, RanksKept DEF Feed!vars, Ranks, TopRank
  <2>5. CASE Tab /\ ~Handle
    <3>1. /\ UNCHANGED <<pageVars, feed, heard>>
      BY <2>5 DEF Tab, Open, Break, Reconnect, Show, Hide, Age, Collect, Answer,
           FetchFails, Arrive, streamVars
    <3> QED
      BY <2>4, <3>1 DEF pageVars, Stored
  <2>6. CASE Walk
    BY <2>4, <2>6 DEF Walk, WalkBegins, WalkReads, streamVars, Stored
  <2>7. CASE UNCHANGED vars
    BY <2>4, <2>7 DEF vars, pageVars, streamVars, Stored
  <2> QED
    BY <2>1, <2>2, <2>3, <2>5, <2>6, <2>7 DEF Next
<1> QED
  BY <1>1, <1>2, StudioInvariance, PTL DEF Spec, ImplementsFeed, Feed!Spec
=============================================================================
