------------------------- MODULE StatisticsProofs -------------------------
(***************************************************************************)
(* The two statistics caches, which add up what an application tells in     *)
(* pieces.                                                                 *)
(*                                                                         *)
(* SABnzbd (cache.go): the counters are the sum of each day's last sample,  *)
(* for any number of servers, days and articles.  The sum is a fold of the  *)
(* community modules: what it does when one day's value changes is proved   *)
(* first, by induction over the subsets of its domain.  The cached day must *)
(* be the last one that was sampled and the counters of today its last      *)
(* sample (Samples), or the day would be counted twice when it rolls over;  *)
(* a server must list no earlier day (Listings).  That a counter does not   *)
(* go down without a loss at SABnzbd needs what was published to be behind  *)
(* the cache and the cache behind the listing (Behind).                     *)
(*                                                                         *)
(* Prowlarr (prowlarr.go): every event is added once, for any number of     *)
(* collections, any number of ticks to a second, any start and any time.    *)
(* EachEventOnce says what was added up to the last update.  To keep it, an *)
(* answer must be the events of the window that starts there and of no      *)
(* other: Mutex and Windows say so of the collection that holds statsMu.    *)
(* The answer stays what Prowlarr would tell although events go on, because *)
(* a window never ends after the time it is sent.                           *)
(***************************************************************************)
EXTENDS ProwlarrStats, ServerStats, FiniteSetTheorems, WellFoundedInduction, TLAPS

-----------------------------------------------------------------------------
(* Sums *)

\* Induction over the natural numbers, for a set of them: the library's theorem is about
\* an operator.
LEMMA InductionOverNat ==
    ASSUME NEW P \in SUBSET Nat, 0 \in P, \A n \in P : n + 1 \in P
    PROVE  \A n \in Nat : n \in P
<1> DEFINE Rest == Nat \ P
<1> SUFFICES ASSUME Rest # {} PROVE FALSE
  OBVIOUS
<1>1. Rest \subseteq Nat
  OBVIOUS
<1>2. \E n \in Rest : \A m \in Rest : <<m, n>> \notin OpToRel(<, Nat)
  BY <1>1, NatLessThanWellFounded, WFMin
<1>3. PICK n \in Rest : \A m \in Rest : ~(m < n)
  BY <1>1, <1>2 DEF OpToRel
<1>4. n # 0 /\ n - 1 \in Nat /\ n - 1 \notin Rest
  BY <1>3
<1>5. (n - 1) + 1 = n /\ n - 1 \in P
  BY <1>4
<1> QED
  BY <1>3, <1>5

\* How SumFunction goes through a set.
Chosen(s) == CHOOSE x \in s : TRUE
IsSumUpTo(f, S, F) ==
    \A s \in SUBSET S :
        f[s] = IF s = {} THEN 0 ELSE F[Chosen(s)] + f[s \ {Chosen(s)}]

LEMMA WithoutChosen ==
    ASSUME NEW s, s # {}, IsFiniteSet(s)
    PROVE  /\ Chosen(s) \in s /\ IsFiniteSet(s \ {Chosen(s)})
           /\ Cardinality(s \ {Chosen(s)}) \in Nat
           /\ Cardinality(s) = Cardinality(s \ {Chosen(s)}) + 1
<1>1. Chosen(s) \in s
  BY DEF Chosen
<1> QED
  BY <1>1, FS_RemoveElement, FS_CardinalityType

\* The recursion of the sum has a solution.
LEMMA SumExists ==
    ASSUME NEW S, IsFiniteSet(S), NEW F \in [S -> Int]
    PROVE  \E f \in [SUBSET S -> Int] : IsSumUpTo(f, S, F)
<1> DEFINE Small(n) == {s \in SUBSET S : Cardinality(s) <= n}
           Solves(f, n) == \A s \in Small(n) :
               f[s] = IF s = {} THEN 0 ELSE F[Chosen(s)] + f[s \ {Chosen(s)}]
           P == {n \in Nat : \E f \in [Small(n) -> Int] : Solves(f, n)}
<1>1. \A s \in SUBSET S : IsFiniteSet(s) /\ Cardinality(s) \in Nat /\ Cardinality(s) <= Cardinality(S)
  BY FS_Subset, FS_CardinalityType
<1>2. 0 \in P
  <2>1. \A s \in Small(0) : s = {}
    BY <1>1, FS_EmptySet
  <2>2. [s \in Small(0) |-> 0] \in [Small(0) -> Int]
    OBVIOUS
  <2>3. Solves([s \in Small(0) |-> 0], 0)
    BY <2>1
  <2> HIDE DEF Solves, Small
  <2> QED BY <2>2, <2>3
<1>3. ASSUME NEW n \in P PROVE n + 1 \in P
  <2>1. n \in Nat
    OBVIOUS
  <2>2. PICK f \in [Small(n) -> Int] : Solves(f, n)
    OBVIOUS
  <2> DEFINE g == [s \in Small(n + 1) |->
                      IF s = {} THEN 0 ELSE F[Chosen(s)] + f[s \ {Chosen(s)}]]
  <2>3. ASSUME NEW s \in Small(n + 1), s # {}
        PROVE  Chosen(s) \in S /\ s \ {Chosen(s)} \in Small(n)
    <3>1. IsFiniteSet(s) /\ Cardinality(s) <= n + 1 /\ s \subseteq S
      BY <1>1
    <3>2. /\ Chosen(s) \in s /\ Cardinality(s \ {Chosen(s)}) \in Nat
          /\ Cardinality(s) = Cardinality(s \ {Chosen(s)}) + 1
      BY <2>3, <3>1, WithoutChosen
    <3>3. Cardinality(s \ {Chosen(s)}) <= n
      BY <2>1, <3>1, <3>2
    <3> QED BY <3>1, <3>2, <3>3
  <2>4. g \in [Small(n + 1) -> Int]
    BY <2>3
  <2>5. \A s \in Small(n) : s \in Small(n + 1) /\ g[s] = f[s]
    <3> SUFFICES ASSUME NEW s \in Small(n) PROVE s \in Small(n + 1) /\ g[s] = f[s]
      OBVIOUS
    <3>1. s \in Small(n + 1)
      BY <1>1, <2>1
    <3>2. f[s] = IF s = {} THEN 0 ELSE F[Chosen(s)] + f[s \ {Chosen(s)}]
      BY <2>2
    <3> HIDE DEF Small
    <3> QED BY <3>1, <3>2
  <2>6. Solves(g, n + 1)
    <3> SUFFICES ASSUME NEW s \in Small(n + 1)
                 PROVE  g[s] = IF s = {} THEN 0 ELSE F[Chosen(s)] + g[s \ {Chosen(s)}]
      OBVIOUS
    <3>1. s # {} => g[s \ {Chosen(s)}] = f[s \ {Chosen(s)}]
      BY <2>3, <2>5
    <3>2. g[s] = IF s = {} THEN 0 ELSE F[Chosen(s)] + f[s \ {Chosen(s)}]
      OBVIOUS
    <3> HIDE DEF g
    <3> QED BY <3>1, <3>2
  <2> HIDE DEF g, Solves, Small
  <2> QED BY <2>1, <2>4, <2>6
<1>4. Cardinality(S) \in P
  <2>1. P \in SUBSET Nat /\ Cardinality(S) \in Nat
    BY FS_CardinalityType
  <2> HIDE DEF P
  <2> QED BY <1>2, <1>3, <2>1, InductionOverNat
<1>5. Small(Cardinality(S)) = SUBSET S
  BY <1>1
<1> QED
  BY <1>4, <1>5 DEF IsSumUpTo

\* A property of a sum that holds of nothing, and of a set if it holds of all but one element
\* of it, holds of every subset.
LEMMA SubsetInduction ==
    ASSUME NEW S, IsFiniteSet(S), NEW Q \in SUBSET (SUBSET S), {} \in Q,
           \A s \in SUBSET S : s # {} /\ s \ {Chosen(s)} \in Q => s \in Q
    PROVE  \A s \in SUBSET S : s \in Q
<1> DEFINE P == {n \in Nat : \A s \in SUBSET S : Cardinality(s) = n => s \in Q}
<1>1. \A s \in SUBSET S : IsFiniteSet(s) /\ Cardinality(s) \in Nat
  BY FS_Subset, FS_CardinalityType
<1>2. 0 \in P
  <2>1. \A s \in SUBSET S : Cardinality(s) = 0 => s = {}
    BY <1>1, FS_EmptySet
  <2> QED BY <2>1
<1>3. ASSUME NEW n \in P PROVE n + 1 \in P
  <2> SUFFICES ASSUME NEW s \in SUBSET S, Cardinality(s) = n + 1 PROVE s \in Q
    OBVIOUS
  <2>1. s # {}
    BY FS_EmptySet
  <2>2. /\ s \ {Chosen(s)} \in SUBSET S
        /\ Cardinality(s \ {Chosen(s)}) \in Nat /\ Cardinality(s \ {Chosen(s)}) + 1 = n + 1
    BY <1>1, <2>1, WithoutChosen
  <2>3. Cardinality(s \ {Chosen(s)}) = n
    BY <2>2
  <2> QED BY <2>1, <2>2, <2>3
<1>4. \A n \in Nat : n \in P
  <2>1. P \in SUBSET Nat
    OBVIOUS
  <2> HIDE DEF P
  <2> QED BY <1>2, <1>3, <2>1, InductionOverNat
<1> QED
  BY <1>1, <1>4

LEMMA SumIsAnInteger ==
    ASSUME NEW S, IsFiniteSet(S), NEW F \in [S -> Int], NEW f, IsSumUpTo(f, S, F)
    PROVE  \A s \in SUBSET S : f[s] \in Int
<1> DEFINE Q == {s \in SUBSET S : f[s] \in Int}
<1>1. {} \in Q
  BY DEF IsSumUpTo
<1>2. ASSUME NEW s \in SUBSET S, s # {}, s \ {Chosen(s)} \in Q PROVE s \in Q
  <2>1. F[Chosen(s)] \in Int
    BY <1>2 DEF Chosen
  <2>2. f[s] = F[Chosen(s)] + f[s \ {Chosen(s)}]
    BY <1>2 DEF IsSumUpTo
  <2> QED BY <1>2, <2>1, <2>2
<1>3. Q \in SUBSET (SUBSET S)
  OBVIOUS
<1>4. \A s \in SUBSET S : s \in Q
  <2> HIDE DEF Q
  <2> QED BY <1>1, <1>2, <1>3, SubsetInduction
<1> QED
  BY <1>4

LEMMA SumGoesThrough ==
    ASSUME NEW S, IsFiniteSet(S), NEW F \in [S -> Int]
    PROVE  \E f \in [SUBSET S -> Int] : IsSumUpTo(f, S, F) /\ SumFunction(F) = f[S]
<1> DEFINE Step(f) == [s \in SUBSET S |->
               IF s = {} THEN 0 ELSE F[CHOOSE x \in s : TRUE] + f[s \ {CHOOSE x \in s : TRUE}]]
           iter == CHOOSE f : f = Step(f)
<1>1. SumFunction(F) = iter[S]
  BY DEF SumFunction, SumFunctionOnSet, FoldFunctionOnSet, MapThenFoldSet
<1>2. PICK f \in [SUBSET S -> Int] : IsSumUpTo(f, S, F)
  BY SumExists
<1>3. f = Step(f)
  BY <1>2 DEF IsSumUpTo, Chosen
<1>4. iter = Step(iter)
  BY <1>3
<1> HIDE DEF iter
<1>5. IsSumUpTo(iter, S, F)
  BY <1>4 DEF IsSumUpTo, Chosen
<1>6. iter \in [SUBSET S -> Int]
  <2>1. \A s \in SUBSET S : iter[s] \in Int
    BY <1>5, SumIsAnInteger
  <2>2. iter = [s \in SUBSET S |-> iter[s]]
    BY <1>4
  <2> HIDE DEF Step
  <2> QED BY <2>1, <2>2
<1> QED
  BY <1>1, <1>5, <1>6

\* One value of a function that changes changes the sum by as much.
LEMMA SumChanges ==
    ASSUME NEW S, IsFiniteSet(S), NEW F \in [S -> Int], NEW G \in [S -> Int],
           NEW d \in S, \A x \in S \ {d} : G[x] = F[x]
    PROVE  SumFunction(F) \in Int /\ SumFunction(G) = SumFunction(F) + (G[d] - F[d])
<1>1. PICK f \in [SUBSET S -> Int] : IsSumUpTo(f, S, F) /\ SumFunction(F) = f[S]
  BY SumGoesThrough
<1>2. PICK g \in [SUBSET S -> Int] : IsSumUpTo(g, S, G) /\ SumFunction(G) = g[S]
  BY SumGoesThrough
<1> DEFINE Q == {s \in SUBSET S : g[s] = f[s] + (IF d \in s THEN G[d] - F[d] ELSE 0)}
<1>3. {} \in Q
  <2>1. {} \in SUBSET S /\ f[{}] = 0 /\ g[{}] = 0
    BY <1>1, <1>2 DEF IsSumUpTo
  <2> QED BY <2>1
<1>4. ASSUME NEW s \in SUBSET S, s # {}, s \ {Chosen(s)} \in Q PROVE s \in Q
  <2>1. Chosen(s) \in s
    BY <1>4 DEF Chosen
  <2>2. /\ f[s] = F[Chosen(s)] + f[s \ {Chosen(s)}]
        /\ g[s] = G[Chosen(s)] + g[s \ {Chosen(s)}]
    BY <1>1, <1>2, <1>4 DEF IsSumUpTo
  <2>3. /\ F[Chosen(s)] \in Int /\ G[Chosen(s)] \in Int /\ F[d] \in Int /\ G[d] \in Int
        /\ f[s \ {Chosen(s)}] \in Int /\ g[s \ {Chosen(s)}] \in Int
    BY <1>1, <1>2, <2>1
  <2>4. CASE Chosen(s) = d
    <3>1. d \in s /\ d \notin s \ {Chosen(s)}
      BY <2>1, <2>4
    <3>2. g[s \ {Chosen(s)}] = f[s \ {Chosen(s)}]
      BY <1>4, <2>3, <3>1
    <3>3. g[s] = f[s] + (G[d] - F[d])
      BY <2>2, <2>3, <2>4, <3>2
    <3> QED BY <3>1, <3>3
  <2>5. CASE Chosen(s) # d
    <3>1. G[Chosen(s)] = F[Chosen(s)] /\ (d \in s <=> d \in s \ {Chosen(s)})
      BY <2>1, <2>5
    <3>2. g[s \ {Chosen(s)}] = f[s \ {Chosen(s)}] + (IF d \in s THEN G[d] - F[d] ELSE 0)
      BY <1>4, <3>1
    <3> QED BY <2>2, <2>3, <3>1, <3>2
  <2> QED BY <2>4, <2>5
<1>5. Q \in SUBSET (SUBSET S)
  OBVIOUS
<1>6. S \in Q
  <2> HIDE DEF Q
  <2> QED BY <1>3, <1>4, <1>5, SubsetInduction
<1> QED
  BY <1>1, <1>2, <1>6

\* A sum grows with the values.
LEMMA SumGrows ==
    ASSUME NEW S, IsFiniteSet(S), NEW F \in [S -> Int], NEW G \in [S -> Int],
           \A x \in S : F[x] <= G[x]
    PROVE  /\ SumFunction(F) \in Int /\ SumFunction(G) \in Int
           /\ SumFunction(F) <= SumFunction(G)
<1>1. PICK f \in [SUBSET S -> Int] : IsSumUpTo(f, S, F) /\ SumFunction(F) = f[S]
  BY SumGoesThrough
<1>2. PICK g \in [SUBSET S -> Int] : IsSumUpTo(g, S, G) /\ SumFunction(G) = g[S]
  BY SumGoesThrough
<1> DEFINE Q == {s \in SUBSET S : f[s] <= g[s]}
<1>3. {} \in Q
  <2>1. {} \in SUBSET S /\ f[{}] = 0 /\ g[{}] = 0
    BY <1>1, <1>2 DEF IsSumUpTo
  <2> QED BY <2>1
<1>4. ASSUME NEW s \in SUBSET S, s # {}, s \ {Chosen(s)} \in Q PROVE s \in Q
  <2>1. Chosen(s) \in s
    BY <1>4 DEF Chosen
  <2>2. /\ f[s] = F[Chosen(s)] + f[s \ {Chosen(s)}]
        /\ g[s] = G[Chosen(s)] + g[s \ {Chosen(s)}]
    BY <1>1, <1>2, <1>4 DEF IsSumUpTo
  <2>3. /\ F[Chosen(s)] \in Int /\ G[Chosen(s)] \in Int /\ F[Chosen(s)] <= G[Chosen(s)]
        /\ f[s \ {Chosen(s)}] \in Int /\ g[s \ {Chosen(s)}] \in Int
    BY <1>1, <1>2, <2>1
  <2> QED BY <1>4, <2>2, <2>3
<1>5. Q \in SUBSET (SUBSET S)
  OBVIOUS
<1>6. S \in Q
  <2> HIDE DEF Q
  <2> QED BY <1>3, <1>4, <1>5, SubsetInduction
<1> QED
  BY <1>1, <1>2, <1>6

\* The sum of one value throughout.
LEMMA SumOfOneValue ==
    ASSUME NEW S, IsFiniteSet(S), NEW c \in Int
    PROVE  SumFunction([x \in S |-> c]) = Cardinality(S) * c
<1> DEFINE F == [x \in S |-> c]
<1>1. F \in [S -> Int]
  OBVIOUS
<1>2. PICK f \in [SUBSET S -> Int] : IsSumUpTo(f, S, F) /\ SumFunction(F) = f[S]
  BY <1>1, SumGoesThrough
<1> DEFINE Q == {s \in SUBSET S : f[s] = Cardinality(s) * c}
<1>3. {} \in Q
  <2>1. f[{}] = 0 /\ Cardinality({}) = 0
    BY <1>2, FS_EmptySet DEF IsSumUpTo
  <2> QED BY <2>1
<1>4. ASSUME NEW s \in SUBSET S, s # {}, s \ {Chosen(s)} \in Q PROVE s \in Q
  <2>1. /\ Chosen(s) \in s /\ Cardinality(s \ {Chosen(s)}) \in Nat
        /\ Cardinality(s) = Cardinality(s \ {Chosen(s)}) + 1
    BY <1>4, FS_Subset, WithoutChosen
  <2>2. f[s] = F[Chosen(s)] + f[s \ {Chosen(s)}] /\ F[Chosen(s)] = c
    BY <1>2, <1>4, <2>1 DEF IsSumUpTo
  <2>3. f[s \ {Chosen(s)}] = Cardinality(s \ {Chosen(s)}) * c
    BY <1>4
  <2> DEFINE n == Cardinality(s \ {Chosen(s)})
  <2>4. n \in Nat /\ f[s] = c + n * c /\ Cardinality(s) = n + 1
    BY <2>1, <2>2, <2>3
  <2> HIDE DEF n
  <2>5. c + n * c = (n + 1) * c
    BY <2>4
  <2> QED BY <2>4, <2>5
<1>5. Q \in SUBSET (SUBSET S)
  OBVIOUS
<1>6. S \in Q
  <2> HIDE DEF Q
  <2> QED BY <1>3, <1>4, <1>5, SubsetInduction
<1> QED
  BY <1>2, <1>6

-----------------------------------------------------------------------------
(* SABnzbd: the inductive invariant *)

Entry == [key : Days \cup {NoDay}, triedBefore : Nat, triedToday : Nat,
          successBefore : Nat, successToday : Nat]

StatsTypes ==
    /\ today \in Days
    /\ listed \in [Servers -> Listing]
    /\ queue \in Workers /\ stats \in Workers \cup {"fetched"}
    /\ queue = "idle" <=> stats = "idle"
    /\ told \in {"nothing", "stats", "error"}
    /\ known \subseteq Servers
    /\ cache \in [Servers -> Entry]
    /\ published \in [Servers -> [tried : Nat, success : Nat]]
    /\ wiped \in [Servers -> BOOLEAN]
    /\ sampled \in [Servers -> [Days -> Listing]]
    /\ DOMAIN sample \subseteq Servers

\* Nothing happens at SABnzbd between its answer and the end of the collection, and the
\* cache has what it answered.
InHand ==
    /\ stats \in {"fetched", "done"} => \A s \in DOMAIN sample : sample[s] = listed[s]
    /\ stats = "done" => \A s \in DOMAIN sample :
          /\ s \in known /\ cache[s].key = listed[s].day
          /\ cache[s].triedToday = listed[s].tried /\ cache[s].successToday = listed[s].success
          /\ listed[s].day # NoDay => sampled[s][listed[s].day] = listed[s]

\* A server lists no day before the cached one.
Listings ==
    \A s \in Servers :
        /\ listed[s].day <= today /\ cache[s].key <= today
        /\ listed[s].success <= listed[s].tried
        /\ IF listed[s].day = NoDay THEN listed[s] = Nothing ELSE cache[s].key <= listed[s].day

\* The cached day is the last that was sampled, and the counters have its last sample.
Samples ==
    \A s \in Servers :
        /\ \A d \in Days : /\ sampled[s][d].success <= sampled[s][d].tried
                           /\ d > cache[s].key => sampled[s][d] = Nothing
        /\ cache[s].triedToday =
              (IF cache[s].key = NoDay THEN 0 ELSE sampled[s][cache[s].key].tried)
        /\ cache[s].successToday =
              (IF cache[s].key = NoDay THEN 0 ELSE sampled[s][cache[s].key].success)

\* What was published is behind the cache, and the cache behind the listing, of every
\* server that lost nothing.
Behind ==
    \A s \in Servers : ~wiped[s] =>
        /\ published[s].tried <= GetArticlesTried(cache[s])
        /\ published[s].success <= GetArticlesSuccess(cache[s])
        /\ cache[s].key # NoDay => listed[s].day # NoDay
        /\ cache[s].key = listed[s].day => /\ cache[s].triedToday <= listed[s].tried
                                           /\ cache[s].successToday <= listed[s].success

StatsInv == StatsTypes /\ InHand /\ Listings /\ Samples /\ CountsEachDayOnce /\ Behind

-----------------------------------------------------------------------------
(* SABnzbd: the steps that leave the counters alone *)

LEMMA DaysFacts ==
    /\ MaxDay \in Nat /\ MaxDay >= 1 /\ MaxArticles \in Nat /\ MaxArticles >= 1
    /\ Days = 1..MaxDay /\ Days \subseteq Nat \ {0} /\ NoDay = 0 /\ NoDay \notin Days
    /\ IsFiniteSet(Days) /\ Cardinality(Days) = MaxDay
<1>1. MaxDay \in Nat /\ MaxDay >= 1 /\ MaxArticles \in Nat /\ MaxArticles >= 1
  BY StatsAssumption
<1>2. IsFiniteSet(1..MaxDay) /\ Cardinality(1..MaxDay) = MaxDay
  BY <1>1, FS_Interval
<1> QED
  BY <1>1, <1>2 DEF Days, NoDay

LEMMA NothingFacts ==
    /\ Nothing \in Listing /\ Nothing.day = NoDay /\ Nothing.tried = 0 /\ Nothing.success = 0
  BY DaysFacts DEF Nothing, Listing

LEMMA ListingFacts ==
    ASSUME NEW l \in Listing
    PROVE  /\ l.day \in Days \cup {NoDay} /\ l.day \in Nat
           /\ l.tried \in 0..MaxArticles /\ l.success \in 0..MaxArticles
           /\ l.tried \in Nat /\ l.success \in Nat
  BY DaysFacts DEF Listing

LEMMA FreshFacts ==
    /\ Fresh \in Entry /\ Fresh.key = NoDay /\ Fresh.triedToday = 0 /\ Fresh.successToday = 0
    /\ GetArticlesTried(Fresh) = 0 /\ GetArticlesSuccess(Fresh) = 0
  BY DaysFacts DEF Fresh, Entry, GetArticlesTried, GetArticlesSuccess

LEMMA EntryFacts ==
    ASSUME NEW e \in Entry
    PROVE  /\ e.key \in Days \cup {NoDay} /\ e.key \in Nat
           /\ e.triedBefore \in Nat /\ e.triedToday \in Nat
           /\ e.successBefore \in Nat /\ e.successToday \in Nat
           /\ GetArticlesTried(e) \in Nat /\ GetArticlesSuccess(e) \in Nat
           /\ GetArticlesTried(e) = e.triedBefore + e.triedToday
           /\ GetArticlesSuccess(e) = e.successBefore + e.successToday
  BY DaysFacts DEF Entry, GetArticlesTried, GetArticlesSuccess

\* Before the first sample of a server its counters are 0.
LEMMA NothingSampled ==
    /\ NoSamples \in [Days -> Listing] /\ \A d \in Days : NoSamples[d] = Nothing
    /\ SumFunction([d \in Days |-> NoSamples[d].tried]) = 0
    /\ SumFunction([d \in Days |-> NoSamples[d].success]) = 0
<1>1. NoSamples \in [Days -> Listing] /\ \A d \in Days : NoSamples[d] = Nothing
  BY NothingFacts DEF NoSamples
<1>2. /\ [d \in Days |-> NoSamples[d].tried] = [d \in Days |-> 0]
      /\ [d \in Days |-> NoSamples[d].success] = [d \in Days |-> 0]
  BY <1>1, NothingFacts
<1>3. SumFunction([d \in Days |-> 0]) = MaxDay * 0
  <2>1. IsFiniteSet(Days) /\ 0 \in Int /\ Cardinality(Days) = MaxDay
    BY DaysFacts
  <2>2. SumFunction([d \in Days |-> 0]) = Cardinality(Days) * 0
    BY <2>1, SumOfOneValue, Zenon
  <2> QED BY <2>1, <2>2
<1>4. MaxDay * 0 = 0
  BY DaysFacts
<1> QED
  BY <1>1, <1>2, <1>3, <1>4

LEMMA StatsInitInv == StatsInit => StatsInv
<1> SUFFICES ASSUME StatsInit PROVE StatsInv
  OBVIOUS
<1>1. StatsTypes
  <2>1. wiped \in [Servers -> BOOLEAN]
    BY DEF StatsInit
  <2>2. cache \in [Servers -> Entry] /\ listed \in [Servers -> Listing]
    BY FreshFacts, NothingFacts DEF StatsInit
  <2>3. sampled \in [Servers -> [Days -> Listing]]
    BY NothingSampled DEF StatsInit
  <2>4. published \in [Servers -> [tried : Nat, success : Nat]]
    BY DEF StatsInit
  <2>5. DOMAIN sample \subseteq Servers
    BY DEF StatsInit
  <2>6. today \in Days
    BY DaysFacts DEF StatsInit
  <2> QED
    BY <2>1, <2>2, <2>3, <2>4, <2>5, <2>6 DEF StatsTypes, StatsInit, Workers
<1>2. InHand
  BY DEF StatsInit, InHand
<1>3. Listings
  BY NothingFacts, FreshFacts, DaysFacts DEF StatsInit, Listings
<1>4. Samples
  BY NothingFacts, FreshFacts, NothingSampled DEF StatsInit, Samples
<1>5. CountsEachDayOnce
  BY FreshFacts, NothingSampled DEF StatsInit, CountsEachDayOnce, TriedOn, SuccessOn
<1>6. Behind
  BY NothingFacts, FreshFacts DEF StatsInit, Behind
<1> QED
  BY <1>1, <1>2, <1>3, <1>4, <1>5, <1>6 DEF StatsInv

LEMMA QuietStep ==
    ASSUME StatsInv, UNCHANGED <<today, listed, published, wiped, known, cache, sampled>>
    PROVE  Listings' /\ Samples' /\ CountsEachDayOnce' /\ Behind'
<1>1. Listings' /\ Samples'
  BY DEF StatsInv, Listings, Samples
<1>2. CountsEachDayOnce'
  BY DEF StatsInv, CountsEachDayOnce, TriedOn, SuccessOn
<1>3. Behind'
  BY DEF StatsInv, Behind
<1> QED
  BY <1>1, <1>2, <1>3

LEMMA QuietSteps ==
    ASSUME StatsInv,
           \/ Begin \/ Queue \/ Fetch \/ FetchFails \/ CollectFails
           \/ UNCHANGED statsVars
    PROVE  StatsInv'
<1>1. UNCHANGED <<today, listed, published, wiped, known, cache, sampled>>
  BY DEF Begin, Queue, Fetch, FetchFails, CollectFails, Return, sabVars, cacheVars, statsVars
<1>2. DOMAIN sample' \subseteq Servers
  BY DEF StatsInv, StatsTypes, Begin, Queue, Fetch, FetchFails, CollectFails, Return, statsVars
<1>3. /\ queue' \in Workers /\ stats' \in Workers \cup {"fetched"}
      /\ (queue' = "idle") <=> (stats' = "idle")
      /\ told' \in {"nothing", "stats", "error"}
  BY DEF StatsInv, StatsTypes, Begin, Queue, Fetch, FetchFails, CollectFails, Return, statsVars,
         Workers, Idle
<1>4. StatsTypes'
  BY <1>1, <1>2, <1>3 DEF StatsInv, StatsTypes
<1>5. InHand'
  <2>1. CASE Queue \/ UNCHANGED statsVars
    BY <1>1, <2>1 DEF StatsInv, InHand, Queue, statsVars
  <2>2. CASE Fetch
    BY <1>1, <2>2 DEF InHand, Fetch
  <2>3. CASE Begin \/ FetchFails \/ CollectFails
    BY <2>3 DEF InHand, Begin, FetchFails, CollectFails, Return
  <2> QED BY <2>1, <2>2, <2>3
<1> QED
  BY <1>1, <1>4, <1>5, QuietStep DEF StatsInv

-----------------------------------------------------------------------------
(* SABnzbd: the steps of its side *)

LEMMA MidnightInv == StatsInv /\ Midnight => StatsInv'
<1> SUFFICES ASSUME StatsInv, Midnight PROVE StatsInv'
  OBVIOUS
<1>1. /\ UNCHANGED <<listed, queue, stats, told, sample, published, wiped, known, cache, sampled>>
      /\ stats = "idle" /\ today \in Nat /\ today' = today + 1 /\ today' \in Days
  BY DaysFacts DEF Midnight, Idle, cacheVars, StatsInv, StatsTypes
<1>2. StatsTypes'
  BY <1>1 DEF StatsInv, StatsTypes
<1>3. InHand'
  BY <1>1 DEF InHand
<1>4. Listings'
  <2> SUFFICES ASSUME NEW s \in Servers
               PROVE  listed[s].day <= today + 1 /\ cache[s].key <= today + 1
    BY <1>1 DEF StatsInv, Listings
  <2>1. listed[s].day \in Nat /\ cache[s].key \in Nat
    BY ListingFacts, EntryFacts DEF StatsInv, StatsTypes
  <2>2. listed[s].day <= today /\ cache[s].key <= today
    BY DEF StatsInv, Listings
  <2> QED BY <1>1, <2>1, <2>2
<1>5. Samples' /\ CountsEachDayOnce'
  BY <1>1 DEF StatsInv, Samples, CountsEachDayOnce, TriedOn, SuccessOn
<1>6. Behind'
  BY <1>1 DEF StatsInv, Behind
<1> QED
  BY <1>2, <1>3, <1>4, <1>5, <1>6 DEF StatsInv

LEMMA ArticleInv == ASSUME StatsInv, NEW s0 \in Servers, Article(s0) PROVE StatsInv'
<1> DEFINE old == listed[s0]
           now0 == IF old.day = today THEN old ELSE [day |-> today, tried |-> 0, success |-> 0]
           e == cache[s0]
<1>1. UNCHANGED <<today, queue, stats, told, sample, published, wiped, known, cache, sampled>>
      /\ stats = "idle"
  BY DEF Article, Idle, cacheVars
<1>2. PICK got \in {0, 1} :
         /\ now0.tried < MaxArticles
         /\ listed' = [listed EXCEPT ![s0] =
                [day |-> today, tried |-> now0.tried + 1, success |-> now0.success + got]]
  BY DEF Article
<1>3. /\ old \in Listing /\ e \in Entry /\ today \in Days /\ listed \in [Servers -> Listing]
      /\ old.success <= old.tried /\ old.day <= today /\ e.key <= today
      /\ old.day # NoDay => e.key <= old.day
  BY DEF StatsInv, StatsTypes, Listings
<1>4. /\ now0.tried \in 0..MaxArticles /\ now0.success \in 0..MaxArticles
      /\ now0.success <= now0.tried
  BY <1>3, ListingFacts, DaysFacts
<1>5. /\ listed'[s0].day = today /\ listed'[s0].tried = now0.tried + 1
      /\ listed'[s0].success = now0.success + got
      /\ \A s \in Servers \ {s0} : listed'[s] = listed[s]
  BY <1>2, <1>3
<1>6. listed' \in [Servers -> Listing]
  <2>1. /\ now0.tried + 1 \in 0..MaxArticles /\ now0.success + got \in 0..MaxArticles
    BY <1>2, <1>4, DaysFacts
  <2>2. [day |-> today, tried |-> now0.tried + 1, success |-> now0.success + got] \in Listing
    BY <1>3, <2>1 DEF Listing
  <2> QED BY <1>2, <1>3, <2>2
<1>7. StatsTypes'
  BY <1>1, <1>6 DEF StatsInv, StatsTypes
<1>8. InHand'
  BY <1>1 DEF InHand
<1>9. today \in Nat /\ today # NoDay /\ old.day \in Nat /\ e.key \in Nat
  BY <1>3, DaysFacts, ListingFacts, EntryFacts
<1>10. Listings'
  <2> SUFFICES ASSUME NEW s \in Servers
               PROVE  /\ listed'[s].day <= today /\ cache[s].key <= today
                      /\ listed'[s].success <= listed'[s].tried
                      /\ IF listed'[s].day = NoDay THEN listed'[s] = Nothing
                         ELSE cache[s].key <= listed'[s].day
    BY <1>1 DEF Listings
  <2>1. CASE s = s0
    <3>1. now0.success + got <= now0.tried + 1
      BY <1>2, <1>4
    <3> HIDE DEF now0
    <3> QED BY <1>3, <1>5, <1>9, <2>1, <3>1
  <2>2. CASE s # s0
    BY <1>5, <2>2 DEF StatsInv, Listings
  <2> QED BY <2>1, <2>2
<1>11. Samples' /\ CountsEachDayOnce'
  BY <1>1 DEF StatsInv, Samples, CountsEachDayOnce, TriedOn, SuccessOn
<1>12. ASSUME ~ wiped[s0]
       PROVE  /\ e.key # NoDay => listed'[s0].day # NoDay
              /\ e.key = listed'[s0].day => /\ e.triedToday <= listed'[s0].tried
                                            /\ e.successToday <= listed'[s0].success
  <2>1. listed'[s0].day # NoDay
    BY <1>5, <1>9
  <2>2. ASSUME e.key = today
        PROVE  e.triedToday <= now0.tried + 1 /\ e.successToday <= now0.success + got
    <3>1. old.day # NoDay
      BY <1>9, <1>12, <2>2 DEF StatsInv, Behind
    <3>2. old.day = today
      BY <1>3, <1>9, <2>2, <3>1
    <3>3. e.triedToday <= old.tried /\ e.successToday <= old.success
      BY <1>12, <2>2, <3>2 DEF StatsInv, Behind
    <3>4. now0 = old
      BY <3>2
    <3> QED BY <1>3, <3>3, <3>4, ListingFacts, EntryFacts
  <2> QED BY <1>5, <2>1, <2>2
<1>13. Behind'
  <2> SUFFICES ASSUME NEW s \in Servers, ~ wiped[s]
               PROVE  /\ published[s].tried <= GetArticlesTried(cache[s])
                      /\ published[s].success <= GetArticlesSuccess(cache[s])
                      /\ cache[s].key # NoDay => listed'[s].day # NoDay
                      /\ cache[s].key = listed'[s].day =>
                            /\ cache[s].triedToday <= listed'[s].tried
                            /\ cache[s].successToday <= listed'[s].success
    BY <1>1 DEF Behind, GetArticlesTried, GetArticlesSuccess
  <2>1. CASE s = s0
    BY <1>12, <2>1 DEF StatsInv, Behind
  <2>2. CASE s # s0
    BY <1>5, <2>2 DEF StatsInv, Behind
  <2> QED BY <2>1, <2>2
<1> QED
  BY <1>7, <1>8, <1>10, <1>11, <1>13 DEF StatsInv

LEMMA WipeInv == ASSUME StatsInv, NEW s0 \in Servers, Wipe(s0) PROVE StatsInv'
<1>1. /\ UNCHANGED <<today, queue, stats, told, sample, published, known, cache, sampled>>
      /\ stats = "idle"
      /\ listed' = [listed EXCEPT ![s0] = Nothing] /\ wiped' = [wiped EXCEPT ![s0] = TRUE]
  BY DEF Wipe, Idle, cacheVars
<1>2. /\ listed'[s0] = Nothing /\ wiped'[s0]
      /\ \A s \in Servers \ {s0} : listed'[s] = listed[s] /\ wiped'[s] = wiped[s]
  BY <1>1 DEF StatsInv, StatsTypes
<1>3. listed' \in [Servers -> Listing]
  BY <1>1, NothingFacts DEF StatsInv, StatsTypes
<1>4. wiped' \in [Servers -> BOOLEAN]
  BY <1>1 DEF StatsInv, StatsTypes
<1>5. StatsTypes'
  BY <1>1, <1>3, <1>4 DEF StatsInv, StatsTypes
<1>6. InHand'
  BY <1>1 DEF InHand
<1>7. Listings'
  BY <1>1, <1>2, NothingFacts, DaysFacts DEF StatsInv, StatsTypes, Listings
<1>8. Samples' /\ CountsEachDayOnce'
  BY <1>1 DEF StatsInv, Samples, CountsEachDayOnce, TriedOn, SuccessOn
<1>9. Behind'
  BY <1>1, <1>2 DEF StatsInv, Behind, GetArticlesTried, GetArticlesSuccess
<1> QED
  BY <1>5, <1>6, <1>7, <1>8, <1>9 DEF StatsInv

-----------------------------------------------------------------------------
(* SABnzbd: a sample is counted *)

\* What UpdateEntry makes of an entry that goes on.
LEMMA UpdatedEntry ==
    ASSUME NEW e \in Entry, NEW l \in Listing, ~ Lost(e, l)
    PROVE  /\ UpdateEntry(e, l) \in Entry
           /\ UpdateEntry(e, l).key = l.day
           /\ UpdateEntry(e, l).triedToday = l.tried
           /\ UpdateEntry(e, l).successToday = l.success
           /\ GetArticlesTried(UpdateEntry(e, l)) = l.tried + e.triedBefore
                    + (IF l.day = e.key THEN 0 ELSE e.triedToday)
           /\ GetArticlesSuccess(UpdateEntry(e, l)) = l.success + e.successBefore
                    + (IF l.day = e.key THEN 0 ELSE e.successToday)
<1>1. /\ e.key \in Days \cup {NoDay} /\ e.triedBefore \in Nat /\ e.triedToday \in Nat
      /\ e.successBefore \in Nat /\ e.successToday \in Nat
      /\ l.day \in Days \cup {NoDay} /\ l.tried \in Nat /\ l.success \in Nat
  BY EntryFacts, ListingFacts
<1>2. CASE l.day = e.key
  <2>1. UpdateEntry(e, l) = [e EXCEPT !.triedToday = l.tried, !.successToday = l.success]
    BY <1>2 DEF UpdateEntry
  <2>2. UpdateEntry(e, l) = [key |-> l.day,
                             triedBefore |-> e.triedBefore, triedToday |-> l.tried,
                             successBefore |-> e.successBefore, successToday |-> l.success]
    BY <1>2, <2>1 DEF Entry
  <2> QED BY <1>1, <1>2, <2>2 DEF Entry, GetArticlesTried, GetArticlesSuccess
<1>3. CASE l.day # e.key
  <2>1. UpdateEntry(e, l) = [Rolled(e, l) EXCEPT !.triedToday = l.tried, !.successToday = l.success]
    BY <1>3 DEF UpdateEntry
  <2>2. Rolled(e, l) = [e EXCEPT !.key = l.day, !.triedBefore = e.triedBefore + e.triedToday,
                                 !.successBefore = e.successBefore + e.successToday]
    BY DEF Rolled
  <2>3. UpdateEntry(e, l) = [key |-> l.day,
                             triedBefore |-> e.triedBefore + e.triedToday,
                             triedToday |-> l.tried,
                             successBefore |-> e.successBefore + e.successToday,
                             successToday |-> l.success]
    BY <2>1, <2>2 DEF Entry
  <2> QED BY <1>1, <1>3, <2>3 DEF Entry, GetArticlesTried, GetArticlesSuccess
<1> QED
  BY <1>2, <1>3

\* The sum over the days, when one of them has another value.
LEMMA DayCounted ==
    ASSUME NEW F \in [Days -> Nat], NEW G \in [Days -> Nat],
           NEW day, \A d \in Days : d # day => G[d] = F[d]
    PROVE  /\ SumFunction(F) \in Int
           /\ day \in Days => SumFunction(G) = SumFunction(F) + (G[day] - F[day])
           /\ day \notin Days => SumFunction(G) = SumFunction(F)
<1>1. IsFiniteSet(Days) /\ F \in [Days -> Int] /\ G \in [Days -> Int] /\ 1 \in Days
  BY DaysFacts
<1>2. SumFunction(F) \in Int
  BY <1>1, SumChanges
<1>3. ASSUME day \in Days PROVE SumFunction(G) = SumFunction(F) + (G[day] - F[day])
  <2>1. \A d \in Days \ {day} : G[d] = F[d]
    OBVIOUS
  <2> QED BY <1>1, <1>3, <2>1, SumChanges
<1>4. ASSUME day \notin Days PROVE G = F
  BY <1>4
<1> QED
  BY <1>2, <1>3, <1>4

\* An entry c that is up to the listing l, and the samples m it counted.
UpTo(c, m, l) ==
    /\ c \in Entry /\ m \in [Days -> Listing]
    /\ c.key = l.day /\ c.triedToday = l.tried /\ c.successToday = l.success
    /\ l.day # NoDay => m[l.day] = l
    /\ \A d \in Days : m[d].success <= m[d].tried /\ (d > c.key => m[d] = Nothing)
    /\ GetArticlesTried(c) = SumFunction([d \in Days |-> m[d].tried])
    /\ GetArticlesSuccess(c) = SumFunction([d \in Days |-> m[d].success])

\* A server in the sample, when its listing is counted.
LEMMA SampleCounted ==
    ASSUME StatsInv, Update, NEW s \in DOMAIN sample
    PROVE  /\ s \in Servers
           /\ UpTo(cache'[s], sampled'[s], listed[s])
           /\ ~ wiped[s] => /\ GetArticlesTried(cache[s]) <= GetArticlesTried(cache'[s])
                            /\ GetArticlesSuccess(cache[s]) <= GetArticlesSuccess(cache'[s])
<1> DEFINE l == listed[s]
           e == cache[s]
           old == sampled[s]
           new == [d \in Days |-> IF d = l.day THEN l ELSE old[d]]
<1>1. s \in Servers /\ sample[s] = l
  BY DEF StatsInv, StatsTypes, InHand, Update
<1>2. /\ cache'[s] = UpdateEntry(e, l)
      /\ sampled'[s] = IF Lost(e, l) THEN NoSamples ELSE new
  BY <1>1 DEF Update
<1>3. e \in Entry /\ l \in Listing /\ old \in [Days -> Listing]
  BY <1>1 DEF StatsInv, StatsTypes
<1>4. /\ l.success <= l.tried
      /\ IF l.day = NoDay THEN l = Nothing ELSE e.key <= l.day
  BY <1>1 DEF StatsInv, Listings
<1>5. /\ \A d \in Days : old[d].success <= old[d].tried /\ (d > e.key => old[d] = Nothing)
      /\ e.triedToday = (IF e.key = NoDay THEN 0 ELSE old[e.key].tried)
      /\ e.successToday = (IF e.key = NoDay THEN 0 ELSE old[e.key].success)
  BY <1>1 DEF StatsInv, Samples
<1>6. /\ GetArticlesTried(e) = SumFunction([d \in Days |-> old[d].tried])
      /\ GetArticlesSuccess(e) = SumFunction([d \in Days |-> old[d].success])
  BY <1>1 DEF StatsInv, CountsEachDayOnce, TriedOn, SuccessOn
<1>7. ~ wiped[s] => /\ e.key # NoDay => l.day # NoDay
                    /\ e.key = l.day => e.triedToday <= l.tried /\ e.successToday <= l.success
  BY <1>1 DEF StatsInv, Behind
<1>8. CASE Lost(e, l)
  <2>1. cache'[s] = Fresh /\ sampled'[s] = NoSamples
    BY <1>2, <1>8 DEF UpdateEntry
  <2>2. l.day = NoDay /\ l = Nothing /\ wiped[s]
    BY <1>4, <1>7, <1>8, <1>1 DEF Lost, StatsInv, StatsTypes
  <2>3. Nothing.success <= Nothing.tried
    BY NothingFacts
  <2>4. UpTo(Fresh, NoSamples, Nothing)
    BY <2>3, NothingFacts, FreshFacts, NothingSampled DEF UpTo
  <2> QED BY <1>1, <2>1, <2>2, <2>4
<1>9. CASE ~ Lost(e, l)
  <2>1. cache'[s] = UpdateEntry(e, l) /\ sampled'[s] = new
    BY <1>2, <1>9
  <2>2. /\ UpdateEntry(e, l) \in Entry
        /\ UpdateEntry(e, l).key = l.day
        /\ UpdateEntry(e, l).triedToday = l.tried
        /\ UpdateEntry(e, l).successToday = l.success
        /\ GetArticlesTried(UpdateEntry(e, l)) = l.tried + e.triedBefore
                 + (IF l.day = e.key THEN 0 ELSE e.triedToday)
        /\ GetArticlesSuccess(UpdateEntry(e, l)) = l.success + e.successBefore
                 + (IF l.day = e.key THEN 0 ELSE e.successToday)
    BY <1>3, <1>9, UpdatedEntry
  <2>3. /\ l.day \in Days \cup {NoDay} /\ l.day \in Nat /\ l.tried \in Nat /\ l.success \in Nat
        /\ e.key \in Days \cup {NoDay} /\ e.key \in Nat
        /\ e.triedBefore \in Nat /\ e.triedToday \in Nat
        /\ e.successBefore \in Nat /\ e.successToday \in Nat
        /\ GetArticlesTried(e) = e.triedBefore + e.triedToday
        /\ GetArticlesSuccess(e) = e.successBefore + e.successToday
    BY <1>3, ListingFacts, EntryFacts
  <2>4. /\ l.day = NoDay => /\ e.key = NoDay /\ l.tried = 0 /\ l.success = 0
                            /\ e.triedToday = 0 /\ e.successToday = 0
        /\ l.day # NoDay => e.key <= l.day /\ l.day \in Days
        /\ NoDay \notin Days
    BY <1>4, <1>5, <1>9, <2>3, NothingFacts, DaysFacts DEF Lost
  <2>5. new \in [Days -> Listing]
    BY <1>3
  <2>6. l.day # NoDay => new[l.day] = l
    BY <2>3
  <2>7. ASSUME NEW d \in Days
        PROVE  new[d].success <= new[d].tried /\ (d > l.day => new[d] = Nothing)
    <3>1. CASE d = l.day
      BY <1>4, <2>3, <3>1
    <3>2. CASE d # l.day
      <4>1. new[d] = old[d]
        BY <3>2
      <4>2. d > l.day => d > e.key
        BY <2>3, <2>4, DaysFacts
      <4> QED BY <1>5, <4>1, <4>2
    <3> QED BY <3>1, <3>2
  <2>8. \A d \in Days : old[d].tried \in Nat /\ old[d].success \in Nat
    BY <1>3, ListingFacts
  <2>9. SumFunction([d \in Days |-> new[d].tried]) = GetArticlesTried(UpdateEntry(e, l))
    <3>1. PICK F, G : F = [d \in Days |-> old[d].tried] /\ G = [d \in Days |-> new[d].tried]
      OBVIOUS
    <3>2. F \in [Days -> Nat] /\ G \in [Days -> Nat]
      BY <2>3, <2>8, <3>1
    <3>3. SumFunction(F) = e.triedBefore + e.triedToday
      BY <1>6, <2>3, <3>1
    <3>4. /\ \A d \in Days : d # l.day => G[d] = F[d]
          /\ l.day \in Days => G[l.day] = l.tried
      BY <3>1
    <3>5. l.day \in Days /\ l.day = e.key => F[l.day] = e.triedToday
      BY <1>5, <2>4, <3>1
    <3>6. l.day \in Days /\ l.day # e.key => F[l.day] = 0
      <4>1. l.day \in Days /\ l.day # e.key => l.day > e.key
        BY <2>3, <2>4
      <4> QED BY <1>5, <3>1, <4>1, NothingFacts
    <3> HIDE DEF new, l, e, old
    <3>7. /\ l.day \in Days => SumFunction(G) = SumFunction(F) + (G[l.day] - F[l.day])
          /\ l.day \notin Days => SumFunction(G) = SumFunction(F)
      BY <3>2, <3>4, DayCounted
    <3>8. SumFunction(G) = l.tried + e.triedBefore + (IF l.day = e.key THEN 0 ELSE e.triedToday)
      BY <2>3, <2>4, <3>3, <3>4, <3>5, <3>6, <3>7
    <3> QED BY <2>2, <3>1, <3>8
  <2>10. SumFunction([d \in Days |-> new[d].success]) = GetArticlesSuccess(UpdateEntry(e, l))
    <3>1. PICK F, G : F = [d \in Days |-> old[d].success] /\ G = [d \in Days |-> new[d].success]
      OBVIOUS
    <3>2. F \in [Days -> Nat] /\ G \in [Days -> Nat]
      BY <2>3, <2>8, <3>1
    <3>3. SumFunction(F) = e.successBefore + e.successToday
      BY <1>6, <2>3, <3>1
    <3>4. /\ \A d \in Days : d # l.day => G[d] = F[d]
          /\ l.day \in Days => G[l.day] = l.success
      BY <3>1
    <3>5. l.day \in Days /\ l.day = e.key => F[l.day] = e.successToday
      BY <1>5, <2>4, <3>1
    <3>6. l.day \in Days /\ l.day # e.key => F[l.day] = 0
      <4>1. l.day \in Days /\ l.day # e.key => l.day > e.key
        BY <2>3, <2>4
      <4> QED BY <1>5, <3>1, <4>1, NothingFacts
    <3> HIDE DEF new, l, e, old
    <3>7. /\ l.day \in Days => SumFunction(G) = SumFunction(F) + (G[l.day] - F[l.day])
          /\ l.day \notin Days => SumFunction(G) = SumFunction(F)
      BY <3>2, <3>4, DayCounted
    <3>8. SumFunction(G) = l.success + e.successBefore + (IF l.day = e.key THEN 0 ELSE e.successToday)
      BY <2>3, <2>4, <3>3, <3>4, <3>5, <3>6, <3>7
    <3> QED BY <2>2, <3>1, <3>8
  <2>11. ASSUME ~ wiped[s]
         PROVE  /\ GetArticlesTried(e) <= GetArticlesTried(UpdateEntry(e, l))
                /\ GetArticlesSuccess(e) <= GetArticlesSuccess(UpdateEntry(e, l))
    <3>1. e.key = l.day => e.triedToday <= l.tried /\ e.successToday <= l.success
      BY <1>7, <2>11
    <3> HIDE DEF e, l
    <3> QED BY <2>2, <2>3, <3>1
  <2>12. UpTo(UpdateEntry(e, l), new, l)
    <3> HIDE DEF e, l, new
    <3> QED BY <2>2, <2>5, <2>6, <2>7, <2>9, <2>10 DEF UpTo
  <2> HIDE DEF new
  <2> QED BY <1>1, <2>1, <2>11, <2>12
<1> QED
  BY <1>8, <1>9

LEMMA UpdateInv == StatsInv /\ Update => StatsInv'
<1> SUFFICES ASSUME StatsInv, Update PROVE StatsInv'
  OBVIOUS
<1>1. /\ UNCHANGED <<today, listed, queue, told, sample, published, wiped>>
      /\ stats = "fetched" /\ stats' = "done" /\ known' = known \cup DOMAIN sample
  BY DEF Update, sabVars
<1>2. \A s \in DOMAIN sample : s \in Servers /\ sample[s] = listed[s]
  BY <1>1 DEF StatsInv, StatsTypes, InHand
<1>3. \A s \in DOMAIN sample : UpTo(cache'[s], sampled'[s], listed[s])
  BY SampleCounted
<1>4. \A s \in Servers \ DOMAIN sample : cache'[s] = cache[s] /\ sampled'[s] = sampled[s]
  BY DEF Update
<1>5. cache' \in [Servers -> Entry]
  <2>1. \A s \in Servers : cache'[s] \in Entry
    BY <1>3, <1>4 DEF UpTo, StatsInv, StatsTypes
  <2>2. cache' = [s \in Servers |-> cache'[s]]
    BY DEF Update
  <2> QED BY <2>1, <2>2
<1>6. sampled' \in [Servers -> [Days -> Listing]]
  <2>1. \A s \in Servers : sampled'[s] \in [Days -> Listing]
    BY <1>3, <1>4 DEF UpTo, StatsInv, StatsTypes
  <2>2. sampled' = [s \in Servers |-> sampled'[s]]
    BY DEF Update
  <2> QED BY <2>1, <2>2
<1>7. StatsTypes'
  <2>1. /\ queue' \in Workers /\ stats' \in Workers
        /\ queue' # "idle" /\ stats' # "idle"
    BY <1>1 DEF StatsInv, StatsTypes, Workers
  <2>2. known' \subseteq Servers /\ DOMAIN sample' \subseteq Servers
    BY <1>1, <1>2 DEF StatsInv, StatsTypes
  <2>3. /\ today' \in Days /\ listed' \in [Servers -> Listing]
        /\ told' \in {"nothing", "stats", "error"}
        /\ published' \in [Servers -> [tried : Nat, success : Nat]]
    BY <1>1 DEF StatsInv, StatsTypes
  <2>4. wiped' \in [Servers -> BOOLEAN]
    BY <1>1 DEF StatsInv, StatsTypes
  <2> QED BY <1>5, <1>6, <2>1, <2>2, <2>3, <2>4 DEF StatsTypes
<1>8. InHand'
  BY <1>1, <1>2, <1>3 DEF InHand, UpTo
<1>9. Listings'
  <2> SUFFICES ASSUME NEW s \in Servers
               PROVE  /\ listed[s].day <= today /\ cache'[s].key <= today
                      /\ listed[s].success <= listed[s].tried
                      /\ IF listed[s].day = NoDay THEN listed[s] = Nothing
                         ELSE cache'[s].key <= listed[s].day
    BY <1>1 DEF Listings
  <2>1. CASE s \in DOMAIN sample
    <3>1. cache'[s].key = listed[s].day
      BY <1>3, <2>1 DEF UpTo
    <3>2. listed[s].day \in Nat
      BY ListingFacts DEF StatsInv, StatsTypes
    <3> QED BY <3>1, <3>2 DEF StatsInv, Listings
  <2>2. CASE s \notin DOMAIN sample
    BY <1>4, <2>2 DEF StatsInv, Listings
  <2> QED BY <2>1, <2>2
<1>10. Samples'
  <2> SUFFICES ASSUME NEW s \in Servers
               PROVE  /\ \A d \in Days : /\ sampled'[s][d].success <= sampled'[s][d].tried
                                         /\ d > cache'[s].key => sampled'[s][d] = Nothing
                      /\ cache'[s].triedToday =
                           (IF cache'[s].key = NoDay THEN 0 ELSE sampled'[s][cache'[s].key].tried)
                      /\ cache'[s].successToday =
                           (IF cache'[s].key = NoDay THEN 0 ELSE sampled'[s][cache'[s].key].success)
    BY DEF Samples
  <2>1. CASE s \in DOMAIN sample
    <3>1. UpTo(cache'[s], sampled'[s], listed[s])
      BY <1>3, <2>1
    <3>2. listed[s].day = NoDay => listed[s].tried = 0 /\ listed[s].success = 0
      BY NothingFacts DEF StatsInv, Listings
    <3> QED BY <3>1, <3>2 DEF UpTo
  <2>2. CASE s \notin DOMAIN sample
    BY <1>4, <2>2 DEF StatsInv, Samples
  <2> QED BY <2>1, <2>2
<1>11. CountsEachDayOnce'
  <2> SUFFICES ASSUME NEW s \in Servers
               PROVE  /\ GetArticlesTried(cache'[s]) = SumFunction([d \in Days |-> sampled'[s][d].tried])
                      /\ GetArticlesSuccess(cache'[s]) = SumFunction([d \in Days |-> sampled'[s][d].success])
    BY DEF CountsEachDayOnce, TriedOn, SuccessOn, GetArticlesTried, GetArticlesSuccess
  <2>1. CASE s \in DOMAIN sample
    BY <1>3, <2>1 DEF UpTo
  <2>2. CASE s \notin DOMAIN sample
    BY <1>4, <2>2 DEF StatsInv, CountsEachDayOnce, TriedOn, SuccessOn
  <2> QED BY <2>1, <2>2
<1>12. Behind'
  <2> SUFFICES ASSUME NEW s \in Servers, ~ wiped[s]
               PROVE  /\ published[s].tried <= GetArticlesTried(cache'[s])
                      /\ published[s].success <= GetArticlesSuccess(cache'[s])
                      /\ cache'[s].key # NoDay => listed[s].day # NoDay
                      /\ cache'[s].key = listed[s].day =>
                            /\ cache'[s].triedToday <= listed[s].tried
                            /\ cache'[s].successToday <= listed[s].success
    BY <1>1 DEF Behind, GetArticlesTried, GetArticlesSuccess
  <2>1. CASE s \in DOMAIN sample
    <3>1. UpTo(cache'[s], sampled'[s], listed[s])
      BY <1>3, <2>1
    <3>2. /\ GetArticlesTried(cache[s]) <= GetArticlesTried(cache'[s])
          /\ GetArticlesSuccess(cache[s]) <= GetArticlesSuccess(cache'[s])
      BY <2>1, SampleCounted
    <3>3. /\ published[s].tried <= GetArticlesTried(cache[s])
          /\ published[s].success <= GetArticlesSuccess(cache[s])
      BY DEF StatsInv, Behind
    <3>4. /\ published[s].tried \in Nat /\ published[s].success \in Nat
          /\ cache[s] \in Entry /\ cache'[s] \in Entry /\ listed[s] \in Listing
      BY <1>5 DEF StatsInv, StatsTypes
    <3>5. /\ GetArticlesTried(cache[s]) \in Nat /\ GetArticlesSuccess(cache[s]) \in Nat
          /\ GetArticlesTried(cache'[s]) \in Nat /\ GetArticlesSuccess(cache'[s]) \in Nat
          /\ listed[s].tried \in Nat /\ listed[s].success \in Nat
      BY <3>4, EntryFacts, ListingFacts
    <3>6. /\ published[s].tried <= GetArticlesTried(cache'[s])
          /\ published[s].success <= GetArticlesSuccess(cache'[s])
      BY <3>2, <3>3, <3>4, <3>5
    <3>7. /\ cache'[s].key = listed[s].day
          /\ cache'[s].triedToday <= listed[s].tried /\ cache'[s].successToday <= listed[s].success
      BY <3>1, <3>5 DEF UpTo
    <3> QED BY <3>6, <3>7
  <2>2. CASE s \notin DOMAIN sample
    BY <1>4, <2>2 DEF StatsInv, Behind
  <2> QED BY <2>1, <2>2
<1> QED
  BY <1>7, <1>8, <1>9, <1>10, <1>11, <1>12 DEF StatsInv

\* What Publish tells of a server.
LEMMA Told ==
    ASSUME StatsInv, Publish, NEW s \in Servers
    PROVE  /\ published'[s].tried = IF s \in known THEN GetArticlesTried(cache[s])
                                     ELSE published[s].tried
           /\ published'[s].success = IF s \in known THEN GetArticlesSuccess(cache[s])
                                       ELSE published[s].success
           /\ published'[s] \in [tried : Nat, success : Nat]
           /\ GetArticlesTried(cache[s]) \in Nat /\ GetArticlesSuccess(cache[s]) \in Nat
<1>1. cache[s] \in Entry /\ published[s] \in [tried : Nat, success : Nat]
  BY DEF StatsInv, StatsTypes
<1>2. GetArticlesTried(cache[s]) \in Nat /\ GetArticlesSuccess(cache[s]) \in Nat
  BY <1>1, EntryFacts
<1>3. published'[s] = IF s \in known THEN [tried   |-> GetArticlesTried(cache[s]),
                                           success |-> GetArticlesSuccess(cache[s])]
                      ELSE published[s]
  BY DEF Publish
<1> QED
  BY <1>1, <1>2, <1>3

LEMMA PublishInv == StatsInv /\ Publish => StatsInv'
<1> SUFFICES ASSUME StatsInv, Publish PROVE StatsInv'
  OBVIOUS
<1>1. /\ UNCHANGED <<today, listed, known, cache, sampled>>
      /\ queue' = "idle" /\ stats' = "idle" /\ told' = "stats" /\ sample' = <<>>
  BY DEF Publish, Return, sabVars, cacheVars
<1>2. stats = "done"
  BY DEF Publish, WaitOver, WaitFails
<1>3. published' \in [Servers -> [tried : Nat, success : Nat]]
  <2>1. \A s \in Servers : published'[s] \in [tried : Nat, success : Nat]
    BY Told
  <2>2. published' = [s \in Servers |-> published'[s]]
    BY DEF Publish
  <2> QED BY <2>1, <2>2
<1>4. wiped' \in [Servers -> BOOLEAN]
  BY DEF Publish
<1>5. StatsTypes'
  BY <1>1, <1>3, <1>4 DEF StatsInv, StatsTypes, Workers
<1>6. InHand'
  BY <1>1 DEF InHand
<1>7. Listings' /\ Samples' /\ CountsEachDayOnce'
  BY <1>1 DEF StatsInv, Listings, Samples, CountsEachDayOnce, TriedOn, SuccessOn
<1>8. Behind'
  <2> SUFFICES ASSUME NEW s \in Servers, ~ wiped'[s]
               PROVE  /\ published'[s].tried <= GetArticlesTried(cache[s])
                      /\ published'[s].success <= GetArticlesSuccess(cache[s])
                      /\ cache[s].key # NoDay => listed[s].day # NoDay
                      /\ cache[s].key = listed[s].day =>
                            /\ cache[s].triedToday <= listed[s].tried
                            /\ cache[s].successToday <= listed[s].success
    BY <1>1 DEF Behind, GetArticlesTried, GetArticlesSuccess
  <2>1. ~ wiped[s] \/ s \in DOMAIN sample
    BY DEF Publish
  <2>2. CASE s \in DOMAIN sample
    <3>1. /\ s \in known /\ cache[s].key = listed[s].day
          /\ cache[s].triedToday = listed[s].tried /\ cache[s].successToday = listed[s].success
      BY <1>2, <2>2 DEF StatsInv, InHand
    <3>2. listed[s].tried \in Nat /\ listed[s].success \in Nat
      BY ListingFacts DEF StatsInv, StatsTypes
    <3> QED BY <3>1, <3>2, Told
  <2>3. CASE ~ wiped[s]
    <3>1. /\ published[s].tried <= GetArticlesTried(cache[s])
          /\ published[s].success <= GetArticlesSuccess(cache[s])
          /\ cache[s].key # NoDay => listed[s].day # NoDay
          /\ cache[s].key = listed[s].day => /\ cache[s].triedToday <= listed[s].tried
                                             /\ cache[s].successToday <= listed[s].success
      BY <2>3 DEF StatsInv, Behind
    <3> QED BY <3>1, Told
  <2> QED BY <2>1, <2>2, <2>3
<1> QED
  BY <1>5, <1>6, <1>7, <1>8 DEF StatsInv

LEMMA StatsNextInv == StatsInv /\ [StatsNext]_statsVars => StatsInv'
<1> SUFFICES ASSUME StatsInv, [StatsNext]_statsVars PROVE StatsInv'
  OBVIOUS
<1>1. CASE Begin \/ Queue \/ Fetch \/ FetchFails \/ CollectFails \/ UNCHANGED statsVars
  BY <1>1, QuietSteps
<1>2. CASE Update
  BY <1>2, UpdateInv
<1>3. CASE Publish
  BY <1>3, PublishInv
<1>4. CASE Midnight
  BY <1>4, MidnightInv
<1>5. ASSUME NEW s \in Servers, Article(s) PROVE StatsInv'
  BY <1>5, ArticleInv
<1>6. ASSUME NEW s \in Servers, Wipe(s) PROVE StatsInv'
  BY <1>6, WipeInv
<1> QED
  BY <1>1, <1>2, <1>3, <1>4, <1>5, <1>6 DEF StatsNext, Collect

-----------------------------------------------------------------------------
(* SABnzbd: the theorems *)

\* The samples, the cache, the listings and the response in hand fit each other
\* (cache.go, sabnzbd/collector/collector.go).
THEOREM StatsInvariance == StatsSpec => []StatsInv
  BY StatsInitInv, StatsNextInv, PTL DEF StatsSpec

\* "accumulates per-server statistics across scrapes so counters survive SABnzbd's
\* daily rollover" (cache.go:61-62): for any number of servers, days and articles.
THEOREM DaysCountedOnce == StatsSpec => []CountsEachDayOnce
  BY StatsInvariance, PTL DEF StatsInv

\* A day has MaxArticles at most: the counters stay below all of them.
LEMMA TotalsBounded ==
    ASSUME StatsInv, NEW s \in Servers
    PROVE  /\ GetArticlesTried(cache[s]) \in 0..(MaxDay * MaxArticles)
           /\ GetArticlesSuccess(cache[s]) \in 0..GetArticlesTried(cache[s])
<1>1. PICK F, G, H : /\ F = [d \in Days |-> sampled[s][d].tried]
                     /\ G = [d \in Days |-> sampled[s][d].success]
                     /\ H = [d \in Days |-> MaxArticles]
  OBVIOUS
<1>2. GetArticlesTried(cache[s]) = SumFunction(F) /\ GetArticlesSuccess(cache[s]) = SumFunction(G)
  BY <1>1 DEF StatsInv, CountsEachDayOnce, TriedOn, SuccessOn
<1>3. \A d \in Days : sampled[s][d] \in Listing /\ sampled[s][d].success <= sampled[s][d].tried
  BY DEF StatsInv, StatsTypes, Samples
<1>4. \A d \in Days : /\ sampled[s][d].tried \in Nat /\ sampled[s][d].success \in Nat
                      /\ sampled[s][d].tried <= MaxArticles
  BY <1>3, ListingFacts, DaysFacts
<1>5. /\ F \in [Days -> Int] /\ G \in [Days -> Int] /\ H \in [Days -> Int]
      /\ \A d \in Days : G[d] <= F[d] /\ F[d] <= H[d]
  BY <1>1, <1>3, <1>4, DaysFacts
<1>6. IsFiniteSet(Days) /\ Cardinality(Days) = MaxDay /\ MaxArticles \in Int
  BY DaysFacts
<1>7. SumFunction(F) \in Int /\ SumFunction(H) \in Int /\ SumFunction(F) <= SumFunction(H)
  BY <1>5, <1>6, SumGrows
<1>8. SumFunction(G) \in Int /\ SumFunction(G) <= SumFunction(F)
  BY <1>5, <1>6, SumGrows
<1>9. SumFunction(H) = MaxDay * MaxArticles
  <2>1. SumFunction([d \in Days |-> MaxArticles]) = Cardinality(Days) * MaxArticles
    BY <1>6, SumOfOneValue, Zenon
  <2> QED BY <1>1, <1>6, <2>1
<1>10. GetArticlesTried(cache[s]) \in Nat /\ GetArticlesSuccess(cache[s]) \in Nat
  BY EntryFacts DEF StatsInv, StatsTypes
<1> HIDE DEF StatsInv
<1> QED
  BY <1>2, <1>7, <1>8, <1>9, <1>10

\* StatsTypeOK, for every instance.
THEOREM StatsTypeCorrect == StatsSpec => []StatsTypeOK
<1>1. StatsInv => StatsTypeOK
  <2> SUFFICES ASSUME StatsInv PROVE StatsTypeOK
    OBVIOUS
  <2>1. \A s \in Servers : /\ cache[s].key \in Days \cup {NoDay}
                           /\ published[s].tried \in Nat /\ published[s].success \in Nat
    BY DEF StatsInv, StatsTypes, Entry
  <2>2. /\ today \in Days /\ listed \in [Servers -> Listing]
        /\ queue \in Workers /\ stats \in Workers \cup {"fetched"}
        /\ queue = "idle" <=> stats = "idle"
        /\ told \in {"nothing", "stats", "error"} /\ known \subseteq Servers
    BY DEF StatsInv, StatsTypes
  <2> QED BY <2>1, <2>2, TotalsBounded DEF StatsTypeOK
<1> QED
  BY <1>1, StatsInvariance, PTL

\* What a step may do to the exported counters.
Follows ==
    /\ \A s \in Servers : Drops(s) => wiped[s]
    /\ told' = "stats" /\ told # "stats" => \A s \in DOMAIN sample : Tells(s)

LEMMA StatsNextFollows == StatsInv /\ [StatsNext]_statsVars => [Follows]_statsVars
<1> SUFFICES ASSUME StatsInv, StatsNext PROVE Follows
  OBVIOUS
<1>1. CASE Publish
  <2>1. stats = "done"
    BY <1>1 DEF Publish, WaitOver, WaitFails
  <2>2. ASSUME NEW s \in Servers, ~ wiped[s] PROVE ~ Drops(s)
    <3>1. /\ published[s].tried <= GetArticlesTried(cache[s])
          /\ published[s].success <= GetArticlesSuccess(cache[s])
      BY <2>2 DEF StatsInv, Behind
    <3>2. published[s].tried \in Nat /\ published[s].success \in Nat
      BY DEF StatsInv, StatsTypes
    <3>3. /\ published[s].tried <= published'[s].tried /\ published[s].success <= published'[s].success
          /\ published'[s].tried \in Nat /\ published'[s].success \in Nat
      BY <1>1, <3>1, <3>2, Told
    <3> QED BY <3>2, <3>3 DEF Drops
  <2>3. ASSUME NEW s \in DOMAIN sample PROVE Tells(s)
    <3>1. /\ s \in Servers /\ s \in known /\ sample[s] = listed[s]
          /\ listed[s].day # NoDay => sampled[s][listed[s].day] = listed[s]
      BY <2>1 DEF StatsInv, StatsTypes, InHand
    <3>2. published'[s] = [tried   |-> GetArticlesTried(cache[s]),
                           success |-> GetArticlesSuccess(cache[s])]
      BY <1>1, <3>1 DEF Publish
    <3> QED BY <3>1, <3>2 DEF Tells
  <2> QED BY <2>2, <2>3 DEF Follows
<1>2. CASE ~ Publish
  <2>1. published' = published /\ (told' # "stats" \/ told' = told)
    BY <1>2 DEF StatsNext, Collect, Article, Wipe, Midnight, Begin, Queue, Fetch, FetchFails,
                Update, CollectFails, Return
  <2>2. \A s \in Servers : ~ Drops(s)
    <3> SUFFICES ASSUME NEW s \in Servers PROVE ~ Drops(s)
      OBVIOUS
    <3>1. published[s].tried \in Nat /\ published[s].success \in Nat
      BY DEF StatsInv, StatsTypes
    <3> QED BY <2>1, <3>1 DEF Drops
  <2> QED BY <2>1, <2>2 DEF Follows
<1> QED
  BY <1>1, <1>2

\* An exported counter goes down only when SABnzbd lost its history, and a collection that
\* tells counters tells those of its own sample (collector.go).
THEOREM CountersFollow == StatsSpec => PublishedFollows
<1>1. StatsSpec => [][Follows]_statsVars
  BY StatsInvariance, StatsNextFollows, PTL DEF StatsSpec
<1> QED
  BY <1>1 DEF PublishedFollows, Follows

-----------------------------------------------------------------------------
(* Prowlarr: the inductive invariant *)

Mutex == \A c \in Collections : stage[c] # "idle" <=> statsMu = c

Windows ==
    \A c \in Collections : stage[c] # "idle" =>
        window[c].start = lastStatUpdate /\ lastStatUpdate <= window[c].end

Answers == \A c \in Collections : stage[c] = "answered" => answer[c] = Happened(Asked(window[c]))

ProwlarrInv == TypeOK /\ Mutex /\ Windows /\ Answers /\ EachEventOnce

\* Rounding to seconds goes down, and keeps the order.
LEMMA InSecondsBelow ==
    ASSUME NEW t \in Nat
    PROVE  InSeconds(t) \in Nat /\ InSeconds(t) <= t
  BY ProwlarrAssumption DEF InSeconds

LEMMA InSecondsMonotone ==
    ASSUME NEW t \in Nat, NEW u \in Nat, t <= u
    PROVE  InSeconds(t) <= InSeconds(u)
  BY ProwlarrAssumption DEF InSeconds

\* No event happens in a window that ended: what Prowlarr told of it stays true.
LEMMA HappenedStays ==
    ASSUME ProwlarrInv, Happen, NEW c \in Collections
    PROVE  Happened(Asked(window[c])) = Happened(Asked(window[c]))'
  <1> DEFINE w == Asked(window[c])
  <1>1. window[c].end \in Nat /\ window[c].end <= now /\ now \in Nat
    BY ProwlarrAssumption DEF ProwlarrInv, TypeOK, Ticks
  <1>2. w.end = InSeconds(window[c].end)
    BY DEF Asked
  <1>3. w.end \in Nat /\ w.end <= now
    BY <1>1, <1>2, InSecondsBelow
  <1>4. window' = window /\ events' = events \cup {now}
    BY DEF Happen, collectionVars
  <1>5. Asked(window[c])' = w
    BY <1>4 DEF Asked, InSeconds
  <1> HIDE DEF w
  <1>6. ~ (now < w.end)
    BY <1>1, <1>3
  <1>7. {e \in events : w.start <= e /\ e < w.end} = {e \in events' : w.start <= e /\ e < w.end}
    BY <1>4, <1>6
  <1> QED
    BY <1>5, <1>7 DEF Happened, w

\* The exporter starts with nothing added, up to its start or the backfill.
LEMMA ProwlarrInitInv == Init => ProwlarrInv
  <1> SUFFICES ASSUME Init PROVE ProwlarrInv
    OBVIOUS
  <1>1. TypeOK
    BY ProwlarrAssumption DEF Init, TypeOK, Ticks, NoWindow
  <1>2. Mutex /\ Windows /\ Answers
    BY ProwlarrAssumption DEF Init, Mutex, Windows, Answers
  <1>3. EachEventOnce
    <2> SUFFICES ASSUME NEW e \in Ticks
                 PROVE  ~ (InSeconds(since) <= e /\ e < InSeconds(lastStatUpdate)) /\ counted[e] = 0
      BY DEF EachEventOnce
    <2>1. since = lastStatUpdate /\ since \in Nat /\ e \in Nat /\ counted[e] = 0
      BY ProwlarrAssumption DEF Init, Ticks
    <2>2. InSeconds(since) \in Nat /\ InSeconds(since) = InSeconds(lastStatUpdate)
      BY <2>1, InSecondsBelow
    <2> QED
      BY <2>1, <2>2
  <1> QED
    BY <1>1, <1>2, <1>3 DEF ProwlarrInv

\* A collection that leaves holds the mutex no more, and nobody else does.
LEMMA Left ==
    ASSUME ProwlarrInv, NEW c \in Collections, stage[c] # "idle", Leave(c),
           lastStatUpdate' \in since..now
    PROVE  Mutex' /\ Windows' /\ Answers' /\ (counted' \in [Ticks -> Nat] => TypeOK')
  <1>1. statsMu = c /\ \A d \in Collections : d # c => stage[d] = "idle"
    BY DEF ProwlarrInv, Mutex
  <1>2. stage' = [d \in Collections |-> "idle"]
    BY <1>1 DEF ProwlarrInv, TypeOK, Leave
  <1>3. Mutex' /\ Windows' /\ Answers'
    BY <1>2, ProwlarrAssumption DEF Leave, Mutex, Windows, Answers
  <1>4. counted' \in [Ticks -> Nat] => TypeOK'
    <2>1. statsMu' \in Collections \cup {NoOne} /\ stage' \in [Collections -> {"idle", "asking", "answered"}]
      BY <1>2 DEF Leave
    <2>2. now' = now /\ events' = events /\ since' = since /\ now \in Ticks /\ now \in Nat
      BY ProwlarrAssumption DEF Leave, ProwlarrInv, TypeOK, Ticks
    <2>3. window' \in [Collections -> [start : Ticks, end : 0..now]]
      <3>1. NoWindow \in [start : Ticks, end : 0..now]
        BY <2>2, ProwlarrAssumption DEF NoWindow, Ticks
      <3> QED BY <3>1 DEF Leave, ProwlarrInv, TypeOK
    <2>4. answer' \in [Collections -> SUBSET events]
      BY DEF Leave, ProwlarrInv, TypeOK
    <2>5. Ticks' = Ticks
      BY DEF Ticks
    <2> QED BY <2>1, <2>2, <2>3, <2>4, <2>5 DEF ProwlarrInv, TypeOK
  <1> QED
    BY <1>3, <1>4

LEMMA ProwlarrNextInv == ProwlarrInv /\ [Next]_vars => ProwlarrInv'
  <1> SUFFICES ASSUME ProwlarrInv, [Next]_vars PROVE ProwlarrInv'
    OBVIOUS
  <1> USE DEF Ticks
  <1>1. CASE Tick
    <2>1. now' = now + 1 /\ now' \in Ticks /\ UNCHANGED <<events, since, lastStatUpdate, statsMu, stage, window, answer, counted>>
      BY <1>1, ProwlarrAssumption DEF Tick, collectionVars, ProwlarrInv, TypeOK
    <2>2. TypeOK'
      BY <2>1, ProwlarrAssumption DEF ProwlarrInv, TypeOK
    <2>3. Mutex' /\ Windows' /\ Answers' /\ EachEventOnce'
      BY <2>1 DEF ProwlarrInv, Mutex, Windows, Answers, EachEventOnce, Happened, Asked, InSeconds
    <2> QED
      BY <2>2, <2>3 DEF ProwlarrInv
  <1>2. CASE Happen
    <2>1. UNCHANGED <<now, since, lastStatUpdate, statsMu, stage, window, answer, counted>> /\ events' = events \cup {now}
      BY <1>2 DEF Happen, collectionVars
    <2>2. TypeOK'
      BY <2>1, ProwlarrAssumption DEF ProwlarrInv, TypeOK
    <2>3. Mutex' /\ Windows'
      BY <2>1 DEF ProwlarrInv, Mutex, Windows
    <2>4. Answers'
      BY <1>2, <2>1, HappenedStays DEF ProwlarrInv, Answers
    <2>5. EachEventOnce'
      <3> SUFFICES ASSUME NEW e \in Ticks
                   PROVE  counted[e] = IF e \in events' /\ InSeconds(since) <= e /\ e < InSeconds(lastStatUpdate)
                                       THEN 1 ELSE 0
        BY <2>1 DEF EachEventOnce, InSeconds
      <3>1. lastStatUpdate \in Nat /\ lastStatUpdate <= now /\ now \in Nat
        BY ProwlarrAssumption DEF ProwlarrInv, TypeOK
      <3>2. InSeconds(lastStatUpdate) \in Nat /\ InSeconds(lastStatUpdate) <= now
        BY <3>1, InSecondsBelow
      <3>3. ~ (now < InSeconds(lastStatUpdate))
        BY <3>1, <3>2
      <3>4. e \in events' /\ e < InSeconds(lastStatUpdate) <=> e \in events /\ e < InSeconds(lastStatUpdate)
        BY <2>1, <3>3
      <3> QED
        BY <3>4 DEF ProwlarrInv, EachEventOnce
    <2> QED
      BY <2>2, <2>3, <2>4, <2>5 DEF ProwlarrInv
  <1>3. ASSUME NEW c \in Collections, Ask(c) PROVE ProwlarrInv'
    <2>1. /\ UNCHANGED <<now, events, since, lastStatUpdate, answer, counted>>
          /\ stage[c] = "idle" /\ statsMu = NoOne /\ statsMu' = c
          /\ stage' = [stage EXCEPT ![c] = "asking"]
          /\ window' = [window EXCEPT ![c] = Window]
      BY <1>3 DEF Ask, Unlocked
    <2>2. Window \in [start : Ticks, end : 0..now] /\ Window.start = lastStatUpdate /\ lastStatUpdate <= Window.end
      BY ProwlarrAssumption DEF ProwlarrInv, TypeOK, Window
    <2>3. TypeOK'
      BY <2>1, <2>2 DEF ProwlarrInv, TypeOK
    <2>4. \A d \in Collections : stage[d] = "idle"
      BY <2>1, ProwlarrAssumption DEF ProwlarrInv, Mutex
    <2>5. Mutex' /\ Windows' /\ Answers'
      BY <2>1, <2>2, <2>4, ProwlarrAssumption DEF ProwlarrInv, TypeOK, Mutex, Windows, Answers
    <2>6. EachEventOnce'
      BY <2>1 DEF ProwlarrInv, EachEventOnce, InSeconds
    <2> QED
      BY <2>3, <2>5, <2>6 DEF ProwlarrInv
  <1>4. ASSUME NEW c \in Collections, Answer(c) PROVE ProwlarrInv'
    <2> DEFINE heard == Happened(Asked(window[c]))
    <2>1. /\ UNCHANGED <<now, events, since, lastStatUpdate, statsMu, window, counted>>
          /\ stage[c] = "asking" /\ stage' = [stage EXCEPT ![c] = "answered"]
          /\ answer' = [answer EXCEPT ![c] = heard]
      BY <1>4 DEF Answer
    <2>2. heard \in SUBSET events
      BY DEF Happened
    <2>3. \A d \in Collections : Happened(Asked(window[d]))' = Happened(Asked(window[d]))
      BY <2>1 DEF Happened, Asked, InSeconds
    <2>4. \A d \in Collections : stage'[d] = "answered" => answer'[d] = Happened(Asked(window[d]))
      BY <2>1 DEF ProwlarrInv, TypeOK, Answers
    <2> HIDE DEF heard
    <2>5. TypeOK'
      BY <2>1, <2>2 DEF ProwlarrInv, TypeOK
    <2>6. Mutex' /\ Windows'
      BY <2>1 DEF ProwlarrInv, TypeOK, Mutex, Windows
    <2>7. Answers'
      BY <2>3, <2>4 DEF Answers
    <2>8. EachEventOnce'
      BY <2>1 DEF ProwlarrInv, EachEventOnce, InSeconds
    <2> QED
      BY <2>5, <2>6, <2>7, <2>8 DEF ProwlarrInv
  <1>5. ASSUME NEW c \in Collections, Fail(c) PROVE ProwlarrInv'
    <2>1. stage[c] # "idle" /\ Leave(c) /\ lastStatUpdate' = lastStatUpdate /\ counted' = counted
      BY <1>5 DEF Fail
    <2>2. Mutex' /\ Windows' /\ Answers' /\ TypeOK'
      BY <2>1, Left DEF ProwlarrInv, TypeOK
    <2>3. EachEventOnce'
      BY <2>1 DEF Leave, ProwlarrInv, EachEventOnce, InSeconds
    <2> QED
      BY <2>2, <2>3 DEF ProwlarrInv
  <1>6. ASSUME NEW c \in Collections, Accumulate(c) PROVE ProwlarrInv'
    <2> DEFINE end == window[c].end
    <2>1. /\ stage[c] = "answered" /\ Leave(c) /\ lastStatUpdate' = end
          /\ counted' = [e \in Ticks |-> IF e \in answer[c] THEN counted[e] + 1 ELSE counted[e]]
      BY <1>6 DEF Accumulate, NextStart
    <2>2. /\ window[c].start = lastStatUpdate /\ lastStatUpdate <= end
          /\ end \in 0..now /\ now \in Ticks /\ since \in Ticks /\ lastStatUpdate \in since..now
      BY <2>1 DEF ProwlarrInv, TypeOK, Windows
    <2>3. counted' \in [Ticks -> Nat]
      BY <2>1 DEF ProwlarrInv, TypeOK
    <2>4. Mutex' /\ Windows' /\ Answers' /\ TypeOK'
      BY <2>1, <2>2, <2>3, Left, ProwlarrAssumption
    <2>5. EachEventOnce'
      <3> DEFINE s0 == InSeconds(since)
                 s1 == InSeconds(lastStatUpdate)
                 s2 == InSeconds(end)
      <3>1. s0 \in Nat /\ s1 \in Nat /\ s2 \in Nat /\ s0 <= s1 /\ s1 <= s2
        BY <2>2, ProwlarrAssumption, InSecondsBelow, InSecondsMonotone
      <3>2. answer[c] = {e \in events : s1 <= e /\ e < s2}
        BY <2>1, <2>2 DEF ProwlarrInv, Answers, Happened, Asked
      <3>3. events' = events /\ since' = since /\ InSeconds(since)' = s0 /\ InSeconds(lastStatUpdate)' = s2
        BY <2>1 DEF Leave, InSeconds
      <3> HIDE DEF s0, s1, s2
      <3>4. ASSUME NEW e \in Ticks
            PROVE  counted'[e] = IF e \in events /\ s0 <= e /\ e < s2 THEN 1 ELSE 0
        <4>1. counted[e] = IF e \in events /\ s0 <= e /\ e < s1 THEN 1 ELSE 0
          BY DEF ProwlarrInv, EachEventOnce, s0, s1
        <4>2. e \in answer[c] <=> e \in events /\ s1 <= e /\ e < s2
          BY <3>2
        <4>3. counted'[e] = IF e \in answer[c] THEN counted[e] + 1 ELSE counted[e]
          BY <2>1
        <4> QED
          BY <3>1, <4>1, <4>2, <4>3, ProwlarrAssumption
      <3> QED
        BY <3>3, <3>4 DEF EachEventOnce
    <2> QED
      BY <2>4, <2>5 DEF ProwlarrInv
  <1>7. CASE UNCHANGED vars
    BY <1>7 DEF vars, collectionVars, ProwlarrInv, TypeOK, Mutex, Windows, Answers, EachEventOnce, Happened, Asked, InSeconds
  <1> QED
    BY <1>1, <1>2, <1>3, <1>4, <1>5, <1>6, <1>7 DEF Next

\* The holder of statsMu, its window and its answer agree with what was added.
THEOREM ProwlarrInvariance == Spec => []ProwlarrInv
  BY ProwlarrInitInv, ProwlarrNextInv, PTL DEF Spec

\* TypeOK, for every instance.
THEOREM ProwlarrTypeCorrect == Spec => []TypeOK
  BY ProwlarrInvariance, PTL DEF ProwlarrInv

\* However collections interleave and whatever fails between the question and
\* the answer (prowlarr.go:214-229), an event of Prowlarr is added exactly once.
THEOREM EventsCountedOnce == Spec => []EachEventOnce
  BY ProwlarrInvariance, PTL DEF ProwlarrInv

\* The update of a step that counts is the one of Accumulate.
Advances ==
    lastStatUpdate' # lastStatUpdate =>
        /\ lastStatUpdate' > lastStatUpdate
        /\ \A e \in Ticks : counted'[e] # counted[e] =>
              InSeconds(lastStatUpdate) <= e /\ e < InSeconds(lastStatUpdate')

LEMMA NextAdvances == ProwlarrInv /\ [Next]_vars => [Advances]_vars
  <1> SUFFICES ASSUME ProwlarrInv, Next, lastStatUpdate' # lastStatUpdate PROVE Advances
    BY DEF Advances
  <1>1. PICK c \in Collections : Accumulate(c)
    BY DEF Next, Tick, Happen, Ask, Answer, Fail
  <1>2. /\ window[c].start = lastStatUpdate /\ lastStatUpdate <= window[c].end
        /\ lastStatUpdate' = window[c].end
        /\ lastStatUpdate \in Nat /\ window[c].end \in Nat
    BY <1>1, ProwlarrAssumption DEF ProwlarrInv, TypeOK, Windows, Accumulate, NextStart, Ticks
  <1>3. lastStatUpdate' > lastStatUpdate
    BY <1>2
  <1>4. answer[c] = {e \in events : InSeconds(window[c].start) <= e /\ e < InSeconds(window[c].end)}
    BY <1>1 DEF Accumulate, ProwlarrInv, Answers, Happened, Asked
  <1>5. ASSUME NEW e \in Ticks, counted'[e] # counted[e]
        PROVE  InSeconds(lastStatUpdate) <= e /\ e < InSeconds(lastStatUpdate')
    <2>1. e \in answer[c]
      BY <1>1, <1>5 DEF Accumulate
    <2> QED
      BY <2>1, <1>2, <1>4
  <1> QED
    BY <1>3, <1>5 DEF Advances

\* Every update moves forward, and what is added lies in the window it closes.
THEOREM Forward == Spec => UpdatesAdvance
  <1>1. Spec => [][Advances]_vars
    BY ProwlarrInvariance, NextAdvances, PTL DEF Spec
  <1> QED
    BY <1>1 DEF UpdatesAdvance, Advances
=============================================================================
