----------------------- MODULE ReviewDispatcherProofs -----------------------
(***************************************************************************)
(* Proofs about the dispatcher of configuration reviews: at most one       *)
(* review of a daemon is in progress and the wait group is never negative  *)
(* (OneReviewPerDaemon), and the reports that are stored, and those a user *)
(* is shown, stem from one review (ReportsMatchReview), for any number of  *)
(* daemons, references, changes, restarts and failures of the database.    *)
(*                                                                         *)
(* The strengthening says which goroutines and which job the map of the    *)
(* reviews in progress stands for, that the wait group counts the          *)
(* goroutines that have got as far, that a daemon with an internal review  *)
(* to come has no reports, that nothing touches what a user has begun to   *)
(* read while no review begins, and whom a shutdown still waits for.       *)
(***************************************************************************)
EXTENDS ReviewDispatcher, TLAPS, FiniteSetTheorems, FunctionTheorems, SequenceTheorems

-----------------------------------------------------------------------------
(* The invariant                                                           *)

\* The configurations of the daemons a review refers to.
RefsOf(d) == UNION {[S -> Hashes] : S \in SUBSET Refs[d]}
ReviewOf(d) ==
  [step : {"accepted", "running", "sent"}, hash : Hashes, internal : BOOLEAN, refs : RefsOf(d)]
JobOf(d) ==
  [daemon : {d}, hash : Hashes, refs : RefsOf(d), internal : BOOLEAN, step : {"storing", "handled"}]

DbTypes ==
  /\ kea \in [Daemons -> Hashes]
  /\ config \in [Daemons -> Hashes]
  /\ reviewed \in [Daemons -> Hashes \cup {0}]
  /\ reports \in [Daemons -> Seq(Hashes)]
ReviewTypes ==
  /\ DOMAIN reviews = Daemons
  /\ \A d \in Daemons : reviews[d] \in Seq(ReviewOf(d)) /\ Len(reviews[d]) <= MaxReviews
  /\ state \in [Daemons -> BOOLEAN]
WorkTypes ==
  /\ worker \in {"waiting", "draining", "ended"}
  /\ job = NoDaemon \/ \E d \in Daemons : job \in JobOf(d)
  /\ allReviewsDone \in BOOLEAN
  /\ shutdown \in {"no", "stopping", "done"}
  /\ awaited \in SUBSET Daemons
  /\ IF job # NoDaemon /\ job.step = "handled" THEN todo \in SUBSET DOMAIN job.refs ELSE todo = {}
PullTypes ==
  /\ \/ pull \in [step : {"idle"}, at : DOMAIN Order]
     \/ pull \in [step : {"read", "committed"}, at : DOMAIN Order, new : Hashes, same : BOOLEAN]
  /\ manual = NoDaemon \/ manual \in [step : {"read"}, daemon : Daemons, hash : Hashes]
  /\ extras \in 0 .. MaxExtras
Types == DbTypes /\ ReviewTypes /\ WorkTypes /\ PullTypes

\* The goroutines of a daemon that have not handed their reviews over, and whether
\* the worker has one of its reviews: one of them at most, and the map knows.
Pending(d) == {i \in DOMAIN reviews[d] : reviews[d][i].step # "sent"}
AtWorker(d) == job # NoDaemon /\ job.daemon = d
Exclusive ==
  \A d \in Daemons :
    /\ \A i, j \in Pending(d) : i = j
    /\ AtWorker(d) => Pending(d) = {}
    /\ AtWorker(d) \/ Pending(d) # {} => state[d]

\* The goroutines that have passed reviewWg.Add and not come to reviewWg.Done.
Counted ==
  {x \in Daemons \X (1 .. MaxReviews) :
     x[2] <= Len(reviews[x[1]]) /\ reviews[x[1]][x[2]].step # "accepted"}
WaitGroup == reviewWg = Cardinality(Counted)

\* A daemon that waits for an internal review, or has one in progress, has no
\* reports: the review that asked for it has deleted them.
NoReportsYet ==
  /\ \A d \in Daemons : reports[d] \in {<<>>, <<reviewed[d]>>}
  /\ \A d \in Daemons : \A i \in Pending(d) : reviews[d][i].internal => reports[d] = <<>>
  /\ Storing /\ job.internal => reports[job.daemon] = <<>>
  /\ \A r \in todo : reports[r] = <<>>

\* What a user reads belongs together unless a review has begun.
View(d) ==
  [step : {"looking"}, daemon : {d}, overtaken : BOOLEAN]
    \cup [step : {"reading"}, daemon : {d}, overtaken : BOOLEAN, review : Hashes \cup {0}]
    \cup [step : {"shown"}, daemon : {d}, overtaken : BOOLEAN, review : Hashes \cup {0},
          reports : Seq(Hashes)]
Reading ==
  /\ view = NoDaemon \/ \E d \in Daemons : view \in View(d)
  /\ view # NoDaemon /\ ~ view.overtaken =>
       /\ ~ state[view.daemon]
       /\ view.step = "reading" => view.review = reviewed[view.daemon]
       /\ view.step = "shown" => view.reports \in {<<>>, <<view.review>>}

\* Whom a shutdown waits for is at the worker, or will be before the wait group
\* is down at zero.
Running(d) == \E i \in DOMAIN reviews[d] : reviews[d][i].step = "running"
Awaiting ==
  /\ \A d \in awaited : AtWorker(d) \/ (~ allReviewsDone /\ Running(d))
  /\ shutdown = "no" => worker = "waiting" /\ ~ allReviewsDone
  /\ worker = "ended" => awaited = {} /\ shutdown # "no"
  /\ shutdown = "done" => worker = "ended"

IInv == Types /\ Exclusive /\ WaitGroup /\ NoReportsYet /\ Reading /\ Awaiting

-----------------------------------------------------------------------------
(* The constants and the records                                           *)

LEMMA DaemonsFinite == IsFiniteSet(Daemons)
<1>1. DOMAIN Order = 1 .. Len(Order) /\ Len(Order) \in Nat
  BY OrderAssumption
<1>2. IsFiniteSet(DOMAIN Order)
  BY <1>1, FS_Interval
<1>3. Order \in Surjection(DOMAIN Order, Daemons)
  BY OrderAssumption DEF Surjection, ToSet
<1> QED BY <1>2, <1>3, FS_Surjection

LEMMA OrderVisits == Len(Order) \in Nat \ {0} /\ DOMAIN Order = 1 .. Len(Order)
                     /\ \A i \in DOMAIN Order : Order[i] \in Daemons
  BY OrderAssumption

LEMMA RefsAreTyped ==
  ASSUME NEW d \in Daemons
  PROVE  /\ NoRefs \in RefsOf(d)
         /\ config \in [Daemons -> Hashes] => [r \in Refs[d] |-> config[r]] \in RefsOf(d)
         /\ \A rr \in RefsOf(d) :
              /\ DOMAIN rr \subseteq Daemons \ {d}
              /\ \A r \in DOMAIN rr : rr[r] \in Hashes
<1>1. Refs[d] \subseteq Daemons \ {d}
  BY RefsAssumption
<1>2. NoRefs \in [{} -> Hashes]
  BY DEF NoRefs
<1> QED BY <1>1, <1>2 DEF RefsOf

\* What a review, a job and a view are made of; no job and no view is NoDaemon.
LEMMA JobIsTyped ==
  ASSUME NEW d \in Daemons, NEW j \in JobOf(d)
  PROVE  /\ j # NoDaemon /\ j.daemon = d /\ j.hash \in Hashes /\ j.internal \in BOOLEAN
         /\ j.refs \in RefsOf(d) /\ j.step \in {"storing", "handled"}
         /\ [j EXCEPT !.step = "handled"] \in JobOf(d)
<1>1. DOMAIN j # DOMAIN NoDaemon
  <2>1. "step" \in DOMAIN j
    BY DEF JobOf
  <2>2. DOMAIN NoDaemon = {"daemon"}
    BY DEF NoDaemon
  <2> QED BY <2>1, <2>2
<1>2. /\ j.daemon = d /\ j.hash \in Hashes /\ j.internal \in BOOLEAN
      /\ j.refs \in RefsOf(d) /\ j.step \in {"storing", "handled"}
  BY DEF JobOf
<1>3. [j EXCEPT !.step = "handled"] \in JobOf(d)
  BY DEF JobOf
<1> QED BY <1>1, <1>2, <1>3

LEMMA ViewIsTyped ==
  ASSUME NEW d \in Daemons, NEW v \in View(d)
  PROVE  v # NoDaemon /\ v.daemon = d /\ v.overtaken \in BOOLEAN
         /\ v.step \in {"looking", "reading", "shown"}
<1>1. "step" \in DOMAIN v
  BY DEF View
<1>2. DOMAIN NoDaemon = {"daemon"}
  BY DEF NoDaemon
<1>3. v.daemon = d /\ v.overtaken \in BOOLEAN /\ v.step \in {"looking", "reading", "shown"}
  BY DEF View
<1> QED BY <1>1, <1>2, <1>3

\* The counted goroutines are finitely many.
LEMMA CountedFinite == IsFiniteSet(Counted)
<1>1. IsFiniteSet(1 .. MaxReviews)
  BY BoundsAssumption, FS_Interval
<1>2. IsFiniteSet(Daemons \X (1 .. MaxReviews))
  BY <1>1, DaemonsFinite, FS_Product
<1> QED BY <1>2, FS_Subset DEF Counted

-----------------------------------------------------------------------------
(* What follows from the invariant                                         *)

LEMMA InvImpliesType == ASSUME Types, WaitGroup PROVE TypeOK
<1> USE DEF Types
<1>1. \A d \in Daemons : \A i \in DOMAIN reviews[d] :
        reviews[d][i].step \in {"accepted", "running", "sent"} /\ reviews[d][i].hash \in Hashes
  <2> SUFFICES ASSUME NEW d \in Daemons, NEW i \in DOMAIN reviews[d]
               PROVE  reviews[d][i] \in ReviewOf(d)
    BY DEF ReviewOf
  <2> QED BY DEF ReviewTypes
<1>2. reviewWg \in Nat
  BY CountedFinite, FS_CardinalityType DEF WaitGroup
<1>3. job # NoDaemon => job.daemon \in Daemons /\ job.hash \in Hashes
                        /\ DOMAIN job.refs \subseteq Daemons
  BY JobIsTyped, RefsAreTyped DEF WorkTypes
<1>4. todo \in SUBSET Daemons
  BY <1>3 DEF WorkTypes
<1>5. pull.at \in DOMAIN Order /\ (pull.step # "idle" => pull.new \in Hashes)
  BY DEF PullTypes
<1>6. manual # NoDaemon => manual.daemon \in Daemons /\ manual.hash \in Hashes
  BY DEF PullTypes
<1> QED BY <1>1, <1>2, <1>3, <1>4, <1>5, <1>6
        DEF TypeOK, DbTypes, ReviewTypes, WorkTypes, PullTypes

LEMMA InvImpliesOne == ASSUME IInv PROVE OneReviewPerDaemon
<1>1. TypeOK
  BY InvImpliesType DEF IInv
<1>2. ASSUME NEW d \in Daemons PROVE InProgress(d) <= 1
  <2>1. Pending(d) = {} \/ \E i : Pending(d) = {i}
    BY DEF IInv, Exclusive
  <2>2. /\ Pending(d) = {} => Cardinality(Pending(d)) = 0
        /\ \A i : Pending(d) = {i} => Cardinality(Pending(d)) = 1
    BY FS_EmptySet, FS_Singleton
  <2>3. AtWorker(d) => Pending(d) = {}
    BY DEF IInv, Exclusive
  <2>4. InProgress(d) = Cardinality(Pending(d)) + (IF AtWorker(d) THEN 1 ELSE 0)
    BY DEF InProgress, Pending, AtWorker
  <2> QED BY <2>1, <2>2, <2>3, <2>4
<1> QED BY <1>1, <1>2 DEF OneReviewPerDaemon

LEMMA InvImpliesMatch == ASSUME IInv PROVE ReportsMatchReview
  BY DEF IInv, NoReportsYet, Reading, Awaiting, ReportsMatchReview

LEMMA InvInit == Init => IInv
<1> SUFFICES ASSUME Init PROVE IInv
  OBVIOUS
<1> USE DEF Init
<1>1. Types
  <2>1. DbTypes
    BY DEF DbTypes, Hashes
  <2>2. ReviewTypes
    BY BoundsAssumption DEF ReviewTypes
  <2>3. WorkTypes
    BY DEF WorkTypes
  <2>4. PullTypes
    BY OrderVisits, BoundsAssumption DEF PullTypes
  <2> QED BY <2>1, <2>2, <2>3, <2>4 DEF Types
<1>2. Exclusive /\ NoReportsYet /\ Reading /\ Awaiting
  BY DEF Exclusive, AtWorker, Pending, NoReportsYet, Storing, Reading, Awaiting
<1>3. Counted = {}
  BY DEF Counted
<1> QED BY <1>1, <1>2, <1>3, FS_EmptySet DEF IInv, WaitGroup

-----------------------------------------------------------------------------
(* The goroutines of a daemon                                              *)

\* A goroutine is added, or one of them goes on: the others stay as they are.
LEMMA AppendReview ==
  ASSUME ReviewTypes, NEW d \in Daemons, NEW r \in ReviewOf(d), Len(reviews[d]) < MaxReviews,
         reviews' = [reviews EXCEPT ![d] = Append(@, r)]
  PROVE  LET n == Len(reviews[d]) IN
         /\ DOMAIN reviews' = Daemons
         /\ \A x \in Daemons \ {d} : reviews'[x] = reviews[x]
         /\ reviews'[d] \in Seq(ReviewOf(d)) /\ n \in Nat /\ Len(reviews'[d]) = n + 1
         /\ DOMAIN reviews[d] = 1 .. n /\ DOMAIN reviews'[d] = 1 .. n + 1
         /\ reviews'[d][n + 1] = r
         /\ \A i \in 1 .. n : reviews'[d][i] = reviews[d][i]
<1>1. reviews[d] \in Seq(ReviewOf(d)) /\ DOMAIN reviews = Daemons
  BY DEF ReviewTypes
<1>2. reviews'[d] = Append(reviews[d], r) /\ DOMAIN reviews' = Daemons
      /\ \A x \in Daemons \ {d} : reviews'[x] = reviews[x]
  BY <1>1
<1> QED BY <1>1, <1>2

LEMMA ReplaceReview ==
  ASSUME ReviewTypes, NEW d \in Daemons, NEW i \in DOMAIN reviews[d], NEW r \in ReviewOf(d),
         reviews' = [reviews EXCEPT ![d] = [@ EXCEPT ![i] = r]]
  PROVE  /\ DOMAIN reviews' = Daemons
         /\ \A x \in Daemons \ {d} : reviews'[x] = reviews[x]
         /\ reviews'[d] \in Seq(ReviewOf(d)) /\ Len(reviews'[d]) = Len(reviews[d])
         /\ DOMAIN reviews'[d] = DOMAIN reviews[d]
         /\ reviews'[d][i] = r
         /\ \A j \in DOMAIN reviews[d] \ {i} : reviews'[d][j] = reviews[d][j]
<1>1. reviews[d] \in Seq(ReviewOf(d)) /\ DOMAIN reviews = Daemons
  BY DEF ReviewTypes
<1>2. reviews'[d] = [reviews[d] EXCEPT ![i] = r] /\ DOMAIN reviews' = Daemons
      /\ \A x \in Daemons \ {d} : reviews'[x] = reviews[x]
  BY <1>1
<1> QED BY <1>1, <1>2

\* Those after the goroutine that ends move up.
LEMMA RemoveAtMovesUp ==
  ASSUME NEW S, NEW s \in Seq(S), NEW i \in 1 .. Len(s)
  PROVE  /\ RemoveAt(s, i) \in Seq(S) /\ Len(RemoveAt(s, i)) = Len(s) - 1
         /\ \A j \in 1 .. Len(s) - 1 : RemoveAt(s, i)[j] = IF j < i THEN s[j] ELSE s[j + 1]
<1> DEFINE n == Len(s)
           a == SubSeq(s, 1, i - 1)
           b == SubSeq(s, i + 1, n)
<1>1. n \in Nat /\ i \in 1 .. n
  OBVIOUS
<1>2. a \in Seq(S) /\ Len(a) = i - 1 /\ \A j \in 1 .. i - 1 : a[j] = s[j]
  BY <1>1
<1>3. b \in Seq(S) /\ Len(b) = n - i /\ \A j \in 1 .. n - i : b[j] = s[i + j]
  BY <1>1
<1>4. RemoveAt(s, i) = a \o b
  BY DEF RemoveAt
<1> HIDE DEF a, b, n
<1>5. a \o b \in Seq(S) /\ Len(a \o b) = Len(a) + Len(b)
  BY <1>2, <1>3, ConcatProperties
<1>6. Len(a \o b) = n - 1
  BY <1>1, <1>2, <1>3, <1>5
<1>7. ASSUME NEW j \in 1 .. n - 1 PROVE (a \o b)[j] = IF j < i THEN s[j] ELSE s[j + 1]
  <2>1. CASE j < i
    BY <1>1, <1>2, <1>3, <2>1
  <2>2. CASE ~ (j < i)
    <3>1. j - (i - 1) \in 1 .. n - i /\ i + (j - (i - 1)) = j + 1
      BY <1>1, <2>2
    <3>2. (a \o b)[j] = b[j - (i - 1)]
      BY <1>1, <1>2, <1>3, <2>2
    <3> QED BY <1>3, <2>2, <3>1, <3>2
  <2> QED BY <2>1, <2>2
<1> QED BY <1>4, <1>5, <1>6, <1>7 DEF n

LEMMA RemoveReview ==
  ASSUME ReviewTypes, NEW d \in Daemons, NEW i \in DOMAIN reviews[d],
         reviews' = [reviews EXCEPT ![d] = RemoveAt(@, i)]
  PROVE  LET n == Len(reviews[d]) IN
         /\ DOMAIN reviews' = Daemons
         /\ \A x \in Daemons \ {d} : reviews'[x] = reviews[x]
         /\ reviews'[d] \in Seq(ReviewOf(d)) /\ n \in Nat \ {0} /\ Len(reviews'[d]) = n - 1
         /\ DOMAIN reviews[d] = 1 .. n /\ DOMAIN reviews'[d] = 1 .. n - 1
         /\ \A j \in 1 .. n - 1 :
              reviews'[d][j] = IF j < i THEN reviews[d][j] ELSE reviews[d][j + 1]
<1>1. reviews[d] \in Seq(ReviewOf(d)) /\ DOMAIN reviews = Daemons
  BY DEF ReviewTypes
<1>2. i \in 1 .. Len(reviews[d]) /\ Len(reviews[d]) \in Nat
  BY <1>1
<1>3. reviews'[d] = RemoveAt(reviews[d], i) /\ DOMAIN reviews' = Daemons
      /\ \A x \in Daemons \ {d} : reviews'[x] = reviews[x]
  BY <1>1
<1>4. /\ reviews'[d] \in Seq(ReviewOf(d)) /\ Len(reviews'[d]) = Len(reviews[d]) - 1
      /\ \A j \in 1 .. Len(reviews[d]) - 1 :
           reviews'[d][j] = IF j < i THEN reviews[d][j] ELSE reviews[d][j + 1]
  <2> DEFINE s == reviews[d]
  <2> HIDE DEF s
  <2>1. s \in Seq(ReviewOf(d)) /\ i \in 1 .. Len(s)
    BY <1>1, <1>2 DEF s
  <2>2. /\ RemoveAt(s, i) \in Seq(ReviewOf(d)) /\ Len(RemoveAt(s, i)) = Len(s) - 1
        /\ \A j \in 1 .. Len(s) - 1 : RemoveAt(s, i)[j] = IF j < i THEN s[j] ELSE s[j + 1]
    BY <2>1, RemoveAtMovesUp
  <2> QED BY <1>3, <2>2 DEF s
<1>5. DOMAIN reviews[d] = 1 .. Len(reviews[d]) /\ DOMAIN reviews'[d] = 1 .. Len(reviews'[d])
  BY <1>1, <1>4
<1>6. Len(reviews[d]) \in Nat \ {0}
  BY <1>2
<1> QED BY <1>3, <1>4, <1>5, <1>6

-----------------------------------------------------------------------------
(* The steps of a review                                                   *)

\* What the parts of the invariant depend on.
LEMMA Frames ==
  /\ UNCHANGED dbVars /\ UNCHANGED kea /\ DbTypes => DbTypes'
  /\ UNCHANGED <<state, reviews>> /\ ReviewTypes => ReviewTypes'
  /\ UNCHANGED workVars /\ WorkTypes => WorkTypes'
  /\ UNCHANGED <<pull, manual, extras>> /\ PullTypes => PullTypes'
  /\ UNCHANGED <<state, reviews, job>> /\ Exclusive => Exclusive'
  /\ UNCHANGED <<reviews, reviewWg>> /\ WaitGroup => WaitGroup'
  /\ UNCHANGED <<reviewed, reports, reviews, job, todo>> /\ NoReportsYet => NoReportsYet'
  /\ UNCHANGED <<reviewed, state, view>> /\ Reading => Reading'
  /\ UNCHANGED <<reviews, worker, job, allReviewsDone, shutdown, awaited>> /\ Awaiting => Awaiting'
<1>1. UNCHANGED reviews => UNCHANGED Counted
  BY DEF Counted
<1>2. UNCHANGED reviews => \A d : Pending(d)' = Pending(d) /\ (Running(d)' <=> Running(d))
  BY DEF Pending, Running
<1>3. UNCHANGED job => \A d : AtWorker(d)' <=> AtWorker(d)
  BY DEF AtWorker
<1> QED BY <1>1, <1>2, <1>3
  DEF dbVars, workVars, DbTypes, ReviewTypes, WorkTypes, PullTypes, Exclusive, WaitGroup,
      NoReportsYet, Storing, Reading, Awaiting

\* A review that begins is the only one of its daemon, and not counted yet.
LEMMA BeginKeeps ==
  ASSUME IInv, NEW d \in Daemons, NEW hash \in Hashes, NEW internal \in BOOLEAN,
         internal => reports[d] = <<>>,
         Begin(d, hash, internal),
         UNCHANGED <<reviewed, reports, reviewWg, worker, job, allReviewsDone, shutdown, awaited>>,
         todo' \subseteq todo
  PROVE  ReviewTypes' /\ Exclusive' /\ WaitGroup' /\ NoReportsYet' /\ Reading' /\ Awaiting'
<1>1. CASE state[d]
  <2>1. UNCHANGED <<state, reviews, view>>
    BY <1>1 DEF Begin
  <2>2. ReviewTypes' /\ Exclusive' /\ WaitGroup' /\ Reading' /\ Awaiting'
    BY <2>1, Frames DEF IInv, Types
  <2>3. NoReportsYet'
    BY <2>1 DEF IInv, NoReportsYet, Storing, Pending
  <2> QED BY <2>2, <2>3
<1>2. CASE ~ state[d]
  <2> DEFINE n == Len(reviews[d])
             r == [step |-> "accepted", hash |-> hash, internal |-> internal, refs |-> NoRefs]
  <2>1. /\ reviews' = [reviews EXCEPT ![d] = Append(@, r)] /\ n < MaxReviews
        /\ state' = [state EXCEPT ![d] = TRUE]
        /\ view' = Overtaken(d)
    BY <1>2 DEF Begin
  <2>2. r \in ReviewOf(d)
    BY RefsAreTyped DEF ReviewOf
  <2>3. r.step = "accepted" /\ r.internal = internal
    OBVIOUS
  <2> HIDE DEF r
  <2>4. /\ DOMAIN reviews' = Daemons
        /\ \A x \in Daemons \ {d} : reviews'[x] = reviews[x]
        /\ reviews'[d] \in Seq(ReviewOf(d)) /\ n \in Nat /\ Len(reviews'[d]) = n + 1
        /\ DOMAIN reviews[d] = 1 .. n /\ DOMAIN reviews'[d] = 1 .. n + 1
        /\ reviews'[d][n + 1] = r
        /\ \A i \in 1 .. n : reviews'[d][i] = reviews[d][i]
    BY <2>1, <2>2, AppendReview DEF IInv, Types
  <2> HIDE DEF n
  <2>5. Pending(d) = {} /\ ~ AtWorker(d)
    BY <1>2 DEF IInv, Exclusive
  <2>6. /\ Pending(d)' = {n + 1}
        /\ \A x \in Daemons \ {d} : Pending(x)' = Pending(x)
    <3>1. \A i \in 1 .. n + 1 : reviews'[d][i].step # "sent" <=> i = n + 1
      BY <2>3, <2>4, <2>5 DEF Pending
    <3>2. Pending(d)' = {n + 1}
      BY <2>4, <3>1 DEF Pending
    <3> QED BY <2>4, <3>2 DEF Pending
  <2>7. state \in [Daemons -> BOOLEAN] /\ MaxReviews \in Nat
    BY BoundsAssumption DEF IInv, Types, ReviewTypes
  <2>8. ReviewTypes'
    BY <2>1, <2>4, <2>7 DEF IInv, Types, ReviewTypes, n
  <2>9. Exclusive'
    <3>1. \A x \in Daemons : AtWorker(x)' <=> AtWorker(x)
      BY DEF AtWorker
    <3> QED BY <2>1, <2>5, <2>6, <2>7, <3>1 DEF IInv, Exclusive
  <2>10. WaitGroup'
    <3>1. \A x \in Daemons : \A i \in 1 .. MaxReviews :
            (i <= Len(reviews'[x]) /\ reviews'[x][i].step # "accepted")
              <=> (i <= Len(reviews[x]) /\ reviews[x][i].step # "accepted")
      BY <2>3, <2>4, <2>7 DEF n
    <3>2. Counted' = Counted
      BY <3>1 DEF Counted
    <3> QED BY <3>2 DEF IInv, WaitGroup
  <2>11. NoReportsYet'
    <3>1. \A i \in Pending(d)' : reviews'[d][i].internal => reports[d] = <<>>
      BY <2>3, <2>4, <2>6
    <3>2. \A x \in Daemons \ {d} : \A i \in Pending(x)' :
            reviews'[x][i].internal => reports[x] = <<>>
      BY <2>4, <2>6 DEF IInv, NoReportsYet
    <3> QED BY <3>1, <3>2 DEF IInv, NoReportsYet, Storing
  <2>12. Reading'
    <3>1. CASE view = NoDaemon \/ view.daemon # d
      <4>1. view' = view
        BY <2>1, <3>1 DEF Overtaken
      <4>2. view # NoDaemon => view.daemon \in Daemons \ {d}
        BY <3>1, ViewIsTyped DEF IInv, Reading
      <4> QED BY <2>1, <2>7, <4>1, <4>2 DEF IInv, Reading
    <3>2. CASE view # NoDaemon /\ view.daemon = d
      <4>1. view' = [view EXCEPT !.overtaken = TRUE] /\ view \in View(d)
        BY <2>1, <3>2, ViewIsTyped DEF Overtaken, IInv, Reading
      <4>2. view' \in View(d) /\ view'.overtaken
        BY <4>1 DEF View
      <4> QED BY <4>2 DEF Reading
    <3> QED BY <3>1, <3>2
  <2>13. Awaiting'
    <3>1. \A x \in Daemons : Running(x) => Running(x)'
      BY <2>4 DEF Running
    <3>2. \A x \in Daemons : AtWorker(x)' <=> AtWorker(x)
      BY DEF AtWorker
    <3>3. awaited \subseteq Daemons
      BY DEF IInv, Types, WorkTypes
    <3> QED BY <3>1, <3>2, <3>3 DEF IInv, Awaiting
  <2> QED BY <2>8, <2>9, <2>10, <2>11, <2>12, <2>13
<1> QED BY <1>1, <1>2

LEMMA StartReplaces ==
  ASSUME Types, NEW d \in Daemons, NEW i \in DOMAIN reviews[d], Start(d, i)
  PROVE  \E r \in ReviewOf(d) :
           /\ reviews' = [reviews EXCEPT ![d] = [@ EXCEPT ![i] = r]]
           /\ r.step = "running" /\ r.internal = reviews[d][i].internal
<1> DEFINE old == reviews[d][i]
           refs == [x \in Refs[d] |-> config[x]]
           r == [[old EXCEPT !.step = "running"] EXCEPT !.refs = refs]
<1>1. reviews[d] \in Seq(ReviewOf(d)) /\ old \in ReviewOf(d) /\ DOMAIN reviews = Daemons
  BY DEF Types, ReviewTypes
<1>2. refs \in RefsOf(d)
  BY RefsAreTyped DEF Types, DbTypes
<1>3. r \in ReviewOf(d) /\ r.step = "running" /\ r.internal = old.internal
  BY <1>1, <1>2 DEF ReviewOf
<1>4. reviews' = [reviews EXCEPT ![d] = [@ EXCEPT ![i] = r]]
  BY <1>1 DEF Start
<1> QED BY <1>3, <1>4

\* A review that goes on stays the only one; it is counted when it starts.
LEMMA StartKeeps ==
  ASSUME IInv, NEW d \in Daemons, NEW i \in DOMAIN reviews[d], Start(d, i)
  PROVE  IInv'
<1>1. PICK r \in ReviewOf(d) :
        /\ reviews' = [reviews EXCEPT ![d] = [@ EXCEPT ![i] = r]]
        /\ r.step = "running" /\ r.internal = reviews[d][i].internal
  BY StartReplaces DEF IInv
<1>2. /\ DOMAIN reviews' = Daemons
      /\ \A x \in Daemons \ {d} : reviews'[x] = reviews[x]
      /\ reviews'[d] \in Seq(ReviewOf(d)) /\ Len(reviews'[d]) = Len(reviews[d])
      /\ DOMAIN reviews'[d] = DOMAIN reviews[d]
      /\ reviews'[d][i] = r
      /\ \A j \in DOMAIN reviews[d] \ {i} : reviews'[d][j] = reviews[d][j]
  BY <1>1, ReplaceReview DEF IInv, Types
<1>3. /\ reviews[d][i].step = "accepted"
      /\ reviewWg' = reviewWg + 1
      /\ UNCHANGED <<kea, dbVars, state, workVars, callVars, extras>>
  BY DEF Start
<1>4. \A x \in Daemons : Pending(x)' = Pending(x)
  <2>1. \A j \in DOMAIN reviews[d] : reviews'[d][j].step # "sent" <=> reviews[d][j].step # "sent"
    BY <1>1, <1>2, <1>3
  <2> QED BY <1>2, <2>1 DEF Pending
<1>5. Types'
  <2>1. ReviewTypes'
    BY <1>2, <1>3 DEF IInv, Types, ReviewTypes
  <2> QED BY <1>3, <2>1, Frames DEF IInv, Types, callVars
<1>6. Exclusive'
  <2>1. \A x \in Daemons : AtWorker(x)' <=> AtWorker(x)
    BY <1>3 DEF AtWorker, workVars
  <2> QED BY <1>3, <1>4, <2>1 DEF IInv, Exclusive
<1>7. WaitGroup'
  <2>1. reviews[d] \in Seq(ReviewOf(d)) /\ Len(reviews[d]) <= MaxReviews /\ MaxReviews \in Nat
    BY BoundsAssumption DEF IInv, Types, ReviewTypes
  <2>2. i \in 1 .. MaxReviews /\ i <= Len(reviews[d])
    BY <2>1
  <2>3. <<d, i>> \notin Counted
    BY <1>3 DEF Counted
  <2>4. Counted' = Counted \cup {<<d, i>>}
    <3>1. ASSUME NEW x \in Daemons, NEW j \in 1 .. MaxReviews
          PROVE  <<x, j>> \in Counted' <=> <<x, j>> \in Counted \/ (x = d /\ j = i)
      <4>1. CASE x # d
        BY <1>2, <4>1 DEF Counted
      <4>2. CASE x = d /\ j = i
        BY <1>1, <1>2, <2>2, <4>2 DEF Counted
      <4>3. CASE x = d /\ j # i
        <5>1. j <= Len(reviews[d]) => reviews'[d][j] = reviews[d][j]
          BY <1>2, <2>1, <4>3
        <5> QED BY <1>2, <4>3, <5>1 DEF Counted
      <4> QED BY <4>1, <4>2, <4>3
    <3>2. Counted \subseteq Daemons \X (1 .. MaxReviews)
          /\ Counted' \subseteq Daemons \X (1 .. MaxReviews)
      BY DEF Counted
    <3> QED BY <2>2, <3>1, <3>2
  <2>5. Cardinality(Counted') = Cardinality(Counted) + 1
    BY <2>3, <2>4, CountedFinite, FS_AddElement
  <2> QED BY <1>3, <2>5 DEF IInv, WaitGroup
<1>8. NoReportsYet'
  <2>1. UNCHANGED <<reports, reviewed, job, todo>> /\ (Storing' <=> Storing)
    BY <1>3 DEF dbVars, workVars, Storing
  <2>2. \A x \in Daemons : \A j \in Pending(x)' : reviews'[x][j].internal = reviews[x][j].internal
    BY <1>1, <1>2, <1>4 DEF Pending
  <2> QED BY <1>4, <2>1, <2>2 DEF IInv, NoReportsYet
<1>9. Reading'
  BY <1>3, Frames DEF IInv, dbVars, callVars
<1>10. Awaiting'
  <2>1. \A x \in Daemons : Running(x) => Running(x)'
    BY <1>1, <1>2 DEF Running
  <2>2. \A x \in Daemons : AtWorker(x)' <=> AtWorker(x)
    BY <1>3 DEF AtWorker, workVars
  <2>3. awaited \subseteq Daemons
    BY DEF IInv, Types, WorkTypes
  <2> QED BY <1>3, <2>1, <2>2, <2>3 DEF IInv, Awaiting, workVars
<1> QED BY <1>5, <1>6, <1>7, <1>8, <1>9, <1>10 DEF IInv

\* The review moves from its goroutine, which stays counted, to the worker.
LEMMA ReceiveKeeps ==
  ASSUME IInv, NEW d \in Daemons, NEW i \in DOMAIN reviews[d], Receive(d, i)
  PROVE  IInv'
<1> DEFINE old == reviews[d][i]
           r == [old EXCEPT !.step = "sent"]
<1>1. reviews[d] \in Seq(ReviewOf(d)) /\ old \in ReviewOf(d) /\ DOMAIN reviews = Daemons
      /\ Len(reviews[d]) <= MaxReviews /\ MaxReviews \in Nat
  BY BoundsAssumption DEF IInv, Types, ReviewTypes
<1>2. r \in ReviewOf(d) /\ r.step = "sent"
  BY <1>1 DEF ReviewOf
<1>3. reviews' = [reviews EXCEPT ![d] = [@ EXCEPT ![i] = r]]
  BY <1>1 DEF Receive
<1> HIDE DEF r
<1>4. /\ DOMAIN reviews' = Daemons
      /\ \A x \in Daemons \ {d} : reviews'[x] = reviews[x]
      /\ reviews'[d] \in Seq(ReviewOf(d)) /\ Len(reviews'[d]) = Len(reviews[d])
      /\ DOMAIN reviews'[d] = DOMAIN reviews[d]
      /\ reviews'[d][i] = r
      /\ \A j \in DOMAIN reviews[d] \ {i} : reviews'[d][j] = reviews[d][j]
  BY <1>2, <1>3, ReplaceReview DEF IInv, Types
<1>5. /\ job = NoDaemon /\ worker # "ended" /\ old.step = "running"
      /\ job' = [daemon |-> d, hash |-> old.hash, refs |-> old.refs,
                 internal |-> old.internal, step |-> "storing"]
      /\ UNCHANGED <<kea, dbVars, state, reviewWg, worker, todo, allReviewsDone, shutdown,
                     awaited, callVars, extras>>
  BY DEF Receive
<1>6. job' \in JobOf(d) /\ job'.step = "storing" /\ job'.internal = old.internal
  BY <1>1, <1>5 DEF JobOf, ReviewOf
<1>7. job' # NoDaemon /\ job'.daemon = d
  BY <1>6, JobIsTyped
<1>8. /\ Pending(d) = {i} /\ Pending(d)' = {} /\ ~ AtWorker(d)
      /\ \A x \in Daemons \ {d} : Pending(x)' = Pending(x)
  <2>1. i \in Pending(d)
    BY <1>5 DEF Pending
  <2>2. Pending(d) = {i} /\ ~ AtWorker(d)
    BY <2>1 DEF IInv, Exclusive
  <2>3. \A j \in DOMAIN reviews[d] \ {i} : reviews[d][j].step = "sent"
    BY <2>2 DEF Pending
  <2>4. Pending(d)' = {}
    BY <1>2, <1>4, <2>3 DEF Pending
  <2> QED BY <1>4, <2>2, <2>4 DEF Pending
<1>9. todo = {} /\ todo' = {}
  BY <1>5 DEF IInv, Types, WorkTypes
<1>10. Types'
  <2>1. ReviewTypes'
    BY <1>4, <1>5 DEF IInv, Types, ReviewTypes
  <2>2. WorkTypes'
    BY <1>5, <1>6, <1>9 DEF IInv, Types, WorkTypes
  <2> QED BY <1>5, <2>1, <2>2, Frames DEF IInv, Types, callVars
<1>11. Exclusive'
  <2>1. \A x \in Daemons : AtWorker(x)' <=> x = d
    BY <1>7 DEF AtWorker
  <2>2. state[d]
    BY <1>8 DEF IInv, Exclusive
  <2> QED BY <1>5, <1>8, <2>1, <2>2 DEF IInv, Exclusive
<1>12. WaitGroup'
  <2>1. ASSUME NEW x \in Daemons, NEW j \in 1 .. MaxReviews
        PROVE  <<x, j>> \in Counted' <=> <<x, j>> \in Counted
    <3>1. CASE x # d
      BY <1>4, <3>1 DEF Counted
    <3>2. CASE x = d /\ j = i
      BY <1>2, <1>4, <1>5, <3>2 DEF Counted
    <3>3. CASE x = d /\ j # i
      <4>1. j <= Len(reviews[d]) => reviews'[d][j] = reviews[d][j]
        BY <1>1, <1>4, <3>3
      <4> QED BY <1>4, <3>3, <4>1 DEF Counted
    <3> QED BY <3>1, <3>2, <3>3
  <2>2. Counted \subseteq Daemons \X (1 .. MaxReviews)
        /\ Counted' \subseteq Daemons \X (1 .. MaxReviews)
    BY DEF Counted
  <2>3. Counted' = Counted
    BY <2>1, <2>2
  <2> QED BY <1>5, <2>3 DEF IInv, WaitGroup
<1>13. NoReportsYet'
  <2>1. old.internal => reports[d] = <<>>
    BY <1>8 DEF IInv, NoReportsYet
  <2>2. \A x \in Daemons : \A j \in Pending(x)' : reviews'[x][j].internal => reports[x] = <<>>
    BY <1>4, <1>8 DEF IInv, NoReportsYet
  <2> QED BY <1>5, <1>6, <1>7, <1>9, <2>1, <2>2 DEF IInv, NoReportsYet, dbVars
<1>14. Reading'
  BY <1>5, Frames DEF IInv, dbVars, callVars
<1>15. Awaiting'
  <2>1. \A x \in Daemons \ {d} : Running(x) => Running(x)'
    BY <1>4 DEF Running
  <2>2. AtWorker(d)' /\ \A x \in Daemons : ~ AtWorker(x)
    BY <1>5, <1>7 DEF AtWorker
  <2>3. awaited \subseteq Daemons
    BY DEF IInv, Types, WorkTypes
  <2> QED BY <1>5, <2>1, <2>2, <2>3 DEF IInv, Awaiting
<1> QED BY <1>10, <1>11, <1>12, <1>13, <1>14, <1>15 DEF IInv

\* The goroutines after the one that ends are renumbered: as many are counted as
\* there were others.
LEMMA DoneUncounts ==
  ASSUME ReviewTypes, NEW d \in Daemons, NEW i \in DOMAIN reviews[d],
         reviews[d][i].step = "sent", reviews' = [reviews EXCEPT ![d] = RemoveAt(@, i)]
  PROVE  Cardinality(Counted') = Cardinality(Counted) - 1
<1> DEFINE n == Len(reviews[d])
           Others == Counted \ {<<d, i>>}
           f == [x \in Others |-> IF x[1] = d /\ x[2] > i THEN <<d, x[2] - 1>> ELSE x]
<1>1. /\ \A x \in Daemons \ {d} : reviews'[x] = reviews[x]
      /\ n \in Nat \ {0} /\ Len(reviews'[d]) = n - 1 /\ i \in 1 .. n
      /\ \A j \in 1 .. n - 1 :
           reviews'[d][j] = IF j < i THEN reviews[d][j] ELSE reviews[d][j + 1]
  BY RemoveReview
<1>2. n <= MaxReviews /\ MaxReviews \in Nat
  BY BoundsAssumption DEF ReviewTypes
<1>3. \A e \in Daemons, j \in 1 .. MaxReviews :
         /\ <<e, j>> \in Counted <=>
              j <= Len(reviews[e]) /\ reviews[e][j].step # "accepted"
         /\ <<e, j>> \in Counted' <=>
              j <= Len(reviews'[e]) /\ reviews'[e][j].step # "accepted"
  BY DEF Counted
<1>4. <<d, i>> \in Counted
  BY <1>1, <1>2 DEF Counted
<1>5. \A x \in Others : x = <<x[1], x[2]>> /\ x[1] \in Daemons /\ x[2] \in 1 .. MaxReviews
                        /\ (x[1] = d => x[2] \in 1 .. n /\ x[2] # i)
  BY <1>1 DEF Counted
<1>6. \A x \in Others : f[x] \in Counted'
  <2> SUFFICES ASSUME NEW x \in Others PROVE f[x] \in Counted'
    BY Zenon
  <2>1. CASE x[1] # d
    BY <1>1, <1>5, <2>1, Zenon DEF Counted
  <2>2. CASE x[1] = d /\ x[2] > i
    <3>1. f[x] = <<d, x[2] - 1>> /\ x[2] - 1 \in 1 .. n - 1 /\ ~ (x[2] - 1 < i)
      BY <1>1, <1>5, <2>2
    <3>2. reviews'[d][x[2] - 1] = reviews[d][x[2]]
      BY <1>1, <1>5, <3>1, SMTT(30)
    <3>3. reviews[d][x[2]].step # "accepted"
      BY <2>2 DEF Counted
    <3>4. x[2] - 1 \in 1 .. MaxReviews /\ x[2] - 1 <= Len(reviews'[d])
      BY <1>1, <1>2, <3>1
    <3>5. <<d, x[2] - 1>> \in Counted'
      BY <1>3, <3>2, <3>3, <3>4
    <3> QED BY <3>1, <3>5
  <2>3. CASE x[1] = d /\ x[2] < i
    <3>1. f[x] = x /\ x[2] \in 1 .. n - 1
      BY <1>1, <1>5, <2>3
    <3>2. reviews'[d][x[2]] = reviews[d][x[2]]
      BY <1>1, <2>3, <3>1
    <3>3. reviews[d][x[2]].step # "accepted"
      BY <2>3 DEF Counted
    <3>4. x[2] \in 1 .. MaxReviews /\ x[2] <= Len(reviews'[d])
      BY <1>1, <1>2, <3>1
    <3>5. <<d, x[2]>> \in Counted'
      BY <1>3, <3>2, <3>3, <3>4
    <3> QED BY <1>5, <2>3, <3>1, <3>5
  <2> QED BY <1>1, <1>5, <2>1, <2>2, <2>3
<1>7. \A x, y \in Others : f[x] = f[y] => x = y
  <2> SUFFICES ASSUME NEW x \in Others, NEW y \in Others, f[x] = f[y] PROVE x = y
    OBVIOUS
  <2>1. x[1] = y[1]
    BY <1>5
  <2>2. x[2] = y[2]
    BY <1>1, <1>5, <2>1
  <2> QED BY <1>5, <2>1, <2>2
<1>8. \A y \in Counted' : \E x \in Others : f[x] = y
  <2> SUFFICES ASSUME NEW y \in Counted' PROVE \E x \in Others : f[x] = y
    OBVIOUS
  <2>1. y = <<y[1], y[2]>> /\ y[1] \in Daemons /\ y[2] \in 1 .. MaxReviews
        /\ y[2] <= Len(reviews'[y[1]]) /\ reviews'[y[1]][y[2]].step # "accepted"
    BY DEF Counted
  <2>2. CASE y[1] # d
    <3>1. y \in Others
      BY <1>1, <2>1, <2>2 DEF Counted
    <3> QED BY <2>2, <3>1
  <2>3. CASE y[1] = d /\ y[2] < i
    <3>1. y \in Others
      <4>1. y[2] \in 1 .. n - 1 /\ reviews'[d][y[2]] = reviews[d][y[2]] /\ y[2] # i
        BY <1>1, <2>1, <2>3
      <4>2. <<d, y[2]>> \in Counted
        BY <1>3, <1>1, <2>1, <2>3, <4>1
      <4> QED BY <2>1, <2>3, <4>1, <4>2
    <3>2. f[y] = y
      BY <2>1, <2>3, <3>1, <1>1
    <3> QED BY <3>1, <3>2
  <2>4. CASE y[1] = d /\ ~ (y[2] < i)
    <3>1. y[2] \in 1 .. n - 1 /\ reviews'[d][y[2]] = reviews[d][y[2] + 1]
      BY <1>1, <2>1, <2>4
    <3>2. <<d, y[2] + 1>> \in Others
      BY <1>1, <1>2, <2>1, <2>4, <3>1, SMTT(30) DEF Counted
    <3>3. f[<<d, y[2] + 1>>] = y
      BY <1>1, <2>1, <2>4, <3>1, <3>2
    <3> QED BY <3>2, <3>3
  <2> QED BY <2>2, <2>3, <2>4
<1>9. f \in Bijection(Others, Counted')
  <2>1. f \in [Others -> Counted']
    BY <1>6
  <2> HIDE DEF f, Others
  <2> QED BY <1>7, <1>8, <2>1 DEF Bijection, Injection, Surjection, IsInjective
<1>10. IsFiniteSet(Others) /\ Cardinality(Others) = Cardinality(Counted) - 1
  BY <1>4, CountedFinite, FS_RemoveElement
<1> HIDE DEF f, Others
<1>11. ExistsBijection(Others, Counted')
  BY <1>9 DEF ExistsBijection
<1> QED BY <1>10, <1>11, FS_Bijection

\* Only a goroutine that has handed its review over ends.
LEMMA DoneKeeps ==
  ASSUME IInv, NEW d \in Daemons, NEW i \in DOMAIN reviews[d], Done(d, i)
  PROVE  IInv'
<1> DEFINE n == Len(reviews[d])
<1>1. /\ reviews[d][i].step = "sent"
      /\ reviews' = [reviews EXCEPT ![d] = RemoveAt(@, i)]
      /\ reviewWg' = reviewWg - 1
      /\ UNCHANGED <<kea, dbVars, state, workVars, callVars, extras>>
  BY DEF Done
<1>2. ReviewTypes
  BY DEF IInv, Types
<1>3. /\ DOMAIN reviews' = Daemons
      /\ \A x \in Daemons \ {d} : reviews'[x] = reviews[x]
      /\ reviews'[d] \in Seq(ReviewOf(d)) /\ n \in Nat \ {0} /\ Len(reviews'[d]) = n - 1
      /\ DOMAIN reviews[d] = 1 .. n /\ DOMAIN reviews'[d] = 1 .. n - 1
      /\ \A j \in 1 .. n - 1 :
           reviews'[d][j] = IF j < i THEN reviews[d][j] ELSE reviews[d][j + 1]
  BY <1>1, <1>2, RemoveReview
<1> HIDE DEF n
<1>4. i \in 1 .. n
  BY <1>3
\* Where a goroutine was before.
<1> DEFINE Was(j) == IF j < i THEN j ELSE j + 1
<1>5. \A j \in 1 .. n - 1 : Was(j) \in 1 .. n /\ reviews'[d][j] = reviews[d][Was(j)]
  BY <1>3, <1>4
<1>6. \A j \in 1 .. n \ {i} : \E k \in 1 .. n - 1 : reviews'[d][k] = reviews[d][j]
  <2> SUFFICES ASSUME NEW j \in 1 .. n, j # i
               PROVE  \E k \in 1 .. n - 1 : reviews'[d][k] = reviews[d][j]
    OBVIOUS
  <2>1. CASE j < i
    BY <1>3, <1>4, <2>1
  <2>2. CASE j > i
    <3>1. j - 1 \in 1 .. n - 1 /\ ~ (j - 1 < i) /\ (j - 1) + 1 = j
      BY <1>3, <1>4, <2>2
    <3>2. reviews'[d][j - 1] = reviews[d][j]
      BY <1>3, <3>1
    <3> QED BY <3>1, <3>2
  <2> QED BY <1>4, <2>1, <2>2
<1>7. \A j, k \in 1 .. n - 1 : Was(j) = Was(k) => j = k
  BY <1>4, <1>3
<1> HIDE DEF Was
<1>8. \A j \in Pending(d)' : j \in 1 .. n - 1 /\ Was(j) \in Pending(d)
  BY <1>3, <1>5 DEF Pending
<1>9. \A x \in Daemons \ {d} : Pending(x)' = Pending(x)
  BY <1>3 DEF Pending
<1>10. Types'
  <2>1. ReviewTypes'
    BY <1>1, <1>2, <1>3, BoundsAssumption DEF ReviewTypes, n
  <2> QED BY <1>1, <2>1, Frames DEF IInv, Types, callVars
<1>11. Exclusive'
  <2>1. \A x \in Daemons : AtWorker(x)' <=> AtWorker(x)
    BY <1>1 DEF AtWorker, workVars
  <2>2. \A j, k \in Pending(d)' : j = k
    BY <1>7, <1>8 DEF IInv, Exclusive
  <2>3. Pending(d) = {} => Pending(d)' = {}
    BY <1>8
  <2> QED BY <1>1, <1>9, <2>1, <2>2, <2>3 DEF IInv, Exclusive
<1>12. WaitGroup'
  <2>1. Cardinality(Counted') = Cardinality(Counted) - 1
    BY <1>1, <1>2, DoneUncounts
  <2> QED BY <1>1, <2>1 DEF IInv, WaitGroup
<1>13. NoReportsYet'
  <2>1. UNCHANGED <<reports, reviewed, job, todo>> /\ (Storing' <=> Storing)
    BY <1>1 DEF dbVars, workVars, Storing
  <2>2. \A j \in Pending(d)' : reviews'[d][j].internal => reports[d] = <<>>
    BY <1>5, <1>8 DEF IInv, NoReportsYet
  <2>3. \A x \in Daemons \ {d} : \A j \in Pending(x)' :
          reviews'[x][j].internal => reports[x] = <<>>
    BY <1>3, <1>9 DEF IInv, NoReportsYet
  <2> QED BY <2>1, <2>2, <2>3 DEF IInv, NoReportsYet
<1>14. Reading'
  BY <1>1, Frames DEF IInv, dbVars, callVars
<1>15. Awaiting'
  <2>1. \A x \in Daemons : Running(x) => Running(x)'
    <3>1. Running(d) => Running(d)'
      <4> SUFFICES ASSUME NEW j \in 1 .. n, reviews[d][j].step = "running"
                   PROVE  Running(d)'
        BY <1>3 DEF Running
      <4>1. PICK k \in 1 .. n - 1 : reviews'[d][k] = reviews[d][j]
        BY <1>1, <1>6
      <4> QED BY <1>3, <4>1 DEF Running
    <3> QED BY <1>3, <3>1 DEF Running
  <2>2. \A x \in Daemons : AtWorker(x)' <=> AtWorker(x)
    BY <1>1 DEF AtWorker, workVars
  <2>3. awaited \subseteq Daemons
    BY DEF IInv, Types, WorkTypes
  <2> QED BY <1>1, <2>1, <2>2, <2>3 DEF IInv, Awaiting, workVars
<1> QED BY <1>10, <1>11, <1>12, <1>13, <1>14, <1>15 DEF IInv

-----------------------------------------------------------------------------
(* The steps of the worker                                                 *)

\* The transaction replaces the reports of the daemon under review, adds to none
\* of them, and leaves none for the daemons whose reviews will follow.
LEMMA PopulateKeeps == ASSUME IInv, Populate PROVE IInv'
<1>1. /\ job # NoDaemon /\ job.step = "storing"
      /\ reports' = [d \in Daemons |->
           (IF d \in Deleted THEN <<>> ELSE reports[d])
             \o (IF d = job.daemon THEN <<job.hash>> ELSE <<>>)]
      /\ reviewed' = [reviewed EXCEPT ![job.daemon] = job.hash]
      /\ todo' = IF job.internal THEN {} ELSE DOMAIN job.refs
      /\ job' = [job EXCEPT !.step = "handled"]
      /\ UNCHANGED <<kea, config, state, reviews, reviewWg, worker, allReviewsDone, shutdown,
                     awaited, callVars, extras>>
  BY DEF Populate, Storing
<1>2. PICK d \in Daemons : job \in JobOf(d)
  BY <1>1 DEF IInv, Types, WorkTypes
<1>3. /\ job.daemon = d /\ job.hash \in Hashes /\ job.internal \in BOOLEAN
      /\ DOMAIN job.refs \subseteq Daemons \ {d}
      /\ job' \in JobOf(d)
  BY <1>1, <1>2, JobIsTyped, RefsAreTyped
<1>4. job' # NoDaemon /\ job'.step = "handled" /\ job'.daemon = d /\ job'.refs = job.refs
  BY <1>1, <1>2, <1>3, JobIsTyped DEF JobOf
<1>5. AtWorker(d) /\ Pending(d) = {} /\ state[d]
  BY <1>1, <1>3 DEF AtWorker, IInv, Exclusive
<1>6. /\ reports'[d] = <<job.hash>>
      /\ \A x \in Daemons \ {d} : reports'[x] \in {<<>>, reports[x]}
      /\ ~ job.internal => \A x \in DOMAIN job.refs : reports'[x] = <<>>
  <2>1. d \in Deleted \/ reports[d] = <<>>
    BY <1>1, <1>3 DEF Deleted, IInv, NoReportsYet, Storing
  <2>2. reports'[d] = <<>> \o <<job.hash>>
    BY <1>1, <1>3, <2>1
  <2>3. \A x \in Daemons \ {d} :
          reports'[x] = (IF x \in Deleted THEN <<>> ELSE reports[x]) \o <<>>
    BY <1>1, <1>3
  <2>4. \A x \in Daemons : reports[x] \in Seq(Hashes)
    BY DEF IInv, Types, DbTypes
  <2>5. <<>> \o <<job.hash>> = <<job.hash>> /\ \A x \in Daemons : reports[x] \o <<>> = reports[x]
    BY <1>3, <2>4
  <2>6. <<>> \o <<>> = <<>>
    OBVIOUS
  <2> QED BY <1>3, <2>2, <2>3, <2>5, <2>6 DEF Deleted
<1>7. reviewed'[d] = job.hash /\ \A x \in Daemons \ {d} : reviewed'[x] = reviewed[x]
  BY <1>1, <1>3 DEF IInv, Types, DbTypes
<1>8. Types'
  <2>1. reports' \in [Daemons -> Seq(Hashes)]
    <3>1. \A x \in Daemons : reports[x] \in Seq(Hashes)
      BY DEF IInv, Types, DbTypes
    <3>2. <<job.hash>> \in Seq(Hashes) /\ <<>> \in Seq(Hashes)
      BY <1>3
    <3>3. \A x \in Daemons : reports'[x] \in Seq(Hashes)
      BY <1>6, <3>1, <3>2
    <3> QED BY <1>1, <3>3
  <2>2. DbTypes'
    BY <1>1, <1>3, <2>1 DEF IInv, Types, DbTypes
  <2>3. WorkTypes'
    <3>1. todo' \in SUBSET DOMAIN job'.refs
      BY <1>1, <1>4
    <3> QED BY <1>1, <1>3, <1>4, <3>1 DEF IInv, Types, WorkTypes
  <2> QED BY <1>1, <2>2, <2>3, Frames DEF IInv, Types, callVars
<1>9. Exclusive'
  <2>1. \A x \in Daemons : (AtWorker(x)' <=> AtWorker(x)) /\ Pending(x)' = Pending(x)
    BY <1>1, <1>3, <1>4 DEF AtWorker, Pending
  <2> QED BY <1>1, <2>1 DEF IInv, Exclusive
<1>10. NoReportsYet'
  <2>1. \A x \in Daemons : reports'[x] \in {<<>>, <<reviewed'[x]>>}
    BY <1>6, <1>7 DEF IInv, NoReportsYet
  <2>2. \A x \in Daemons : \A i \in Pending(x)' : reviews'[x][i].internal => reports'[x] = <<>>
    <3>1. \A x \in Daemons : Pending(x)' = Pending(x)
      BY <1>1 DEF Pending
    <3>2. \A x \in Daemons : \A i \in Pending(x) : reviews[x][i].internal => reports[x] = <<>>
      BY DEF IInv, NoReportsYet
    <3>3. \A x \in Daemons \ {d} : reports[x] = <<>> => reports'[x] = <<>>
      BY <1>6
    <3>4. reviews' = reviews
      BY <1>1
    <3> QED BY <1>5, <3>1, <3>2, <3>3, <3>4
  <2>3. ~ Storing'
    BY <1>4 DEF Storing
  <2>4. \A r \in todo' : reports'[r] = <<>>
    BY <1>1, <1>6
  <2> QED BY <2>1, <2>2, <2>3, <2>4 DEF NoReportsYet
<1>11. Reading'
  <2>1. view # NoDaemon => view.daemon \in Daemons
    BY ViewIsTyped DEF IInv, Reading
  <2>2. view # NoDaemon /\ ~ view.overtaken => view.daemon # d
    BY <1>5 DEF IInv, Reading
  <2> QED BY <1>1, <1>7, <2>1, <2>2 DEF IInv, Reading, callVars
<1>12. Awaiting'
  <2>1. \A x \in Daemons : (AtWorker(x)' <=> AtWorker(x)) /\ (Running(x)' <=> Running(x))
    BY <1>1, <1>3, <1>4 DEF AtWorker, Running
  <2>2. awaited \subseteq Daemons
    BY DEF IInv, Types, WorkTypes
  <2> QED BY <1>1, <2>1, <2>2 DEF IInv, Awaiting
<1> QED BY <1>1, <1>8, <1>9, <1>10, <1>11, <1>12, Frames DEF IInv

LEMMA PopulateFailsKeeps == ASSUME IInv, PopulateFails PROVE IInv'
<1>1. /\ job # NoDaemon /\ job.step = "storing"
      /\ job' = [job EXCEPT !.step = "handled"]
      /\ UNCHANGED <<kea, dbVars, state, reviews, reviewWg, worker, todo, allReviewsDone,
                     shutdown, awaited, callVars, extras>>
  BY DEF PopulateFails, Storing
<1>2. PICK d \in Daemons : job \in JobOf(d)
  BY <1>1 DEF IInv, Types, WorkTypes
<1>3. job' \in JobOf(d) /\ job.daemon = d
  BY <1>1, <1>2, JobIsTyped
<1>4. job' # NoDaemon /\ job'.step = "handled" /\ job'.daemon = d
  BY <1>1, <1>2, <1>3, JobIsTyped DEF JobOf
<1>5. todo = {} /\ todo' = {}
  BY <1>1 DEF IInv, Types, WorkTypes
<1>6. WorkTypes'
  BY <1>1, <1>3, <1>4, <1>5 DEF IInv, Types, WorkTypes
<1>7. \A x \in Daemons : /\ AtWorker(x)' <=> AtWorker(x)
                         /\ Pending(x)' = Pending(x) /\ (Running(x)' <=> Running(x))
  BY <1>1, <1>3, <1>4 DEF AtWorker, Pending, Running
<1>8. Exclusive' /\ NoReportsYet'
  BY <1>1, <1>4, <1>5, <1>7 DEF IInv, Exclusive, NoReportsYet, Storing, dbVars
<1>9. Awaiting'
  <2>1. awaited \subseteq Daemons
    BY DEF IInv, Types, WorkTypes
  <2> QED BY <1>1, <1>7, <2>1 DEF IInv, Awaiting
<1> QED BY <1>1, <1>6, <1>8, <1>9, Frames DEF IInv, Types, callVars, dbVars

LEMMA BeginInternalKeeps ==
  ASSUME IInv, NEW r \in Daemons, BeginInternal(r)
  PROVE  IInv'
<1>1. /\ r \in todo /\ todo' = todo \ {r}
      /\ Begin(r, job.refs[r], TRUE)
      /\ UNCHANGED <<kea, dbVars, reviewWg, worker, job, allReviewsDone, shutdown, awaited,
                     pull, manual, extras>>
  BY DEF BeginInternal
<1>2. job # NoDaemon /\ job.step = "handled" /\ todo \in SUBSET DOMAIN job.refs
  BY <1>1 DEF IInv, Types, WorkTypes
<1>3. PICK d \in Daemons : job \in JobOf(d)
  BY <1>2 DEF IInv, Types, WorkTypes
<1>4. job.refs[r] \in Hashes
  BY <1>1, <1>2, <1>3, JobIsTyped, RefsAreTyped
<1>5. reports[r] = <<>>
  BY <1>1 DEF IInv, NoReportsYet
<1>6. ReviewTypes' /\ Exclusive' /\ WaitGroup' /\ NoReportsYet' /\ Reading' /\ Awaiting'
  BY <1>1, <1>4, <1>5, BeginKeeps DEF dbVars
<1>7. WorkTypes'
  BY <1>1, <1>2 DEF IInv, Types, WorkTypes
<1> QED BY <1>1, <1>6, <1>7, Frames DEF IInv, Types

\* No goroutine of the daemon is left that the map would have to stand for.
LEMMA PopulateEndKeeps == ASSUME IInv, PopulateEnd PROVE IInv'
<1>1. /\ job # NoDaemon /\ todo = {} /\ todo' = {} /\ job' = NoDaemon
      /\ state' = [state EXCEPT ![job.daemon] = FALSE]
      /\ awaited' = awaited \ {job.daemon}
      /\ UNCHANGED <<kea, dbVars, reviews, reviewWg, worker, allReviewsDone, shutdown,
                     callVars, extras>>
  BY DEF PopulateEnd
<1>2. job.daemon \in Daemons
  BY <1>1, JobIsTyped DEF IInv, Types, WorkTypes
<1>3. Pending(job.daemon) = {}
  BY <1>1, <1>2 DEF IInv, Exclusive, AtWorker
<1>4. \A x \in Daemons : /\ ~ AtWorker(x)'
                         /\ Pending(x)' = Pending(x) /\ (Running(x)' <=> Running(x))
  BY <1>1 DEF AtWorker, Pending, Running
<1>5. \A x \in Daemons : AtWorker(x) <=> x = job.daemon
  BY <1>1 DEF AtWorker
<1>6. state \in [Daemons -> BOOLEAN] /\ awaited \subseteq Daemons
  BY DEF IInv, Types, ReviewTypes, WorkTypes
<1>7. ReviewTypes' /\ WorkTypes'
  BY <1>1, <1>2 DEF IInv, Types, ReviewTypes, WorkTypes
<1>8. Exclusive'
  BY <1>1, <1>2, <1>3, <1>4, <1>5, <1>6 DEF IInv, Exclusive
<1>9. NoReportsYet'
  BY <1>1, <1>4 DEF IInv, NoReportsYet, Storing, dbVars
<1>10. Reading'
  <2>1. view # NoDaemon => view.daemon \in Daemons
    BY ViewIsTyped DEF IInv, Reading
  <2>2. \A x \in Daemons : ~ state[x] => ~ state'[x]
    BY <1>1, <1>2, <1>6
  <2> QED BY <1>1, <2>1, <2>2 DEF IInv, Reading, dbVars, callVars
<1>11. Awaiting'
  BY <1>1, <1>4, <1>5, <1>6 DEF IInv, Awaiting
<1> QED BY <1>1, <1>7, <1>8, <1>9, <1>10, <1>11, Frames DEF IInv, Types, callVars

\* The end of the worker: by then the wait group was down at zero, so a daemon
\* that is still waited for is at the worker, which does not end before its job.
LEMMA EndKeeps ==
  ASSUME IInv, Drain \/ WaitEnd \/ DrainEnd \/ Shutdown \/ ShutdownEnd
  PROVE  IInv'
<1>1. /\ UNCHANGED <<kea, dbVars, state, reviews, reviewWg, job, todo, callVars, extras>>
      /\ worker' \in {"waiting", "draining", "ended"} /\ allReviewsDone' \in BOOLEAN
      /\ shutdown' \in {"no", "stopping", "done"} /\ awaited' \in SUBSET Daemons
  BY DEF Drain, WaitEnd, DrainEnd, Shutdown, ShutdownEnd, IInv, Types, WorkTypes
<1>2. WorkTypes'
  BY <1>1 DEF IInv, Types, WorkTypes
<1>3. \A x \in Daemons : (AtWorker(x)' <=> AtWorker(x)) /\ (Running(x)' <=> Running(x))
  BY <1>1 DEF AtWorker, Running
<1>4. awaited \subseteq Daemons
  BY DEF IInv, Types, WorkTypes
<1>5. Awaiting'
  <2>1. CASE Drain
    BY <1>3, <1>4, <2>1 DEF Drain, IInv, Awaiting
  <2>2. CASE WaitEnd
    <3>1. Counted = {}
      BY <2>2, CountedFinite, FS_EmptySet DEF WaitEnd, IInv, WaitGroup
    <3>2. \A x \in Daemons : ~ Running(x)
      <4> SUFFICES ASSUME NEW x \in Daemons, NEW i \in DOMAIN reviews[x],
                          reviews[x][i].step = "running"
                   PROVE  <<x, i>> \in Counted
        BY <3>1 DEF Running
      <4>1. reviews[x] \in Seq(ReviewOf(x)) /\ Len(reviews[x]) <= MaxReviews
            /\ MaxReviews \in Nat
        BY BoundsAssumption DEF IInv, Types, ReviewTypes
      <4>2. i \in 1 .. MaxReviews /\ i <= Len(reviews[x])
        BY <4>1
      <4> QED BY <4>2 DEF Counted
    <3> QED BY <1>3, <1>4, <2>2, <3>2 DEF WaitEnd, IInv, Awaiting
  <2>3. CASE DrainEnd
    <3>1. awaited = {}
      BY <1>4, <2>3 DEF DrainEnd, AtWorker, IInv, Awaiting
    <3> QED BY <2>3, <3>1 DEF DrainEnd, IInv, Awaiting
  <2>4. CASE Shutdown
    <3>1. \A x \in awaited' : AtWorker(x) \/ Running(x)
      BY <2>4 DEF Shutdown, UnderReview, AtWorker, Running
    <3> QED BY <1>1, <1>3, <2>4, <3>1 DEF Shutdown, IInv, Awaiting
  <2>5. CASE ShutdownEnd
    BY <1>3, <1>4, <2>5 DEF ShutdownEnd, IInv, Awaiting
  <2> QED BY <2>1, <2>2, <2>3, <2>4, <2>5
<1> QED BY <1>1, <1>2, <1>5, Frames DEF IInv, Types, dbVars, callVars

-----------------------------------------------------------------------------
(* The steps of those who ask for reviews, and of those who look           *)

LEMMA PullKeeps == ASSUME IInv, Pull PROVE IInv'
<1>1. pull.at \in DOMAIN Order /\ Order[pull.at] \in Daemons
  BY OrderVisits DEF IInv, Types, PullTypes
<1>2. CASE PullRead
  <2>1. pull' \in [step : {"read", "committed"}, at : DOMAIN Order, new : Hashes, same : BOOLEAN]
    <3>1. NeedsNoReview(Order[pull.at]) \in BOOLEAN
      BY DEF NeedsNoReview
    <3>2. kea[Order[pull.at]] \in Hashes
      BY <1>1 DEF IInv, Types, DbTypes
    <3> QED BY <1>1, <1>2, <3>1, <3>2 DEF PullRead
  <2>2. PullTypes'
    BY <1>2, <2>1 DEF PullRead, IInv, Types, PullTypes
  <2> QED BY <1>2, <2>2, Frames DEF PullRead, IInv, Types, dbVars, workVars
<1>3. CASE PullCommit
  <2>1. pull \in [step : {"read", "committed"}, at : DOMAIN Order, new : Hashes, same : BOOLEAN]
    BY <1>3 DEF PullCommit, IInv, Types, PullTypes
  <2>2. pull' \in [step : {"read", "committed"}, at : DOMAIN Order, new : Hashes, same : BOOLEAN]
    BY <1>3, <2>1 DEF PullCommit
  <2>3. PullTypes'
    BY <1>3, <2>2 DEF PullCommit, IInv, Types, PullTypes
  <2>4. DbTypes'
    BY <1>1, <1>3, <2>1 DEF PullCommit, IInv, Types, DbTypes
  <2> QED BY <1>3, <2>3, <2>4, Frames DEF PullCommit, IInv, Types, workVars
<1>4. CASE PullBegin
  <2>1. pull \in [step : {"read", "committed"}, at : DOMAIN Order, new : Hashes, same : BOOLEAN]
    BY <1>4 DEF PullBegin, IInv, Types, PullTypes
  <2>2. (pull.at % Len(Order)) + 1 \in DOMAIN Order
    BY <1>1, OrderVisits
  <2>3. PullTypes'
    BY <1>4, <2>2 DEF PullBegin, IInv, Types, PullTypes
  <2>4. UNCHANGED <<kea, dbVars, workVars>> /\ UNCHANGED reviewWg
    BY <1>4 DEF PullBegin
  <2>5. CASE pull.same
    <3>1. UNCHANGED <<state, reviews, view>>
      BY <1>4, <2>5 DEF PullBegin
    <3> QED BY <2>3, <2>4, <3>1, Frames DEF IInv, Types, dbVars, workVars
  <2>6. CASE ~ pull.same
    <3>1. Begin(Order[pull.at], pull.new, FALSE) /\ pull.new \in Hashes
      BY <1>4, <2>1, <2>6 DEF PullBegin
    <3>2. ReviewTypes' /\ Exclusive' /\ WaitGroup' /\ NoReportsYet' /\ Reading' /\ Awaiting'
      BY <1>1, <2>4, <3>1, BeginKeeps DEF dbVars, workVars
    <3> QED BY <2>3, <2>4, <3>2, Frames DEF IInv, Types
  <2> QED BY <2>5, <2>6
<1> QED BY <1>2, <1>3, <1>4 DEF Pull

LEMMA ManualKeeps ==
  ASSUME IInv, ManualBegin \/ \E d \in Daemons : ManualRead(d) \/ Reconfigure(d)
  PROVE  IInv'
<1>1. CASE ManualBegin
  <2>1. manual \in [step : {"read"}, daemon : Daemons, hash : Hashes]
    BY <1>1 DEF ManualBegin, IInv, Types, PullTypes
  <2>2. ReviewTypes' /\ Exclusive' /\ WaitGroup' /\ NoReportsYet' /\ Reading' /\ Awaiting'
    BY <1>1, <2>1, BeginKeeps DEF ManualBegin, dbVars, workVars
  <2>3. PullTypes'
    BY <1>1 DEF ManualBegin, IInv, Types, PullTypes
  <2> QED BY <1>1, <2>2, <2>3, Frames DEF ManualBegin, IInv, Types
<1>2. ASSUME NEW d \in Daemons, ManualRead(d) PROVE IInv'
  <2>1. config[d] \in Hashes /\ MaxExtras \in Nat
    BY BoundsAssumption DEF IInv, Types, DbTypes
  <2>2. PullTypes'
    BY <1>2, <2>1 DEF ManualRead, IInv, Types, PullTypes
  <2> QED BY <1>2, <2>2, Frames DEF ManualRead, IInv, Types, dbVars, workVars
<1>3. ASSUME NEW d \in Daemons, Reconfigure(d) PROVE IInv'
  <2>1. DbTypes'
    BY <1>3 DEF Reconfigure, IInv, Types, DbTypes, dbVars, Hashes
  <2> QED BY <1>3, <2>1, Frames DEF Reconfigure, IInv, Types, dbVars, workVars, callVars
<1> QED BY <1>1, <1>2, <1>3

\* A look begins while no review is in progress; the summary and the reports are
\* those of one review as long as none begins.
LEMMA LookKeeps ==
  ASSUME IInv, GetDaemonConfigReports \/ \E d \in Daemons : Look(d)
  PROVE  IInv'
<1>1. UNCHANGED <<kea, dbVars, state, reviews, reviewWg, workVars, pull, manual>>
  BY DEF GetDaemonConfigReports, ReadReview, ReadReports, Respond, Look
<1>2. PullTypes'
  <2>1. extras' \in 0 .. MaxExtras
    BY BoundsAssumption DEF GetDaemonConfigReports, ReadReview, ReadReports, Respond, Look,
          IInv, Types, PullTypes
  <2> QED BY <1>1, <2>1 DEF IInv, Types, PullTypes
<1>3. Reading'
  <2>1. ASSUME NEW d \in Daemons, Look(d) PROVE Reading'
    <3>1. view' = [step |-> "looking", daemon |-> d, overtaken |-> FALSE] /\ ~ state[d]
      BY <2>1 DEF Look, ReviewInProgress
    <3>2. view' \in View(d)
      BY <3>1 DEF View
    <3> QED BY <1>1, <3>1, <3>2 DEF Reading
  <2>2. CASE Respond
    BY <2>2 DEF Respond, Reading
  <2>3. CASE ReadReview \/ ReadReports
    <3>1. view # NoDaemon
      BY <2>3 DEF ReadReview, ReadReports
    <3>2. PICK d \in Daemons : view \in View(d)
      BY <3>1 DEF IInv, Reading
    <3>3. view.daemon = d /\ view.overtaken \in BOOLEAN
      BY <3>2, ViewIsTyped
    <3>4. reviewed[d] \in Hashes \cup {0} /\ reports[d] \in Seq(Hashes)
      BY DEF IInv, Types, DbTypes
    <3>5. UNCHANGED <<state, reviewed, reports>>
      BY <1>1 DEF dbVars
    <3>6. CASE ReadReview
      <4>1. CASE reviewed[d] = 0
        BY <3>3, <3>6, <4>1 DEF ReadReview, Reading
      <4>2. CASE reviewed[d] # 0
        <5>1. view' = [step |-> "reading", daemon |-> d, overtaken |-> view.overtaken,
                       review |-> reviewed[d]]
          BY <3>3, <3>6, <4>2 DEF ReadReview
        <5>2. view' \in View(d)
          BY <3>3, <3>4, <5>1 DEF View
        <5> QED BY <3>1, <3>3, <3>5, <5>1, <5>2 DEF IInv, Reading
      <4> QED BY <4>1, <4>2
    <3>7. CASE ReadReports
      <4>1. view' = [step |-> "shown", daemon |-> d, overtaken |-> view.overtaken,
                     review |-> view.review, reports |-> reports[d]]
            /\ view.step = "reading"
        BY <3>3, <3>7 DEF ReadReports
      <4>2. view.review \in Hashes \cup {0}
        BY <3>2, <4>1 DEF View
      <4>3. view' \in View(d)
        BY <3>3, <3>4, <4>1, <4>2 DEF View
      <4>4. reports[d] \in {<<>>, <<reviewed[d]>>}
        BY DEF IInv, NoReportsYet
      <4> QED BY <3>1, <3>3, <3>5, <4>1, <4>3, <4>4 DEF IInv, Reading
    <3> QED BY <2>3, <3>6, <3>7
  <2> QED BY <2>1, <2>2, <2>3 DEF GetDaemonConfigReports
<1> QED BY <1>1, <1>2, <1>3, Frames DEF IInv, Types, dbVars, workVars

\* After a restart nothing is in progress, and the reports that are stored still
\* stem from one review each.
LEMMA RestartKeeps == ASSUME IInv, Restart PROVE IInv'
<1>1. DbTypes'
  BY Frames DEF Restart, IInv, Types
<1>2. ReviewTypes'
  BY BoundsAssumption DEF Restart, ReviewTypes
<1>3. WorkTypes'
  BY DEF Restart, WorkTypes
<1>4. PullTypes'
  BY OrderVisits, BoundsAssumption DEF Restart, IInv, Types, PullTypes
<1>5. Exclusive' /\ Reading' /\ Awaiting'
  BY DEF Restart, Exclusive, AtWorker, Pending, Reading, Awaiting
<1>6. NoReportsYet'
  BY DEF Restart, IInv, NoReportsYet, Pending, Storing, dbVars
<1>7. Counted' = {}
  BY DEF Restart, Counted
<1>8. WaitGroup'
  BY <1>7, FS_EmptySet DEF Restart, WaitGroup
<1> QED BY <1>1, <1>2, <1>3, <1>4, <1>5, <1>6, <1>8 DEF IInv, Types

-----------------------------------------------------------------------------

LEMMA InvStep == IInv /\ [Next]_vars => IInv'
<1> SUFFICES ASSUME IInv, [Next]_vars PROVE IInv'
  OBVIOUS
<1>1. CASE Worker
  BY <1>1, PopulateKeeps, PopulateFailsKeeps, PopulateEndKeeps, EndKeeps, BeginInternalKeeps
  DEF Worker
<1>2. ASSUME NEW d \in Daemons, Review(d) PROVE IInv'
  BY <1>2, StartKeeps, ReceiveKeeps, DoneKeeps DEF Review
<1>3. CASE UNCHANGED vars
  BY <1>3, Frames DEF IInv, Types, vars, dbVars, workVars, callVars
<1> QED BY <1>1, <1>2, <1>3, PullKeeps, ManualKeeps, LookKeeps, EndKeeps, RestartKeeps
        DEF Next

LEMMA Invariance == Spec => []IInv
<1>1. Init => IInv
  BY InvInit
<1>2. IInv /\ [Next]_vars => IInv'
  BY InvStep
<1> QED BY <1>1, <1>2, PTL DEF Spec

\* No two reviews of a daemon are in progress, whoever asks for them, and the
\* wait group of the dispatcher never goes below zero: every goroutine that
\* calls Done has been counted, although Add comes after the mutex is released
\* and a goroutine may be sent the worker's way before or after the shutdown.
THEOREM OneReview == Spec => []OneReviewPerDaemon
<1>1. IInv => OneReviewPerDaemon
  BY InvImpliesOne
<1> QED BY <1>1, Invariance, PTL

\* The reports of a daemon and its summary stem from one review, also those that
\* a user reads one after the other while no review begins, and a shutdown that
\* has returned waits for nobody who was under review when it was called.
THEOREM ReportsMatch == Spec => []ReportsMatchReview
<1>1. IInv => ReportsMatchReview
  BY InvImpliesMatch
<1> QED BY <1>1, Invariance, PTL

=============================================================================
