-------------------------- MODULE CollectorProofs --------------------------
(***************************************************************************)
(* Theorems about Collector for every finite set of ads and every value of *)
(* the limit, the cap, the pages and the breaker.                          *)
(***************************************************************************)
EXTENDS Collector, FiniteSetTheorems, FunctionTheorems, SequenceTheorems, TLAPS

USE DEF runVars, seenVars, sumVars, boundVars

-----------------------------------------------------------------------------
(* The queue *)

\* The ads of the queue before an ad.
Before(l) == {k \in Pending : k < l}

LEMMA PendingFinite == Pending \subseteq Leads /\ IsFiniteSet(Pending)
  BY CollectorAssumption, FS_Subset DEF Pending

LEMMA BeforeCounted ==
    ASSUME NEW l \in Pending
    PROVE  Cardinality(Before(l)) \in 0 .. Cardinality(Pending) - 1
  <1>1. Before(l) \in SUBSET Pending /\ l \notin Before(l)
    BY PendingFinite, CollectorAssumption DEF Before
  <1>2. /\ IsFiniteSet(Before(l))
        /\ Cardinality(Before(l)) <= Cardinality(Pending)
        /\ Cardinality(Pending) = Cardinality(Before(l)) => Pending = Before(l)
    BY <1>1, PendingFinite, FS_Subset
  <1>3. Cardinality(Before(l)) \in Nat /\ Cardinality(Pending) \in Nat
    BY <1>2, PendingFinite, FS_CardinalityType
  <1> QED
    BY <1>1, <1>2, <1>3

\* An older ad has fewer before it.
LEMMA BeforeGrows ==
    ASSUME NEW k \in Pending, NEW l \in Pending, k < l
    PROVE  Cardinality(Before(k)) < Cardinality(Before(l))
  <1>1. k \in Nat /\ l \in Nat /\ \A m \in Pending : m \in Nat
    BY PendingFinite, CollectorAssumption
  <1>2. Before(k) \in SUBSET Before(l) /\ k \in Before(l) /\ k \notin Before(k)
    <2>1. \A m \in Pending : m < k => m < l
      BY <1>1
    <2>2. ~(k < k)
      BY <1>1
    <2> QED
      BY <2>1, <2>2 DEF Before
  <1>3. IsFiniteSet(Before(l))
    BY PendingFinite, FS_Subset DEF Before
  <1>4. /\ IsFiniteSet(Before(k))
        /\ Cardinality(Before(k)) <= Cardinality(Before(l))
        /\ Cardinality(Before(l)) = Cardinality(Before(k)) => Before(l) = Before(k)
    BY <1>2, <1>3, FS_Subset
  <1>5. Cardinality(Before(k)) \in Nat /\ Cardinality(Before(l)) \in Nat
    BY <1>3, <1>4, FS_CardinalityType
  <1>6. Cardinality(Before(l)) # Cardinality(Before(k))
    BY <1>2, <1>4
  <1> QED
    BY <1>4, <1>5, <1>6

\* There is one order of the queued ads by their ids, so Queue has them all: the
\* place of an ad is the number of ads before it.
LEMMA QueueOrdered ==
    /\ Queue \in [1 .. Cardinality(Pending) -> Pending]
    /\ \A i, j \in 1 .. Cardinality(Pending) : i < j => Queue[i] < Queue[j]
  <1> DEFINE n == Cardinality(Pending)
             Place == [l \in Pending |-> Cardinality(Before(l)) + 1]
  <1>1. IsFiniteSet(Pending) /\ n \in Nat
    BY PendingFinite, FS_CardinalityType
  <1>2. Place \in [Pending -> 1 .. n]
    BY BeforeCounted, <1>1
  <1>3. ASSUME NEW k \in Pending, NEW l \in Pending, k < l
        PROVE  Place[k] < Place[l]
    <2>1. Cardinality(Before(k)) \in Int /\ Cardinality(Before(l)) \in Int
      BY BeforeCounted, <1>1
    <2> QED
      BY <1>3, <2>1, BeforeGrows
  <1>4. ASSUME NEW k \in Pending, NEW l \in Pending, k # l
        PROVE  Place[k] # Place[l]
    <2>1. k \in Nat /\ l \in Nat
      BY PendingFinite, CollectorAssumption
    <2>2. k < l \/ l < k
      BY <1>4, <2>1
    <2>3. Place[k] \in Int /\ Place[l] \in Int
      BY <1>2, <1>1
    <2> HIDE DEF Place
    <2> QED
      BY <1>3, <2>2, <2>3
  <1>5. Place \in Injection(Pending, 1 .. n)
    <2> HIDE DEF Place, n
    <2>1. \A k, l \in Pending : Place[k] = Place[l] => k = l
      BY <1>4
    <2> QED
      BY <1>2, <2>1, Fun_IsInj
  <1>6. IsFiniteSet(1 .. n) /\ Cardinality(1 .. n) = n
    BY <1>1, FS_Interval
  <1>7. Place \in Surjection(Pending, 1 .. n)
    <2> HIDE DEF Place, n
    <2>1. Cardinality(Pending) = Cardinality(1 .. n) <=> Place \in Surjection(Pending, 1 .. n)
      BY <1>5, <1>6, FS_Injection
    <2>2. Cardinality(1 .. n) = Cardinality(Pending)
      BY <1>6 DEF n
    <2> QED
      BY <2>1, <2>2
  <1>8. \A i \in 1 .. n : \E l \in Pending : Place[l] = i
    <2> HIDE DEF Place
    <2> QED
      BY <1>7 DEF Surjection
  <1> DEFINE q == [i \in 1 .. n |-> CHOOSE l \in Pending : Place[l] = i]
  <1>9. ASSUME NEW i \in 1 .. n
        PROVE  q[i] \in Pending /\ Place[q[i]] = i
    <2> HIDE DEF Place, n
    <2> QED
      BY <1>8
  <1>10. q \in [1 .. n -> Pending]
    BY <1>9
  <1>11. ASSUME NEW i \in 1 .. n, NEW j \in 1 .. n, i < j
         PROVE  q[i] < q[j]
    <2>1. q[i] \in Pending /\ q[j] \in Pending /\ Place[q[i]] = i /\ Place[q[j]] = j
      BY <1>9
    <2>2. q[i] \in Nat /\ q[j] \in Nat
      BY <2>1, PendingFinite, CollectorAssumption
    <2> HIDE DEF Place, q, n
    <2>3. ~(q[j] < q[i])
      BY <2>1, <1>3, <1>11, <1>1
    <2>4. q[i] # q[j]
      BY <2>1, <1>11, <1>1
    <2> QED
      BY <2>2, <2>3, <2>4
  <1>12. \E f \in [1 .. n -> Pending] : \A i, j \in 1 .. n : i < j => f[i] < f[j]
    <2> HIDE DEF q, n
    <2> QED
      BY <1>10, <1>11
  <1> QED
    BY <1>12 DEF Queue

\* As many targets are read as the quota had left, at most.
LEMMA TargetsTyped ==
    ASSUME left \in Nat
    PROVE  /\ SubSeq(Queue, 1, TargetCount) \in Seq(Leads)
           /\ Len(SubSeq(Queue, 1, TargetCount)) <= left
  <1>1. Cardinality(Pending) \in Nat /\ Pending \subseteq Leads
    BY PendingFinite, FS_CardinalityType
  <1>2. /\ TargetCount \in Nat /\ TargetCount <= Cardinality(Pending)
        /\ TargetCount <= left
    BY <1>1, CollectorAssumption DEF TargetCount, AtMost
  <1>3. \A i \in 1 .. TargetCount : Queue[i] \in Leads
    BY <1>1, <1>2, QueueOrdered
  <1> HIDE DEF TargetCount, Queue, Pending
  <1>4. /\ SubSeq(Queue, 1, TargetCount) \in Seq(Leads)
        /\ Len(SubSeq(Queue, 1, TargetCount))
              = IF 1 <= TargetCount THEN TargetCount - 1 + 1 ELSE 0
    BY <1>2, <1>3, SubSeqProperties
  <1> QED
    BY <1>2, <1>4, CollectorAssumption

-----------------------------------------------------------------------------
(* Type correctness *)

\* A breaker that trips in the search ends the search with it. The type of the breaker's
\* counter rests on it: a block is counted only while the counter is below its maximum.
SearchesClosed == phase = "search" => ~is_fatal

LEMMA Emptied == 0 \in 0 .. Limit /\ <<>> \in Seq(Leads)
  BY CollectorAssumption, EmptySeq

LEMMA TypeInit == Init => TypeOK
  BY CollectorAssumption, Emptied DEF Init, TypeOK, LeadStatus, Answers

\* After a block the breaker counts up to its maximum, or starts again.
LEMMA BreakerTyped ==
    ASSUME consecutive \in 0 .. MaxConsecutive, ~is_fatal, blocks \in Nat,
           BlockFatal \/ BlockResumed
    PROVE  consecutive' \in 0 .. MaxConsecutive /\ blocks' \in Nat
  <1>1. MaxConsecutive \in Nat
    BY CollectorAssumption
  <1>2. CASE BlockFatal
    BY <1>1, <1>2 DEF BlockFatal, is_fatal
  <1>3. CASE BlockResumed
    BY <1>1, <1>3 DEF BlockResumed
  <1> QED
    BY <1>2, <1>3

LEMMA TailTyped ==
    ASSUME targets \in Seq(Leads), targets # <<>>
    PROVE  /\ Tail(targets) \in Seq(Leads) /\ Head(targets) \in Leads
           /\ Len(targets) \in Nat /\ Len(Tail(targets)) = Len(targets) - 1
  BY HeadTailProperties, LenProperties

LEMMA TypeRun ==
    ASSUME TypeOK, SearchesClosed, RunStep
    PROVE  TypeOK'
  <1> USE CollectorAssumption DEF TypeOK, Answers
  <1>1. CASE BeginRun
    BY <1>1 DEF BeginRun, LeadStatus
  <1>2. CASE SearchPage
    BY <1>2 DEF SearchPage, NextPage, PagesDone, Asked, LeadStatus
  <1>3. CASE SearchBlocked
    <2>1. consecutive' \in 0 .. MaxConsecutive /\ blocks' \in Nat
      BY <1>3, BreakerTyped DEF SearchBlocked, SearchesClosed
    <2> QED
      BY <1>3, <2>1 DEF SearchBlocked, NextPage, PagesDone, Asked
  <1>4. CASE SearchFailed
    BY <1>4 DEF SearchFailed, Asked
  <1>5. CASE ReadQuota
    <2>1. quota_left > 0 => quota_left \in 0 .. Limit
      BY DEF quota_left
    <2> HIDE DEF quota_left
    <2> QED
      BY <1>5, <2>1, Emptied DEF ReadQuota, EndRun, Between
  <1>6. CASE EnsureLogin \/ NoToken \/ PhonesDone
    <2>1. CASE EnsureLogin
      <3>1. CASE phase' = "targets" /\ UNCHANGED <<left, targets, res, calls>>
        BY <2>1, <3>1 DEF EnsureLogin, Between
      <3>2. CASE EndRun
        BY <2>1, <3>2, Emptied DEF EnsureLogin, EndRun, Between
      <3> QED
        BY <2>1, <3>1, <3>2 DEF EnsureLogin
    <2>2. CASE NoToken
      BY <2>2, Emptied DEF NoToken, EndRun, Between
    <2>3. CASE PhonesDone
      BY <2>3, Emptied DEF PhonesDone, EndRun, Between
    <2> QED
      BY <1>6, <2>1, <2>2, <2>3
  <1>7. CASE SelectTargets
    <2>1. targets' \in Seq(Leads)
      BY <1>7, TargetsTyped DEF SelectTargets
    <2> QED
      BY <1>7, <2>1 DEF SelectTargets, Between
  <1>8. ASSUME NEW answer \in Answers, NEW times \in {1, 2}, Answered(answer, times)
        PROVE  TypeOK'
    BY <1>8 DEF Answered, Fetching, Between
  <1>9. CASE Count
    BY <1>9 DEF Count
  <1>10. ASSUME NEW b \in BOOLEAN, CountFails(b) \/ FailedAgain(b)
         PROVE  TypeOK'
    <2>1. CASE CountFails(b)
      BY <2>1 DEF CountFails
    <2>2. CASE FailedAgain(b)
      BY <2>2 DEF FailedAgain, Fetching, Between
    <2> QED
      BY <1>10, <2>1, <2>2
  <1>11. CASE Blocked
    <2>1. consecutive' \in 0 .. MaxConsecutive /\ blocks' \in Nat
      BY <1>11, BreakerTyped DEF Blocked, Fetching, BreakerOpen
    <2>2. targets' \in Seq(Leads)
      BY <1>11, TailTyped, EmptySeq DEF Blocked, Fetching, EndRun, NextTarget
    <2>3. CASE EndRun
      BY <1>11, <2>1, <2>3, Emptied DEF Blocked, EndRun, Asked
    <2>4. CASE NextTarget /\ UNCHANGED left
      BY <1>11, <2>1, <2>2, <2>4 DEF Blocked, NextTarget, Asked
    <2> QED
      BY <1>11, <2>3, <2>4 DEF Blocked
  <1>12. CASE Failed
    BY <1>12 DEF Failed, Fetching, Asked, Between
  <1>13. CASE StoreAnswer
    BY <1>13, TailTyped DEF StoreAnswer, NextTarget, LeadStatus
  <1> QED
    BY <1>1, <1>2, <1>3, <1>4, <1>5, <1>6, <1>7, <1>8, <1>9, <1>10, <1>11,
       <1>12, <1>13
    DEF RunStep

LEMMA TypeWorld ==
    ASSUME TypeOK, Die \/ Midnight \/ PanelDies
                   \/ \E l \in Leads : PanelClaim(l) \/ PanelAnswer(l)
    PROVE  TypeOK'
  <1> USE CollectorAssumption DEF TypeOK, Answers, LeadStatus
  <1>1. CASE Die
    BY <1>1, Emptied DEF Die, EndRun
  <1>2. CASE Midnight
    BY <1>2 DEF Midnight
  <1>3. CASE PanelDies
    BY <1>3 DEF PanelDies
  <1>4. ASSUME NEW l \in Leads, PanelClaim(l)
        PROVE  TypeOK'
    BY <1>4 DEF PanelClaim
  <1>5. ASSUME NEW l \in Leads, PanelAnswer(l)
        PROVE  TypeOK'
    BY <1>5 DEF PanelAnswer
  <1> QED
    BY <1>1, <1>2, <1>3, <1>4, <1>5

LEMMA TypeStep == TypeOK /\ SearchesClosed /\ [Next]_vars => TypeOK'
  <1> SUFFICES ASSUME TypeOK, SearchesClosed, [Next]_vars
               PROVE  TypeOK'
    OBVIOUS
  <1>1. CASE Next
    BY <1>1, TypeRun, TypeWorld DEF Next
  <1>2. CASE UNCHANGED vars
    BY <1>2 DEF vars, TypeOK
  <1> QED
    BY <1>1, <1>2

LEMMA SearchesClosedInit == Init => SearchesClosed
  BY DEF Init, SearchesClosed

LEMMA SearchesClosedStep == TypeOK /\ SearchesClosed /\ [Next]_vars => SearchesClosed'
  <1> SUFFICES ASSUME TypeOK, SearchesClosed, [Next]_vars, phase' = "search"
               PROVE  ~(consecutive' >= MaxConsecutive)
    BY DEF SearchesClosed, is_fatal
  <1> USE CollectorAssumption DEF SearchesClosed, is_fatal
  <1>0. consecutive \in Nat
    BY DEF TypeOK
  <1>1. CASE BeginRun
    BY <1>1 DEF BeginRun
  <1>2. CASE SearchPage \/ SearchFailed
    BY <1>2 DEF SearchPage, SearchFailed
  <1>3. CASE SearchBlocked
    BY <1>0, <1>3 DEF SearchBlocked, BlockFatal, BlockResumed
  <1>4. CASE Midnight \/ PanelDies \/ UNCHANGED vars
    BY <1>4 DEF Midnight, PanelDies, vars
  <1>5. ASSUME NEW l \in Leads, PanelClaim(l) \/ PanelAnswer(l)
        PROVE  ~(consecutive' >= MaxConsecutive)
    BY <1>5 DEF PanelClaim, PanelAnswer
  <1>6. ASSUME \/ ReadQuota \/ EnsureLogin \/ SelectTargets \/ PhonesDone \/ NoToken
               \/ Count \/ Blocked \/ Failed \/ StoreAnswer \/ Die
               \/ \E answer \in Answers, times \in {1, 2} : Answered(answer, times)
               \/ \E b \in BOOLEAN : CountFails(b) \/ FailedAgain(b)
        PROVE  FALSE
    BY <1>6
    DEF ReadQuota, EnsureLogin, SelectTargets, PhonesDone, NoToken, Count, CountFails,
        Blocked, Failed, StoreAnswer, Die, Answered, FailedAgain, EndRun, NextTarget
  <1> QED
    BY <1>1, <1>2, <1>3, <1>4, <1>5, <1>6 DEF Next, RunStep

Typed == TypeOK /\ SearchesClosed

LEMMA TypedInit == Init => Typed
  BY TypeInit, SearchesClosedInit DEF Typed

LEMMA TypedStep == Typed /\ [Next]_vars => Typed'
  BY TypeStep, SearchesClosedStep DEF Typed

\* Every variable of Collector keeps its type; an answer to be stored belongs to a
\* row (run_collection).
THEOREM TypeCorrect == Spec => []TypeOK
  BY TypedInit, TypedStep, PTL DEF Spec, Typed

-----------------------------------------------------------------------------
(* The daily limit *)

\* A contact is on today's quota row, or its count is lost or about to be made.
Uncounted == IF phase = "count" THEN 1 ELSE 0
\* The ads a run has still to ask for: the first one of the rows to do has been
\* asked for when its count or its answer is due.
Due == left + Len(targets) - (IF phase \in {"count", "store"} THEN 1 ELSE 0)

\* What was revealed today, and what this run may still reveal.
Budget ==
    /\ revealed <= phones + uncounted + Uncounted
    /\ left + Len(targets) <= Limit
    /\ phase \in {"targets", "login", "fetch", "count", "store"}
          => revealed + Due <= Limit + uncounted
    /\ revealed <= Limit + uncounted
    /\ phase \in {"fetch", "count", "store"} => left = 0
    /\ phase \in {"off", "search", "select", "login", "targets"} => targets = <<>>
    /\ phase \in {"off", "search", "select"} => left = 0

LEMMA BudgetInit == Init => Budget
  BY CollectorAssumption, EmptySeq, LenProperties DEF Init, Budget, Uncounted, Due

LEMMA BudgetStep == TypeOK /\ Budget /\ [Next]_vars => Budget'
  <1> SUFFICES ASSUME TypeOK, Budget, [Next]_vars
               PROVE  Budget'
    OBVIOUS
  <1> USE CollectorAssumption DEF Budget, Uncounted, Due
  <1>0. /\ revealed \in Nat /\ uncounted \in Nat /\ phones \in Nat /\ left \in Nat
        /\ Len(targets) \in Nat /\ targets \in Seq(Leads) /\ Len(<<>>) = 0
        /\ targets # <<>> => /\ Len(targets) > 0
                             /\ Len(Tail(targets)) = Len(targets) - 1
        /\ phase \in {"count", "store"} => targets # <<>>
        /\ phase \in {"off", "search", "select", "login", "targets", "fetch", "count", "store"}
    BY TailTyped, LenProperties, EmptySeq DEF TypeOK
  <1>1. CASE BeginRun
    BY <1>0, <1>1 DEF BeginRun
  <1>2. CASE SearchPage
    BY <1>0, <1>2 DEF SearchPage, NextPage
  <1>3. CASE SearchBlocked
    BY <1>0, <1>3 DEF SearchBlocked, NextPage
  <1>4. CASE SearchFailed
    BY <1>0, <1>4 DEF SearchFailed
  <1>5. CASE ReadQuota
    BY <1>0, <1>5 DEF ReadQuota, EndRun, Between, quota_left
  <1>6. CASE EnsureLogin
    BY <1>0, <1>6 DEF EnsureLogin, EndRun, Between
  <1>7. CASE SelectTargets
    <2>1. Len(targets') <= left /\ Len(targets') \in Nat
      BY <1>0, <1>7, TargetsTyped, LenProperties DEF SelectTargets
    <2>2. phase = "targets" /\ phase' = "fetch" /\ left' = 0 /\ targets = <<>>
          /\ UNCHANGED <<revealed, uncounted, phones>>
      BY <1>7 DEF SelectTargets, Between
    <2> QED
      BY <1>0, <2>1, <2>2
  <1>8. CASE PhonesDone \/ NoToken
    <2>1. CASE PhonesDone
      BY <1>0, <2>1 DEF PhonesDone, EndRun, Between
    <2>2. CASE NoToken
      BY <1>0, <2>2 DEF NoToken, Fetching, EndRun, Between
    <2> QED
      BY <1>8, <2>1, <2>2
  <1>9. ASSUME NEW answer \in Answers, NEW times \in {1, 2}, Answered(answer, times)
        PROVE  Budget'
    BY <1>0, <1>9 DEF Answered, Fetching, Between
  <1>10. CASE Count
    BY <1>0, <1>10 DEF Count
  <1>11. ASSUME NEW b \in BOOLEAN, CountFails(b)
         PROVE  Budget'
    BY <1>0, <1>11 DEF CountFails
  <1>12. ASSUME NEW b \in BOOLEAN, FailedAgain(b)
         PROVE  Budget'
    BY <1>0, <1>12 DEF FailedAgain, Fetching, Between
  <1>13. CASE Blocked
    BY <1>0, <1>13 DEF Blocked, Fetching, EndRun, NextTarget
  <1>14. CASE Failed
    BY <1>0, <1>14 DEF Failed, Fetching, Between
  <1>15. CASE StoreAnswer
    BY <1>0, <1>15 DEF StoreAnswer, NextTarget
  <1>16. CASE Die
    BY <1>0, <1>16 DEF Die, EndRun
  <1>17. CASE Midnight
    BY <1>0, <1>17 DEF Midnight
  <1>18. ASSUME NEW l \in Leads, PanelClaim(l) \/ PanelAnswer(l)
         PROVE  Budget'
    BY <1>0, <1>18 DEF PanelClaim, PanelAnswer
  <1>19. CASE PanelDies
    BY <1>0, <1>19 DEF PanelDies
  <1>20. CASE UNCHANGED vars
    BY <1>20 DEF vars
  <1> QED
    BY <1>1, <1>2, <1>3, <1>4, <1>5, <1>6, <1>7, <1>8, <1>9, <1>10, <1>11, <1>12,
       <1>13, <1>14, <1>15, <1>16, <1>17, <1>18, <1>19, <1>20
    DEF Next, RunStep

\* Divar answers the collector no more contacts in a day than phone_daily_limit and one
\* more for each count that was lost, over all its runs and deaths, whatever the panel
\* counts meanwhile (collector.py:124).
THEOREM LimitKept == Spec => []WithinDailyLimit
  <1>1. Init => Typed /\ Budget
    BY TypedInit, BudgetInit
  <1>2. (Typed /\ Budget) /\ [Next]_vars => (Typed /\ Budget)'
    BY TypedStep, BudgetStep DEF Typed
  <1>3. Budget => WithinDailyLimit
    BY DEF Budget, WithinDailyLimit
  <1> QED
    BY <1>1, <1>2, <1>3, PTL DEF Spec

-----------------------------------------------------------------------------
(* What was stored was counted *)

\* The answer in hand is counted and not yet stored.
Owed == IF phase = "store" /\ res # "error" THEN 1 ELSE 0

Counted == stored + Owed <= counted

LEMMA CountedInit == Init => Counted
  BY DEF Init, Counted, Owed

LEMMA CountedStep == TypeOK /\ Counted /\ [Next]_vars => Counted'
  <1> SUFFICES ASSUME TypeOK, Counted, [Next]_vars
               PROVE  Counted'
    OBVIOUS
  <1> USE DEF Counted, Owed
  <1>0. stored \in Nat /\ counted \in Nat
    BY DEF TypeOK
  <1>1. CASE BeginRun \/ SearchPage \/ SearchBlocked \/ SearchFailed
    BY <1>0, <1>1 DEF BeginRun, SearchPage, SearchBlocked, SearchFailed, NextPage
  <1>2. CASE ReadQuota \/ EnsureLogin \/ NoToken \/ SelectTargets \/ PhonesDone
    BY <1>0, <1>2 DEF ReadQuota, EnsureLogin, NoToken, SelectTargets, PhonesDone, EndRun
  <1>3. ASSUME NEW answer \in Answers, NEW times \in {1, 2}, Answered(answer, times)
        PROVE  Counted'
    BY <1>0, <1>3 DEF Answered, Fetching
  <1>4. ASSUME NEW b \in BOOLEAN, CountFails(b) \/ FailedAgain(b)
        PROVE  Counted'
    BY <1>0, <1>4 DEF CountFails, FailedAgain
  <1>5. CASE Count \/ Blocked \/ Failed
    BY <1>0, <1>5 DEF Count, Blocked, Failed, EndRun, NextTarget
  <1>6. CASE StoreAnswer
    BY <1>0, <1>6 DEF StoreAnswer, NextTarget
  <1>7. CASE Die \/ Midnight \/ PanelDies
    BY <1>0, <1>7 DEF Die, Midnight, PanelDies, EndRun
  <1>8. ASSUME NEW l \in Leads, PanelClaim(l) \/ PanelAnswer(l)
        PROVE  Counted'
    BY <1>0, <1>8 DEF PanelClaim, PanelAnswer
  <1>9. CASE UNCHANGED vars
    BY <1>9 DEF vars
  <1> QED
    BY <1>1, <1>2, <1>3, <1>4, <1>5, <1>6, <1>7, <1>8, <1>9 DEF Next, RunStep

\* What was stored as an answer had been counted, wherever the collector died: bump_quota
\* comes first (collector.py:144).
THEOREM EveryAnswerCounted == Spec => []StoredWereCounted
  <1>1. Init => Typed /\ Counted
    BY TypedInit, CountedInit
  <1>2. (Typed /\ Counted) /\ [Next]_vars => (Typed /\ Counted)'
    BY TypedStep, CountedStep DEF Typed
  <1>3. Typed /\ Counted => StoredWereCounted
    BY DEF Typed, TypeOK, Counted, Owed, StoredWereCounted
  <1> QED
    BY <1>1, <1>2, <1>3, PTL DEF Spec

-----------------------------------------------------------------------------
(* A breaker that has tripped *)

\* With the breaker open no step sends a request about an ad: each that does looks at it,
\* or belongs to a search, which ends when the breaker trips.
LEMMA FatalQuiet ==
    ASSUME SearchesClosed, [Next]_vars, is_fatal
    PROVE  /\ requests' \in {requests, 0}
           /\ logins' \in {logins, 0} \/ phase = "login"
  <1> USE DEF is_fatal, BreakerOpen, Fetching, SearchesClosed
  <1>1. CASE BeginRun
    BY <1>1 DEF BeginRun
  <1>2. CASE SearchPage \/ SearchBlocked \/ SearchFailed
    BY <1>2 DEF SearchPage, SearchBlocked, SearchFailed
  <1>3. CASE \/ ReadQuota \/ EnsureLogin \/ SelectTargets \/ PhonesDone \/ Count
             \/ StoreAnswer \/ \E b \in BOOLEAN : CountFails(b)
    BY <1>3
    DEF ReadQuota, EnsureLogin, SelectTargets, PhonesDone, Count, CountFails, StoreAnswer
  <1>4. ASSUME \/ NoToken \/ Blocked \/ Failed
               \/ \E answer \in Answers, times \in {1, 2} : Answered(answer, times)
               \/ \E b \in BOOLEAN : FailedAgain(b)
        PROVE  FALSE
    BY <1>4 DEF NoToken, Blocked, Failed, Answered, FailedAgain
  <1>5. CASE Die \/ Midnight \/ PanelDies \/ UNCHANGED vars
    BY <1>5 DEF Die, Midnight, PanelDies, vars
  <1>6. ASSUME NEW l \in Leads, PanelClaim(l) \/ PanelAnswer(l)
        PROVE  UNCHANGED <<requests, logins>>
    BY <1>6 DEF PanelClaim, PanelAnswer
  <1> QED
    BY <1>1, <1>2, <1>3, <1>4, <1>5, <1>6 DEF Next, RunStep

\* After max_consecutive_blocks blocks in a row a run sends no request about an ad any
\* more (collector.py:140), and no other but the login before the numbers (collector.py:129).
THEOREM FatalStops == Spec => FatalStopsRun
  <1>1. Typed /\ [Next]_vars
           => [is_fatal => /\ requests' \in {requests, 0}
                           /\ logins' \in {logins, 0} \/ phase = "login"]_vars
    BY FatalQuiet DEF Typed
  <1> QED
    BY <1>1, TypedInit, TypedStep, PTL DEF Spec, FatalStopsRun
=============================================================================
