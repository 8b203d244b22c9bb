-------------------------- MODULE PhoneQueueProofs --------------------------
(***************************************************************************)
(* Theorems about PhoneQueue for every set of leads, accounts, monitors    *)
(* and operators and every value of the limits.                            *)
(***************************************************************************)
EXTENDS PhoneQueue, FiniteSetTheorems, TLAPS

USE DEF leadVars, acctVars, quotaVars, workVars, ctlVars, takenVars, boundVars

-----------------------------------------------------------------------------
(* Lemmas about the local control of a worker *)

\* A count of monitors in some place is a natural number.
LEMMA MonitorsCounted ==
    ASSUME NEW S \in SUBSET Monitors
    PROVE  IsFiniteSet(S) /\ Cardinality(S) \in Nat
  BY WorkersAssumption, FS_Subset, FS_CardinalityType

\* A worker that goes to a place where it needs no lead, or that has one
\* already, stays well-typed.
LEMMA GotoTyped ==
    ASSUME WorkTypeOK, NEW w \in Workers, NEW p \in Places, Goto(w, p),
           p \in Engaged => pc[w] \in Engaged
    PROVE  WorkTypeOK'
  BY DEF WorkTypeOK, Goto

\* Dropping the work at hand clears every local variable.
LEMMA DropTyped ==
    ASSUME WorkTypeOK, NEW w \in Workers, NEW p \in Places \ Engaged, Drop(w, p)
    PROVE  WorkTypeOK'
  BY DEF WorkTypeOK, Drop

\* A claim gives the worker a lead and an account.
LEMMA ClaimTyped ==
    ASSUME WorkTypeOK, NEW w \in Workers, NEW l \in Leads, NEW a \in Accounts,
           Claim(w, l, a)
    PROVE  WorkTypeOK'
  BY DEF WorkTypeOK, Claim, Places

\* After the drain a worker needs no lead.
LEMMA EndDrainTyped ==
    ASSUME WorkTypeOK, NEW w \in Workers, EndDrain(w)
    PROVE  WorkTypeOK'
  BY GotoTyped DEF EndDrain, Places, Engaged

\* A failed attempt puts the lead back with one more retry, within the bound.
LEMMA BackToQueueTyped ==
    ASSUME StoreTypeOK, NEW w \in Workers, job[w] \in Leads, BackToQueue(w)
    PROVE  /\ retry_count' \in [Leads -> 0 .. MaxRetry]
           /\ phone_status' \in [Leads -> PhoneStatus]
  <1>1. retry_count[job[w]] \in 0 .. MaxRetry /\ MaxRetry \in Nat
    BY ConstantsAssumption DEF StoreTypeOK
  <1>2. retry_count[job[w]] < MaxRetry
    BY DEF BackToQueue
  <1>3. retry_count[job[w]] + 1 \in 0 .. MaxRetry
    BY <1>1, <1>2
  <1> QED
    BY <1>3 DEF StoreTypeOK, BackToQueue, SetStatus, PhoneStatus

\* The error counter of an account never goes below zero.
LEMMA ErrorsTyped ==
    ASSUME StoreTypeOK, NEW m \in Monitors, by[m] \in Accounts,
           NEW captcha_like \in BOOLEAN
    PROVE  ErrorsAfter(m, captcha_like) \in Nat
  <1>1. acctErrors[m][by[m]] \in Nat
    BY DEF StoreTypeOK
  <1> QED
    BY <1>1 DEF ErrorsAfter

-----------------------------------------------------------------------------
(* Type correctness *)

LEMMA TypeInit == Init => TypeOK
  BY ConstantsAssumption
  DEF Init, TypeOK, WorkTypeOK, StoreTypeOK, HistoryTypeOK, PhoneStatus,
      AccountStatus, Places, Engaged, Signals, Resolved

LEMMA TypeMonitor ==
    ASSUME TypeOK, NEW m \in Monitors, MonitorStep(m)
    PROVE  TypeOK'
  <1> USE ConstantsAssumption, WorkersAssumption
      DEF TypeOK, Workers, Places, Engaged
  <1>1. CASE BeginRound(m)
    <2>1. WorkTypeOK'
      BY <1>1, GotoTyped DEF BeginRound
    <2> QED
      BY <1>1, <2>1 DEF BeginRound, StoreTypeOK, HistoryTypeOK
  <1>2. CASE ScanInsert(m)
    <2>1. WorkTypeOK'
      BY <1>2 DEF ScanInsert, WorkTypeOK
    <2> QED
      BY <1>2, <2>1 DEF ScanInsert, StoreTypeOK, HistoryTypeOK
  <1>3. CASE ScanCommit(m)
    <2>1. WorkTypeOK'
      BY <1>3, DropTyped DEF ScanCommit
    <2> QED
      BY <1>3, <2>1
      DEF ScanCommit, StoreTypeOK, HistoryTypeOK, PhoneStatus
  <1>4. CASE MonitorExit(m)
    <2>1. WorkTypeOK'
      BY <1>4, GotoTyped DEF MonitorExit
    <2> QED
      BY <1>4, <2>1 DEF MonitorExit, StoreTypeOK, HistoryTypeOK
  <1>5. CASE FetchPick(m)
    <2>1. WorkTypeOK'
      BY <1>5, GotoTyped, ClaimTyped, EndDrainTyped DEF FetchPick
    <2> QED
      BY <1>5, <2>1 DEF FetchPick, StoreTypeOK, HistoryTypeOK
  <1>6. CASE DrainHalted(m)
    <2>1. WorkTypeOK'
      BY <1>6, EndDrainTyped DEF DrainHalted
    <2> QED
      BY <1>6, <2>1 DEF DrainHalted, StoreTypeOK, HistoryTypeOK
  <1>7. CASE WaitForAccount(m)
    <2>1. WorkTypeOK'
      BY <1>7, GotoTyped, EndDrainTyped DEF WaitForAccount
    <2> QED
      BY <1>7, <2>1 DEF WaitForAccount, StoreTypeOK, HistoryTypeOK
  <1>8. CASE MarkProcessing(m)
    <2>1. WorkTypeOK'
      BY <1>8, GotoTyped DEF MarkProcessing
    <2> QED
      BY <1>8, <2>1
      DEF MarkProcessing, SetStatus, StoreTypeOK, HistoryTypeOK, PhoneStatus
  <1>9. CASE ReplyBlocked(m)
    <2>1. WorkTypeOK'
      BY <1>9, DropTyped DEF ReplyBlocked
    <2> QED
      BY <1>9, <2>1 DEF ReplyBlocked, SetStatus, SetAccount, StoreTypeOK,
                        HistoryTypeOK, PhoneStatus, AccountStatus
  <1>10. CASE ReplyException(m)
    <2>1. WorkTypeOK'
      BY <1>10, DropTyped DEF ReplyException
    <2>2. job[m] \in Leads
      BY <1>10 DEF ReplyException, WorkTypeOK
    <2> QED
      BY <1>10, <2>1, <2>2, BackToQueueTyped
      DEF ReplyException, StoreTypeOK, HistoryTypeOK
  <1>11. CASE \E captcha_like \in BOOLEAN : ReplyError(m, captcha_like)
    <2>1. PICK captcha_like \in BOOLEAN : ReplyError(m, captcha_like)
      BY <1>11
    <2>2. job[m] \in Leads /\ by[m] \in Accounts
      BY <2>1 DEF ReplyError, WorkTypeOK
    <2>3. WorkTypeOK'
      BY <2>1, DropTyped DEF ReplyError
    <2>4. acctErrors' \in [Monitors -> [Accounts -> Nat]]
      BY <2>1, <2>2, ErrorsTyped DEF ReplyError, StoreTypeOK
    <2>5. acct' \in [Accounts -> AccountStatus]
      BY <2>1, <2>2 DEF ReplyError, SetAccount, StoreTypeOK, AccountStatus
    <2> QED
      BY <2>1, <2>2, <2>3, <2>4, <2>5, BackToQueueTyped
      DEF ReplyError, StoreTypeOK, HistoryTypeOK
  <1>12. CASE \E answer \in Resolved : StoreContact(m, answer)
    <2>1. PICK answer \in Resolved : StoreContact(m, answer)
      BY <1>12
    <2>2. WorkTypeOK'
      BY <2>1 DEF StoreContact, WorkTypeOK
    <2>3. phone_status' \in [Leads -> PhoneStatus]
      BY <2>1 DEF StoreContact, SetStatus, StoreTypeOK, PhoneStatus, Resolved
    <2> QED
      BY <2>1, <2>2, <2>3 DEF StoreContact, StoreTypeOK, HistoryTypeOK
  <1>13. CASE CountContact(m)
    <2>1. WorkTypeOK'
      BY <1>13, GotoTyped DEF CountContact
    <2>2. by[m] \in Accounts
      BY <1>13 DEF CountContact, WorkTypeOK
    <2> QED
      BY <1>13, <2>1, <2>2 DEF CountContact, StoreTypeOK, HistoryTypeOK
  <1>14. CASE Outreach(m)
    <2>1. WorkTypeOK'
      BY <1>14, DropTyped DEF Outreach
    <2>2. job[m] \in Leads
      BY <1>14 DEF Outreach, WorkTypeOK
    <2> QED
      BY <1>14, <2>1, <2>2
      DEF Outreach, SetStatus, StoreTypeOK, HistoryTypeOK, PhoneStatus
  <1>15. CASE Sweep(m)
    <2>1. WorkTypeOK'
      BY <1>15, GotoTyped DEF Sweep
    <2> QED
      BY <1>15, <2>1
      DEF Sweep, StoreTypeOK, HistoryTypeOK, PhoneStatus
  <1>16. CASE DatabaseLocked(m)
    <2>1. WorkTypeOK'
      BY <1>16, DropTyped DEF DatabaseLocked
    <2>2. stranded' \in SUBSET Leads
      BY <1>16 DEF DatabaseLocked, WorkTypeOK, HistoryTypeOK
    <2>3. lost' \in Nat
      BY <1>16 DEF DatabaseLocked, HistoryTypeOK
    <2> QED
      BY <1>16, <2>1, <2>2, <2>3
      DEF DatabaseLocked, StoreTypeOK, HistoryTypeOK
  <1> QED
    BY <1>1, <1>2, <1>3, <1>4, <1>5, <1>6, <1>7, <1>8, <1>9, <1>10, <1>11,
       <1>12, <1>13, <1>14, <1>15, <1>16 DEF MonitorStep

LEMMA TypeOperator ==
    ASSUME TypeOK, NEW o \in Operators, OperatorStep(o)
    PROVE  TypeOK'
  <1> USE ConstantsAssumption, WorkersAssumption
      DEF TypeOK, Workers, Places, Engaged
  <1>1. CASE \E a \in Accounts : ConfirmBegin(o, a)
    <2>1. PICK a \in Accounts : ConfirmBegin(o, a)
      BY <1>1
    <2>2. WorkTypeOK'
      <3>1. CASE Pending = {}
        BY <2>1, <3>1 DEF ConfirmBegin, WorkTypeOK
      <3>2. CASE Pending # {}
        BY <2>1, <3>2, ClaimTyped DEF ConfirmBegin
      <3> QED
        BY <3>1, <3>2
    <2>3. acctErrors' \in [Monitors -> [Accounts -> Nat]]
      BY <2>1 DEF ConfirmBegin, StoreTypeOK
    <2> QED
      BY <2>1, <2>2, <2>3 DEF ConfirmBegin, SetAccount, StoreTypeOK,
                              HistoryTypeOK, AccountStatus
  <1>2. CASE MarkProcessing(o)
    <2>1. WorkTypeOK'
      BY <1>2, GotoTyped DEF MarkProcessing
    <2> QED
      BY <1>2, <2>1
      DEF MarkProcessing, SetStatus, StoreTypeOK, HistoryTypeOK, PhoneStatus
  <1>3. CASE \E verdict \in {"blocked", "refused", "error"} :
                ConfirmFailed(o, verdict)
    <2>1. WorkTypeOK'
      BY <1>3, DropTyped DEF ConfirmFailed
    <2> QED
      BY <1>3, <2>1 DEF ConfirmFailed, SetStatus, StoreTypeOK, HistoryTypeOK,
                        PhoneStatus, AccountStatus
  <1>4. CASE \E answer \in Resolved : ConfirmStore(o, answer)
    <2>1. PICK answer \in Resolved : ConfirmStore(o, answer)
      BY <1>4
    <2>2. WorkTypeOK'
      BY <2>1, GotoTyped DEF ConfirmStore
    <2>3. phone_status' \in [Leads -> PhoneStatus]
      BY <2>1 DEF ConfirmStore, SetStatus, StoreTypeOK, PhoneStatus, Resolved
    <2> QED
      BY <2>1, <2>2, <2>3 DEF ConfirmStore, StoreTypeOK, HistoryTypeOK
  <1>5. CASE ConfirmCount(o)
    <2>1. WorkTypeOK'
      BY <1>5, DropTyped DEF ConfirmCount
    <2>2. by[o] \in Accounts
      BY <1>5 DEF ConfirmCount, WorkTypeOK
    <2> QED
      BY <1>5, <2>1, <2>2 DEF ConfirmCount, StoreTypeOK, HistoryTypeOK
  <1>6. CASE DatabaseLocked(o)
    <2>1. WorkTypeOK'
      BY <1>6, DropTyped DEF DatabaseLocked
    <2>2. stranded' \in SUBSET Leads
      BY <1>6 DEF DatabaseLocked, WorkTypeOK, HistoryTypeOK
    <2>3. lost' \in Nat
      BY <1>6 DEF DatabaseLocked, HistoryTypeOK
    <2> QED
      BY <1>6, <2>1, <2>2, <2>3
      DEF DatabaseLocked, StoreTypeOK, HistoryTypeOK
  <1>7. CASE \E l \in Leads : RecheckWeek(o, l)
    BY <1>7 DEF RecheckWeek, SetStatus, WorkTypeOK, StoreTypeOK,
                HistoryTypeOK, PhoneStatus
  <1> QED
    BY <1>1, <1>2, <1>3, <1>4, <1>5, <1>6, <1>7 DEF OperatorStep

LEMMA TypeEnvironment ==
    ASSUME TypeOK, PanelStep \/ QuotaReset \/ Crash
    PROVE  TypeOK'
  <1> USE ConstantsAssumption, WorkersAssumption
      DEF TypeOK, Workers, Places, Engaged
  <1>1. CASE \E m \in Monitors, include_existing \in BOOLEAN :
                MonitorStart(m, include_existing)
    <2>1. PICK m \in Monitors, include_existing \in BOOLEAN :
                MonitorStart(m, include_existing)
      BY <1>1
    <2>2. WorkTypeOK'
      BY <2>1, GotoTyped DEF MonitorStart
    <2> QED
      BY <2>1, <2>2 DEF MonitorStart, StoreTypeOK, HistoryTypeOK, PhoneStatus,
                        Signals
  <1>2. CASE MonitorStop \/ MonitorPause
    BY <1>2 DEF MonitorStop, MonitorPause, Signal, Signals, WorkTypeOK,
                StoreTypeOK, HistoryTypeOK
  <1>3. CASE \E a \in Accounts, s \in {"active", "out"} : AccountSet(a, s)
    BY <1>3 DEF AccountSet, SetAccount, AccountStatus, WorkTypeOK,
                StoreTypeOK, HistoryTypeOK
  <1>4. ASSUME NEW ls \in SUBSET Leads, Requeue(ls)
        PROVE  TypeOK'
    BY <1>4 DEF Requeue, WorkTypeOK, StoreTypeOK, HistoryTypeOK, PhoneStatus
  <1>5. CASE RequeueHidden \/ \E l \in Leads : RequeueOne(l)
    BY <1>4, <1>5 DEF RequeueHidden, RequeueOne
  <1>6. CASE QuotaReset
    BY <1>6 DEF QuotaReset, WorkTypeOK, StoreTypeOK, HistoryTypeOK
  <1>7. CASE Crash
    <2>1. WorkTypeOK'
      BY <1>7 DEF Crash, WorkTypeOK
    <2>2. lost' \in Nat
      BY <1>7, MonitorsCounted DEF Crash, HistoryTypeOK, Uncounted
    <2> QED
      BY <1>7, <2>1, <2>2 DEF Crash, StoreTypeOK, HistoryTypeOK, Signals
  <1> QED
    BY <1>1, <1>2, <1>3, <1>5, <1>6, <1>7 DEF PanelStep

LEMMA TypeStep == TypeOK /\ [Next]_vars => TypeOK'
  <1>1. ASSUME TypeOK, UNCHANGED vars
        PROVE  TypeOK'
    BY <1>1 DEF vars, TypeOK, WorkTypeOK, StoreTypeOK, HistoryTypeOK
  <1> QED
    BY <1>1, TypeMonitor, TypeOperator, TypeEnvironment DEF Next

\* Every variable keeps its type, and a worker past the pick always knows
\* which lead it claimed and with which account.
THEOREM TypeCorrect == Spec => []TypeOK
  BY TypeInit, TypeStep, PTL DEF Spec

-----------------------------------------------------------------------------
(* No lead is lost *)

\* A step that writes no status and takes no lead from a waiting worker.
LEMMA HoldersKept ==
    ASSUME NoLostLead, UNCHANGED phone_status, stranded \subseteq stranded',
           \A w \in Workers :
                pc[w] = "calling" => pc'[w] = "calling" /\ job'[w] = job[w]
    PROVE  NoLostLead'
  BY DEF NoLostLead, Holds

\* A step in which a waiting worker writes its answer over its own lead.
LEMMA AnswerWritten ==
    ASSUME NoLostLead, TypeOK, NEW w \in Workers, pc[w] = "calling",
           NEW s \in PhoneStatus \ {"processing"}, SetStatus(job[w], s),
           UNCHANGED stranded,
           \A v \in Workers \ {w} : pc'[v] = pc[v] /\ job'[v] = job[v]
    PROVE  NoLostLead'
  BY DEF NoLostLead, Holds, SetStatus, TypeOK, StoreTypeOK

\* A step in which rows leave 'processing' or keep their status.
LEMMA NothingClaimed ==
    ASSUME NoLostLead, UNCHANGED stranded,
           \A l \in Leads : phone_status'[l] = "processing" =>
                phone_status[l] = "processing",
           \A w \in Workers :
                pc[w] = "calling" => pc'[w] = "calling" /\ job'[w] = job[w]
    PROVE  NoLostLead'
  BY DEF NoLostLead, Holds

LEMMA LostMark ==
    ASSUME TypeOK, NoLostLead, NEW w \in Workers, MarkProcessing(w)
    PROVE  NoLostLead'
  BY DEF MarkProcessing, SetStatus, Goto, NoLostLead, Holds, TypeOK,
         WorkTypeOK, StoreTypeOK

LEMMA LostLocked ==
    ASSUME TypeOK, NoLostLead, NEW w \in Workers, DatabaseLocked(w)
    PROVE  NoLostLead'
  <1>1. \A v \in Workers \ {w} : pc'[v] = pc[v] /\ job'[v] = job[v]
    BY DEF DatabaseLocked, Drop, TypeOK, WorkTypeOK
  <1>2. stranded \subseteq stranded' /\ UNCHANGED phone_status
    BY DEF DatabaseLocked
  <1>3. pc[w] = "calling" => job[w] \in stranded'
    BY DEF DatabaseLocked
  <1> QED
    BY <1>1, <1>2, <1>3 DEF NoLostLead, Holds

LEMMA LostMonitor ==
    ASSUME TypeOK, NoLostLead, NEW m \in Monitors, MonitorStep(m)
    PROVE  NoLostLead'
  <1> USE DEF TypeOK, WorkTypeOK, StoreTypeOK, Workers
  <1>1. CASE BeginRound(m)
    BY <1>1, HoldersKept DEF BeginRound, Goto
  <1>2. CASE ScanInsert(m)
    BY <1>2, HoldersKept DEF ScanInsert
  <1>3. CASE ScanCommit(m)
    BY <1>3, NothingClaimed DEF ScanCommit, Drop
  <1>4. CASE MonitorExit(m)
    BY <1>4, HoldersKept DEF MonitorExit, Goto
  <1>5. CASE FetchPick(m)
    BY <1>5, HoldersKept DEF FetchPick, Goto, Claim, EndDrain
  <1>6. CASE DrainHalted(m)
    BY <1>6, HoldersKept DEF DrainHalted, EndDrain, Goto
  <1>7. CASE WaitForAccount(m)
    BY <1>7, HoldersKept DEF WaitForAccount, Goto, EndDrain
  <1>8. CASE MarkProcessing(m)
    BY <1>8, LostMark
  <1>9. CASE ReplyBlocked(m)
    BY <1>9, AnswerWritten DEF ReplyBlocked, Drop, PhoneStatus
  <1>10. CASE ReplyException(m)
    BY <1>10, AnswerWritten
    DEF ReplyException, BackToQueue, Drop, PhoneStatus
  <1>11. CASE \E captcha_like \in BOOLEAN : ReplyError(m, captcha_like)
    BY <1>11, AnswerWritten DEF ReplyError, BackToQueue, Drop, PhoneStatus
  <1>12. CASE \E answer \in Resolved : StoreContact(m, answer)
    BY <1>12, AnswerWritten DEF StoreContact, Resolved, PhoneStatus
  <1>13. CASE CountContact(m)
    BY <1>13, HoldersKept DEF CountContact, Goto
  <1>14. CASE Outreach(m)
    BY <1>14, NothingClaimed DEF Outreach, Drop, SetStatus
  <1>15. CASE Sweep(m)
    BY <1>15, NothingClaimed DEF Sweep, Goto
  <1>16. CASE DatabaseLocked(m)
    BY <1>16, LostLocked
  <1> QED
    BY <1>1, <1>2, <1>3, <1>4, <1>5, <1>6, <1>7, <1>8, <1>9, <1>10, <1>11,
       <1>12, <1>13, <1>14, <1>15, <1>16 DEF MonitorStep

LEMMA LostOperator ==
    ASSUME TypeOK, NoLostLead, NEW o \in Operators, OperatorStep(o)
    PROVE  NoLostLead'
  <1> USE DEF TypeOK, WorkTypeOK, StoreTypeOK, Workers
  <1>1. CASE \E a \in Accounts : ConfirmBegin(o, a)
    BY <1>1, HoldersKept DEF ConfirmBegin, Claim
  <1>2. CASE MarkProcessing(o)
    BY <1>2, LostMark
  <1>3. CASE \E verdict \in {"blocked", "refused", "error"} :
                ConfirmFailed(o, verdict)
    BY <1>3, AnswerWritten DEF ConfirmFailed, Drop, PhoneStatus
  <1>4. CASE \E answer \in Resolved : ConfirmStore(o, answer)
    BY <1>4, AnswerWritten DEF ConfirmStore, Goto, Resolved, PhoneStatus
  <1>5. CASE ConfirmCount(o)
    BY <1>5, HoldersKept DEF ConfirmCount, Drop
  <1>6. CASE DatabaseLocked(o)
    BY <1>6, LostLocked
  <1>7. CASE \E l \in Leads : RecheckWeek(o, l)
    BY <1>7, NothingClaimed DEF RecheckWeek, SetStatus
  <1> QED
    BY <1>1, <1>2, <1>3, <1>4, <1>5, <1>6, <1>7 DEF OperatorStep

LEMMA LostEnvironment ==
    ASSUME TypeOK, NoLostLead, PanelStep \/ QuotaReset \/ Crash
    PROVE  NoLostLead'
  <1> USE DEF TypeOK, WorkTypeOK, StoreTypeOK
  <1>1. CASE \E m \in Monitors, include_existing \in BOOLEAN :
                MonitorStart(m, include_existing)
    BY <1>1 DEF MonitorStart, NoLostLead
  <1>2. CASE MonitorStop \/ MonitorPause
    BY <1>2, HoldersKept DEF MonitorStop, MonitorPause, Signal
  <1>3. CASE \E a \in Accounts, s \in {"active", "out"} : AccountSet(a, s)
    BY <1>3, HoldersKept DEF AccountSet
  <1>4. ASSUME NEW ls \in SUBSET Leads, Requeue(ls)
        PROVE  NoLostLead'
    BY <1>4, NothingClaimed DEF Requeue
  <1>5. CASE RequeueHidden \/ \E l \in Leads : RequeueOne(l)
    BY <1>4, <1>5 DEF RequeueHidden, RequeueOne
  <1>6. CASE QuotaReset
    BY <1>6, HoldersKept DEF QuotaReset
  <1>7. CASE Crash
    BY <1>7 DEF Crash, NoLostLead
  <1> QED
    BY <1>1, <1>2, <1>3, <1>5, <1>6, <1>7 DEF PanelStep

\* Through every interleaving, crash and locked database: a lead shown as
\* 'processing' has a worker, or waits among the stranded for the next start.
THEOREM NoLeadLost == Spec => []NoLostLead
  <1>1. Init => NoLostLead
    BY DEF Init, NoLostLead
  <1>2. ASSUME TypeOK, NoLostLead, [Next]_vars
        PROVE  NoLostLead'
    <2>1. CASE UNCHANGED vars
      BY <1>2, <2>1, HoldersKept DEF vars
    <2> QED
      BY <1>2, <2>1, LostMonitor, LostOperator, LostEnvironment DEF Next
  <1> QED
    BY <1>1, <1>2, TypeCorrect, PTL DEF Spec

-----------------------------------------------------------------------------
(* The limit of the IP *)

\* The inductive invariant: what the quota row may lack, and what the claims
\* under way may still add.
Budget == ContactsCounted /\ ClaimsWithinLimit

\* Monitors in one of two disjoint groups are no more than all monitors.
LEMMA GroupSizes ==
    /\ Claiming \in SUBSET Monitors /\ Uncounted \in SUBSET Monitors
    /\ Cardinality(Monitors) \in Nat
    /\ Cardinality(Claiming) \in Nat /\ Cardinality(Uncounted) \in Nat
    /\ Cardinality(Claiming) <= Cardinality(Monitors)
  <1>1. Claiming \in SUBSET Monitors /\ Uncounted \in SUBSET Monitors
    BY DEF Claiming, Uncounted
  <1> QED
    BY <1>1, MonitorsCounted, WorkersAssumption, FS_Subset

\* The groups after a step, for the moves a monitor makes between them.
LEMMA GroupShrinks ==
    ASSUME NEW S \in SUBSET Monitors, NEW T \in SUBSET S
    PROVE  /\ Cardinality(T) \in Nat /\ Cardinality(S) \in Nat
           /\ Cardinality(T) <= Cardinality(S)
  BY MonitorsCounted, FS_Subset

LEMMA GroupLoses ==
    ASSUME NEW S \in SUBSET Monitors, NEW m \in S
    PROVE  /\ Cardinality(S) \in Nat /\ Cardinality(S \ {m}) \in Nat
           /\ Cardinality(S \ {m}) = Cardinality(S) - 1
  BY MonitorsCounted, FS_RemoveElement

LEMMA GroupGains ==
    ASSUME NEW S \in SUBSET Monitors, NEW m \in Monitors \ S
    PROVE  /\ Cardinality(S) \in Nat /\ Cardinality(S \cup {m}) \in Nat
           /\ Cardinality(S \cup {m}) = Cardinality(S) + 1
  BY MonitorsCounted, FS_AddElement

\* A step that neither stores nor counts a contact and claims no lead.
LEMMA BudgetKept ==
    ASSUME Budget, TypeOK, UNCHANGED <<phones, takenVars>>,
           Claiming' \subseteq Claiming, Uncounted' = Uncounted
    PROVE  Budget'
  <1>1. Cardinality(Claiming') <= Cardinality(Claiming)
        /\ Cardinality(Claiming') \in Nat
    BY GroupSizes, GroupShrinks
  <1> QED
    BY <1>1, GroupSizes, ConstantsAssumption
    DEF Budget, ContactsCounted, ClaimsWithinLimit, TypeOK, HistoryTypeOK,
        StoreTypeOK

\* A claim is made only while the quota row is below the limit, and every
\* contact the row lacks keeps its monitor from claiming.
LEMMA BudgetClaim ==
    ASSUME Budget, TypeOK, NEW m \in Monitors, pc[m] = "fetch", QuotaLeft,
           pc' = [pc EXCEPT ![m] = "picked"], UNCHANGED <<phones, takenVars>>
    PROVE  Budget'
  <1>1. Uncounted' = Uncounted /\ Claiming' \in SUBSET Monitors
    BY DEF Uncounted, Claiming, TypeOK, WorkTypeOK, Workers
  <1>2. Cardinality(Claiming' \cup Uncounted) =
            Cardinality(Claiming') + Cardinality(Uncounted)
    <2>1. Claiming' \cap Uncounted = {}
      BY <1>1 DEF Uncounted, Claiming
    <2>2. IsFiniteSet(Claiming') /\ IsFiniteSet(Uncounted)
      BY <1>1, GroupSizes, MonitorsCounted
    <2>3. Cardinality(Claiming' \cap Uncounted) = 0
      BY <2>1, FS_EmptySet
    <2>4. Cardinality(Claiming') \in Nat /\ Cardinality(Uncounted) \in Nat
      BY <2>2, FS_CardinalityType
    <2>5. Cardinality(Claiming' \cup Uncounted) =
              Cardinality(Claiming') + Cardinality(Uncounted)
                - Cardinality(Claiming' \cap Uncounted)
      BY <2>2, FS_Union
    <2> QED
      BY <2>3, <2>4, <2>5
  <1>3. Cardinality(Claiming' \cup Uncounted) <= Cardinality(Monitors)
    BY <1>1, GroupSizes, GroupShrinks
  <1>4. Cardinality(Claiming') \in Nat
    BY <1>1, MonitorsCounted
  <1> QED
    BY <1>1, <1>2, <1>3, <1>4, GroupSizes, ConstantsAssumption
    DEF Budget, ContactsCounted, ClaimsWithinLimit, TypeOK, HistoryTypeOK,
        StoreTypeOK, QuotaLeft

\* A claim becomes a stored contact, a stored contact is counted, or a stored
\* contact is lost.
LEMMA BudgetStore ==
    ASSUME Budget, TypeOK, NEW m \in Monitors, NEW answer \in Resolved,
           StoreContact(m, answer)
    PROVE  Budget'
  <1>1. m \in Claiming /\ m \notin Uncounted
    BY DEF StoreContact, Claiming, Uncounted
  <1>2. Claiming' = Claiming \ {m} /\ Uncounted' = Uncounted \cup {m}
    BY DEF StoreContact, Claiming, Uncounted, TypeOK, WorkTypeOK, Workers
  <1>3. monTaken' = monTaken + 1 /\ phones' = phones /\ lost' = lost
    BY DEF StoreContact
  <1>4. Cardinality(Claiming') = Cardinality(Claiming) - 1
    BY <1>1, <1>2, GroupSizes, GroupLoses
  <1>5. Cardinality(Uncounted') = Cardinality(Uncounted) + 1
    BY <1>1, <1>2, GroupSizes, GroupGains
  <1> QED
    BY <1>3, <1>4, <1>5, GroupSizes, ConstantsAssumption
    DEF Budget, ContactsCounted, ClaimsWithinLimit, TypeOK, HistoryTypeOK,
        StoreTypeOK

LEMMA BudgetCount ==
    ASSUME Budget, TypeOK, NEW m \in Monitors, pc[m] = "stored",
           NEW p \in {"outreach", "idle"}, pc' = [pc EXCEPT ![m] = p],
           UNCHANGED monTaken,
           \/ phones' = phones + 1 /\ lost' = lost
           \/ phones' = phones /\ lost' = lost + 1
    PROVE  Budget'
  <1>1. m \in Uncounted
    BY DEF Uncounted
  <1>2. Claiming' = Claiming /\ Uncounted' = Uncounted \ {m}
    BY DEF Claiming, Uncounted, TypeOK, WorkTypeOK, Workers
  <1>3. Cardinality(Uncounted') = Cardinality(Uncounted) - 1
    BY <1>1, <1>2, GroupSizes, GroupLoses
  <1> QED
    BY <1>2, <1>3, GroupSizes, ConstantsAssumption
    DEF Budget, ContactsCounted, ClaimsWithinLimit, TypeOK, HistoryTypeOK,
        StoreTypeOK

LEMMA BudgetMonitor ==
    ASSUME Budget, TypeOK, NEW m \in Monitors, MonitorStep(m)
    PROVE  Budget'
  <1> USE DEF TypeOK, WorkTypeOK, Workers
  <1>1. CASE \/ BeginRound(m) \/ ScanInsert(m) \/ ScanCommit(m)
             \/ MonitorExit(m) \/ DrainHalted(m) \/ WaitForAccount(m)
    BY <1>1, BudgetKept
    DEF BeginRound, ScanInsert, ScanCommit, MonitorExit, DrainHalted,
        WaitForAccount, Goto, Drop, EndDrain, Claiming, Uncounted
  <1>2. CASE FetchPick(m)
    <2>1. CASE QuotaLeft /\ pc' = [pc EXCEPT ![m] = "picked"]
      BY <1>2, <2>1, BudgetClaim DEF FetchPick
    <2>2. CASE \E p \in {"wait", "sweep"} : pc' = [pc EXCEPT ![m] = p]
      BY <1>2, <2>2, BudgetKept DEF FetchPick, Claiming, Uncounted
    <2> QED
      BY <1>2, <2>1, <2>2 DEF FetchPick, Goto, EndDrain, Claim
  <1>3. CASE MarkProcessing(m)
    BY <1>3, BudgetKept DEF MarkProcessing, Goto, Claiming, Uncounted
  <1>4. CASE ReplyBlocked(m) \/ ReplyException(m)
    BY <1>4, BudgetKept
    DEF ReplyBlocked, ReplyException, Drop, Claiming, Uncounted
  <1>5. CASE \E captcha_like \in BOOLEAN : ReplyError(m, captcha_like)
    BY <1>5, BudgetKept DEF ReplyError, Drop, Claiming, Uncounted
  <1>6. CASE \E answer \in Resolved : StoreContact(m, answer)
    BY <1>6, BudgetStore
  <1>7. CASE CountContact(m)
    BY <1>7, BudgetCount DEF CountContact, Goto
  <1>8. CASE Outreach(m) \/ Sweep(m)
    BY <1>8, BudgetKept DEF Outreach, Sweep, Drop, Goto, Claiming, Uncounted
  <1>9. CASE DatabaseLocked(m) /\ pc[m] = "stored"
    BY <1>9, BudgetCount DEF DatabaseLocked, Drop
  <1>10. CASE DatabaseLocked(m) /\ pc[m] # "stored"
    BY <1>10, BudgetKept DEF DatabaseLocked, Drop, Claiming, Uncounted
  <1> QED
    BY <1>1, <1>2, <1>3, <1>4, <1>5, <1>6, <1>7, <1>8, <1>9, <1>10
    DEF MonitorStep

\* An operator's contact only uses up what the monitors may still take.
LEMMA BudgetOperator ==
    ASSUME Budget, TypeOK, NEW o \in Operators, OperatorStep(o)
    PROVE  Budget'
  <1> USE DEF TypeOK, WorkTypeOK, Workers
  <1>1. o \notin Monitors
    BY WorkersAssumption
  <1>2. Claiming' = Claiming /\ Uncounted' = Uncounted
    <2>1. \A m \in Monitors : pc'[m] = pc[m]
      BY <1>1 DEF OperatorStep, ConfirmBegin, MarkProcessing, ConfirmFailed,
                  ConfirmStore, ConfirmCount, RecheckWeek, DatabaseLocked,
                  Goto, Drop, Claim
    <2> QED
      BY <2>1 DEF Claiming, Uncounted
  <1>3. UNCHANGED <<monTaken, lost>> /\ phones' \in {phones, phones + 1}
    BY <1>1 DEF OperatorStep, ConfirmBegin, MarkProcessing, ConfirmFailed,
                ConfirmStore, ConfirmCount, RecheckWeek, DatabaseLocked
  <1> QED
    BY <1>2, <1>3, GroupSizes, ConstantsAssumption
    DEF Budget, ContactsCounted, ClaimsWithinLimit, HistoryTypeOK, StoreTypeOK

LEMMA BudgetEnvironment ==
    ASSUME Budget, TypeOK, PanelStep \/ QuotaReset \/ Crash
    PROVE  Budget'
  <1> USE DEF TypeOK, WorkTypeOK, Workers
  <1>1. CASE PanelStep
    BY <1>1, BudgetKept
    DEF PanelStep, MonitorStart, MonitorStop, MonitorPause, Signal, Goto,
        AccountSet, RequeueHidden, RequeueOne, Requeue, Claiming, Uncounted
  <1>2. CASE QuotaReset
    <2>1. Claiming' = Claiming /\ Uncounted' = Uncounted
      BY <1>2 DEF QuotaReset, Claiming, Uncounted
    <2> QED
      BY <1>2, <2>1, GroupSizes, ConstantsAssumption
      DEF QuotaReset, Budget, ContactsCounted, ClaimsWithinLimit
  <1>3. CASE Crash
    <2>1. Claiming' = {} /\ Uncounted' = {}
      BY <1>3 DEF Crash, Claiming, Uncounted
    <2>2. Cardinality(Claiming') = 0 /\ Cardinality(Uncounted') = 0
      BY <2>1, FS_EmptySet
    <2>3. /\ monTaken' = monTaken /\ phones' = phones
          /\ lost' = lost + Cardinality(Uncounted)
      BY <1>3 DEF Crash
    <2> QED
      BY <2>2, <2>3, GroupSizes, ConstantsAssumption
      DEF Budget, ContactsCounted, ClaimsWithinLimit, HistoryTypeOK,
          StoreTypeOK
  <1> QED
    BY <1>1, <1>2, <1>3

LEMMA BudgetInvariant == Spec => []Budget
  <1>1. Init => Budget
    <2>1. ASSUME Init
          PROVE  Claiming = {} /\ Uncounted = {}
      BY <2>1 DEF Init, Claiming, Uncounted, Workers
    <2> QED
      BY <2>1, FS_EmptySet, GroupSizes, ConstantsAssumption
      DEF Init, Budget, ContactsCounted, ClaimsWithinLimit
  <1>2. ASSUME TypeOK, Budget, [Next]_vars
        PROVE  Budget'
    <2>1. CASE UNCHANGED vars
      BY <1>2, <2>1, BudgetKept DEF vars, Claiming, Uncounted
    <2> QED
      BY <1>2, <2>1, BudgetMonitor, BudgetOperator, BudgetEnvironment DEF Next
  <1> QED
    BY <1>1, <1>2, TypeCorrect, PTL DEF Spec

\* Every contact a monitor stores is counted against the quota, on its way to
\* be, or lost to a failure between the two commits.
THEOREM EveryContactCounted == Spec => []ContactsCounted
  BY BudgetInvariant, PTL DEF Budget

\* However the monitors interleave with each other, with operators, quota
\* resets and crashes, they do not reveal more contacts than the limit allows.
THEOREM LimitKeptByMonitors == Spec => []MonitorsWithinLimit
  <1>1. Budget /\ TypeOK => MonitorsWithinLimit
    BY GroupSizes, ConstantsAssumption
    DEF Budget, ClaimsWithinLimit, MonitorsWithinLimit, TypeOK, HistoryTypeOK
  <1> QED
    BY <1>1, BudgetInvariant, TypeCorrect, PTL

-----------------------------------------------------------------------------
(* A number that was found *)

\* The rows of a scan are nobody else's until its commit, and the lead of a
\* worker has a row.
RowsSound ==
    /\ \A w, v \in Workers : rows[w] # {} /\ rows[v] # {} => w = v
    /\ \A w \in Workers : rows[w] # {} => pc[w] = "scan" /\ w \in Monitors
    /\ \A w \in Workers : \A l \in rows[w] : phone_status[l] = "absent"
    /\ \A w \in Workers : pc[w] \in Engaged => phone_status[job[w]] # "absent"

\* A step of a worker that adds no row of a lead and removes none.
LEMMA RowsKept ==
    ASSUME TypeOK, RowsSound, NEW w \in Workers,
           \A v \in Workers \ {w} : pc'[v] = pc[v] /\ job'[v] = job[v] /\ rows'[v] = rows[v],
           rows'[w] = {},
           \A l \in Leads : phone_status'[l] = "absent" <=> phone_status[l] = "absent",
           pc'[w] \in Engaged => job'[w] \in Leads /\ phone_status[job'[w]] # "absent"
    PROVE  RowsSound'
  <1>1. \A v \in Workers : /\ rows'[v] # {} => pc'[v] = pc[v]
                           /\ rows'[v] \subseteq rows[v] /\ rows[v] \subseteq Leads
    BY DEF TypeOK, WorkTypeOK
  <1>2. \A v \in Workers : \A l \in rows'[v] : phone_status'[l] = "absent"
    BY <1>1 DEF RowsSound
  <1>3. \A v \in Workers : pc'[v] \in Engaged =>
            job'[v] \in Leads /\ phone_status[job'[v]] # "absent"
    BY DEF RowsSound, TypeOK, WorkTypeOK
  <1>4. \A v \in Workers : rows'[v] # {} => rows[v] # {} /\ pc'[v] = "scan" /\ v \in Monitors
    BY <1>1 DEF RowsSound
  <1> QED
    BY <1>2, <1>3, <1>4 DEF RowsSound

\* A step that moves a worker on, its lead and its rows as they were.
LEMMA GotoRows ==
    ASSUME TypeOK, RowsSound, NEW w \in Workers, NEW p \in Places, Goto(w, p), pc[w] # "scan",
           p \in Engaged => pc[w] \in Engaged,
           \A l \in Leads : phone_status'[l] = "absent" <=> phone_status[l] = "absent"
    PROVE  RowsSound'
  <1>1. /\ \A v \in Workers \ {w} : pc'[v] = pc[v] /\ job'[v] = job[v] /\ rows'[v] = rows[v]
        /\ pc'[w] = p /\ job'[w] = job[w] /\ rows'[w] = rows[w]
    BY DEF Goto, TypeOK, WorkTypeOK
  <1>2. rows[w] = {} /\ (pc[w] \in Engaged => job[w] \in Leads /\ phone_status[job[w]] # "absent")
    BY DEF RowsSound, TypeOK, WorkTypeOK
  <1> QED
    BY <1>1, <1>2, RowsKept

LEMMA DropRows ==
    ASSUME TypeOK, RowsSound, NEW w \in Workers, NEW p \in Places \ Engaged, Drop(w, p),
           \A l \in Leads : phone_status'[l] = "absent" <=> phone_status[l] = "absent"
    PROVE  RowsSound'
  <1>1. /\ \A v \in Workers \ {w} : pc'[v] = pc[v] /\ job'[v] = job[v] /\ rows'[v] = rows[v]
        /\ pc'[w] = p /\ rows'[w] = {}
    BY DEF Drop, TypeOK, WorkTypeOK
  <1> QED
    BY <1>1, RowsKept

LEMMA ClaimRows ==
    ASSUME TypeOK, RowsSound, NEW w \in Workers, NEW l \in Leads, NEW a \in Accounts,
           Claim(w, l, a), IsHead(l), pc[w] # "scan", UNCHANGED phone_status
    PROVE  RowsSound'
  <1>1. /\ \A v \in Workers \ {w} : pc'[v] = pc[v] /\ job'[v] = job[v] /\ rows'[v] = rows[v]
        /\ job'[w] = l /\ rows'[w] = rows[w]
    BY DEF Claim, TypeOK, WorkTypeOK
  <1>2. rows[w] = {} /\ phone_status[l] # "absent"
    BY DEF RowsSound, IsHead, Pending
  <1> QED
    BY <1>1, <1>2, RowsKept

\* A worker past the pick writes the status of its own lead.
LEMMA OwnLeadWritten ==
    ASSUME TypeOK, RowsSound, NEW w \in Workers, pc[w] \in Engaged,
           NEW s \in PhoneStatus \ {"absent"}, SetStatus(job[w], s)
    PROVE  \A l \in Leads : phone_status'[l] = "absent" <=> phone_status[l] = "absent"
  BY DEF SetStatus, RowsSound, TypeOK, WorkTypeOK, StoreTypeOK

LEMMA RowsMark ==
    ASSUME TypeOK, RowsSound, NEW w \in Workers, MarkProcessing(w)
    PROVE  RowsSound'
  BY OwnLeadWritten, GotoRows DEF MarkProcessing, Places, Engaged, PhoneStatus

LEMMA RowsLocked ==
    ASSUME TypeOK, RowsSound, NEW w \in Workers, DatabaseLocked(w)
    PROVE  RowsSound'
  BY DropRows DEF DatabaseLocked, Places, Engaged

LEMMA RowsMonitor ==
    ASSUME TypeOK, RowsSound, NEW m \in Monitors, MonitorStep(m)
    PROVE  RowsSound'
  <1> USE DEF Workers, Places, Engaged, PhoneStatus
  <1>1. CASE BeginRound(m) \/ MonitorExit(m) \/ DrainHalted(m) \/ WaitForAccount(m)
    BY <1>1, GotoRows DEF BeginRound, MonitorExit, DrainHalted, WaitForAccount, EndDrain
  <1>2. CASE ScanInsert(m)
    <2>1. PICK l \in Leads : phone_status[l] = "absent" /\ rows' = [rows EXCEPT ![m] = @ \cup {l}]
      BY <1>2 DEF ScanInsert
    <2>2. UNCHANGED <<phone_status, pc, job>> /\ pc[m] = "scan"
      BY <1>2 DEF ScanInsert
    <2>3. \A v \in Workers \ {m} : rows[v] = {}
      BY <1>2 DEF ScanInsert, WriteLocked, RowsSound
    <2>4. rows'[m] = rows[m] \cup {l} /\ \A v \in Workers \ {m} : rows'[v] = {}
      BY <2>1, <2>3 DEF TypeOK, WorkTypeOK
    <2> QED
      BY <2>1, <2>2, <2>4 DEF RowsSound
  <1>3. CASE ScanCommit(m)
    <2>1. PICK p \in {"scan", "fetch"} : Drop(m, p)
      BY <1>3 DEF ScanCommit
    <2>2. \A l \in Leads : phone_status'[l] = IF l \in rows[m] THEN "pending" ELSE phone_status[l]
      BY <1>3 DEF ScanCommit
    <2>3. /\ \A v \in Workers \ {m} : pc'[v] = pc[v] /\ job'[v] = job[v] /\ rows'[v] = rows[v]
          /\ pc'[m] = p /\ rows'[m] = {}
      BY <2>1 DEF Drop, TypeOK, WorkTypeOK
    <2>4. CASE rows[m] = {}
      BY <2>1, <2>2, <2>4, DropRows
    <2>5. CASE rows[m] # {}
      <3>1. \A v \in Workers : rows'[v] = {}
        BY <2>3, <2>5 DEF RowsSound
      <3>2. \A v \in Workers : pc'[v] \in Engaged => phone_status'[job'[v]] # "absent"
        BY <2>1, <2>2, <2>3 DEF RowsSound, TypeOK, WorkTypeOK
      <3> QED
        BY <3>1, <3>2 DEF RowsSound
    <2> QED
      BY <2>4, <2>5
  <1>4. CASE FetchPick(m)
    BY <1>4, GotoRows, ClaimRows DEF FetchPick, EndDrain
  <1>5. CASE MarkProcessing(m)
    BY <1>5, RowsMark
  <1>6. CASE ReplyBlocked(m)
    BY <1>6, OwnLeadWritten, DropRows DEF ReplyBlocked
  <1>7. CASE ReplyException(m)
    BY <1>7, OwnLeadWritten, DropRows DEF ReplyException, BackToQueue
  <1>8. CASE \E captcha_like \in BOOLEAN : ReplyError(m, captcha_like)
    <2>1. pc[m] = "calling" /\ SetStatus(job[m], "pending")
      BY <1>8 DEF ReplyError, BackToQueue
    <2>2. Drop(m, "wait") \/ Drop(m, "fetch")
      BY <1>8 DEF ReplyError
    <2> QED
      BY <2>1, <2>2, OwnLeadWritten, DropRows
  <1>9. CASE \E answer \in Resolved : StoreContact(m, answer)
    <2>1. PICK answer \in Resolved : StoreContact(m, answer)
      BY <1>9
    <2>2. \A l \in Leads : phone_status'[l] = "absent" <=> phone_status[l] = "absent"
      BY <2>1, OwnLeadWritten DEF StoreContact, Resolved
    <2>3. /\ \A v \in Workers \ {m} : pc'[v] = pc[v] /\ job'[v] = job[v] /\ rows'[v] = rows[v]
          /\ job'[m] = job[m] /\ rows'[m] = rows[m]
      BY <2>1 DEF StoreContact, TypeOK, WorkTypeOK
    <2>4. job[m] \in Leads /\ phone_status[job[m]] # "absent" /\ rows[m] = {}
      BY <2>1 DEF StoreContact, TypeOK, WorkTypeOK, RowsSound
    <2> QED
      BY <2>2, <2>3, <2>4, RowsKept
  <1>10. CASE CountContact(m)
    BY <1>10, GotoRows DEF CountContact
  <1>11. CASE Outreach(m)
    BY <1>11, OwnLeadWritten, DropRows DEF Outreach
  <1>12. CASE Sweep(m)
    BY <1>12, GotoRows DEF Sweep
  <1>13. CASE DatabaseLocked(m)
    BY <1>13, RowsLocked
  <1> QED
    BY <1>1, <1>2, <1>3, <1>4, <1>5, <1>6, <1>7, <1>8, <1>9, <1>10, <1>11, <1>12, <1>13
    DEF MonitorStep

LEMMA RowsOperator ==
    ASSUME TypeOK, RowsSound, NEW o \in Operators, OperatorStep(o)
    PROVE  RowsSound'
  <1> USE DEF Workers, Places, Engaged, PhoneStatus
  <1>1. CASE \E a \in Accounts : ConfirmBegin(o, a)
    <2>1. CASE Pending = {}
      BY <1>1, <2>1 DEF ConfirmBegin, RowsSound
    <2>2. CASE Pending # {}
      BY <1>1, <2>2, ClaimRows DEF ConfirmBegin
    <2> QED
      BY <2>1, <2>2
  <1>2. CASE MarkProcessing(o)
    BY <1>2, RowsMark
  <1>3. CASE \E verdict \in {"blocked", "refused", "error"} : ConfirmFailed(o, verdict)
    BY <1>3, OwnLeadWritten, DropRows DEF ConfirmFailed
  <1>4. CASE \E answer \in Resolved : ConfirmStore(o, answer)
    BY <1>4, OwnLeadWritten, GotoRows DEF ConfirmStore, Resolved
  <1>5. CASE ConfirmCount(o)
    BY <1>5, DropRows DEF ConfirmCount
  <1>6. CASE DatabaseLocked(o)
    BY <1>6, RowsLocked
  <1>7. CASE \E l \in Leads : RecheckWeek(o, l)
    <2>1. \A l \in Leads : phone_status'[l] = "absent" <=> phone_status[l] = "absent"
      BY <1>7 DEF RecheckWeek, SetStatus, TypeOK, StoreTypeOK
    <2>2. UNCHANGED workVars
      BY <1>7 DEF RecheckWeek
    <2> QED
      BY <2>1, <2>2 DEF RowsSound, TypeOK, WorkTypeOK
  <1> QED
    BY <1>1, <1>2, <1>3, <1>4, <1>5, <1>6, <1>7 DEF OperatorStep

LEMMA RowsEnvironment ==
    ASSUME TypeOK, RowsSound, PanelStep \/ QuotaReset \/ Crash
    PROVE  RowsSound'
  <1> USE DEF Workers, Places, Engaged, PhoneStatus
  <1>0. ASSUME UNCHANGED workVars,
               \A l \in Leads : phone_status'[l] = "absent" <=> phone_status[l] = "absent"
        PROVE  RowsSound'
    BY <1>0 DEF RowsSound, TypeOK, WorkTypeOK
  <1>1. CASE \E m \in Monitors, include_existing \in BOOLEAN : MonitorStart(m, include_existing)
    <2>1. PICK m \in Monitors, include_existing \in BOOLEAN : MonitorStart(m, include_existing)
      BY <1>1
    <2>2. \A l \in Leads : phone_status'[l] = "absent" <=> phone_status[l] = "absent"
      BY <2>1 DEF MonitorStart
    <2> QED
      BY <2>1, <2>2, GotoRows DEF MonitorStart
  <1>2. CASE MonitorStop \/ MonitorPause
    BY <1>0, <1>2 DEF MonitorStop, MonitorPause, Signal
  <1>3. CASE \E a \in Accounts, s \in {"active", "out"} : AccountSet(a, s)
    BY <1>0, <1>3 DEF AccountSet
  <1>4. ASSUME NEW ls \in SUBSET Leads, Requeue(ls), \A l \in ls : phone_status[l] # "absent"
        PROVE  RowsSound'
    BY <1>0, <1>4 DEF Requeue
  <1>5. CASE RequeueHidden \/ \E l \in Leads : RequeueOne(l)
    BY <1>4, <1>5 DEF RequeueHidden, RequeueOne
  <1>6. CASE QuotaReset
    BY <1>0, <1>6 DEF QuotaReset
  <1>7. CASE Crash
    BY <1>7 DEF Crash, RowsSound
  <1> QED
    BY <1>1, <1>2, <1>3, <1>5, <1>6, <1>7 DEF PanelStep

LEMMA RowsInvariant == Spec => []RowsSound
  <1>1. Init => RowsSound
    BY DEF Init, RowsSound, Engaged
  <1>2. ASSUME TypeOK, RowsSound, [Next]_vars
        PROVE  RowsSound'
    <2>1. CASE UNCHANGED vars
      BY <1>2, <2>1 DEF vars, RowsSound
    <2> QED
      BY <1>2, <2>1, RowsMonitor, RowsOperator, RowsEnvironment DEF Next
  <1> QED
    BY <1>1, <1>2, TypeCorrect, PTL DEF Spec

\* The step of FoundOverwrittenOnlyByStaleClaim.
FoundKept ==
    \A l \in Leads :
        phone_status[l] = "found" /\ phone_status'[l] # "found" =>
            \/ phone_status'[l] = "removed"
            \/ \E w \in Workers : job[w] = l /\ pc[w] \in {"picked", "calling"}

\* A worker writes over its own lead, claimed or called for.
LEMMA ClaimantWrites ==
    ASSUME TypeOK, NEW w \in Workers, pc[w] \in {"picked", "calling"},
           NEW s \in PhoneStatus, SetStatus(job[w], s)
    PROVE  FoundKept
  BY DEF FoundKept, SetStatus, TypeOK, StoreTypeOK

LEMMA FoundMonitor ==
    ASSUME TypeOK, RowsSound, NEW m \in Monitors, MonitorStep(m)
    PROVE  FoundKept
  <1> USE DEF Workers, PhoneStatus, Resolved
  <1>1. CASE UNCHANGED phone_status
    BY <1>1 DEF FoundKept
  <1>2. CASE ScanCommit(m)
    BY <1>2 DEF ScanCommit, FoundKept, RowsSound
  <1>3. CASE MarkProcessing(m)
    BY <1>3, ClaimantWrites DEF MarkProcessing
  <1>4. CASE ReplyBlocked(m)
    BY <1>4, ClaimantWrites DEF ReplyBlocked
  <1>5. CASE ReplyException(m) \/ \E captcha_like \in BOOLEAN : ReplyError(m, captcha_like)
    BY <1>5, ClaimantWrites DEF ReplyException, ReplyError, BackToQueue
  <1>6. CASE \E answer \in Resolved : StoreContact(m, answer)
    BY <1>6, ClaimantWrites DEF StoreContact
  <1>7. CASE Outreach(m)
    BY <1>7 DEF Outreach, SetStatus, FoundKept, TypeOK, StoreTypeOK
  <1>8. CASE Sweep(m)
    BY <1>8 DEF Sweep, FoundKept
  <1>9. CASE \/ BeginRound(m) \/ ScanInsert(m) \/ MonitorExit(m) \/ FetchPick(m)
             \/ DrainHalted(m) \/ WaitForAccount(m) \/ CountContact(m) \/ DatabaseLocked(m)
    BY <1>1, <1>9 DEF BeginRound, ScanInsert, MonitorExit, FetchPick, DrainHalted,
                      WaitForAccount, CountContact, DatabaseLocked
  <1> QED
    BY <1>2, <1>3, <1>4, <1>5, <1>6, <1>7, <1>8, <1>9 DEF MonitorStep

LEMMA FoundOperator ==
    ASSUME TypeOK, NEW o \in Operators, OperatorStep(o)
    PROVE  FoundKept
  <1> USE DEF Workers, PhoneStatus, Resolved
  <1>1. CASE MarkProcessing(o)
    BY <1>1, ClaimantWrites DEF MarkProcessing
  <1>2. CASE \E verdict \in {"blocked", "refused", "error"} : ConfirmFailed(o, verdict)
    BY <1>2, ClaimantWrites DEF ConfirmFailed
  <1>3. CASE \E answer \in Resolved : ConfirmStore(o, answer)
    BY <1>3, ClaimantWrites DEF ConfirmStore
  <1>4. CASE \E l \in Leads : RecheckWeek(o, l)
    BY <1>4 DEF RecheckWeek, SetStatus, FoundKept, TypeOK, StoreTypeOK
  <1>5. CASE (\E a \in Accounts : ConfirmBegin(o, a)) \/ ConfirmCount(o) \/ DatabaseLocked(o)
    BY <1>5 DEF ConfirmBegin, ConfirmCount, DatabaseLocked, FoundKept
  <1> QED
    BY <1>1, <1>2, <1>3, <1>4, <1>5 DEF OperatorStep

LEMMA FoundEnvironment ==
    ASSUME TypeOK, PanelStep \/ QuotaReset \/ Crash
    PROVE  FoundKept
  <1> USE DEF FoundKept
  <1>1. CASE \E m \in Monitors, include_existing \in BOOLEAN : MonitorStart(m, include_existing)
    BY <1>1 DEF MonitorStart
  <1>2. CASE RequeueHidden \/ \E l \in Leads : RequeueOne(l)
    BY <1>2 DEF RequeueHidden, RequeueOne, Requeue
  <1>3. CASE \/ MonitorStop \/ MonitorPause \/ QuotaReset \/ Crash
             \/ \E a \in Accounts, s \in {"active", "out"} : AccountSet(a, s)
    BY <1>3 DEF MonitorStop, MonitorPause, Signal, QuotaReset, Crash, AccountSet
  <1> QED
    BY <1>1, <1>2, <1>3 DEF PanelStep

\* Whatever the threads do, a number that was found is overwritten only by a
\* worker that had read the lead while it was queued, or with 'removed'.
THEOREM FoundStays == Spec => FoundOverwrittenOnlyByStaleClaim
  <1>1. ASSUME TypeOK, RowsSound, [Next]_vars
        PROVE  [FoundKept]_vars
    BY <1>1, FoundMonitor, FoundOperator, FoundEnvironment DEF Next
  <1>2. Spec => [][FoundKept]_vars
    BY <1>1, TypeCorrect, RowsInvariant, PTL DEF Spec
  <1> QED
    BY <1>2, PTL DEF FoundOverwrittenOnlyByStaleClaim, FoundKept

-----------------------------------------------------------------------------
(* One monitor implements LeadLifecycle. *)

\* One monitor thread at a time works on the queue, and no operator confirms a
\* captcha: the case LeadLifecycle is about.
OneMonitor == (\A m, n \in Monitors : m = n) /\ Operators = {}

\* The lead of the monitor is as the monitor has read or written it.
Claimed ==
    \A m \in Monitors : /\ pc[m] = "picked" => phone_status[job[m]] = "pending"
                        /\ pc[m] = "calling" => phone_status[job[m]] = "processing"

\* Stage hides the claim and tells everything else apart.
LEMMA StageOf ==
    ASSUME TypeOK, NEW l \in Leads
    PROVE  /\ phone_status[l] \in {"pending", "processing"} => Stage[l] = "queued"
           /\ phone_status[l] = "legacy" => Stage[l] = "retired"
           /\ phone_status[l] \in Resolved \cup {"absent"} => Stage[l] = phone_status[l]
  <1>1. phone_status[l] \in PhoneStatus
    BY DEF TypeOK, StoreTypeOK
  <1>2. CASE phone_status[l] \in {"pending", "processing"}
    BY <1>2 DEF Stage, Resolved
  <1>3. CASE phone_status[l] = "legacy"
    BY <1>3 DEF Stage, Resolved
  <1>4. CASE phone_status[l] \in Resolved \cup {"absent"}
    BY <1>4 DEF Stage, Resolved
  <1> QED
    BY <1>1, <1>2, <1>3, <1>4 DEF PhoneStatus, Resolved

\* A lead whose status stays has its stage stay.
LEMMA StageStays ==
    ASSUME NEW l \in Leads, phone_status'[l] = phone_status[l]
    PROVE  Stage'[l] = Stage[l]
  BY DEF Stage

LEMMA StageMoves ==
    ASSUME NEW ls \in SUBSET Leads, NEW from, NEW to,
           \A l \in ls : Stage[l] \in from /\ Stage'[l] = to,
           \A l \in Leads \ ls : Stage'[l] = Stage[l]
    PROVE  Lifecycle!Move(ls, from, to)
  <1>1. Stage' = [l \in Leads |-> Stage'[l]]
    BY DEF Stage
  <1>2. \A l \in Leads : Stage'[l] = IF l \in ls THEN to ELSE Stage[l]
    OBVIOUS
  <1>3. Stage' = [l \in Leads |-> IF l \in ls THEN to ELSE Stage[l]]
    BY <1>1, <1>2
  <1> QED
    BY <1>3 DEF Lifecycle!Move

LEMMA StageSame ==
    ASSUME \A l \in Leads : Stage'[l] = Stage[l]
    PROVE  UNCHANGED Stage
  <1>1. Stage' = [l \in Leads |-> Stage'[l]] /\ Stage = [l \in Leads |-> Stage[l]]
    BY DEF Stage
  <1> QED
    BY <1>1

LEMMA Queued ==
    ASSUME TypeOK, NEW l \in Leads
    PROVE  Stage[l] = "queued" <=> phone_status[l] \in {"pending", "processing"}
  <1>1. phone_status[l] \in {"pending", "processing", "legacy", "absent"} \cup Resolved
    BY DEF TypeOK, StoreTypeOK, PhoneStatus, Resolved
  <1> QED
    BY <1>1, StageOf DEF Resolved

\* Every ad that has a row has a stage other than "absent".
LEMMA Present ==
    ASSUME TypeOK, NEW l \in Leads, phone_status[l] # "absent"
    PROVE  Stage[l] \in Lifecycle!Stages \ {"absent"}
  <1>1. phone_status[l] \in {"pending", "processing", "legacy"} \cup Resolved
    BY DEF TypeOK, StoreTypeOK, PhoneStatus, Resolved
  <1> QED
    BY <1>1, StageOf DEF Resolved, Lifecycle!Stages

LEMMA ClaimedStep ==
    ASSUME TypeOK, Claimed, OneMonitor, [Next]_vars
    PROVE  Claimed'
  <1> USE DEF OneMonitor
  <1>1. ASSUME NEW m \in Monitors, MonitorStep(m)
        PROVE  Claimed'
    <2> USE <1>1 DEF TypeOK, WorkTypeOK, StoreTypeOK, Workers
    <2>1. SUFFICES /\ pc'[m] = "picked" => phone_status'[job'[m]] = "pending"
                   /\ pc'[m] = "calling" => phone_status'[job'[m]] = "processing"
      BY DEF Claimed
    <2>2. CASE FetchPick(m)
      BY <2>2 DEF FetchPick, EndDrain, Goto, Claim, IsHead, Pending
    <2>3. CASE MarkProcessing(m)
      BY <2>3 DEF MarkProcessing, SetStatus, Goto, Engaged
    <2>4. CASE \/ BeginRound(m) \/ MonitorExit(m) \/ DrainHalted(m) \/ WaitForAccount(m)
               \/ CountContact(m) \/ Sweep(m)
      BY <2>4 DEF BeginRound, MonitorExit, DrainHalted, WaitForAccount, EndDrain, CountContact,
                  Sweep, Goto
    <2>5. CASE ScanInsert(m)
      BY <2>5 DEF ScanInsert
    <2>6. CASE ScanCommit(m) \/ Outreach(m) \/ ReplyBlocked(m) \/ ReplyException(m)
      BY <2>6 DEF ScanCommit, Outreach, ReplyBlocked, ReplyException, Drop
    <2>7. CASE \E captcha_like \in BOOLEAN : ReplyError(m, captcha_like)
      BY <2>7 DEF ReplyError, Drop
    <2>8. CASE \E answer \in Resolved : StoreContact(m, answer)
      BY <2>8 DEF StoreContact
    <2>9. CASE DatabaseLocked(m)
      BY <2>9 DEF DatabaseLocked, Drop
    <2> QED
      BY <2>2, <2>3, <2>4, <2>5, <2>6, <2>7, <2>8, <2>9 DEF MonitorStep
  <1>2. CASE \E m \in Monitors, include_existing \in BOOLEAN : MonitorStart(m, include_existing)
    BY <1>2 DEF MonitorStart, Goto, Claimed, TypeOK, WorkTypeOK, Workers
  <1>3. ASSUME NEW ls \in SUBSET Leads, Requeue(ls), \A l \in ls : phone_status[l] = "hidden"
        PROVE  Claimed'
    <2>1. \A m \in Monitors : pc[m] \in {"picked", "calling"} => job[m] \in Leads
      BY DEF TypeOK, WorkTypeOK, Workers, Engaged
    <2> QED
      BY <1>3, <2>1 DEF Requeue, Claimed
  <1>4. CASE RequeueHidden \/ \E l \in Leads : RequeueOne(l)
    BY <1>3, <1>4 DEF RequeueHidden, RequeueOne
  <1>5. CASE \/ MonitorStop \/ MonitorPause \/ QuotaReset
             \/ \E a \in Accounts, s \in {"active", "out"} : AccountSet(a, s)
    BY <1>5 DEF MonitorStop, MonitorPause, Signal, QuotaReset, AccountSet, Claimed
  <1>6. CASE Crash
    BY <1>6 DEF Crash, Claimed, Workers
  <1>7. CASE UNCHANGED vars
    BY <1>7 DEF vars, Claimed
  <1> QED
    BY <1>1, <1>2, <1>4, <1>5, <1>6, <1>7 DEF Next, PanelStep

\* A step of the monitor finds, resolves or buries ads, or is not seen.
LEMMA MonitorMaps ==
    ASSUME TypeOK, TypeOK', RowsSound, Claimed, NEW m \in Monitors, MonitorStep(m)
    PROVE  [Lifecycle!Next]_Stage
  <1>0. /\ pc[m] \in Engaged => job[m] \in Leads
        /\ rows[m] \subseteq Leads
        /\ phone_status \in [Leads -> PhoneStatus]
    BY DEF TypeOK, WorkTypeOK, StoreTypeOK, Workers
  <1>1. CASE UNCHANGED phone_status
    BY <1>1, StageStays, StageSame
  <1>2. CASE ScanCommit(m)
    <2>1. \A l \in Leads : phone_status'[l] = IF l \in rows[m] THEN "pending" ELSE phone_status[l]
      BY <1>2 DEF ScanCommit
    <2>2. \A l \in rows[m] : Stage[l] \in {"absent"} /\ Stage'[l] = "queued"
      <3> SUFFICES ASSUME NEW l \in rows[m]
                   PROVE  Stage[l] = "absent" /\ Stage'[l] = "queued"
        OBVIOUS
      <3>1. l \in Leads /\ phone_status[l] = "absent" /\ phone_status'[l] = "pending"
        BY <1>0, <2>1 DEF RowsSound, Workers
      <3>2. Stage[l] = "absent"
        BY <3>1, StageOf
      <3>3. Stage'[l] = "queued"
        BY <3>1 DEF Stage
      <3> QED
        BY <3>2, <3>3
    <2>3. \A l \in Leads \ rows[m] : Stage'[l] = Stage[l]
      BY <2>1, StageStays
    <2>4. Lifecycle!Discover(rows[m])
      BY <1>0, <2>2, <2>3, StageMoves DEF Lifecycle!Discover
    <2> QED
      BY <1>0, <2>4 DEF Lifecycle!Next
  <1>3. ASSUME NEW l \in Leads, phone_status[l] \in {"pending", "processing"},
               NEW s \in {"pending", "processing"}, SetStatus(l, s)
        PROVE  [Lifecycle!Next]_Stage
    <2>1. \A k \in Leads : k = l \/ phone_status'[k] = phone_status[k]
      BY <1>3 DEF SetStatus
    <2>2. phone_status'[l] = s
      BY <1>0, <1>3 DEF SetStatus
    <2>3. Stage'[l] = "queued" /\ Stage[l] = "queued"
      BY <1>3, <2>2, StageOf DEF Stage
    <2> QED
      BY <2>1, <2>3, StageStays, StageSame
  <1>4. CASE \/ MarkProcessing(m) \/ ReplyBlocked(m) \/ ReplyException(m)
             \/ \E captcha_like \in BOOLEAN : ReplyError(m, captcha_like)
    <2>1. pc[m] \in {"picked", "calling"}
          /\ (SetStatus(job[m], "processing") \/ SetStatus(job[m], "pending"))
      BY <1>4 DEF MarkProcessing, ReplyBlocked, ReplyException, ReplyError, BackToQueue
    <2>2. job[m] \in Leads /\ phone_status[job[m]] \in {"pending", "processing"}
      BY <1>0, <2>1 DEF Engaged, Claimed
    <2> QED
      BY <1>3, <2>1, <2>2
  <1>5. ASSUME NEW answer \in Resolved, StoreContact(m, answer)
        PROVE  [Lifecycle!Next]_Stage
    <2>1. pc[m] = "calling" /\ SetStatus(job[m], answer)
      BY <1>5 DEF StoreContact
    <2>2. job[m] \in Leads /\ phone_status[job[m]] = "processing"
      BY <1>0, <2>1 DEF Engaged, Claimed
    <2>3. /\ phone_status'[job[m]] = answer
          /\ \A k \in Leads : k = job[m] \/ phone_status'[k] = phone_status[k]
      BY <1>0, <2>1, <2>2 DEF SetStatus
    <2>4. Stage[job[m]] = "queued" /\ Stage'[job[m]] = answer
      BY <2>2, <2>3, StageOf DEF Stage, Resolved
    <2>5. Lifecycle!Resolve(job[m], answer)
      BY <2>2, <2>3, <2>4, StageStays, StageMoves DEF Lifecycle!Resolve
    <2> QED
      BY <2>2, <2>5 DEF Lifecycle!Next, Resolved
  <1>6. ASSUME NEW gone \in SUBSET Leads, \A l \in gone : phone_status[l] # "absent",
               \A l \in Leads : phone_status'[l] = IF l \in gone THEN "removed" ELSE phone_status[l]
        PROVE  [Lifecycle!Next]_Stage
    <2>1. \A l \in gone : Stage[l] \in Lifecycle!Stages \ {"absent"} /\ Stage'[l] = "removed"
      <3>1. \A l \in gone : Stage[l] \in Lifecycle!Stages \ {"absent"}
        BY <1>6, Present
      <3>2. \A l \in gone : Stage'[l] = "removed"
        BY <1>6 DEF Stage
      <3> QED
        BY <3>1, <3>2
    <2>2. \A l \in Leads \ gone : Stage'[l] = Stage[l]
      BY <1>6, StageStays
    <2>3. Lifecycle!Vanish(gone)
      BY <2>1, <2>2, StageMoves DEF Lifecycle!Vanish
    <2> QED
      BY <2>3 DEF Lifecycle!Next
  <1>7. CASE Outreach(m) /\ phone_status' # phone_status
    <2>1. SetStatus(job[m], "removed") /\ pc[m] = "outreach"
      BY <1>7 DEF Outreach
    <2>2. job[m] \in Leads /\ phone_status[job[m]] # "absent"
      BY <1>0, <2>1 DEF Engaged, RowsSound, Workers
    <2>3. \A l \in Leads : phone_status'[l] = IF l \in {job[m]} THEN "removed" ELSE phone_status[l]
      BY <1>0, <2>1 DEF SetStatus
    <2> QED
      BY <1>6, <2>2, <2>3
  <1>8. CASE Sweep(m)
    <2>1. PICK gone \in SUBSET {l \in Leads : phone_status[l] # "absent"} :
              phone_status' = [l \in Leads |-> IF l \in gone THEN "removed" ELSE phone_status[l]]
      BY <1>8 DEF Sweep
    <2> QED
      BY <1>6, <2>1
  <1>9. CASE \/ BeginRound(m) \/ ScanInsert(m) \/ MonitorExit(m) \/ FetchPick(m)
             \/ DrainHalted(m) \/ WaitForAccount(m) \/ CountContact(m) \/ DatabaseLocked(m)
    BY <1>1, <1>9 DEF BeginRound, ScanInsert, MonitorExit, FetchPick, DrainHalted,
                      WaitForAccount, CountContact, DatabaseLocked
  <1> QED
    BY <1>1, <1>2, <1>4, <1>5, <1>7, <1>8, <1>9 DEF MonitorStep

\* A start for new ads retires the queue; a requeue is a retry; no other step
\* of the panel, and no death, is seen.
LEMMA EnvironmentMaps ==
    ASSUME TypeOK, TypeOK', PanelStep \/ QuotaReset \/ Crash
    PROVE  [Lifecycle!Next]_Stage
  <1>1. CASE UNCHANGED phone_status
    BY <1>1, StageStays, StageSame
  <1>2. ASSUME NEW m \in Monitors, MonitorStart(m, TRUE)
        PROVE  [Lifecycle!Next]_Stage
    <2>1. \A l \in Leads : phone_status'[l] = IF phone_status[l] \in {"pending", "processing"}
                                              THEN "pending" ELSE phone_status[l]
      BY <1>2 DEF MonitorStart
    <2>2. \A l \in Leads : Stage'[l] = Stage[l]
      BY <2>1 DEF Stage
    <2> QED
      BY <2>2, StageSame
  <1>3. ASSUME NEW m \in Monitors, MonitorStart(m, FALSE)
        PROVE  [Lifecycle!Next]_Stage
    <2> DEFINE ls == {l \in Leads : Stage[l] = "queued"}
    <2>1. \A l \in Leads : phone_status'[l] = IF l \in ls THEN "legacy" ELSE phone_status[l]
      BY <1>3, Queued DEF MonitorStart
    <2>2. \A l \in ls : Stage[l] \in {"queued"} /\ Stage'[l] = "retired"
      BY <2>1 DEF Stage
    <2>3. \A l \in Leads \ ls : Stage'[l] = Stage[l]
      BY <2>1, StageStays
    <2>4. Lifecycle!Retire
      BY <2>2, <2>3, StageMoves DEF Lifecycle!Retire
    <2> QED
      BY <2>4 DEF Lifecycle!Next
  <1>4. ASSUME NEW ls \in SUBSET Leads, Requeue(ls), \A l \in ls : phone_status[l] = "hidden"
        PROVE  [Lifecycle!Next]_Stage
    <2>1. \A l \in Leads : phone_status'[l] = IF l \in ls THEN "pending" ELSE phone_status[l]
      BY <1>4 DEF Requeue
    <2>2. \A l \in ls : Stage[l] \in {"hidden"} /\ Stage'[l] = "queued"
      <3>1. \A l \in ls : Stage[l] = "hidden"
        BY <1>4, StageOf DEF Resolved
      <3>2. \A l \in ls : Stage'[l] = "queued"
        BY <2>1 DEF Stage
      <3> QED
        BY <3>1, <3>2
    <2>3. \A l \in Leads \ ls : Stage'[l] = Stage[l]
      BY <2>1, StageStays
    <2>4. Lifecycle!Retry(ls)
      BY <2>2, <2>3, StageMoves DEF Lifecycle!Retry
    <2> QED
      BY <2>4 DEF Lifecycle!Next
  <1>5. CASE RequeueHidden \/ \E l \in Leads : RequeueOne(l)
    BY <1>4, <1>5 DEF RequeueHidden, RequeueOne
  <1>6. CASE \/ MonitorStop \/ MonitorPause \/ QuotaReset \/ Crash
             \/ \E a \in Accounts, s \in {"active", "out"} : AccountSet(a, s)
    BY <1>1, <1>6 DEF MonitorStop, MonitorPause, Signal, QuotaReset, Crash, AccountSet
  <1> QED
    BY <1>2, <1>3, <1>5, <1>6 DEF PanelStep

\* With one monitor and no captcha confirmation, the queue is LeadLifecycle:
\* whatever fails, an ad is queued once, resolved from the queue only, and a
\* number is kept until the ad is gone.
THEOREM MonitorImplementsLifecycle ==
    ASSUME OneMonitor
    PROVE  Spec => ImplementsLifecycle
  <1>1. Init => Lifecycle!Init /\ Claimed
    <2> SUFFICES ASSUME Init PROVE Lifecycle!Init /\ Claimed
      OBVIOUS
    <2>1. \A l \in Leads : Stage[l] = "absent"
      BY DEF Init, Stage
    <2>2. Stage = [l \in Leads |-> Stage[l]]
      BY DEF Stage
    <2>3. Stage = [l \in Leads |-> "absent"]
      BY <2>1, <2>2
    <2> QED
      BY <2>3 DEF Init, Lifecycle!Init, Claimed, Workers
  <1>2. TypeOK /\ Claimed /\ [Next]_vars => Claimed'
    BY OneMonitor, ClaimedStep
  <1>3. ASSUME TypeOK, TypeOK', RowsSound, Claimed, [Next]_vars
        PROVE  [Lifecycle!Next]_Stage
    <2>1. CASE UNCHANGED vars
      BY <2>1, StageStays, StageSame DEF vars
    <2> QED
      BY <1>3, <2>1, OneMonitor, MonitorMaps, EnvironmentMaps DEF Next, OneMonitor
  <1>4. Spec => []Claimed
    BY <1>1, <1>2, TypeCorrect, PTL DEF Spec
  <1> QED
    BY <1>1, <1>3, <1>4, TypeCorrect, RowsInvariant, PTL
    DEF Spec, ImplementsLifecycle, Lifecycle!Spec
=============================================================================
