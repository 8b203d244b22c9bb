--------------------------- MODULE AccountFileProofs ---------------------------
(***************************************************************************)
(* Updates of state.json are lost only in an overlap: proofs about         *)
(* AccountFile for any accounts and threads.                               *)
(***************************************************************************)
EXTENDS AccountFile, SequenceTheorems, TLAPS

-----------------------------------------------------------------------------
(* Type correctness *)

\* Planning updates keeps the types.
LEMMA PlanTyped ==
    ASSUME TypeOK, NEW t \in Threads, NEW updates,
           updates \in Seq(Accounts \X Targets), updates # <<>>,
           Plan(t, updates)
    PROVE  TypeOK'
  BY DEF TypeOK, Plan

\* One update, and two, are a plan.
LEMMA Plans ==
    ASSUME NEW a \in Accounts, NEW s \in Targets, NEW r \in Targets
    PROVE  /\ <<<<a, s>>>> \in Seq(Accounts \X Targets) /\ <<<<a, s>>>> # <<>>
           /\ <<<<a, s>>, <<a, r>>>> \in Seq(Accounts \X Targets)
           /\ <<<<a, s>>, <<a, r>>>> # <<>>
  OBVIOUS

\* What a thread at an update works on.
LEMMA HeadTyped ==
    ASSUME TypeOK, NEW t \in Threads, pc[t] # "idle"
    PROVE  /\ acct(t) \in Accounts /\ target(t) \in Targets
           /\ Result(t) \in [Accounts -> Fields]
           /\ Tail(plan[t]) \in Seq(Accounts \X Targets)
           /\ Len(plan[t]) > 1 => Tail(plan[t]) # <<>>
  <1>1. plan[t] \in Seq(Accounts \X Targets) /\ plan[t] # <<>>
    BY DEF TypeOK
  <1>2. Head(plan[t]) \in Accounts \X Targets
    BY <1>1
  <1>3. acct(t) \in Accounts /\ target(t) \in Targets
    BY <1>2 DEF acct, target
  <1>4. Result(t) \in [Accounts -> Fields]
    BY <1>3 DEF Result, TypeOK, Targets
  <1>5. /\ Tail(plan[t]) \in Seq(Accounts \X Targets)
        /\ Len(Tail(plan[t])) = Len(plan[t]) - 1
    BY <1>1, HeadTailProperties
  <1>6. ASSUME Len(plan[t]) > 1 PROVE Tail(plan[t]) # <<>>
    <2>1. Len(plan[t]) \in Nat
      BY <1>1, EmptySeq
    <2>2. \A n \in Nat : n > 1 => n - 1 # 0
      OBVIOUS
    <2>3. Len(Tail(plan[t])) # 0
      BY <1>5, <1>6, <2>1, <2>2, Zenon
    <2> QED
      BY <2>3, EmptySeq, Zenon
  <1> QED
    BY <1>3, <1>4, <1>5, <1>6

LEMMA TypeInit == Init => TypeOK
  <1> SUFFICES ASSUME Init PROVE TypeOK
    OBVIOUS
  <1>1. plan \in [Threads -> Seq(Accounts \X Targets)]
    BY EmptySeq DEF Init
  <1>2. 0 \in 0 .. MaxCrash
    BY AccountFileAssumption
  <1> QED
    BY <1>1, <1>2 DEF Init, TypeOK, Unset, Fields, Statuses

LEMMA TypeThread ==
    ASSUME TypeOK, NEW t \in Threads, ThreadStep(t)
    PROVE  TypeOK'
  <1> USE DEF Targets, Fields, Statuses
  <1>1. ASSUME NEW a \in Accounts, SetStatus(t, a)
        PROVE  TypeOK'
    BY <1>1, PlanTyped, Plans DEF SetStatus
  <1>2. ASSUME NEW a \in Accounts, CallBlocked(t, a)
        PROVE  TypeOK'
    BY <1>2, PlanTyped, Plans DEF CallBlocked
  <1>3. ASSUME NEW a \in Accounts, DeleteAccount(t, a)
        PROVE  TypeOK'
    BY <1>3, PlanTyped, Plans DEF DeleteAccount
  <1>4. ASSUME NEW a \in Accounts, Probe(t, a)
        PROVE  TypeOK'
    BY <1>4, Plans DEF Probe, TypeOK
  <1>5. CASE Probed(t)
    <2>1. pc[t] # "idle"
      BY <1>5 DEF Probed
    <2>2. acct(t) \in Accounts
      BY <2>1, HeadTyped
    <2> QED
      BY <1>5, <2>2, PlanTyped, Plans DEF Probed
  <1>6. CASE Load(t)
    BY <1>6 DEF Load, TypeOK, Updating
  <1>7. CASE Open(t)
    BY <1>7 DEF Open, TypeOK, Unset
  <1>8. CASE Write(t)
    <2>1. pc[t] # "idle"
      BY <1>8 DEF Write
    <2>2. /\ last' \in [Accounts -> Fields] /\ st' \in [Threads -> [Accounts -> Fields]]
          /\ content' \in [Accounts -> Fields]
      BY <1>8, <2>1, HeadTyped DEF Write, Finish, TypeOK, Unset
    <2>3. /\ pc' \in [Threads -> {"idle", "probing", "begin", "loaded", "opened"}]
          /\ plan' \in [Threads -> Seq(Accounts \X Targets)]
          /\ \A u \in Threads : pc'[u] # "idle" => plan'[u] # <<>>
      BY <1>8, <2>1, HeadTyped DEF Write, Finish, TypeOK
    <2> QED
      BY <1>8, <2>2, <2>3 DEF Write, Finish, TypeOK
  <1> QED
    BY <1>1, <1>2, <1>3, <1>4, <1>5, <1>6, <1>7, <1>8 DEF ThreadStep

LEMMA TypeNext == TypeOK /\ [Next]_vars => TypeOK'
  <1> SUFFICES ASSUME TypeOK, [Next]_vars PROVE TypeOK'
    OBVIOUS
  <1>1. CASE Crash
    <2>1. plan' \in [Threads -> Seq(Accounts \X Targets)]
      BY <1>1, EmptySeq DEF Crash
    <2> QED
      BY <1>1, <2>1, AccountFileAssumption
      DEF Crash, TypeOK, Unset, Fields, Statuses
  <1>2. CASE UNCHANGED vars
    BY <1>2 DEF vars, TypeOK
  <1> QED
    BY <1>1, <1>2, TypeThread DEF Next

\* Every variable of AccountFile keeps its type, and no thread runs out of
\* updates in the middle of a procedure.
THEOREM FileTypeCorrect == Spec => []TypeOK
  BY TypeInit, TypeNext, PTL DEF Spec

-----------------------------------------------------------------------------
(* Losses *)

\* What a thread that works alone has read, and the file it will leave.
Alone(t) ==
    /\ \A a \in Accounts \ blurred : st[t][a] = last[a]
    /\ pc[t] = "opened" => empty

\* Two threads in an update know that they are mixed, and as long as one of
\* them is under way no account is taken for safe.
Exact ==
    /\ mixed \subseteq Updating
    /\ mixed # {} => blurred = Accounts
    /\ \A t, u \in Updating : t # u => t \in mixed
    /\ \A t \in Updating \ mixed : Alone(t)
    /\ LossNeedsOverlap

LEMMA ExactInit == Init => Exact
  BY DEF Init, Exact, Alone, LossNeedsOverlap, Updating, Unset

\* A step that neither begins nor ends an update changes nothing of this.
LEMMA ExactBetween ==
    ASSUME Exact, Updating' = Updating,
           UNCHANGED <<content, empty, st, last, mixed, blurred>>,
           \A t \in Updating : pc'[t] = pc[t]
    PROVE  Exact'
  BY DEF Exact, Alone, LossNeedsOverlap

LEMMA ExactPlan ==
    ASSUME TypeOK, Exact, NEW t \in Threads, NEW updates,
           pc[t] \in {"idle", "probing"}, Plan(t, updates)
    PROVE  Exact'
  <1>1. Updating' = Updating /\ \A u \in Updating : pc'[u] = pc[u]
    BY DEF Updating, Plan, TypeOK
  <1> QED
    BY <1>1, ExactBetween DEF Plan

LEMMA ExactLoad ==
    ASSUME TypeOK, Exact, NEW t \in Threads, Load(t)
    PROVE  Exact'
  <1>1. Updating' = Updating \cup {t} /\ t \notin Updating
    BY DEF Updating, Load, TypeOK
  <1>2. CASE Updating = {}
    <2>1. Updating' = {t} /\ mixed' = {} /\ mixed = {} /\ blurred' = blurred
      BY <1>1, <1>2 DEF Exact, Load
    <2>2. st'[t] = content /\ last' = last /\ pc'[t] = "loaded"
      BY DEF Load, TypeOK
    <2>3. \A a \in Accounts \ blurred : content[a] = last[a]
      BY <1>2 DEF Exact, LossNeedsOverlap
    <2> QED
      BY <2>1, <2>2, <2>3 DEF Exact, Alone, LossNeedsOverlap
  <1>3. CASE Updating # {}
    <2>1. mixed' = mixed \cup Updating \cup {t} /\ blurred' = Accounts
      BY <1>3 DEF Load
    <2>2. mixed' = Updating'
      BY <1>1, <2>1 DEF Exact
    <2> QED
      BY <1>1, <1>3, <2>1, <2>2 DEF Exact, LossNeedsOverlap
  <1> QED
    BY <1>2, <1>3

LEMMA ExactOpen ==
    ASSUME TypeOK, Exact, NEW t \in Threads, Open(t)
    PROVE  Exact'
  <1>1. Updating' = Updating /\ t \in Updating
    BY DEF Updating, Open, TypeOK
  <1>2. \A u \in Updating : pc'[u] = "opened" => empty'
    BY DEF Open
  <1>3. UNCHANGED <<st, last, mixed, blurred>>
    BY DEF Open
  <1> QED
    BY <1>1, <1>2, <1>3 DEF Exact, Alone, LossNeedsOverlap

LEMMA ExactWrite ==
    ASSUME TypeOK, Exact, NEW t \in Threads, Write(t)
    PROVE  Exact'
  <1>1. t \in Updating /\ Updating' = Updating \ {t} /\ mixed' = mixed \ {t}
    BY DEF Updating, Write, Finish, TypeOK
  <1>2. acct(t) \in Accounts /\ Result(t) \in [Accounts -> Fields]
    BY HeadTyped DEF Write
  <1>3. CASE t \in mixed
    <2>1. blurred = Accounts /\ blurred' = Accounts
      BY <1>3 DEF Exact, Write, Finish
    <2>2. \A u \in Updating' : pc'[u] = pc[u]
      BY <1>1 DEF Write, Finish, TypeOK, Updating
    <2>3. \A u \in Updating' \ mixed' : u \in Updating \ mixed
      BY <1>1
    <2>4. \A u \in Updating' \ mixed' : FALSE
      BY <1>1, <1>3, <2>3 DEF Exact
    <2> QED
      BY <1>1, <2>1, <2>4 DEF Exact, LossNeedsOverlap
  <1>4. CASE t \notin mixed
    <2>1. Updating' = {}
      BY <1>1, <1>4 DEF Exact
    <2>2. blurred' = blurred \ {acct(t)} /\ content' = Result(t)
      BY <1>1, <1>4 DEF Exact, Alone, Write, Finish
    <2>3. last' = [last EXCEPT ![acct(t)] = Result(t)[acct(t)]]
      BY DEF Write, Finish
    <2>4. \A a \in Accounts \ blurred : st[t][a] = last[a]
      BY <1>1, <1>4 DEF Exact, Alone
    <2>5. \A a \in Accounts : a # acct(t) => Result(t)[a] = st[t][a]
      BY <1>2 DEF Result, TypeOK
    <2>6. \A a \in Accounts \ blurred' : content'[a] = last'[a]
      BY <1>2, <2>2, <2>3, <2>4, <2>5 DEF TypeOK
    <2>7. mixed' = {}
      BY <1>1, <2>1 DEF Exact
    <2> QED
      BY <2>1, <2>6, <2>7 DEF Exact, LossNeedsOverlap
  <1> QED
    BY <1>3, <1>4

LEMMA ExactCrash == TypeOK /\ Exact /\ Crash => Exact'
  BY DEF Crash, Exact, LossNeedsOverlap, Updating, TypeOK

LEMMA ExactNext == TypeOK /\ Exact /\ [Next]_vars => Exact'
  <1> SUFFICES ASSUME TypeOK, Exact, [Next]_vars PROVE Exact'
    OBVIOUS
  <1>1. ASSUME NEW t \in Threads, ThreadStep(t) PROVE Exact'
    <2>1. ASSUME NEW a \in Accounts, Probe(t, a) PROVE Exact'
      <3>1. Updating' = Updating /\ \A u \in Updating : pc'[u] = pc[u]
        BY <2>1 DEF Updating, Probe, TypeOK
      <3> QED
        BY <2>1, <3>1, ExactBetween DEF Probe
    <2>2. ASSUME NEW a \in Accounts,
                 SetStatus(t, a) \/ CallBlocked(t, a) \/ DeleteAccount(t, a)
          PROVE  Exact'
      BY <2>2, ExactPlan DEF SetStatus, CallBlocked, DeleteAccount
    <2>3. CASE Probed(t)
      BY <2>3, ExactPlan DEF Probed
    <2> QED
      BY <1>1, <2>1, <2>2, <2>3, ExactLoad, ExactOpen, ExactWrite
      DEF ThreadStep
  <1>2. CASE UNCHANGED vars
    BY <1>2 DEF vars, Exact, Alone, LossNeedsOverlap, Updating
  <1> QED
    BY <1>1, <1>2, ExactCrash DEF Next

\* Whatever the threads do, an account's last update is lost, or the file
\* unreadable, only after two updates overlapped or the process died in one.
THEOREM LossesNeedOverlap == Spec => []LossNeedsOverlap
  <1>1. Exact => LossNeedsOverlap
    BY DEF Exact
  <1> QED
    BY <1>1, ExactInit, ExactNext, FileTypeCorrect, PTL DEF Spec

-----------------------------------------------------------------------------
(* Updates that overlap no other are atomic *)

\* With no two updates overlapping, a reader sees what the only one has read.
LEMMA OneUpdate ==
    ASSUME Exact, mixed = {}, NEW t \in Updating
    PROVE  Updating = {t} /\ Shown = st[t] /\ (pc[t] = "opened" => empty)
  <1>1. Updating = {t}
    BY DEF Exact
  <1> QED
    BY <1>1 DEF Shown, Exact, Alone

LEMMA AtomicWrite ==
    ASSUME TypeOK, Exact, mixed = {}, NEW t \in Threads, Write(t)
    PROVE  Registry!Next \/ UNCHANGED Shown
  <1>1. t \in Updating /\ Updating' = Updating \ {t}
    BY DEF Updating, Write, Finish, TypeOK
  <1>2. Updating' = {} /\ Shown = st[t] /\ content' = Result(t)
    BY <1>1, OneUpdate DEF Write
  <1>3. Shown' = Result(t)
    BY <1>2 DEF Shown
  <1>4. acct(t) \in Accounts /\ target(t) \in Targets
    BY HeadTyped DEF Write
  <1>5. CASE target(t) = "same"
    BY <1>2, <1>3, <1>5 DEF Result
  <1>6. CASE target(t) # "same"
    <2>1. Registry!Update(acct(t), target(t))
      BY <1>2, <1>3, <1>6 DEF Result, Registry!Update
    <2>2. target(t) \in Statuses \cup {"unset"}
      BY <1>4, <1>6 DEF Targets, Fields
    <2> QED
      BY <1>4, <2>1, <2>2 DEF Registry!Next
  <1> QED
    BY <1>5, <1>6

\* A step that neither begins nor ends an update shows nothing new.
LEMMA ShownBetween ==
    ASSUME Updating' = Updating, st' = st, content' = content
    PROVE  UNCHANGED Shown
  BY DEF Shown

LEMMA AtomicThread ==
    ASSUME TypeOK, Exact, mixed = {}, mixed' = {},
           NEW t \in Threads, ThreadStep(t)
    PROVE  Registry!Next \/ UNCHANGED Shown
  <1>1. ASSUME NEW updates, pc[t] \in {"idle", "probing"}, Plan(t, updates)
        PROVE  UNCHANGED Shown
    <2>1. Updating' = Updating
      BY <1>1 DEF Updating, Plan, TypeOK
    <2> QED
      BY <1>1, <2>1, ShownBetween DEF Plan
  <1>2. ASSUME NEW a \in Accounts, Probe(t, a) PROVE UNCHANGED Shown
    <2>1. Updating' = Updating
      BY <1>2 DEF Updating, Probe, TypeOK
    <2> QED
      BY <1>2, <2>1, ShownBetween DEF Probe
  <1>3. CASE Load(t)
    <2>1. Updating = {}
      BY <1>3 DEF Load
    <2>2. Updating' = {t} /\ st'[t] = content
      BY <1>3, <2>1 DEF Updating, Load, TypeOK
    <2> QED
      BY <2>1, <2>2 DEF Shown
  <1>4. CASE Open(t)
    <2>1. Updating' = Updating /\ t \in Updating /\ st' = st
      BY <1>4 DEF Updating, Open, TypeOK
    <2> QED
      BY <2>1 DEF Shown
  <1>5. CASE Write(t)
    BY <1>5, AtomicWrite
  <1>6. ASSUME NEW a \in Accounts,
               SetStatus(t, a) \/ CallBlocked(t, a) \/ DeleteAccount(t, a)
        PROVE  UNCHANGED Shown
    BY <1>1, <1>6 DEF SetStatus, CallBlocked, DeleteAccount
  <1>7. CASE Probed(t)
    BY <1>1, <1>7 DEF Probed
  <1> QED
    BY <1>2, <1>3, <1>4, <1>5, <1>6, <1>7 DEF ThreadStep

\* Any number of threads share state.json as if it were a table of statuses,
\* one updated at a time, while no two updates overlap and no death cuts one.
THEOREM AloneImplementsRegistry == Spec => RegistryWhileAlone
  <1>1. Init => Registry!Init
    BY DEF Init, Registry!Init, Shown, Updating, Unset
  <1>2. ASSUME TypeOK, Exact, [Next]_vars
        PROVE  [/\ mixed = {} /\ mixed' = {}
                /\ crashes' # crashes => Updating = {}
                => Registry!Next \/ UNCHANGED Shown]_vars
    <2> SUFFICES ASSUME Next, mixed = {}, mixed' = {},
                        crashes' # crashes => Updating = {}
                 PROVE  Registry!Next \/ UNCHANGED Shown
      BY <1>2
    <2>1. CASE Crash
      <3>1. Updating = {} /\ Updating' = {} /\ content' = content
        BY <2>1, <1>2 DEF Crash, TypeOK, Updating
      <3> QED
        BY <3>1 DEF Shown
    <2> QED
      BY <1>2, <2>1, AtomicThread DEF Next
  <1> QED
    BY <1>1, <1>2, ExactInit, ExactNext, FileTypeCorrect, PTL
    DEF Spec, RegistryWhileAlone
=============================================================================
