----------------------------- MODULE AccountFile -----------------------------
(***************************************************************************)
(* data/accounts/state.json, the statuses of all accounts, as the threads  *)
(* of the panel share it (accounts.py): every update loads the whole file, *)
(* changes one record and saves the whole file, and no lock is taken.      *)
(* Saving is Path.write_text: the file is truncated when it is opened and  *)
(* filled when it is closed.  A file that cannot be parsed reads as {}.    *)
(*                                                                         *)
(* Procedures are lists of updates: a blocked call is set_status and then  *)
(* record_block, a probe of the account watcher is record_probe and then,  *)
(* perhaps, set_status.                                                    *)
(***************************************************************************)
EXTENDS Integers, Sequences

CONSTANTS
    Accounts,
    Threads,    \* monitor, account watcher, request threads, command line
    MaxCrash    \* bound: deaths of the process

ASSUME AccountFileAssumption == MaxCrash \in Nat

\* "out" is 'relogin' and 'disabled'.
Statuses == {"active", "captcha", "out"}
Fields == Statuses \cup {"unset"}
\* "same": an update of other fields of the record.
Targets == Fields \cup {"same"}
Unset == [a \in Accounts |-> "unset"]

VARIABLES
    content,    \* what the file parses to, {} if it does not
    empty,      \* the file was opened for writing, and nobody has written yet
    pc,         \* each thread: "idle", "probing", "begin", "loaded", "opened"
    plan,       \* each thread's updates to do: account and target
    st,         \* local variable st of _load_states: what the thread read
    \* history, read by the properties only
    last,       \* status of each account after its last completed update
    mixed,      \* threads whose current update overlapped another one
    blurred,    \* accounts whose last update may have been lost in an overlap
    crashes

vars == <<content, empty, pc, plan, st, last, mixed, blurred, crashes>>

-----------------------------------------------------------------------------
Updating == {t \in Threads : pc[t] \in {"loaded", "opened"}}

acct(t) == Head(plan[t])[1]
target(t) == Head(plan[t])[2]
Result(t) == IF target(t) = "same" THEN st[t]
             ELSE [st[t] EXCEPT ![acct(t)] = target(t)]

Init ==
    /\ content = Unset /\ empty = FALSE
    /\ pc = [t \in Threads |-> "idle"]
    /\ plan = [t \in Threads |-> <<>>]
    /\ st = [t \in Threads |-> Unset]
    /\ last = Unset
    /\ mixed = {} /\ blurred = {}
    /\ crashes = 0

Plan(t, updates) ==
    /\ pc' = [pc EXCEPT ![t] = "begin"]
    /\ plan' = [plan EXCEPT ![t] = updates]
    /\ UNCHANGED <<content, empty, st, last, mixed, blurred, crashes>>

(* The procedures *)

\* Enabled, released, logged in, disabled; the monitor's call was refused.
SetStatus(t, a) ==
    /\ pc[t] = "idle"
    /\ \E s \in {"active", "out"} : Plan(t, <<<<a, s>>>>)

\* The monitor's call, or the call after "captcha solved", was blocked.
CallBlocked(t, a) ==
    /\ pc[t] = "idle"
    /\ Plan(t, <<<<a, "captcha">>, <<a, "same">>>>)

DeleteAccount(t, a) ==
    /\ pc[t] = "idle"
    /\ Plan(t, <<<<a, "unset">>>>)

\* try_release_account, by the watcher for an account in 'captcha' or on
\* request: the answer of the probe comes later.
Probe(t, a) ==
    /\ pc[t] = "idle"
    /\ pc' = [pc EXCEPT ![t] = "probing"]
    /\ plan' = [plan EXCEPT ![t] = <<<<a, "same">>>>]
    /\ UNCHANGED <<content, empty, st, last, mixed, blurred, crashes>>

\* The gate is open; the account must log in again, said in the answer or by
\* an exception; the gate still asks for the captcha.
Probed(t) ==
    /\ pc[t] = "probing"
    /\ LET a == acct(t) IN
       \/ Plan(t, <<<<a, "same">>, <<a, "active">>>>)
       \/ Plan(t, <<<<a, "same">>, <<a, "out">>>>)
       \/ Plan(t, <<<<a, "out">>>>)
       \/ Plan(t, <<<<a, "same">>, <<a, "same">>>>)

(* One update *)

\* Mutant: the statuses are kept in memory and only saved.
LoadCached(t) ==
    /\ pc[t] = "begin"
    /\ pc' = [pc EXCEPT ![t] = "loaded"]
    /\ mixed' = IF Updating = {} THEN mixed ELSE mixed \cup Updating \cup {t}
    /\ blurred' = IF Updating = {} THEN blurred ELSE Accounts
    /\ UNCHANGED <<content, empty, plan, st, last, crashes>>

Load(t) ==
    /\ pc[t] = "begin"
    /\ pc' = [pc EXCEPT ![t] = "loaded"]
    /\ st' = [st EXCEPT ![t] = content]
    /\ mixed' = IF Updating = {} THEN mixed ELSE mixed \cup Updating \cup {t}
    /\ blurred' = IF Updating = {} THEN blurred ELSE Accounts
    /\ UNCHANGED <<content, empty, plan, last, crashes>>

Open(t) ==
    /\ pc[t] = "loaded"
    /\ pc' = [pc EXCEPT ![t] = "opened"]
    /\ empty' = TRUE /\ content' = Unset
    /\ UNCHANGED <<plan, st, last, mixed, blurred, crashes>>

\* The update is complete; on to the next one of the procedure.
Finish(t) ==
    /\ last' = [last EXCEPT ![acct(t)] = Result(t)[acct(t)]]
    /\ blurred' = IF t \in mixed THEN blurred ELSE blurred \ {acct(t)}
    /\ mixed' = mixed \ {t}
    /\ pc' = [pc EXCEPT ![t] = IF Len(plan[t]) > 1 THEN "begin" ELSE "idle"]
    /\ plan' = [plan EXCEPT ![t] = Tail(@)]
    /\ st' = [st EXCEPT ![t] = Unset]

\* Mutant: the record that was changed is the only one saved.
WriteOne(t) ==
    /\ pc[t] = "opened"
    /\ empty' = FALSE
    /\ content' = [Unset EXCEPT ![acct(t)] = Result(t)[acct(t)]]
    /\ Finish(t)
    /\ UNCHANGED crashes

\* What another thread wrote after this one opened the file is overwritten
\* from the start; if it was longer, its end stays behind and the file cannot
\* be parsed.
Write(t) ==
    /\ pc[t] = "opened"
    /\ empty' = FALSE
    /\ content' \in IF empty THEN {Result(t)} ELSE {Result(t), Unset}
    /\ Finish(t)
    /\ UNCHANGED crashes

\* The process dies; the file stays as it is.
Crash ==
    /\ crashes < MaxCrash
    /\ crashes' = crashes + 1
    /\ pc' = [t \in Threads |-> "idle"]
    /\ plan' = [t \in Threads |-> <<>>]
    /\ st' = [t \in Threads |-> Unset]
    /\ mixed' = {}
    /\ blurred' = IF Updating = {} THEN blurred ELSE Accounts
    /\ UNCHANGED <<content, empty, last>>

-----------------------------------------------------------------------------
ThreadStep(t) ==
    \/ \E a \in Accounts : \/ SetStatus(t, a) \/ CallBlocked(t, a)
                           \/ DeleteAccount(t, a) \/ Probe(t, a)
    \/ Probed(t) \/ Load(t) \/ Open(t) \/ Write(t)

Next == (\E t \in Threads : ThreadStep(t)) \/ Crash

Spec == Init /\ [][Next]_vars

-----------------------------------------------------------------------------
(* Properties *)

\* Every variable has its type; a thread at an update has one to do.
TypeOK ==
    /\ content \in [Accounts -> Fields]
    /\ empty \in BOOLEAN
    /\ pc \in [Threads -> {"idle", "probing", "begin", "loaded", "opened"}]
    /\ plan \in [Threads -> Seq(Accounts \X Targets)]
    /\ \A t \in Threads : pc[t] # "idle" => plan[t] # <<>>
    /\ st \in [Threads -> [Accounts -> Fields]]
    /\ last \in [Accounts -> Fields]
    /\ mixed \subseteq Threads /\ blurred \subseteq Accounts
    /\ crashes \in 0 .. MaxCrash

\* An account loses its last update, or the file becomes unreadable, only if
\* two updates overlapped, or the process died during one.
LossNeedsOverlap ==
    Updating = {} => \A a \in Accounts \ blurred : content[a] = last[a]

\* The file as its readers see it when no two updates overlap: what an update
\* under way has read is still there for them.
Shown == IF Updating = {} THEN content
         ELSE LET t == CHOOSE u \in Updating : TRUE IN st[t]

Registry == INSTANCE AccountRegistry WITH status <- Shown

\* As long as no update overlaps another one, and the process does not die in
\* the middle of one, every step is an atomic update of one account or changes
\* nothing that a reader sees, whatever was lost before.
RegistryWhileAlone ==
    /\ Registry!Init
    /\ [][/\ mixed = {} /\ mixed' = {}
          /\ crashes' # crashes => Updating = {}
          => Registry!Next \/ UNCHANGED Shown]_vars
=============================================================================
