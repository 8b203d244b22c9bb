----------------------------- MODULE TelegramBot -----------------------------
(***************************************************************************)
(* The admin bot (telegram_bot.py over the requests of notifier.py): one   *)
(* thread asks Telegram, Bale and Rubika in turn for new messages, and     *)
(* executes each as a command.  Telegram and Bale drop the messages before *)
(* the offset of a request; Rubika keeps them and returns those after the  *)
(* given one.  The offsets live in the thread: a program that starts again *)
(* asks without one.                                                       *)
(***************************************************************************)
EXTENDS Integers, Sequences, FiniteSets, SequencesExt

CONSTANTS
    MaxSent,        \* bound: messages the user sends on each channel
    Limit,          \* messages in one answer ("limit" of getUpdates)
    MaxLost,        \* bound: requests without an answer
    MaxDeaths       \* bound: times the program ends

Channels == <<"telegram", "bale", "rubika">>
Names == {"telegram", "bale", "rubika"}
Drops(c) == c # "rubika"

BotAssumption ==
    /\ MaxSent \in [Names -> Nat] /\ Limit \in Nat \ {0}
    /\ MaxLost \in Nat /\ MaxDeaths \in Nat

VARIABLES
    sent,           \* per channel: the messages sent so far are 1 .. sent[c]
    dropped,        \* per channel: the messages up to this one are no longer returned
    offset,         \* per channel: the last message an answer held (tg_off, bale_off, rub_off)
    turn,           \* the channel asked next, or whose messages are being executed
    batch,          \* the messages of the answer that are still to execute
    last,           \* the last message of that answer
    runs,           \* executions of each message
    alive,          \* the thread runs
    lost,           \* requests without an answer
    deaths

vars == <<sent, dropped, offset, turn, batch, last, runs, alive, lost, deaths>>

Init ==
    /\ sent = [c \in Names |-> 0]
    /\ dropped = [c \in Names |-> 0]
    /\ offset = [c \in Names |-> 0]
    /\ turn = 1
    /\ batch = <<>>
    /\ last = 0
    /\ runs = [c \in Names |-> [i \in 1 .. MaxSent[c] |-> 0]]
    /\ alive = TRUE
    /\ lost = 0 /\ deaths = 0

(***************************************************************************)
(* The channels                                                            *)
(***************************************************************************)

\* The user writes to the bot, or presses one of its buttons.
Send(c) ==
    /\ sent[c] < MaxSent[c]
    /\ sent' = [sent EXCEPT ![c] = @ + 1]
    /\ UNCHANGED <<dropped, offset, turn, batch, last, runs, alive, lost, deaths>>

\* What the server has dropped once a request with the client's offset reaches it.
DroppedAt(c) == IF Drops(c) THEN Max({dropped[c], offset[c]}) ELSE 0

\* The messages of its answer: the first ones it keeps, after the offset.
AnswerOf(c) ==
    LET from == Max({DroppedAt(c), offset[c]})
        to == IF sent[c] - from > Limit THEN from + Limit ELSE sent[c]
    IN  [k \in 1 .. to - from |-> from + k]

(***************************************************************************)
(* The thread                                                              *)
(***************************************************************************)

\* Mutant: the last channel is left out.
NextButLast == turn' = (turn % (Len(Channels) - 1)) + 1

NextChannel == turn' = (turn % Len(Channels)) + 1

Here == Channels[turn]

\* The request reaches the channel, which answers.
Poll ==
    /\ batch = <<>>
    /\ dropped' = [dropped EXCEPT ![Here] = DroppedAt(Here)]
    /\ IF AnswerOf(Here) = <<>>
       THEN NextChannel /\ UNCHANGED <<batch, last>>
       ELSE /\ batch' = AnswerOf(Here)
            /\ last' = Last(AnswerOf(Here))
            /\ UNCHANGED turn
    /\ UNCHANGED <<sent, offset, runs, alive, lost, deaths>>

\* No answer on any path: telegram_request, bale_request and rubika_request return None and
\* the offset stays.  The request may have reached the channel.
PollLost ==
    /\ batch = <<>>
    /\ lost < MaxLost
    /\ lost' = lost + 1
    /\ \/ UNCHANGED dropped
       \/ dropped' = [dropped EXCEPT ![Here] = DroppedAt(Here)]
    /\ NextChannel
    /\ UNCHANGED <<sent, offset, batch, last, runs, alive, deaths>>

\* An answer of Telegram that is no JSON object ends the round of _poll_loop before the
\* other channels.
PollGarbled ==
    /\ batch = <<>>
    /\ Here = "telegram"
    /\ lost < MaxLost
    /\ lost' = lost + 1
    /\ UNCHANGED <<sent, dropped, offset, turn, batch, last, runs, alive, deaths>>

\* Mutant: the offset moves by one with each answer.
NewOffsetCounted == offset[Here] + 1

\* Behind the last message of the answer.
NewOffset == last

\* handle_update: the first message left is executed.
Run == runs' = [runs EXCEPT ![Here][Head(batch)] = @ + 1]

\* Mutant: a failure ends the loop over the answer, and the new offset is returned.
ExecuteStopping ==
    /\ batch # <<>>
    /\ Run
    /\ batch' = <<>>
    /\ offset' = [offset EXCEPT ![Here] = NewOffset]
    /\ NextChannel
    /\ UNCHANGED <<sent, dropped, last, alive, lost, deaths>>

\* handle_update; a failure of the command, or of its reply, is swallowed.  The new offset
\* is returned behind the last message of the answer.
Execute ==
    /\ batch # <<>>
    /\ Run
    /\ batch' = Tail(batch)
    /\ IF Tail(batch) = <<>>
       THEN offset' = [offset EXCEPT ![Here] = NewOffset] /\ NextChannel
       ELSE UNCHANGED <<offset, turn>>
    /\ UNCHANGED <<sent, dropped, last, alive, lost, deaths>>

\* cfg_fn, before each round and outside its try: a locked database, or an environment
\* variable that is no number, ends the thread, and nothing in the program starts another.
ConfigFails ==
    /\ batch = <<>> /\ turn = 1
    /\ alive' = FALSE
    /\ UNCHANGED <<sent, dropped, offset, turn, batch, last, runs, lost, deaths>>

\* The program ends and is started again (start_background): no offset.
Die ==
    /\ deaths < MaxDeaths
    /\ deaths' = deaths + 1
    /\ offset' = [c \in Names |-> 0]
    /\ turn' = 1
    /\ batch' = <<>>
    /\ alive' = TRUE
    /\ UNCHANGED <<sent, dropped, last, runs, lost>>

Thread == alive /\ (Poll \/ PollLost \/ PollGarbled \/ Execute)

\* The panel goes on without the bot.
Stopped == ~alive /\ UNCHANGED vars

Next ==
    \/ Thread
    \/ alive /\ ConfigFails
    \/ Stopped
    \/ Die
    \/ \E c \in Names : Send(c)

\* The thread goes on while it is alive.
Spec == Init /\ [][Next]_vars
FairSpec == Spec /\ WF_vars(Thread)

(***************************************************************************)
(* Properties                                                              *)
(***************************************************************************)

TypeOK ==
    /\ \A c \in Names : {sent[c], dropped[c], offset[c]} \subseteq 0 .. MaxSent[c]
    /\ turn \in DOMAIN Channels
    /\ batch \in Seq(1 .. MaxSent[Here]) /\ last \in Nat
    /\ \A c \in Names : runs[c] \in [1 .. MaxSent[c] -> Nat]
    /\ alive \in BOOLEAN /\ lost \in 0 .. MaxLost /\ deaths \in 0 .. MaxDeaths

\* No message is lost between two programs: what a channel has dropped was executed, though
\* the offset is confirmed by the next request only and a program may end in between (the
\* offset of _poll_telegram_like).
DroppedWasExecuted == \A c \in Names : \A i \in 1 .. dropped[c] : runs[c][i] > 0

\* A program that starts again repeats the messages of one answer at most on Telegram and
\* Bale, and no message twice on Rubika; a program that goes on repeats none, whatever
\* answers are lost and however the messages are split over them.
Repeated(c) == {i \in 1 .. MaxSent[c] : runs[c][i] > 1}

RepeatsOneAnswer ==
    \A c \in Names :
        /\ \A i \in 1 .. MaxSent[c] : runs[c][i] <= 1 + deaths
        /\ Drops(c) => Cardinality(Repeated(c)) <= Limit * deaths

\* Every message is executed in the end, on each channel, though one thread asks all of them
\* and a program may end with messages left to execute, unless the thread ends for good
\* (_poll_loop).
EveryMessageExecuted ==
    <>[]alive => <>[](\A c \in Names : \A i \in 1 .. sent[c] : runs[c][i] > 0)

\* Not kept: a program whose thread was ended by one failed reading of its configuration
\* executes no message any more.
ThreadGoesOn == []<>alive
=============================================================================
