----------------------------- MODULE Assistants -----------------------------
(***************************************************************************)
(* The three ways in which the operator talks to the program, the wizard   *)
(* (HunterWizard), Tira (TiraAgent) and the admin bot (TelegramBot), and   *)
(* the judge of prices that announces hunts to the operator (HunterDeals), *)
(* and the license session that lets the operator in (License).  None of   *)
(* them shares state with another, so each behaviour is one of them at     *)
(* work.                                                                   *)
(***************************************************************************)
EXTENDS Integers, Sequences

CONSTANTS
    Requests,                                   \* HunterWizard and TiraAgent
    WizardTexts, MaxProducts,                   \* HunterWizard
    TiraTexts,                                  \* TiraAgent
    MaxSent, Limit, MaxLost, MaxDeaths,         \* TelegramBot
    Pct, Defects, Texts, Prices, Meanings,      \* HunterDeals
    Settings, Profile, SampleLimit, MaxAds, MaxReplies,
    Passwords, Expiries, Hours, SessionDays, CookieDays, MaxHour    \* License

VARIABLES
    with,                                       \* whom the operator talks to
    talk, greeted, replying, hurried,
    hunt, awaits, watched, auto_sms, overlapped,
    sent, dropped, offset, turn, batch, last, runs, alive, lost, deaths,
    ads, alerts, answered,
    hour, row, cookie, remembered, read

wizard == <<talk, greeted, replying, hurried>>
tira == <<hunt, awaits, watched, auto_sms, overlapped>>
bot == <<sent, dropped, offset, turn, batch, last, runs, alive, lost, deaths>>
hunter == <<ads, alerts, answered>>
license == <<hour, row, cookie, remembered, read>>
vars == <<with, wizard, tira, bot, hunter, license>>

Wizard == INSTANCE HunterWizard WITH Messages <- WizardTexts
Tira == INSTANCE TiraAgent WITH Messages <- TiraTexts, talk <- hunt
Bot == INSTANCE TelegramBot
Hunter == INSTANCE HunterDeals
Gate == INSTANCE License

ASSUME AssistantsAssumption ==
    Bot!BotAssumption /\ Hunter!HunterAssumption /\ Gate!LicenseAssumption

Init ==
    /\ with \in {"wizard", "tira", "bot", "hunter", "license"}
    /\ Wizard!Init /\ Tira!Init /\ Bot!Init /\ Hunter!Init /\ Gate!Init

InWizard(A) == with = "wizard" /\ A /\ UNCHANGED <<with, tira, bot, hunter, license>>
InTira(A) == with = "tira" /\ A /\ UNCHANGED <<with, wizard, bot, hunter, license>>
InBot(A) == with = "bot" /\ A /\ UNCHANGED <<with, wizard, tira, hunter, license>>
InHunter(A) == with = "hunter" /\ A /\ UNCHANGED <<with, wizard, tira, bot, license>>
InGate(A) == with = "license" /\ A /\ UNCHANGED <<with, wizard, tira, bot, hunter>>

Next ==
    \/ InWizard(Wizard!Next) \/ InTira(Tira!Next) \/ InBot(Bot!Next)
    \/ InHunter(Hunter!Next) \/ InGate(Gate!Next)

Fairness ==
    /\ \A r \in Requests : WF_vars(InWizard(Wizard!Finish(r)))
    /\ WF_vars(InWizard(Wizard!HelpfulAnswer))
    /\ \A w \in Requests : WF_vars(InTira(Tira!Found(w)))
    /\ WF_vars(InTira(Tira!HelpfulAnswer))
    /\ WF_vars(InBot(Bot!Thread))

Spec == Init /\ [][Next]_vars
FairSpec == Spec /\ Fairness

(***************************************************************************)
(* Properties: those of the five modules                                   *)
(***************************************************************************)

\* The wizard reports no configuration ready without a sell price and a profit for each
\* model, unless a request was handled while another was waiting for the language model.
ReadyIsPriced == Wizard!ReadyIsPriced

\* No conversation with the wizard is stuck: the answers asked for end it.
ConversationEnds == with = "wizard" => Wizard!ConversationEnds

\* Tira asks to confirm no variant that slipped through its questions: both were answered, or
\* conditions were told in their place and the rest was filled in, unless a message was
\* handled while another was waiting for the internet.
SummaryIsPriced == Tira!SummaryIsPriced

\* No hunt with Tira is stuck: the answers asked for, given one at a time, end it.
HuntEnds == with = "tira" => Tira!HuntEnds

\* No message to the bot is dropped by its channel before it was executed.
DroppedWasExecuted == Bot!DroppedWasExecuted

\* A program that starts again repeats one answer of Telegram and Bale at most.
RepeatsOneAnswer == Bot!RepeatsOneAnswer

\* Every message to the bot is executed in the end, unless its thread ends for good.
EveryMessageExecuted == Bot!EveryMessageExecuted

\* No ad is announced as a hunt that asks more than a sound car costs in its market, or, with
\* a low threshold, more than the best one less the threshold.
AlertNotAboveMarket == Hunter!AlertNotAboveMarket

\* A hunt that is announced rests on three prices at least, or leaves no question open.
AlertIsInformed == Hunter!AlertIsInformed

\* The gate lets no request through after the license of the session, or long after the
\* ledger was read.
SessionEndsWithLicense == Gate!SessionEndsWithLicense
=============================================================================
