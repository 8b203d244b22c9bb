------------------------------ MODULE TiraAgent ------------------------------
(***************************************************************************)
(* Tira, the agent of the panel and of the bots (tira_agent.py,            *)
(* tira_commands.py).  A message is first tried as a command, which may    *)
(* change the settings and the watched categories; any other is the answer *)
(* to the question of the hunt: the variants of a product, a sell price    *)
(* and a profit for each, details, a confirmation.                         *)
(*                                                                         *)
(* Two messages wait for the internet before they are stored: the name of  *)
(* a product (research_any_product), and "the same price", which is looked *)
(* up.  The other messages of the session, from another tab or from        *)
(* another bot channel, are handled meanwhile.                             *)
(***************************************************************************)
EXTENDS Integers, Sequences, SequencesExt

CONSTANTS
    Requests,       \* threads that hand messages to the session
    Messages        \* the messages the user may write

Nothing == [kind |-> "none", name |-> "none"]

VARIABLES
    talk,           \* TiraAgent.state; sold and gain hold the variants whose question about
                    \* the sell price, the profit was answered, filled those whose missing
                    \* price or profit was written into "answers" without a question
    awaits,         \* what each request waits for: a product's research, a variant's price
    watched,        \* the categories added to the keywords
    auto_sms,       \* setting sms_auto_on_new
    overlapped      \* a message was handled while another was waiting, since the last reset

vars == <<talk, awaits, watched, auto_sms, overlapped>>

(***************************************************************************)
(* What a message holds                                                    *)
(***************************************************************************)

\* research["variants"]: several for a series, else the text itself.
Variants(m) == IF m = "series" THEN <<"A", "APro">> ELSE <<m>>

IsPro(v) == v = "APro"

HasPrice(m) == m = "price"
HasProfit(m) == m \in {"price", "percent"}
IsSame(m) == m = "same"
IsYes(m) == m \in {"ok", "details"}      \* a text with "باشه" is a yes, whatever it says
IsDetails(m) == m = "details"
IsClean(m) == m = "clean"

IsCommand(m) == m \in {"browse", "sms off", "sms disable"}

(***************************************************************************)
(* The state of a hunt                                                     *)
(***************************************************************************)

Fresh == [step |-> "start", variants_all |-> <<>>, variants_selected |-> <<>>,
          current_variant_idx |-> 1, sold |-> {}, gain |-> {}, filled |-> {}, conditions |-> FALSE]

Ask(t, step) == [t EXCEPT !.step = step]

Selected(t) == ToSet(t.variants_selected)
HasCurrent(t) == t.current_variant_idx \in DOMAIN t.variants_selected
Current(t) == t.variants_selected[t.current_variant_idx]

\* Mutant: a price that was looked up leaves the question as it is.
SoldStays(t, v) == [t EXCEPT !.sold = @ \cup {v}]

Sold(t, v) == Ask([t EXCEPT !.sold = @ \cup {v}], "ask_profit")

\* Conditions told in place of a price or a profit: every variant that lacks one gets the last
\* price or profit given for another variant, or 25,000,000 and 10 %.
FillIn(t, step) ==
    Ask([t EXCEPT !.filled = @ \cup (Selected(t) \ (t.sold \cap t.gain)), !.conditions = TRUE], step)

(***************************************************************************)
(* The state after message m, by the question it answers                   *)
(***************************************************************************)

\* The index of the current variant is left as it is.
Researched(t, m) ==
    LET all == Variants(m)
    IN  IF Len(all) > 1
        THEN Ask([t EXCEPT !.variants_all = all], "ask_variants")
        ELSE Ask([t EXCEPT !.variants_all = all, !.variants_selected = all], "ask_condition_new_used")

\* The variants the text names, of the two of a series, or all of them.
ChooseVariants(t, m) ==
    LET all == t.variants_all
        meant(k) == IF k \in DOMAIN all /\ (m = "pro" => IsPro(all[k])) THEN <<all[k]>> ELSE <<>>
        named == meant(1) \o meant(2)
        chosen == IF named = <<>> THEN all ELSE named
    IN  Ask([t EXCEPT !.variants_selected = chosen, !.current_variant_idx = 1], "ask_condition_new_used")

NewOrUsed(t, m) == IF HasPrice(m) THEN Sold(t, Current(t)) ELSE Ask(t, "ask_sell_price")

\* "Clean" alone is taken as the condition of every variant, and the details are asked for
\* although the reply asks for the confirmation.
SellPrice(t, m) ==
    CASE IsDetails(m) -> FillIn(t, "confirm")
      [] HasPrice(m) \/ m = "ok" -> Sold(t, Current(t))
      [] IsClean(m) -> FillIn(t, "ask_details")
      [] OTHER -> t

\* Mutant: a profit counts for every variant, and the details are asked for.
ProfitForAll(t, m) ==
    CASE IsDetails(m) \/ IsClean(m) -> FillIn(t, "confirm")
      [] HasProfit(m) \/ IsSame(m) \/ m = "ok" ->
            Ask([t EXCEPT !.gain = @ \cup Selected(t)], "ask_details")
      [] OTHER -> t

Profit(t, m) ==
    LET u == [t EXCEPT !.gain = @ \cup {Current(t)}]
    IN  CASE IsDetails(m) \/ IsClean(m) -> FillIn(t, "confirm")
          [] HasProfit(m) \/ IsSame(m) \/ m = "ok" ->
                IF t.current_variant_idx < Len(t.variants_selected)
                THEN Ask([u EXCEPT !.current_variant_idx = @ + 1], "ask_sell_price")
                ELSE Ask(u, "ask_details")
          [] OTHER -> t

Details(t, m) == Ask([t EXCEPT !.conditions = IsDetails(m) \/ IsSame(m)], "confirm")

\* handle_user behind the commands, for the answers that do not wait.  Without a current
\* variant the list is indexed beyond its end: the request fails and nothing is stored.
Answered(t, m) ==
    CASE t.step = "ask_variants" -> ChooseVariants(t, m)
      [] t.step = "ask_condition_new_used" /\ HasCurrent(t) -> NewOrUsed(t, m)
      [] t.step = "ask_sell_price" /\ HasCurrent(t) -> SellPrice(t, m)
      [] t.step = "ask_profit" /\ HasCurrent(t) -> Profit(t, m)
      [] t.step = "ask_details" -> Details(t, m)
      [] t.step = "confirm" /\ IsYes(m) -> Ask(t, "done")
      [] OTHER -> t

(***************************************************************************)
(* Requests                                                                *)
(***************************************************************************)

Waiting == {w \in Requests : awaits[w] # Nothing}

AsksPrice(m) == talk.step = "ask_sell_price" /\ HasCurrent(talk) /\ IsSame(m)

Init ==
    /\ talk = Fresh
    /\ awaits = [w \in Requests |-> Nothing]
    /\ watched = {}
    /\ auto_sms = FALSE
    /\ overlapped = FALSE

\* tira_agent_chat with reset; a request that waits writes into the new state.
Reset ==
    /\ talk' = Fresh
    /\ overlapped' = (Waiting # {})
    /\ UNCHANGED <<awaits, watched, auto_sms>>

\* apply_category_watch: the category is watched and its sellers are written to.
WatchCategory ==
    /\ watched' = watched \cup {"mobile-phones"}
    /\ auto_sms' = TRUE

\* try_system_control: the word for "disable" holds the word for "enable", and enables.
Disable == auto_sms' = TRUE /\ UNCHANGED watched

\* execute_intent: the branch of the automatic SMS.
SwitchOff == auto_sms' = FALSE /\ UNCHANGED watched

\* A command is carried out at once, whatever step the talk is at.
Command(w, m) ==
    /\ awaits[w] = Nothing
    /\ \/ m = "browse" /\ WatchCategory
       \/ m = "sms disable" /\ Disable
       \/ m = "sms off" /\ SwitchOff
    /\ UNCHANGED <<talk, awaits, overlapped>>

\* The request goes to the internet with the step and the variant it has read.
Search(w, m) ==
    /\ awaits[w] = Nothing /\ ~IsCommand(m)
    /\ talk.step = "start" \/ AsksPrice(m)
    /\ awaits' = [awaits EXCEPT ![w] = IF talk.step = "start" THEN [kind |-> "product", name |-> m]
                                       ELSE [kind |-> "price", name |-> Current(talk)]]
    /\ overlapped' = (overlapped \/ Waiting # {})
    /\ UNCHANGED <<talk, watched, auto_sms>>

Found(w) ==
    /\ awaits[w] # Nothing
    /\ talk' = IF awaits[w].kind = "product" THEN Researched(talk, awaits[w].name)
               ELSE Sold(talk, awaits[w].name)
    /\ awaits' = [awaits EXCEPT ![w] = Nothing]
    /\ UNCHANGED <<watched, auto_sms, overlapped>>

Answer(w, m) ==
    /\ awaits[w] = Nothing /\ ~IsCommand(m)
    /\ talk.step # "start" /\ ~AsksPrice(m)
    /\ talk' = Answered(talk, m)
    /\ overlapped' = (overlapped \/ Waiting # {})
    /\ UNCHANGED <<awaits, watched, auto_sms>>

Chat(w, m) == Command(w, m) \/ Search(w, m) \/ Answer(w, m)

Next ==
    \/ Reset
    \/ \E w \in Requests : Found(w) \/ \E m \in Messages : Chat(w, m)

\* The answer each question asks for.
Helpful(step) ==
    CASE step = "start" -> "series"
      [] step = "ask_variants" -> "all"
      [] step = "ask_condition_new_used" -> "clean"
      [] step = "ask_sell_price" -> "same"
      [] step = "ask_profit" -> "percent"
      [] step = "ask_details" -> "details"
      [] OTHER -> "ok"

HelpfulAnswer == Waiting = {} /\ \E w \in Requests : Chat(w, Helpful(talk.step))
SomeFound == \E w \in Requests : Found(w)

\* The internet answers or times out, and the user keeps answering the question.
Spec == Init /\ [][Next]_vars
FairSpec == Spec /\ (\A w \in Requests : WF_vars(Found(w))) /\ WF_vars(HelpfulAnswer)

(***************************************************************************)
(* Properties                                                              *)
(***************************************************************************)

Steps == {"start", "ask_variants", "ask_condition_new_used", "ask_sell_price", "ask_profit",
          "ask_details", "confirm", "done"}

Names == {"A", "APro"} \cup Messages

TypeOK ==
    /\ talk \in [step : Steps, variants_all : Seq(Names), variants_selected : Seq(Names),
                 current_variant_idx : Nat \ {0}, sold : SUBSET Names, gain : SUBSET Names,
                 filled : SUBSET Names, conditions : BOOLEAN]
    /\ awaits \in [Requests -> [kind : {"none", "product", "price"}, name : Names \cup {"none"}]]
    /\ watched \subseteq {"mobile-phones"}
    /\ auto_sms \in BOOLEAN /\ overlapped \in BOOLEAN

\* No variant slips through the questions: once the summary is shown, the price and the
\* profit of every chosen variant were asked and answered, or the user told conditions at one
\* of these questions and what was missing was filled in, unless a message was handled while
\* another was waiting for the internet (the steps of handle_user).
SummaryIsPriced ==
    talk.step \in {"confirm", "done"} /\ ~overlapped =>
        /\ talk.variants_selected # <<>>
        /\ Selected(talk) \subseteq (talk.sold \cap talk.gain) \cup talk.filled

\* Not kept: conditions told at the first question of a series confirm the others at the
\* price of the first, or at 25,000,000, with 10 %.
SummaryIsAsked ==
    talk.step \in {"confirm", "done"} /\ ~overlapped =>
        Selected(talk) \subseteq talk.sold \cap talk.gain

\* No question is about a variant beyond the list, which would fail every further message
\* of the session, unless a message was handled while another was waiting.
QuestionHasItsVariant ==
    talk.step \in {"ask_condition_new_used", "ask_sell_price", "ask_profit"} /\ ~overlapped =>
        HasCurrent(talk)

\* No hunt is stuck: whatever the user said before, once only the answers asked for are
\* given, one at a time, it ends (the order of the steps in handle_user).
HuntEnds ==
    (<>[][HelpfulAnswer \/ SomeFound]_vars /\ <>[]~overlapped) => <>[](talk.step = "done")
=============================================================================
