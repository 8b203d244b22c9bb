---------------------------- MODULE HunterWizard ----------------------------
(***************************************************************************)
(* The wizard that asks the user what to hunt for (hunter_ai_wizard.py):   *)
(* it collects models, a sell price and a profit for each, a quantity and  *)
(* conditions, asks for a confirmation and ends with a configuration.      *)
(*                                                                         *)
(* The endpoints have no lock.  A request that asks the language model for *)
(* the words of its reply waits up to 20 s; the other requests of the      *)
(* session are handled meanwhile.  Three replies are waited for with       *)
(* something left to store: the greeting that starts a session, the answer *)
(* to a greeting, and the reply to new models at the confirmation.  What a *)
(* request does without waiting is taken for one step.                     *)
(*                                                                         *)
(* A message is known by what the extractors find in it.  Of a price, a    *)
(* profit and the conditions only whether they are known is kept, of the   *)
(* quantity whether it differs from the default of one.                    *)
(***************************************************************************)
EXTENDS Integers, Sequences

CONSTANTS
    Requests,       \* threads that handle the requests of the session
    Messages,       \* the messages the user may write
    MaxProducts     \* bound: beyond it the user names no further model but the phones

VARIABLES
    talk,           \* HunterAIWizard.state
    greeted,        \* "messages" is not empty
    replying,        \* what each request has left to store once the language model answers
    hurried         \* a request was handled while another was waiting, since the last reset

vars == <<talk, greeted, replying, hurried>>

(***************************************************************************)
(* What the extractors find in a message                                   *)
(***************************************************************************)

\* extract_products_from_text: the phones a message names; a text that names none
\* is itself taken for a model.
Named(m) ==
    CASE m = "phones" -> <<"X", "XR">>
      [] m = "fix" -> <<"X">>
      [] m \in {"hello", "no"} -> <<>>
      [] OTHER -> <<m>>

\* parse_all_price_candidates: how many prices, and whether a percentage.
PriceCount(m) ==
    CASE m \in {"price", "fix", "both", "count"} -> 1
      [] m = "pair" -> 2
      [] OTHER -> 0

GivesPercent(m) == m \in {"percent", "both"}

\* _parse_price_to_toman: the first number is a price, whatever its unit.
GivesNumber(m) == PriceCount(m) > 0 \/ GivesPercent(m)

\* extract_quantity, extract_conditions
GivesQuantity(m) == m = "count"
NamesConditions(m) == m = "clean"

IsGreeting(m) == m = "hello"
IsAffirmative(m) == m = "ok"
IsNegative(m) == m = "no"
DoesNotMatter(m) == m = "whatever"

(***************************************************************************)
(* The state of a conversation                                             *)
(***************************************************************************)

Fresh == [step |-> "greeting", products |-> <<>>, current_idx |-> 1,
          several |-> FALSE, conditions |-> FALSE, done |-> FALSE]

Product(model) == [model |-> model, sell_price |-> FALSE, profit |-> FALSE]

Ask(t, step) == [t EXCEPT !.step = step]

HasCurrent(t) == t.current_idx \in DOMAIN t.products
Current(t) == t.products[t.current_idx]
SetCurrent(t, p) == [t EXCEPT !.products[t.current_idx] = p]

\* The models of a message, two at most, which the list does not have yet.
Has(t, n) == \E i \in DOMAIN t.products : t.products[i].model = n

NewModels(t, m) ==
    LET new(k) == IF k \in DOMAIN Named(m) /\ ~Has(t, Named(m)[k]) THEN <<Named(m)[k]>> ELSE <<>>
    IN  new(1) \o new(2)

AddProducts(t, m) ==
    LET new == NewModels(t, m)
    IN  [t EXCEPT !.products = @ \o [i \in DOMAIN new |-> Product(new[i])]]

\* Mutant: the last product is taken for complete with the one before it.
OnToEarly(t, last) ==
    IF t.current_idx + 1 < Len(t.products)
    THEN [t EXCEPT !.current_idx = @ + 1, !.step = "ask_sell_price"]
    ELSE Ask(t, last)

\* The current product is complete: on to the next one, or to the given step.
OnTo(t, last) ==
    IF t.current_idx < Len(t.products)
    THEN [t EXCEPT !.current_idx = @ + 1, !.step = "ask_sell_price"]
    ELSE Ask(t, last)

\* _extract_and_store_global: every message may bring a quantity and conditions.
Gather(t, m) ==
    [t EXCEPT !.several = @ \/ GivesQuantity(m), !.conditions = @ \/ NamesConditions(m)]

(***************************************************************************)
(* The answer to each question: the state after message m                  *)
(***************************************************************************)

FirstProducts(t, m) == [AddProducts(t, m) EXCEPT !.step = "ask_sell_price", !.current_idx = 1]

MoreProducts(t, m) ==
    LET u == AddProducts(t, m)
    IN  IF u.products = <<>> THEN u ELSE Ask(u, "ask_sell_price")

AfterSale(t) == IF t.several THEN "ask_conditions" ELSE "ask_quantity"

\* Two prices in one message, or a price and a percentage, are a sell price and a profit.
SellPrice(t, m) ==
    LET p == [Current(t) EXCEPT !.sell_price = TRUE]
    IN  CASE ~GivesNumber(m) -> t
          [] PriceCount(m) = 2 \/ (PriceCount(m) = 1 /\ GivesPercent(m)) ->
                OnTo(SetCurrent(t, [p EXCEPT !.profit = TRUE]), AfterSale(t))
          [] OTHER -> Ask(SetCurrent(t, p), "ask_profit")

\* A percentage is taken of the sell price, and is no profit where there is none.
Profit(t, m) ==
    CASE GivesPercent(m) ->
            OnTo(SetCurrent(t, [Current(t) EXCEPT !.profit = @ \/ Current(t).sell_price]), "ask_quantity")
      [] ~GivesPercent(m) /\ PriceCount(m) > 0 ->
            OnTo(SetCurrent(t, [Current(t) EXCEPT !.profit = TRUE]), "ask_quantity")
      [] OTHER -> t

\* Mutant: a quantity is taken once only, and _extract_and_store_global comes first.
HowManyOnce(t, m) ==
    CASE GivesQuantity(m) /\ ~t.several -> Ask([t EXCEPT !.several = TRUE], "ask_conditions")
      [] DoesNotMatter(m) -> Ask([t EXCEPT !.several = FALSE], "ask_conditions")
      [] OTHER -> t

\* A number without a unit counts as a quantity here.
HowMany(t, m) ==
    CASE GivesQuantity(m) \/ GivesNumber(m) -> Ask([t EXCEPT !.several = TRUE], "ask_conditions")
      [] DoesNotMatter(m) -> Ask([t EXCEPT !.several = FALSE], "ask_conditions")
      [] OTHER -> t

\* A text that names no known condition, and no price, is the condition.
WhichConditions(t, m) ==
    CASE DoesNotMatter(m) -> Ask([t EXCEPT !.conditions = FALSE], "confirm")
      [] ~DoesNotMatter(m) /\ m \notin {"price", "pair", "both", "fix"} ->
            Ask([t EXCEPT !.conditions = TRUE], "confirm")
      [] OTHER -> Ask(t, "confirm")

\* A price at the confirmation corrects the last product, whichever is named.
CorrectLast(t, m) ==
    LET i == Len(t.products)
        p == t.products[i]
        sold == p.sell_price \/ PriceCount(m) > 0
        gain == p.profit \/ (p.sell_price /\ PriceCount(m) > 0) \/ (sold /\ GivesPercent(m))
    IN  IF i = 0 THEN t
        ELSE [t EXCEPT !.products[i].sell_price = sold, !.products[i].profit = gain]

\* The first product without a sell price is asked for.
AskUnpriced(t) ==
    LET unpriced == {i \in DOMAIN t.products : ~t.products[i].sell_price}
    IN  IF unpriced = {} THEN t
        ELSE [t EXCEPT !.current_idx = CHOOSE i \in unpriced : \A j \in unpriced : i <= j,
                       !.step = "ask_sell_price"]

\* Anything but a yes or a no is looked through for new models first, then for a correction.
Adds(t, m) ==
    /\ t.step = "confirm" /\ t.products # <<>>
    /\ ~IsGreeting(m) /\ ~IsAffirmative(m) /\ ~IsNegative(m)
    /\ NewModels(t, m) # <<>>

\* The answers at the confirmation that add no model.
Confirm(t, m) ==
    CASE IsAffirmative(m) -> [Ask(t, "done") EXCEPT !.done = TRUE]
      [] IsNegative(m) -> t
      [] GivesQuantity(m) -> [t EXCEPT !.several = TRUE]
      [] NamesConditions(m) -> [t EXCEPT !.conditions = TRUE]
      [] OTHER -> CorrectLast(t, m)

\* A greeting or thanks are answered without a change.
SmallTalk(t, m) == IsGreeting(m) /\ t.products # <<>>

\* The answer in a conversation that has models, or to a message that names none.
AnswerTo(t, m) ==
    CASE t.step \in {"greeting", "ask_products"} -> MoreProducts(t, m)
      [] t.step = "ask_sell_price" /\ HasCurrent(t) -> SellPrice(t, m)
      [] t.step = "ask_profit" /\ HasCurrent(t) -> Profit(t, m)
      [] t.step = "ask_quantity" -> HowMany(t, m)
      [] t.step = "ask_conditions" -> WhichConditions(t, m)
      [] t.step = "confirm" -> Confirm(t, m)
      [] OTHER -> t

Greets(t, m) == IsGreeting(m) /\ t.products = <<>>

\* handle_user after the global extraction, for the messages that are stored at once.
Reply(t, m) ==
    CASE SmallTalk(t, m) -> t
      [] ~IsGreeting(m) /\ t.products = <<>> /\ Named(m) # <<>> -> FirstProducts(t, m)
      [] OTHER -> AnswerTo(t, m)

(***************************************************************************)
(* Requests                                                                *)
(***************************************************************************)

\* Beyond the bound the user names no further model but the phones.
MayName(m) ==
    \/ m \in {"phones", "fix"}
    \/ talk.step \notin {"greeting", "ask_products", "confirm"}
    \/ talk.step = "confirm" /\ (IsAffirmative(m) \/ IsNegative(m))
    \/ Len(talk.products) + Len(NewModels(talk, m)) <= MaxProducts

Left(kind, text) == [kind |-> kind, text |-> text]
Nothing == Left("none", "none")

Waiting == {r \in Requests : replying[r] # Nothing}

Init ==
    /\ talk = Fresh /\ greeted = FALSE
    /\ replying = [r \in Requests |-> Nothing]
    /\ hurried = FALSE

\* HunterAIWizard.start: the state is reset at once, the greeting written when it is there.
Start(r, text) ==
    /\ talk' = Fresh /\ greeted' = FALSE
    /\ replying' = [replying EXCEPT ![r] = Left("start", text)]
    /\ hurried' = (Waiting # {})

\* hunter_ai_start, or hunter_ai_chat with reset
Open(r) == replying[r] = Nothing /\ Start(r, "none")

\* handle_user on t: new models are in the list before the next question is chosen, and the
\* step after a greeting is stored behind its reply.
Handle(r, t, m) ==
    LET u == Gather(t, m)
    IN  \/ /\ Greets(u, m)
           /\ talk' = u /\ replying' = [replying EXCEPT ![r] = Left("greet", "none")]
        \/ /\ Adds(u, m)
           /\ talk' = AddProducts(u, m) /\ replying' = [replying EXCEPT ![r] = Left("added", "none")]
        \/ /\ ~Greets(u, m) /\ ~Adds(u, m)
           /\ talk' = Reply(u, m) /\ replying' = [replying EXCEPT ![r] = Nothing]

\* hunter_ai_chat: a message.  In a session without "messages" it starts the session first.
\* While a request starts the session, the reply of another may have been written already.
Chat(r, m) ==
    /\ replying[r] = Nothing
    /\ MayName(m)
    /\ \/ ~greeted /\ Start(r, m)
       \/ /\ greeted \/ Waiting # {}
          /\ Handle(r, talk, m)
          /\ hurried' = (hurried \/ Waiting # {})
          /\ UNCHANGED greeted

\* The language model answers or times out: the rest is stored, in the state as it is now.
Finish(r) ==
    /\ \/ /\ replying[r].kind = "start" /\ replying[r].text \in Messages
          /\ Handle(r, talk, replying[r].text)
       \/ /\ replying[r] = Left("start", "none")
          /\ replying' = [replying EXCEPT ![r] = Nothing] /\ UNCHANGED talk
       \/ /\ replying[r].kind = "greet"
          /\ talk' = Ask(talk, "ask_products") /\ replying' = [replying EXCEPT ![r] = Nothing]
       \/ /\ replying[r].kind = "added"
          /\ talk' = AskUnpriced(talk) /\ replying' = [replying EXCEPT ![r] = Nothing]
    /\ greeted' = TRUE
    /\ UNCHANGED hurried

Next == \E r \in Requests : Open(r) \/ Finish(r) \/ \E m \in Messages : Chat(r, m)

\* The answer each question asks for.
Helpful(step) ==
    CASE step \in {"greeting", "ask_products"} -> "phones"
      [] step \in {"ask_sell_price", "ask_profit"} -> "price"
      [] step = "ask_quantity" -> "count"
      [] step = "ask_conditions" -> "clean"
      [] OTHER -> "ok"

HelpfulAnswer == Waiting = {} /\ \E r \in Requests : Chat(r, Helpful(talk.step))
SomeFinish == \E r \in Requests : Finish(r)

\* The language model answers or times out, and the user keeps answering the question.
Spec == Init /\ [][Next]_vars
FairSpec == Spec /\ (\A r \in Requests : WF_vars(Finish(r))) /\ WF_vars(HelpfulAnswer)

(***************************************************************************)
(* Properties                                                              *)
(***************************************************************************)

Steps == {"greeting", "ask_products", "ask_sell_price", "ask_profit", "ask_quantity",
          "ask_conditions", "confirm", "done"}

ProductType ==
    [model : {"X", "XR"} \cup Messages, sell_price : BOOLEAN, profit : BOOLEAN]

TypeOK ==
    /\ talk \in [step : Steps, products : Seq(ProductType), current_idx : Nat \ {0},
                 several : BOOLEAN, conditions : BOOLEAN, done : BOOLEAN]
    /\ greeted \in BOOLEAN /\ hurried \in BOOLEAN
    /\ replying \in [Requests -> [kind : {"none", "start", "greet", "added"},
                                 text : Messages \cup {"none"}]]

\* Every model of the list has a sell price and a profit.
AllPriced ==
    /\ talk.products # <<>>
    /\ \A i \in DOMAIN talk.products : talk.products[i].sell_price /\ talk.products[i].profit

\* A configuration reported ready has a sell price and a profit for every model: every way
\* through the questions and the corrections passes both questions for every model (the
\* "ready" of handle_user, on which the panel offers the configuration), unless a request
\* was handled while another was waiting for the language model.
ReadyIsPriced == talk.done /\ ~hurried => AllPriced

\* Not kept: a yes that comes while new models are announced ends the conversation before
\* the first of them was asked about.
ReadyAlwaysPriced == talk.done => AllPriced

\* The question asked is about a model of the list, and a profit is asked of a model whose
\* sell price is known (_current_product; "ask_profit" of handle_user).
QuestionHasItsModel ==
    /\ talk.step \in {"ask_sell_price", "ask_profit"} => HasCurrent(talk)
    /\ talk.step = "ask_profit" => Current(talk).sell_price

\* No conversation is stuck: whatever was said before, by however many requests at once,
\* once only the answers asked for are given, one at a time, it ends with a configuration
\* and stays there (the order of the steps in handle_user).
ConversationEnds == (<>[][HelpfulAnswer \/ SomeFinish]_vars) => <>[](talk.done)
=============================================================================
