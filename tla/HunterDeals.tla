---------------------------- MODULE HunterDeals ----------------------------
(***************************************************************************)
(* The judgement of prices: Monitor._score_hunter (monitor.py), evaluate   *)
(* (hunter.py) with evaluate_professional (hunter_analyzer.py) and the     *)
(* profile of vehicles (hunter_profile.py), for the ads of one keyword in  *)
(* one city.  An ad is judged when it is found, with what its text says,   *)
(* and again when its seller answers (_apply_hunter_reply of nlu.py), with *)
(* what the answer says.                                                   *)
(*                                                                         *)
(* Prices are in one unit of money throughout, mileages in thousands of    *)
(* kilometres, percentages in tenths.                                      *)
(***************************************************************************)
EXTENDS Integers, Sequences, FiniteSets, FiniteSetsExt

CONSTANTS
    Pct,            \* the profile's adjustments: what each flag takes from the price
    Defects,        \* the flags that make an ad a defective one (inspect_vehicle)
    Texts,          \* what an ad or an answer may say, in this instance
    Prices,         \* the prices that may be asked; 0 is none
    Meanings,       \* what an answer may mean
    Settings,       \* hunter_good_pct, hunter_great_pct, hunter_suspicious_pct: any numbers
    Profile,        \* the same thresholds of the keyword's profile
    SampleLimit,    \* the newest 80 prices are the market
    MaxAds, MaxReplies

\* A text names flags, the age of the car (Untold without a year) and its
\* mileage (0 when there is none).
Untold == -1

HunterAssumption ==
    /\ Pct \in [DOMAIN Pct -> -450..50] /\ Defects \subseteq DOMAIN Pct
    /\ Texts \subseteq [flags : SUBSET DOMAIN Pct, age : Nat \cup {Untold}, km : Nat]
    /\ Prices \subseteq Nat /\ SampleLimit \in Nat \ {0}
    /\ \A t \in {Settings, Profile} :
           t.good \in Int /\ t.great \in Int /\ t.suspicious \in Int

VARIABLES
    ads,        \* the rows of leads, by id
    alerts,     \* the payloads of hunter_vip
    answered    \* bound: answers so far

vars == <<ads, alerts, answered>>

Least(a, b) == IF a < b THEN a ELSE b
Most(a, b) == IF a > b THEN a ELSE b
Clamp(x, low, high) == IF x \in low..high THEN x ELSE IF x < low THEN low ELSE high

-----------------------------------------------------------------------------
(* What a car loses of the price of a sound one.                           *)

AdjustmentPct(flags) == Clamp(MapThenSumSet(LAMBDA f : Pct[f], flags), -450, 50)

\* A tenth of a percent for every 2,000 km above 20,000 a year.
MileageAdjustment(km, age) ==
    LET beyond == km - Most(10, age * 20) IN
    CASE km = 0 -> 0
      [] km > 0 /\ age = Untold -> IF km > 200 THEN -90 ELSE IF km > 150 THEN -50 ELSE 0
      [] km > 0 /\ age # Untold /\ beyond <= 0 -> IF km < 5 THEN 30 ELSE IF km < 20 THEN 10 ELSE 0
      [] OTHER -> Most(-120, -(beyond \div 2))

\* Half of the depreciation of five percent a year; a sample has none of it.
YearAdjustment(age) == IF age = Untold THEN 0 ELSE Most(-300, -(age * 25))

Flags(text, chassis) == text.flags \cup (IF chassis = "hit" THEN {"chassis_hit"} ELSE {})

SampleAdjustment(ad) ==
    Clamp(AdjustmentPct(Flags(ad.text, ad.chassis)) + MileageAdjustment(ad.text.km, ad.text.age),
          -450, 50)

TargetAdjustment(text, chassis) ==
    Clamp(AdjustmentPct(Flags(text, chassis)) + MileageAdjustment(text.km, text.age)
              + YearAdjustment(text.age), -500, 100)

NormalizeToHealthy(price, adj) == (price * 1000) \div Most(300, 1000 + adj)

\* Mutant of Fair: the loss of the car added to its value.
FairWithoutLoss(median, adj) == (median * 1000) \div (1000 + adj)
Fair(median, adj) == (median * (1000 + adj)) \div 1000

-----------------------------------------------------------------------------
(* The market: the prices of the ads a buyer could take instead.           *)

\* The values of f, the smallest first; of equal ones the older stays first.
Place(f, i) == Cardinality({j \in DOMAIN f : f[j] < f[i] \/ (f[j] = f[i] /\ j <= i)})
Sorted(f) == [k \in 1..Cardinality(DOMAIN f) |-> f[CHOOSE i \in DOMAIN f : Place(f, i) = k]]

Median(s) == LET n == Len(s) IN
    IF n % 2 = 1 THEN s[(n + 1) \div 2] ELSE (s[n \div 2] + s[n \div 2 + 1]) \div 2

Percentile10(s) ==
    LET n == Len(s) - 1 IN
    LET f == n \div 10 IN
    (s[f + 1] * (10 - (n % 10)) + s[Least(f + 2, n + 1)] * (n % 10)) \div 10

\* _iqr_filter: without the outliers, unless they are more than four of ten.
IqrFilter(s) ==
    LET n == Len(s)
        q1 == Median(SubSeq(s, 1, n \div 2))
        q3 == Median(SubSeq(s, (n + 1) \div 2 + 1, n))
        low == {i \in DOMAIN s : 2 * s[i] < 2 * q1 - 3 * (q3 - q1)}
        high == {i \in DOMAIN s : 2 * s[i] > 2 * q3 + 3 * (q3 - q1)}
        near == SubSeq(s, Cardinality(low) + 1, n - Cardinality(high))
    IN IF n < 5 \/ 10 * Len(near) < 6 * n THEN s ELSE near

\* compute_market_stats; with fewer than three prices there is a median of the
\* prices as they are asked and no percentile.
MarketStats(asked, healthy) ==
    LET count == Cardinality(DOMAIN asked) IN
    IF count = 0 THEN [median |-> 0, p10 |-> 0, count |-> 0]
    ELSE IF count < 3 THEN [median |-> Median(Sorted(asked)), p10 |-> 0, count |-> count]
    ELSE LET kept == IqrFilter(Sorted(healthy))
         IN [median |-> Median(kept), p10 |-> Percentile10(kept), count |-> Len(kept)]

\* collect_samples_detailed: the newest rows with a price and without a defect.
Samples(rows) ==
    LET all == {i \in DOMAIN rows : rows[i].price > 0 /\ ~rows[i].defect}
    IN {i \in all : Cardinality({j \in all : j >= i}) <= SampleLimit}

Asked(rows) == [i \in Samples(rows) |-> rows[i].price]
Healthy(rows) == [i \in Samples(rows) |-> NormalizeToHealthy(rows[i].price, SampleAdjustment(rows[i]))]

-----------------------------------------------------------------------------
(* evaluate_professional                                                   *)

\* discount_pct, rounded to a tenth
Discount(fair, price) == (2000 * (fair - price) + fair) \div (2 * fair)

\* A threshold of zero counts as none.
Given(limit, default) == IF limit = 0 THEN default ELSE limit
GoodPct(limits) == Given(limits.good, 100)
GreatPct(limits) == Given(limits.great, 180)
SuspiciousPct(limits) == Given(limits.suspicious, 480)

\* The thresholds, and a lift for a price within the lowest tenth of the market.
RawLevel(price, fair, p10, limits) ==
    LET d == Discount(fair, price)
        byDiscount == IF d >= SuspiciousPct(limits) THEN "suspicious"
                      ELSE IF d >= GreatPct(limits) THEN "great"
                      ELSE IF d >= GoodPct(limits) THEN "good" ELSE "market"
        lifted == IF p10 > 0 /\ price <= p10 /\ byDiscount = "market" THEN "good" ELSE byDiscount
    IN IF fair = 0 \/ price = 0 THEN "none"
       ELSE IF p10 > 0 /\ 10 * price <= 9 * p10 /\ lifted = "good" THEN "great" ELSE lifted

\* Mutant of Confidence: few prices take nothing from it.
ConfidenceEver(count, text, raw) ==
    55 + (IF count >= 10 THEN 20 ELSE IF count >= 5 THEN 10 ELSE IF count >= 3 THEN 5 ELSE 0)
       + (IF text.km > 0 /\ text.age # Untold THEN 10 ELSE 0)
       - (IF raw = "suspicious" THEN 15 ELSE 0)

\* In percent.  The flags are a table of all adjustments and count as present
\* even when none of them is set.
Confidence(count, text, raw) ==
    55 + (IF count >= 10 THEN 20 ELSE IF count >= 5 THEN 10 ELSE IF count >= 3 THEN 5 ELSE -20)
       + (IF text.km > 0 /\ text.age # Untold THEN 10 ELSE 0)
       - (IF raw = "suspicious" THEN 15 ELSE 0)

\* missing_ask_slots: the chassis and the paint are asked for unless a flag is set.
Missing(text) == {s \in {"year", "mileage_km", "chassis", "paint"} :
    \/ s = "year" /\ text.age = Untold
    \/ s = "mileage_km" /\ text.km = 0
    \/ s \in {"chassis", "paint"} /\ text.flags = {}}

Evaluate(price, market, text, chassis, limits) ==
    LET fair == Fair(market.median, TargetAdjustment(text, chassis))
        raw == RawLevel(price, fair, market.p10, limits)
        pending == Confidence(market.count, text, raw) < 60 /\ Missing(text) # {}
    IN [level |-> IF pending THEN "pending" ELSE raw,
        median |-> market.median, fair |-> fair, count |-> market.count]

\* evaluate of a scan: the thresholds of the settings replace the profile's.
Judge(price, rows, text) ==
    Evaluate(price, MarketStats(Asked(rows), Healthy(rows)), text, "unknown", Settings)

-----------------------------------------------------------------------------
(* The steps.                                                              *)

Init == ads = <<>> /\ alerts = {} /\ answered = 0

\* inspect_vehicle: a hit chassis, an accident or a mechanical fault.
Defective(text) == text.flags \cap Defects # {}

Chassis(text) == IF "chassis_hit" \in text.flags THEN "hit" ELSE "unknown"

\* consider_new_lead, with what inspect_listing reads in the text.
Found(text, price) ==
    [price |-> price, text |-> text, defect |-> Defective(text), removed |-> FALSE,
     chassis |-> Chassis(text),
     level |-> "", inquiry |-> IF price = 0 THEN "pending" ELSE ""]

\* _score_hunter writes what it judged; "market" is no level to keep.
Scored(lead, level) ==
    [lead EXCEPT !.level = IF level = "market" THEN "" ELSE level,
                 !.inquiry = IF level = "pending" THEN "pending" ELSE @]

\* build_vip_payload
Announced(id, lead, sc) ==
    IF sc.level \notin {"good", "great"} THEN {}
    ELSE {[ad |-> id, original_price |-> lead.price, healthy_median |-> sc.median,
           fair_price |-> sc.fair, count |-> sc.count]}

\* watch_once inserts the ad and judges it with itself among the samples; the
\* caller's copy of the post does not hold the chassis.
Scan(text, price) ==
    /\ Len(ads) < MaxAds
    /\ LET lead == Found(text, price)
           rows == Append(ads, lead)
           sc == Judge(price, rows, text)
       IN /\ ads' = Append(ads, Scored(lead, sc.level))
          /\ alerts' = alerts \cup Announced(Len(rows), lead, sc)
    /\ UNCHANGED answered

\* _maybe_hunter_inquire, the message sent.
Ask(i) ==
    /\ ads[i].inquiry # "sent" /\ (ads[i].level = "pending" \/ ads[i].inquiry = "pending")
    /\ ~ads[i].removed
    /\ ads' = [ads EXCEPT ![i].inquiry = "sent"]
    /\ UNCHANGED <<alerts, answered>>

\* _context of inbox.py: what a message of the seller answers.
Inquired(lead) == lead.inquiry \in {"sent", "pending"} \/ lead.level = "pending"

\* What the answer means changes the row.
Applied(lead, means, price) ==
    CASE means = "gone" -> [lead EXCEPT !.removed = TRUE]
      [] means = "defect_admit" -> [lead EXCEPT !.defect = TRUE, !.level = ""]
      [] means = "scam_deposit" -> [lead EXCEPT !.level = "suspicious"]
      [] means = "price_quote" /\ price > 0 /\ Inquired(lead) ->
            [lead EXCEPT !.price = price, !.inquiry = "answered"]
      [] OTHER -> lead

\* The columns an answer writes; a text without a year or a mileage leaves them.
Noted(lead, text, level) ==
    LET age == IF text.age # Untold THEN text.age ELSE lead.text.age
        km == IF text.km > 0 THEN text.km ELSE lead.text.km
        inquiry == IF lead.inquiry \in {"pending", "sent"} THEN "answered" ELSE lead.inquiry
    IN [lead EXCEPT !.chassis = Chassis(text), !.text = [lead.text EXCEPT !.age = age, !.km = km],
                    !.level = level, !.inquiry = inquiry]

\* _apply_hunter_reply judges the ad anew, with the flags and the chassis of the answer
\* alone, among the prices as they are asked, by the profile's own thresholds.
Rejudged(rows, i, means, text, price) ==
    LET sc == Evaluate(IF price > 0 THEN price ELSE rows[i].price,
                       MarketStats(Asked(rows), Asked(rows)), text, Chassis(text), Profile)
    IN [rows EXCEPT ![i] = Noted(@, text, IF means = "defect_admit" THEN "" ELSE sc.level)]

Reply(i, means, text, price) ==
    /\ answered < MaxReplies /\ answered' = answered + 1
    /\ LET rows == [ads EXCEPT ![i] = Applied(@, means, price)]
       IN ads' = IF \/ Inquired(ads[i])
                    \/ means \in {"price_quote", "available_yes", "defect_admit"}
                 THEN Rejudged(rows, i, means, text, price) ELSE rows
    /\ UNCHANGED alerts

\* A later scan meets the ad again: INSERT OR IGNORE leaves its row, and it is not judged.
SeenAgain == ads # <<>> /\ UNCHANGED vars

Next ==
    \/ \E t \in Texts, p \in Prices : Scan(t, p)
    \/ SeenAgain
    \/ \E i \in DOMAIN ads : Ask(i)
    \/ \E i \in DOMAIN ads, m \in Meanings, t \in Texts, p \in Prices : Reply(i, m, t, p)

Spec == Init /\ [][Next]_vars

-----------------------------------------------------------------------------
(* Properties                                                              *)

TypeOK ==
    /\ answered \in 0..MaxReplies
    /\ \A i \in DOMAIN ads :
        /\ ads[i].price \in Prices /\ ads[i].chassis \in {"unknown", "hit"}
        /\ ads[i].level \in {"", "none", "market", "good", "great", "suspicious", "pending"}
        /\ ads[i].inquiry \in {"", "pending", "sent", "answered"}

\* What a hunt may ask at most: the median; with a threshold below 7.5 %, the value of the
\* best car of that market, eight percent above the median, less the threshold and the half
\* of a tenth it is rounded by.
Affordable(price, median, limits) ==
    LET least == Least(GoodPct(limits), GreatPct(limits)) IN
    \/ price <= median
    \/ least < 75 /\ 2000000 * price <= 1080 * (2001 - 2 * least) * median

\* No ad is announced as a hunt that asks more than a sound car costs in its market, or, with
\* a low threshold, more than the best one less the threshold (_score_hunter,
\* evaluate_professional): neither the premium of a good car nor the lift of the lowest tenth
\* makes a hunt of a higher price.
AlertNotAboveMarket ==
    \A v \in alerts : Affordable(v.original_price, v.healthy_median, Settings)

\* Not kept: with a threshold of one percent the ad of a new car is a hunt at a price above
\* the median.
NoAlertAboveMedian == \A v \in alerts : v.original_price <= v.healthy_median

\* A hunt that is announced rests on three prices of the market at least, or on an ad
\* that leaves no question open: the others are asked first (evaluate_professional).
AlertIsInformed == \A v \in alerts : v.count >= 3 \/ Missing(ads[v.ad].text) = {}
=============================================================================
