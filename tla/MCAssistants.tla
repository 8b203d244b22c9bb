---------------------------- MODULE MCAssistants ----------------------------
EXTENDS Assistants
MCWizardTexts == {"hello", "phones", "fix", "price", "pair", "percent", "both", "count",
                  "clean", "whatever", "ok", "no"}
MCTiraTexts == {"series", "pro", "all", "price", "percent", "same", "clean", "details", "ok",
                "browse", "sms off", "sms disable"}

MCMaxSent == [telegram |-> 3, bale |-> 1, rubika |-> 2]

MCPct == [chassis_hit |-> -200, taxi |-> -130, zero_km |-> 30]
Sound == [flags |-> {}, age |-> -1, km |-> 0]
New == [flags |-> {"zero_km"}, age |-> 0, km |-> 1]
Told == [flags |-> {}, age |-> 1, km |-> 20]
Hit == [flags |-> {"chassis_hit", "taxi"}, age |-> 4, km |-> 120]
MCTexts == {Sound, New, Told, Hit}
\* In units of 100,000 toman.
MCPrices == {0, 800, 872}
MCMeanings == {"price_quote", "scam_deposit", "defect_admit", "gone"}
\* A threshold so low that a hunt above the median happens.
MCSettings == [good |-> 10, great |-> 220, suspicious |-> 450]
MCProfile == [good |-> 100, great |-> 180, suspicious |-> 480]
=============================================================================
