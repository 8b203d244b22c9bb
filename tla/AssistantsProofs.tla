-------------------------- MODULE AssistantsProofs --------------------------
(***************************************************************************)
(* Theorems about the license session, the admin bot, the wizard, Tira and *)
(* the judge of prices, for every value of their constants.                *)
(***************************************************************************)
EXTENDS Assistants, FiniteSetTheorems, FunctionTheorems, SequenceTheorems, TLAPS

USE DEF wizard, tira, bot, hunter, license

-----------------------------------------------------------------------------
(* The license session *)

\* From any hour of a day, the whole days up to the end of day e and an hour more.
LEMMA DayHours ==
    ASSUME NEW h \in Nat, NEW d \in Nat \ {0}, NEW e \in Int
    PROVE  h + (e - (h \div d)) * d + 1 <= (e + 1) * d
  <1>1. h = d * (h \div d) + (h % d) /\ h % d < d /\ h % d \in Nat /\ h \div d \in Nat
    OBVIOUS
  <1>2. (e - (h \div d)) * d = e * d - d * (h \div d)
    BY <1>1
  <1> QED
    BY <1>1, <1>2

LEMMA MoreDays ==
    ASSUME NEW n \in Nat, NEW m \in Nat, NEW d \in Nat, n <= m
    PROVE  n * d <= m * d
  OBVIOUS

\* The session that is signed ends with the license, and SessionDays after the ledger was
\* read at the latest; a cookie is kept no longer than its session.
GateInv ==
    /\ hour \in Nat /\ read \in 0 .. hour
    /\ row \in Gate!Rows
    /\ cookie.exp \in Int /\ cookie.expires \in Int /\ cookie.till \in Int
    /\ cookie # Gate!NoCookie =>
           /\ cookie.exp <= (cookie.expires + 1) * Hours
           /\ cookie.exp <= read + SessionDays * Hours + 1

LEMMA GateInit == Init => GateInv
  <1> SUFFICES ASSUME Init PROVE GateInv
    OBVIOUS
  <1>1. \E r \in Gate!Rows : r.status = "absent"
    <2>1. PICK p \in Passwords, e \in Expiries : TRUE
      BY AssistantsAssumption DEF Gate!LicenseAssumption
    <2>2. [password |-> p, status |-> "absent", expires |-> e] \in Gate!Rows
      BY DEF Gate!Rows
    <2> QED
      BY <2>2
  <1>2. row \in Gate!Rows
    BY <1>1 DEF Init, Gate!Init
  <1> QED
    BY <1>2 DEF Init, Gate!Init, GateInv, Gate!NoCookie

LEMMA SessionSigned ==
    ASSUME GateInv, Gate!Refreshed, NEW keep \in BOOLEAN
    PROVE  LET c == Gate!Signed(keep) IN
           /\ c.exp \in Int /\ c.expires \in Int /\ c.till \in Int
           /\ c.exp <= (c.expires + 1) * Hours
           /\ c.exp <= hour + SessionDays * Hours + 1
  <1> DEFINE n == Gate!Least(Gate!DaysLeft, SessionDays)
  <1>1. /\ hour \in Nat /\ row.expires \in Int /\ Hours \in Nat /\ Hours # 0
        /\ SessionDays \in Nat /\ CookieDays \in Nat
    BY AssistantsAssumption DEF GateInv, Gate!LicenseAssumption, Gate!Rows
  <1>2. Gate!Today \in Nat /\ Gate!DaysLeft \in Nat
    BY <1>1 DEF Gate!Refreshed, Gate!DaysLeft, Gate!Today
  <1>3. n \in Nat /\ n <= SessionDays /\ n <= Gate!DaysLeft
    BY <1>1, <1>2 DEF Gate!Least
  <1>4. n * Hours \in Nat
    BY <1>1, <1>3
  <1>5. Gate!SessionHours = n * Hours + 1
    BY <1>4 DEF Gate!SessionHours, Gate!Most
  <1>6. n * Hours <= SessionDays * Hours /\ n * Hours <= Gate!DaysLeft * Hours
    BY <1>1, <1>2, <1>3, MoreDays
  <1>7. hour + Gate!DaysLeft * Hours + 1 <= (row.expires + 1) * Hours
    BY <1>1, <1>2, DayHours DEF Gate!DaysLeft, Gate!Today
  <1>8. Gate!KeptHours \in Int
    BY <1>1, <1>2 DEF Gate!KeptHours, Gate!Least, Gate!Most
  <1> QED
    BY <1>1, <1>2, <1>4, <1>5, <1>6, <1>7, <1>8 DEF Gate!Signed, Gate!Session

LEMMA GateStep == GateInv /\ [Next]_vars => GateInv'
  <1> SUFFICES ASSUME GateInv, [Next]_vars
               PROVE  GateInv'
    OBVIOUS
  <1> USE AssistantsAssumption DEF Gate!LicenseAssumption
  <1>0. hour \in Nat /\ read \in Nat /\ read <= hour /\ Hours \in Nat /\ SessionDays \in Nat
    BY DEF GateInv
  <1>1. CASE Gate!Tick
    BY <1>1 DEF Gate!Tick, GateInv
  <1>2. ASSUME NEW new \in Gate!Rows, Gate!Edit(new)
        PROVE  GateInv'
    BY <1>2 DEF Gate!Edit, GateInv
  <1>3. ASSUME NEW keep \in BOOLEAN, Gate!Refreshed, cookie' = Gate!Signed(keep),
               read' = hour, UNCHANGED <<hour, row>>
        PROVE  GateInv'
    BY <1>0, <1>3, SessionSigned DEF GateInv
  <1>4. CASE Gate!Renew \/ Gate!Return
    BY <1>3, <1>4 DEF Gate!Renew, Gate!Return, Gate!Checked, Gate!LookIntoLedger
  <1>5. ASSUME NEW typed, NEW keep \in BOOLEAN, Gate!Login(typed, keep)
        PROVE  GateInv'
    BY <1>3, <1>5 DEF Gate!Login, Gate!Checked, Gate!LookIntoLedger
  <1>6. ASSUME NEW forget \in BOOLEAN, Gate!Logout(forget)
        PROVE  GateInv'
    BY <1>6 DEF Gate!Logout, Gate!NoCookie, GateInv
  <1>7. CASE Gate!CloseBrowser
    BY <1>7 DEF Gate!CloseBrowser, Gate!NoCookie, GateInv
  <1>8. CASE UNCHANGED license
    BY <1>8 DEF GateInv, Gate!Rows
  <1>9. Gate!Next \/ UNCHANGED license
    BY DEF Next, vars, InWizard, InTira, InBot, InHunter, InGate
  <1> QED
    BY <1>1, <1>2, <1>4, <1>5, <1>6, <1>7, <1>8, <1>9 DEF Gate!Next

\* The gate lets no request through later than an hour after the last day the session was
\* signed for, nor longer than SessionDays after the ledger was read, whatever the seller
\* writes and whenever a session is renewed (payload_from_check, verify_payload).
THEOREM SessionEnds == Spec => []SessionEndsWithLicense
  <1>1. GateInv => SessionEndsWithLicense
    <2> SUFFICES ASSUME GateInv, Gate!Passes
                 PROVE  /\ hour <= (cookie.expires + 1) * Hours
                        /\ hour <= read + SessionDays * Hours + 1
      BY DEF SessionEndsWithLicense, Gate!SessionEndsWithLicense
    <2>1. cookie # Gate!NoCookie /\ hour <= cookie.exp
      BY DEF Gate!Passes, Gate!InBrowser
    <2>2. /\ (cookie.expires + 1) * Hours \in Int
          /\ read + SessionDays * Hours + 1 \in Int
      BY AssistantsAssumption DEF Gate!LicenseAssumption, GateInv
    <2> QED
      BY <2>1, <2>2 DEF GateInv
  <1> QED
    BY <1>1, GateInit, GateStep, PTL DEF Spec

-----------------------------------------------------------------------------
(* The admin bot *)

\* The last message of a channel the next answer does not hold any more.
From == [c \in Bot!Names |->
    IF Bot!Drops(c) /\ dropped[c] > offset[c] THEN dropped[c] ELSE offset[c]]

\* The last message this program has executed, or passes over.
Reached == [c \in Bot!Names |->
    IF batch # <<>> /\ c = Bot!Here THEN last - Len(batch) ELSE From[c]]

\* Executed twice, or executed and still to come.
Again == [c \in Bot!Names |->
    {i \in 1 .. MaxSent[c] : runs[c][i] > 1 \/ (i > Reached[c] /\ runs[c][i] > 0)}]

BotType ==
    /\ sent \in [Bot!Names -> Nat] /\ dropped \in [Bot!Names -> Nat]
    /\ offset \in [Bot!Names -> Nat]
    /\ \A c \in Bot!Names : sent[c] <= MaxSent[c] /\ From[c] <= sent[c]
    /\ \A c \in Bot!Names : ~Bot!Drops(c) => dropped[c] = 0
    /\ turn \in 1 .. 3 /\ batch \in Seq(Nat) /\ last \in Nat /\ deaths \in Nat
    /\ runs = [c \in Bot!Names |-> runs[c]]
    /\ \A c \in Bot!Names : runs[c] \in [1 .. MaxSent[c] -> Nat]

\* What is left of an answer is its end, behind what the channel has dropped.
BatchIsNext ==
    batch # <<>> =>
        /\ last <= sent[Bot!Here]
        /\ \A k \in 1 .. Len(batch) : batch[k] = last - Len(batch) + k
        /\ From[Bot!Here] <= last - Len(batch)
        /\ Bot!Drops(Bot!Here) => last <= dropped[Bot!Here] + Limit

\* The messages are executed in their order, each once in a program.
InOrder ==
    \A c \in Bot!Names : \A i \in 1 .. MaxSent[c] :
        /\ i <= Reached[c] => runs[c][i] > 0
        /\ runs[c][i] <= 1 + deaths
        /\ i > Reached[c] => runs[c][i] <= deaths
        /\ Bot!Drops(c) /\ runs[c][i] > 0 => i <= dropped[c] + Limit

FewAgain ==
    \A c \in Bot!Names : Bot!Drops(c) => Cardinality(Again[c]) <= Limit * deaths

BotInv == BotType /\ BatchIsNext /\ InOrder /\ FewAgain

LEMMA MaxOfTwo ==
    ASSUME NEW a \in Nat, NEW b \in Nat
    PROVE  Bot!Max({a, b}) = IF a > b THEN a ELSE b
  <1>1. \E x \in {a, b} : \A y \in {a, b} : x >= y
    OBVIOUS
  <1>2. /\ Bot!Max({a, b}) \in {a, b}
        /\ \A y \in {a, b} : Bot!Max({a, b}) >= y
    BY <1>1 DEF Bot!Max
  <1> QED
    BY <1>2

LEMMA HereIsAName == turn \in 1 .. 3 => Bot!Here \in Bot!Names
  BY DEF Bot!Here, Bot!Channels, Bot!Names

LEMMA NextChannelTyped == turn \in 1 .. 3 /\ Bot!NextChannel => turn' \in 1 .. 3
  <1>1. Len(Bot!Channels) = 3
    BY DEF Bot!Channels
  <1> QED
    BY <1>1 DEF Bot!NextChannel

\* A request confirms the offset, and changes nothing of what comes next.
LEMMA Confirmed ==
    ASSUME NEW c \in Bot!Names, dropped[c] \in Nat, offset[c] \in Nat
    PROVE  /\ Bot!DroppedAt(c) = IF Bot!Drops(c) THEN From[c] ELSE 0
           /\ Bot!Max({Bot!DroppedAt(c), offset[c]}) = From[c]
           /\ From[c] \in Nat /\ offset[c] <= From[c]
           /\ Bot!Drops(c) => dropped[c] <= From[c]
  <1>1. Bot!DroppedAt(c) = IF Bot!Drops(c) THEN From[c] ELSE 0
    BY MaxOfTwo DEF Bot!DroppedAt, From
  <1>2. Bot!DroppedAt(c) \in Nat
    BY <1>1 DEF From
  <1>3. Bot!Max({Bot!DroppedAt(c), offset[c]})
            = IF Bot!DroppedAt(c) > offset[c] THEN Bot!DroppedAt(c) ELSE offset[c]
    BY <1>2, MaxOfTwo
  <1> QED
    BY <1>1, <1>3 DEF From

\* An answer holds the messages behind From, at most Limit of them.
LEMMA AnswerIsNext ==
    ASSUME BotType, NEW c \in Bot!Names
    PROVE  \E n \in Nat :
               /\ Bot!AnswerOf(c) = [k \in 1 .. n |-> From[c] + k]
               /\ n <= Limit /\ From[c] + n <= sent[c]
  <1>1. /\ sent[c] \in Nat /\ From[c] \in Nat /\ From[c] <= sent[c] /\ Limit \in Nat
        /\ Bot!Max({Bot!DroppedAt(c), offset[c]}) = From[c]
    BY Confirmed, AssistantsAssumption DEF BotType, Bot!BotAssumption
  <1> DEFINE to == IF sent[c] - From[c] > Limit THEN From[c] + Limit ELSE sent[c]
  <1>2. Bot!AnswerOf(c) = [k \in 1 .. to - From[c] |-> From[c] + k]
    BY <1>1 DEF Bot!AnswerOf
  <1>3. to - From[c] \in Nat /\ to - From[c] <= Limit /\ From[c] + (to - From[c]) <= sent[c]
    BY <1>1
  <1> QED
    BY <1>2, <1>3

LEMMA RunsTyped ==
    ASSUME BotType, NEW c \in Bot!Names, NEW i \in 1 .. MaxSent[c]
    PROVE  runs[c][i] \in Nat /\ i \in Nat /\ i \in Int
  <1>1. MaxSent[c] \in Nat
    BY AssistantsAssumption DEF Bot!BotAssumption
  <1>2. runs[c] \in [1 .. MaxSent[c] -> Nat]
    BY DEF BotType
  <1> QED
    BY <1>1, <1>2

LEMMA BotInit == Init => BotInv
  <1> SUFFICES ASSUME Init PROVE BotInv
    OBVIOUS
  <1> USE AssistantsAssumption DEF Init, Bot!Init, Bot!BotAssumption, From
  <1>1. BotType
    BY EmptySeq DEF BotType, Bot!Names
  <1>2. BatchIsNext
    BY DEF BatchIsNext
  <1>3. \A c \in Bot!Names : Reached[c] = 0 /\ \A i \in 1 .. MaxSent[c] : runs[c][i] = 0
    BY DEF Reached
  <1>4. InOrder
    BY <1>3 DEF InOrder
  <1>5. \A c \in Bot!Names : Again[c] = {}
    BY <1>3 DEF Again
  <1>6. FewAgain
    <2>1. Limit * deaths = 0
      <3>1. deaths = 0 /\ Limit * 0 = 0
        OBVIOUS
      <3> QED
        BY <3>1
    <2>2. \A c \in Bot!Names : Cardinality(Again[c]) = 0
      BY <1>5, FS_EmptySet
    <2> QED
      BY <2>1, <2>2 DEF FewAgain
  <1> QED
    BY <1>1, <1>2, <1>4, <1>6 DEF BotInv

\* A step that executes nothing and leaves what comes next keeps the order.
LEMMA BotQuiet ==
    ASSUME BotType, InOrder, FewAgain, runs' = runs, deaths' = deaths,
           Reached' = Reached,
           \A c \in Bot!Names : dropped'[c] \in Nat /\ dropped[c] <= dropped'[c]
    PROVE  InOrder' /\ FewAgain'
  <1>1. Again' = Again
    BY DEF Again
  <1>2. FewAgain'
    BY <1>1 DEF FewAgain
  <1>3. InOrder'
    <2> SUFFICES ASSUME NEW c \in Bot!Names, NEW i \in 1 .. MaxSent[c]
                 PROVE  /\ i <= Reached'[c] => runs[c][i] > 0
                        /\ runs[c][i] <= 1 + deaths
                        /\ i > Reached'[c] => runs[c][i] <= deaths
                        /\ Bot!Drops(c) /\ runs[c][i] > 0 => i <= dropped'[c] + Limit
      BY DEF InOrder
    <2>1. dropped[c] + Limit <= dropped'[c] + Limit /\ i \in Int
          /\ dropped[c] + Limit \in Int /\ dropped'[c] + Limit \in Int
      BY AssistantsAssumption DEF Bot!BotAssumption, BotType
    <2> QED
      BY <2>1 DEF InOrder
  <1> QED
    BY <1>2, <1>3

LEMMA SendStep == ASSUME BotInv, NEW d \in Bot!Names, Bot!Send(d) PROVE BotInv'
  <1> USE DEF BotInv
  <1>1. /\ UNCHANGED <<dropped, offset, turn, batch, last, runs, deaths>>
        /\ sent' = [sent EXCEPT ![d] = @ + 1] /\ sent[d] < MaxSent[d]
    BY DEF Bot!Send
  <1>2. From' = From /\ Reached' = Reached
    BY <1>1 DEF From, Reached, Bot!Here
  <1>3. ASSUME NEW c \in Bot!Names
        PROVE  /\ sent'[c] \in Nat /\ sent[c] <= sent'[c] /\ sent'[c] <= MaxSent[c]
               /\ From[c] \in Nat /\ sent[c] \in Nat
    <2>1. MaxSent[c] \in Nat /\ sent[c] \in Nat /\ sent[d] \in Nat /\ MaxSent[d] \in Nat
      BY AssistantsAssumption DEF Bot!BotAssumption, BotType
    <2>2. From[c] \in Nat
      BY DEF From, BotType
    <2>3. sent'[c] = IF c = d THEN sent[d] + 1 ELSE sent[c]
      BY <1>1 DEF BotType
    <2> QED
      BY <1>1, <2>1, <2>2, <2>3 DEF BotType
  <1>4. BotType'
    BY <1>1, <1>2, <1>3 DEF BotType
  <1>5. BatchIsNext'
    BY <1>1, <1>2, <1>3, HereIsAName DEF BatchIsNext, Bot!Here, BotType
  <1>6. InOrder' /\ FewAgain'
    BY <1>1, <1>2, BotQuiet DEF BotType
  <1> QED
    BY <1>4, <1>5, <1>6

\* A request reaches the channel Here, or is lost before it.
LEMMA FromKept ==
    ASSUME BotType, offset' = offset,
           \/ dropped' = dropped
           \/ dropped' = [dropped EXCEPT ![Bot!Here] = Bot!DroppedAt(Bot!Here)]
    PROVE  /\ dropped' \in [Bot!Names -> Nat] /\ From' = From
           /\ \A c \in Bot!Names : /\ dropped[c] <= dropped'[c]
                                   /\ ~Bot!Drops(c) => dropped'[c] = 0
  <1>1. ASSUME NEW c \in Bot!Names
        PROVE  dropped[c] \in Nat /\ offset[c] \in Nat /\ (~Bot!Drops(c) => dropped[c] = 0)
    BY DEF BotType
  <1>2. CASE dropped' = dropped
    BY <1>1, <1>2 DEF From, BotType
  <1>3. CASE dropped' = [dropped EXCEPT ![Bot!Here] = Bot!DroppedAt(Bot!Here)]
    <2>1. Bot!Here \in Bot!Names
      BY HereIsAName DEF BotType
    <2>2. \A c \in Bot!Names :
              dropped'[c] = IF c = Bot!Here THEN Bot!DroppedAt(c) ELSE dropped[c]
      BY <1>3 DEF BotType
    <2>3. dropped' \in [Bot!Names -> Nat]
      BY <1>1, <1>3, <2>1, Confirmed DEF BotType
    <2>4. ASSUME NEW c \in Bot!Names
          PROVE  /\ dropped[c] <= dropped'[c]
                 /\ ~Bot!Drops(c) => dropped'[c] = 0
      <3>1. CASE c = Bot!Here /\ Bot!Drops(c)
        BY <1>1, <2>2, <3>1, Confirmed DEF Bot!Drops
      <3>2. CASE c = Bot!Here /\ ~Bot!Drops(c)
        <4>1. dropped[c] \in Nat /\ offset[c] \in Nat /\ dropped[c] = 0
          BY <1>1, <3>2
        <4>2. Bot!DroppedAt(c) = 0
          BY <3>2, <4>1 DEF Bot!DroppedAt
        <4> QED
          BY <2>2, <3>2, <4>1, <4>2
      <3>3. CASE c # Bot!Here
        BY <1>1, <2>2, <3>3
      <3> QED
        BY <3>1, <3>2, <3>3
    <2>5. \A c \in Bot!Names : From'[c] = From[c]
      BY <1>1, <2>2, Confirmed DEF From
    <2>6. From' = From
      BY <2>5 DEF From
    <2> QED
      BY <2>3, <2>4, <2>6
  <1> QED
    BY <1>2, <1>3

\* No answer: the thread goes on to the next channel, or asks again.
LEMMA NothingGot ==
    ASSUME BotInv, batch = <<>>, batch' = <<>>,
           UNCHANGED <<sent, offset, runs, deaths>>, last' \in Nat, turn' \in 1 .. 3,
           \/ dropped' = dropped
           \/ dropped' = [dropped EXCEPT ![Bot!Here] = Bot!DroppedAt(Bot!Here)]
    PROVE  BotInv'
  <1> USE DEF BotInv
  <1>1. /\ dropped' \in [Bot!Names -> Nat] /\ From' = From
        /\ \A c \in Bot!Names : /\ dropped[c] <= dropped'[c]
                                /\ ~Bot!Drops(c) => dropped'[c] = 0
    BY FromKept
  <1>2. Reached' = Reached
    BY <1>1 DEF Reached
  <1>3. BotType' /\ BatchIsNext'
    BY <1>1 DEF BotType, BatchIsNext
  <1>4. \A c \in Bot!Names : dropped'[c] \in Nat /\ dropped[c] <= dropped'[c]
    BY <1>1
  <1>5. InOrder' /\ FewAgain'
    BY <1>2, <1>4, BotQuiet
  <1> QED
    BY <1>3, <1>5

LEMMA AnswerGot ==
    ASSUME BotInv, batch = <<>>, Bot!AnswerOf(Bot!Here) # <<>>,
           batch' = Bot!AnswerOf(Bot!Here), last' = Bot!Last(batch'),
           UNCHANGED <<sent, offset, runs, deaths, turn>>,
           dropped' = [dropped EXCEPT ![Bot!Here] = Bot!DroppedAt(Bot!Here)]
    PROVE  BotInv'
  <1> USE DEF BotInv
  <1> DEFINE h == Bot!Here
  <1>1. /\ dropped' \in [Bot!Names -> Nat] /\ From' = From
        /\ \A c \in Bot!Names : /\ dropped[c] <= dropped'[c]
                                /\ ~Bot!Drops(c) => dropped'[c] = 0
    BY FromKept
  <1>2. h \in Bot!Names /\ h' = h
    BY HereIsAName DEF BotType, Bot!Here
  <1>3. PICK n \in Nat : /\ batch' = [k \in 1 .. n |-> From[h] + k]
                         /\ n <= Limit /\ From[h] + n <= sent[h]
    BY <1>2, AnswerIsNext
  <1>4. From[h] \in Nat /\ sent[h] \in Nat
    BY <1>2 DEF From, BotType
  <1>5. n # 0
    BY <1>3
  <1>6. batch' \in Seq(Nat) /\ Len(batch') = n /\ batch' # <<>>
    BY <1>3, <1>4, <1>5
  <1>7. last' = From[h] + n
    BY <1>3, <1>5, <1>6 DEF Bot!Last
  <1>8. last' - Len(batch') = From[h]
    BY <1>4, <1>6, <1>7
  <1>9. Reached' = Reached
    BY <1>1, <1>2, <1>8 DEF Reached
  <1>10. BotType'
    BY <1>1, <1>4, <1>6, <1>7 DEF BotType
  <1>11. Bot!Drops(h) => dropped'[h] = From[h]
    BY <1>2, Confirmed DEF BotType
  <1>12. BatchIsNext'
    <2>1. last' <= sent[h] /\ last' - Len(batch') = From[h] /\ Limit \in Nat
      BY <1>3, <1>7, <1>8, AssistantsAssumption DEF Bot!BotAssumption
    <2>2. \A k \in 1 .. Len(batch') : batch'[k] = last' - Len(batch') + k
      BY <1>3, <1>6, <2>1
    <2>3. Bot!Drops(h) => last' <= dropped'[h] + Limit
      BY <1>3, <1>4, <1>7, <1>11, <2>1 DEF Bot!Drops
    <2>4. From'[h] <= last' - Len(batch')
      BY <1>1, <1>4, <2>1
    <2> HIDE DEF h
    <2> QED
      BY <1>2, <2>1, <2>2, <2>3, <2>4 DEF BatchIsNext, h
  <1>13. \A c \in Bot!Names : dropped'[c] \in Nat /\ dropped[c] <= dropped'[c]
    BY <1>1
  <1>14. InOrder' /\ FewAgain'
    BY <1>9, <1>13, BotQuiet
  <1> QED
    BY <1>10, <1>12, <1>14

LEMMA AskStep ==
    ASSUME BotInv, Bot!Poll \/ Bot!PollLost \/ Bot!PollGarbled
    PROVE  BotInv'
  <1>1. turn \in 1 .. 3 /\ last \in Nat
    BY DEF BotInv, BotType
  <1>2. CASE Bot!Poll
    <2>1. CASE Bot!AnswerOf(Bot!Here) = <<>>
      BY <1>1, <1>2, <2>1, NothingGot, NextChannelTyped DEF Bot!Poll
    <2>2. CASE Bot!AnswerOf(Bot!Here) # <<>>
      BY <1>2, <2>2, AnswerGot DEF Bot!Poll
    <2> QED
      BY <2>1, <2>2
  <1>3. CASE Bot!PollLost
    BY <1>1, <1>3, NothingGot, NextChannelTyped DEF Bot!PollLost
  <1>4. CASE Bot!PollGarbled
    BY <1>1, <1>4, NothingGot DEF Bot!PollGarbled
  <1> QED
    BY <1>2, <1>3, <1>4

\* An execution counts once for one message of one channel.
LEMMA RunCounts ==
    ASSUME BotType, Bot!Run
    PROVE  /\ runs' = [c \in Bot!Names |-> runs'[c]]
           /\ \A c \in Bot!Names : runs'[c] \in [1 .. MaxSent[c] -> Nat]
           /\ \A c \in Bot!Names : \A i \in 1 .. MaxSent[c] :
                  runs'[c][i] = IF c = Bot!Here /\ i = Head(batch) THEN runs[c][i] + 1
                                ELSE runs[c][i]
  <1> DEFINE h == Bot!Here
             x == Head(batch)
  <1>1. runs' = [runs EXCEPT ![h] = [runs[h] EXCEPT ![x] = runs[h][x] + 1]]
    BY DEF Bot!Run
  <1>2. /\ h \in Bot!Names /\ DOMAIN runs = Bot!Names
        /\ \A c \in Bot!Names : runs[c] \in [1 .. MaxSent[c] -> Nat]
    BY HereIsAName DEF BotType
  <1> HIDE DEF h, x
  <1>3. /\ runs' = [c \in Bot!Names |-> runs'[c]]
        /\ \A c \in Bot!Names : c # h => runs'[c] = runs[c]
        /\ runs'[h] = [runs[h] EXCEPT ![x] = runs[h][x] + 1]
    BY <1>1, <1>2
  <1>4. /\ DOMAIN runs'[h] = 1 .. MaxSent[h]
        /\ runs'[h] = [i \in 1 .. MaxSent[h] |-> runs'[h][i]]
        /\ \A i \in 1 .. MaxSent[h] :
               runs'[h][i] = IF i = x THEN runs[h][i] + 1 ELSE runs[h][i]
    BY <1>2, <1>3
  <1>5. runs'[h] \in [1 .. MaxSent[h] -> Nat]
    <2>1. ASSUME NEW i \in 1 .. MaxSent[h]
          PROVE  runs'[h][i] \in Nat
      <3>1. runs[h][i] \in Nat
        BY <1>2
      <3> QED
        BY <1>4, <3>1
    <2> QED
      BY <1>4, <2>1
  <1>6. \A c \in Bot!Names : runs'[c] \in [1 .. MaxSent[c] -> Nat]
    BY <1>2, <1>3, <1>5
  <1>7. \A c \in Bot!Names : \A i \in 1 .. MaxSent[c] :
            runs'[c][i] = IF c = h /\ i = x THEN runs[c][i] + 1 ELSE runs[c][i]
    BY <1>3, <1>4
  <1> QED
    BY <1>3, <1>6, <1>7 DEF h, x

\* The first message left is the one behind those reached, and reached now.
LEMMA ExecuteReaches ==
    ASSUME BotInv, Bot!Execute
    PROVE  /\ BotType' /\ BatchIsNext'
           /\ Head(batch) = Reached[Bot!Here] + 1 /\ Reached[Bot!Here] \in Nat
           /\ Head(batch) \in 1 .. MaxSent[Bot!Here]
           /\ Bot!Drops(Bot!Here) => Head(batch) <= dropped[Bot!Here] + Limit
           /\ Reached' = [Reached EXCEPT ![Bot!Here] = Head(batch)]
  <1> DEFINE h == Bot!Here
             n == Len(batch)
  <1>1. /\ h \in Bot!Names /\ n \in Nat /\ n # 0 /\ last \in Nat /\ batch # <<>>
        /\ sent[h] <= MaxSent[h] /\ sent[h] \in Nat /\ dropped[h] \in Nat
        /\ From[h] \in Nat /\ MaxSent[h] \in Nat /\ Limit \in Nat
    BY HereIsAName, LenProperties, AssistantsAssumption
    DEF BotInv, BotType, From, Bot!Execute, Bot!BotAssumption
  <1>2. /\ last <= sent[h] /\ From[h] <= last - n
        /\ \A k \in 1 .. n : batch[k] = last - n + k
        /\ Bot!Drops(h) => last <= dropped[h] + Limit
    BY <1>1 DEF BotInv, BatchIsNext
  <1>3. /\ Head(batch) = last - n + 1 /\ Tail(batch) \in Seq(Nat) /\ Len(Tail(batch)) = n - 1
        /\ \A k \in 1 .. n - 1 : Tail(batch)[k] = batch[k + 1]
    <2>1. batch \in Seq(Nat) /\ 1 \in 1 .. n
      BY <1>1 DEF BotInv, BotType
    <2>2. /\ Head(batch) = batch[1] /\ Tail(batch) \in Seq(Nat) /\ Len(Tail(batch)) = n - 1
          /\ \A k \in 1 .. n - 1 : Tail(batch)[k] = batch[k + 1]
      BY <1>1, <2>1, HeadTailProperties
    <2> QED
      BY <1>2, <2>1, <2>2
  <1>4. Reached[h] = last - n
    BY <1>1 DEF Reached
  <1>5. UNCHANGED <<sent, dropped, last, deaths>> /\ batch' = Tail(batch)
    BY DEF Bot!Execute
  <1>r. /\ runs' = [c \in Bot!Names |-> runs'[c]]
        /\ \A c \in Bot!Names : runs'[c] \in [1 .. MaxSent[c] -> Nat]
    BY RunCounts DEF Bot!Execute, BotInv
  <1>6. CASE Tail(batch) = <<>>
    <2>1. n = 1
      <3>1. \A q \in Seq(Nat) : q = <<>> <=> Len(q) = 0
        BY EmptySeq
      <3> HIDE DEF n
      <3>2. n - 1 = 0
        BY <1>3, <1>6, <3>1
      <3> QED
        BY <1>1, <3>2
    <2>2. offset' = [offset EXCEPT ![h] = last] /\ turn' \in 1 .. 3
      BY <1>6, NextChannelTyped DEF Bot!Execute, Bot!NewOffset, BotInv, BotType
    <2>3. \A c \in Bot!Names : offset'[c] = IF c = h THEN last ELSE offset[c]
      BY <2>2 DEF BotInv, BotType
    <2>4. dropped[h] <= last
      BY <1>1, <1>2, Confirmed DEF From, BotInv, BotType, Bot!Drops
    <2>5. \A c \in Bot!Names : From'[c] = IF c = h THEN last ELSE From[c]
      <3>1. From'[h] = last
        BY <1>1, <1>5, <2>3, <2>4 DEF From
      <3>2. \A c \in Bot!Names : c # h => From'[c] = From[c]
        BY <1>5, <2>3 DEF From
      <3> QED
        BY <3>1, <3>2
    <2>6. Reached' = [Reached EXCEPT ![h] = Head(batch)]
      <3>1. \A c \in Bot!Names : Reached'[c] = From'[c]
        BY <1>5, <1>6 DEF Reached
      <3>2. \A c \in Bot!Names : c # h => Reached[c] = From[c]
        BY DEF Reached
      <3>3. \A c \in Bot!Names : Reached'[c] = IF c = h THEN last ELSE Reached[c]
        BY <2>5, <3>1, <3>2
      <3>4. Reached' = [c \in Bot!Names |-> Reached'[c]] /\ Reached = [c \in Bot!Names |-> Reached[c]]
        BY DEF Reached
      <3>5. Head(batch) = last
        BY <1>1, <1>3, <2>1
      <3> HIDE DEF h
      <3> QED
        BY <3>3, <3>4, <3>5
    <2>7. BatchIsNext'
      BY <1>5, <1>6 DEF BatchIsNext
    <2>8. offset' \in [Bot!Names -> Nat]
      BY <1>1, <2>2 DEF BotInv, BotType
    <2>9. \A c \in Bot!Names : From'[c] <= sent[c]
      BY <1>1, <1>2, <2>5 DEF BotInv, BotType
    <2>10. BotType'
      BY <1>3, <1>5, <1>r, <2>2, <2>8, <2>9 DEF BotInv, BotType
    <2> QED
      BY <1>1, <1>2, <1>3, <1>4, <2>6, <2>7, <2>10
  <1>7. CASE Tail(batch) # <<>>
    <2>1. UNCHANGED <<offset, turn>> /\ h' = h /\ From' = From
      BY <1>5, <1>7 DEF Bot!Execute, From, Bot!Here
    <2>2. Reached' = [Reached EXCEPT ![h] = Head(batch)]
      <3>1. \A c \in Bot!Names : Reached'[c] = IF c = h THEN last - (n - 1) ELSE From[c]
        BY <1>3, <1>5, <1>7, <2>1 DEF Reached
      <3>2. \A c \in Bot!Names : c # h => Reached[c] = From[c]
        BY DEF Reached
      <3>3. \A c \in Bot!Names : Reached'[c] = IF c = h THEN Head(batch) ELSE Reached[c]
        BY <1>1, <1>3, <3>1, <3>2
      <3>4. Reached' = [c \in Bot!Names |-> Reached'[c]] /\ Reached = [c \in Bot!Names |-> Reached[c]]
        BY DEF Reached
      <3> HIDE DEF h
      <3> QED
        BY <3>3, <3>4
    <2>3. BotType'
      BY <1>3, <1>5, <1>r, <2>1 DEF BotInv, BotType
    <2>4. BatchIsNext'
      <3>1. \A k \in 1 .. Len(batch') : batch'[k] = last - Len(batch') + k
        <4> HIDE DEF h, n
        <4>1. PICK m \in Nat : m = n - 1
          BY <1>1
        <4>2. Len(batch') = m /\ \A k \in 1 .. m : batch'[k] = batch[k + 1]
          BY <1>3, <1>5, <4>1
        <4>3. \A k \in 1 .. m : k + 1 \in 1 .. n
          BY <1>1, <4>1
        <4>4. \A k \in 1 .. n : batch[k] = last - n + k
          BY <1>2
        <4>5. ASSUME NEW k \in 1 .. m
              PROVE  batch'[k] = last - m + k
          <5>1. batch'[k] = last - n + (k + 1)
            BY <4>2, <4>3, <4>4
          <5> QED
            BY <1>1, <4>1, <5>1
        <4> QED
          BY <4>2, <4>5
      <3>2. From[h] <= last - Len(batch')
        BY <1>1, <1>2, <1>3, <1>5
      <3> HIDE DEF h, n
      <3> QED
        BY <1>2, <1>5, <2>1, <3>1, <3>2 DEF BatchIsNext, h
    <2> QED
      BY <1>1, <1>2, <1>3, <1>4, <2>2, <2>3, <2>4
  <1> QED
    BY <1>6, <1>7

LEMMA AgainFinite == ASSUME NEW c \in Bot!Names PROVE IsFiniteSet(Again[c])
  <1>1. MaxSent[c] \in Nat
    BY AssistantsAssumption DEF Bot!BotAssumption
  <1>2. IsFiniteSet(1 .. MaxSent[c])
    BY <1>1, FS_Interval
  <1>3. Again[c] \subseteq 1 .. MaxSent[c]
    BY DEF Again
  <1> QED
    BY <1>2, <1>3, FS_Subset

LEMMA ExecuteStep == ASSUME BotInv, Bot!Execute PROVE BotInv'
  <1> DEFINE h == Bot!Here
             x == Head(batch)
  <1>1. /\ BotType' /\ BatchIsNext'
        /\ x = Reached[h] + 1 /\ x \in 1 .. MaxSent[h] /\ Reached[h] \in Nat
        /\ Bot!Drops(h) => x <= dropped[h] + Limit
        /\ Reached' = [Reached EXCEPT ![h] = x]
    BY ExecuteReaches
  <1>2. h \in Bot!Names /\ deaths \in Nat /\ DOMAIN Reached = Bot!Names
    BY HereIsAName DEF BotInv, BotType, Reached
  <1>3. UNCHANGED <<dropped, deaths>>
    BY DEF Bot!Execute
  <1>4. \A c \in Bot!Names : \A i \in 1 .. MaxSent[c] :
            /\ runs'[c][i] = IF c = h /\ i = x THEN runs[c][i] + 1 ELSE runs[c][i]
            /\ runs[c][i] \in Nat /\ i \in Int
    <2>1. BotType /\ Bot!Run
      BY DEF Bot!Execute, BotInv
    <2>2. \A c \in Bot!Names : \A i \in 1 .. MaxSent[c] :
              runs'[c][i] = IF c = h /\ i = x THEN runs[c][i] + 1 ELSE runs[c][i]
      BY <2>1, RunCounts
    <2>3. \A c \in Bot!Names : \A i \in 1 .. MaxSent[c] : runs[c][i] \in Nat /\ i \in Int
      BY <2>1, RunsTyped
    <2> QED
      BY <2>2, <2>3
  <1> HIDE DEF h, x
  <1>5. \A c \in Bot!Names : Reached'[c] = IF c = h THEN x ELSE Reached[c]
    BY <1>1, <1>2
  <1>7. InOrder'
    <2> SUFFICES ASSUME NEW c \in Bot!Names, NEW i \in 1 .. MaxSent[c]
                 PROVE  /\ i <= Reached'[c] => runs'[c][i] > 0
                        /\ runs'[c][i] <= 1 + deaths
                        /\ i > Reached'[c] => runs'[c][i] <= deaths
                        /\ Bot!Drops(c) /\ runs'[c][i] > 0 => i <= dropped[c] + Limit
      BY <1>3 DEF InOrder
    <2>1. /\ i <= Reached[c] => runs[c][i] > 0
          /\ runs[c][i] <= 1 + deaths
          /\ i > Reached[c] => runs[c][i] <= deaths
          /\ Bot!Drops(c) /\ runs[c][i] > 0 => i <= dropped[c] + Limit
      BY DEF BotInv, InOrder
    <2>2. CASE c # h
      BY <1>4, <1>5, <2>1, <2>2
    <2>3. CASE c = h /\ i # x
      BY <1>1, <1>4, <1>5, <2>1, <2>3
    <2>4. CASE c = h /\ i = x
      BY <1>1, <1>2, <1>4, <1>5, <2>1, <2>4
    <2> QED
      BY <2>2, <2>3, <2>4
  <1>8. ASSUME NEW c \in Bot!Names
        PROVE  Again'[c] \subseteq Again[c]
    <2>1. ASSUME NEW i \in 1 .. MaxSent[c],
                 runs'[c][i] > 1 \/ (i > Reached'[c] /\ runs'[c][i] > 0)
          PROVE  runs[c][i] > 1 \/ (i > Reached[c] /\ runs[c][i] > 0)
      <3>1. CASE c # h
        BY <1>4, <1>5, <2>1, <3>1
      <3>2. CASE c = h
        BY <1>1, <1>4, <1>5, <2>1, <3>2
      <3> QED
        BY <3>1, <3>2
    <2> QED
      BY <2>1 DEF Again
  <1>9. FewAgain'
    <2> SUFFICES ASSUME NEW c \in Bot!Names, Bot!Drops(c)
                 PROVE  Cardinality(Again'[c]) <= Limit * deaths
      BY <1>3 DEF FewAgain
    <2>1. /\ Cardinality(Again[c]) \in Nat /\ Cardinality(Again'[c]) \in Nat
          /\ Cardinality(Again'[c]) <= Cardinality(Again[c])
      BY <1>8, AgainFinite, FS_Subset, FS_CardinalityType
    <2>2. Limit * deaths \in Int
      BY <1>2, AssistantsAssumption DEF Bot!BotAssumption
    <2> QED
      BY <2>1, <2>2 DEF BotInv, FewAgain
  <1> QED
    BY <1>1, <1>7, <1>9 DEF BotInv

\* The program that starts again goes back to what each channel has dropped, by Limit
\* executed messages at most on those that drop any.
LEMMA DieStep == ASSUME BotInv, Bot!Die PROVE BotInv'
  <1> USE DEF BotInv
  <1>1. /\ deaths' = deaths + 1 /\ offset' = [c \in Bot!Names |-> 0] /\ turn' = 1 /\ batch' = <<>>
        /\ UNCHANGED <<sent, dropped, last, runs>>
    BY DEF Bot!Die
  <1>2. deaths \in Nat /\ Limit \in Nat
    BY AssistantsAssumption DEF BotType, Bot!BotAssumption
  <1>3. ASSUME NEW c \in Bot!Names
        PROVE  /\ From'[c] \in Nat /\ From'[c] <= From[c] /\ From[c] \in Nat /\ sent[c] \in Nat
               /\ Bot!Drops(c) => From'[c] = dropped[c]
    BY <1>1 DEF From, BotType, Bot!Drops
  <1>4. \A c \in Bot!Names : Reached'[c] = From'[c]
    BY <1>1 DEF Reached
  <1>5. \A c \in Bot!Names : From[c] <= Reached[c] /\ Reached[c] \in Int
    BY <1>3, LenProperties DEF Reached, BatchIsNext, BotType
  <1>6. BotType' /\ BatchIsNext'
    <2>1. offset' \in [Bot!Names -> Nat] /\ batch' \in Seq(Nat) /\ turn' \in 1 .. 3
      BY <1>1, EmptySeq
    <2>2. \A c \in Bot!Names : From'[c] <= sent[c]
      <3>1. \A c \in Bot!Names : From[c] <= sent[c]
        BY DEF BotType
      <3> QED
        BY <1>3, <3>1
    <2>3. BotType'
      BY <1>1, <1>2, <2>1, <2>2 DEF BotType
    <2> QED
      BY <1>1, <2>3 DEF BatchIsNext
  <1>7. InOrder'
    <2> SUFFICES ASSUME NEW c \in Bot!Names, NEW i \in 1 .. MaxSent[c]
                 PROVE  /\ i <= Reached'[c] => runs[c][i] > 0
                        /\ runs[c][i] <= 1 + deaths'
                        /\ i > Reached'[c] => runs[c][i] <= deaths'
                        /\ Bot!Drops(c) /\ runs[c][i] > 0 => i <= dropped[c] + Limit
      BY <1>1 DEF InOrder
    <2>1. runs[c][i] \in Nat /\ i \in Int
      BY RunsTyped
    <2>2. Reached'[c] <= Reached[c] /\ Reached'[c] \in Int /\ Reached[c] \in Int
      BY <1>3, <1>4, <1>5
    <2> QED
      BY <1>1, <1>2, <2>1, <2>2 DEF InOrder
  <1>8. FewAgain'
    <2> SUFFICES ASSUME NEW c \in Bot!Names, Bot!Drops(c)
                 PROVE  Cardinality(Again'[c]) <= Limit * deaths'
      BY DEF FewAgain
    <2> DEFINE new == dropped[c] + 1 .. dropped[c] + Limit
    <2>1. Again'[c] \subseteq Again[c] \cup new
      <3> SUFFICES ASSUME NEW i \in 1 .. MaxSent[c],
                          runs[c][i] > 1 \/ (i > Reached'[c] /\ runs[c][i] > 0)
                   PROVE  runs[c][i] > 1 \/ (i > Reached[c] /\ runs[c][i] > 0) \/ i \in new
        BY <1>1 DEF Again
      <3>1. runs[c][i] > 0 => i <= dropped[c] + Limit
        BY DEF InOrder
      <3>2. dropped[c] \in Nat /\ i \in Int /\ Reached'[c] = dropped[c]
        BY <1>3, <1>4, RunsTyped DEF BotType
      <3> QED
        BY <1>2, <3>1, <3>2
    <2>2. IsFiniteSet(new) /\ Cardinality(new) = Limit
      <3>1. dropped[c] \in Nat
        BY DEF BotType
      <3> QED
        BY <1>2, <3>1, FS_Interval
    <2>3. /\ IsFiniteSet(Again[c] \cup new)
          /\ Cardinality(Again[c] \cup new) = Cardinality(Again[c]) + Cardinality(new)
                                                 - Cardinality(Again[c] \cap new)
      BY <2>2, AgainFinite, FS_Union
    <2>4. /\ Cardinality(Again[c]) \in Nat /\ Cardinality(Again[c] \cap new) \in Nat
          /\ Cardinality(Again'[c]) \in Nat /\ Cardinality(Again[c] \cup new) \in Nat
          /\ Cardinality(Again'[c]) <= Cardinality(Again[c] \cup new)
      BY <2>1, <2>2, <2>3, AgainFinite, FS_Subset, FS_Intersection, FS_CardinalityType
    <2>5. Cardinality(Again[c]) <= Limit * deaths /\ Limit * deaths \in Int
      BY <1>2 DEF FewAgain
    <2>6. Limit * deaths' = Limit * deaths + Limit
      BY <1>1, <1>2
    <2> HIDE DEF new
    <2> QED
      BY <1>2, <2>2, <2>3, <2>4, <2>5, <2>6
  <1> QED
    BY <1>6, <1>7, <1>8

LEMMA BotStep == BotInv /\ [Next]_vars => BotInv'
  <1> SUFFICES ASSUME BotInv, [Next]_vars
               PROVE  BotInv'
    OBVIOUS
  <1>1. Bot!Next \/ UNCHANGED bot
    BY DEF Next, vars, InWizard, InTira, InBot, InHunter, InGate
  <1>2. CASE UNCHANGED bot
    <2>1. UNCHANGED <<From, Reached, Bot!Here>>
      BY <1>2 DEF From, Reached, Bot!Here
    <2>2. UNCHANGED Again
      BY <1>2, <2>1 DEF Again
    <2> QED
      BY <1>2, <2>1, <2>2 DEF BotInv, BotType, BatchIsNext, InOrder, FewAgain
  <1>3. CASE Bot!ConfigFails \/ Bot!Stopped
    <2>1. /\ UNCHANGED <<From, Reached, Bot!Here>>
          /\ UNCHANGED <<sent, dropped, offset, turn, batch, last, runs, deaths>>
      BY <1>3 DEF Bot!ConfigFails, Bot!Stopped, Bot!vars, From, Reached, Bot!Here
    <2>2. UNCHANGED Again
      BY <2>1 DEF Again
    <2> QED
      BY <2>1, <2>2 DEF BotInv, BotType, BatchIsNext, InOrder, FewAgain
  <1> QED
    BY <1>1, <1>2, <1>3, SendStep, AskStep, ExecuteStep, DieStep DEF Bot!Next, Bot!Thread

\* No message to the bot is lost between two programs: what a channel has dropped was
\* executed, whatever answers are lost and whenever the program ends (_poll_telegram_like).
THEOREM NoMessageDropped == Spec => []DroppedWasExecuted
  <1>1. BotInv => DroppedWasExecuted
    <2> SUFFICES ASSUME BotInv, NEW c \in Bot!Names, NEW i \in 1 .. dropped[c]
                 PROVE  runs[c][i] > 0
      BY DEF DroppedWasExecuted, Bot!DroppedWasExecuted
    <2>1. /\ dropped[c] \in Nat /\ offset[c] \in Nat /\ sent[c] \in Nat /\ MaxSent[c] \in Nat
          /\ sent[c] <= MaxSent[c] /\ From[c] <= sent[c] /\ i \in Nat /\ 1 <= i /\ i <= dropped[c]
      BY AssistantsAssumption DEF BotInv, BotType, Bot!BotAssumption
    <2>2. Bot!Drops(c)
      BY <2>1 DEF BotInv, BotType
    <2>3. From[c] \in Nat /\ dropped[c] <= From[c]
      BY <2>1, <2>2 DEF From
    <2>4. Reached[c] \in Int /\ From[c] <= Reached[c]
      BY <2>3, LenProperties DEF Reached, BotInv, BotType, BatchIsNext
    <2>5. i \in 1 .. MaxSent[c] /\ i <= Reached[c]
      BY <2>1, <2>3, <2>4
    <2> QED
      BY <2>5 DEF BotInv, InOrder
  <1> QED
    BY <1>1, BotInit, BotStep, PTL DEF Spec

\* FiniteSets is the same in TelegramBot.
LEMMA CountedAlike == \A S : Bot!Cardinality(S) = Cardinality(S)
  BY DEF Bot!Cardinality, Cardinality

\* A program that starts again repeats one answer of Telegram and Bale at most, and no
\* message more than once a program (the offset of _poll_telegram_like).
THEOREM OneAnswerRepeated == Spec => []RepeatsOneAnswer
  <1>1. BotInv => RepeatsOneAnswer
    <2> SUFFICES ASSUME BotInv, NEW c \in Bot!Names
                 PROVE  /\ \A i \in 1 .. MaxSent[c] : runs[c][i] <= 1 + deaths
                        /\ Bot!Drops(c) => Cardinality(Bot!Repeated(c)) <= Limit * deaths
      BY CountedAlike DEF RepeatsOneAnswer, Bot!RepeatsOneAnswer
    <2>1. \A i \in 1 .. MaxSent[c] : runs[c][i] <= 1 + deaths
      BY DEF BotInv, InOrder
    <2>2. ASSUME Bot!Drops(c)
          PROVE  Cardinality(Bot!Repeated(c)) <= Limit * deaths
      <3>1. Bot!Repeated(c) \subseteq Again[c]
        BY DEF Bot!Repeated, Again
      <3>2. /\ Cardinality(Again[c]) \in Nat /\ Cardinality(Bot!Repeated(c)) \in Nat
            /\ Cardinality(Bot!Repeated(c)) <= Cardinality(Again[c])
        BY <3>1, AgainFinite, FS_Subset, FS_CardinalityType
      <3>3. Limit * deaths \in Int
        BY AssistantsAssumption DEF Bot!BotAssumption, BotInv, BotType
      <3> QED
        BY <2>2, <3>2, <3>3 DEF BotInv, FewAgain
    <2> QED
      BY <2>1, <2>2
  <1> QED
    BY <1>1, BotInit, BotStep, PTL DEF Spec

-----------------------------------------------------------------------------
(* The wizard *)

Models == {"X", "XR"} \cup WizardTexts

Talk == [step : Wizard!Steps, products : Seq(Wizard!ProductType), current_idx : Nat \ {0},
         several : BOOLEAN, conditions : BOOLEAN, done : BOOLEAN]

Priced(p) == p.sell_price /\ p.profit

\* The models before the one asked about have their price and profit, and all of them
\* have behind the two questions.
Sound(t) ==
    /\ t \in Talk
    /\ t.step \in {"greeting", "ask_products"} => t.products = <<>>
    /\ t.step \in {"ask_sell_price", "ask_profit"} =>
           /\ t.current_idx \in DOMAIN t.products
           /\ \A i \in DOMAIN t.products : i < t.current_idx => Priced(t.products[i])
    /\ t.step = "ask_profit" => t.products[t.current_idx].sell_price
    /\ t.step \in {"ask_quantity", "ask_conditions", "confirm", "done"} =>
           t.products # <<>> /\ \A i \in DOMAIN t.products : Priced(t.products[i])
    /\ t.done => t.step = "done"

\* What is left to store once the language model answers leaves a sound talk.
Unfinished(r) ==
    /\ replying[r].kind = "added" => ~talk.done /\ Sound(Wizard!AskUnpriced(talk))
    /\ replying[r].kind # "added" => Sound(talk)
    /\ replying[r].kind = "greet" => talk.products = <<>>

WizardInv ==
    /\ DOMAIN replying = Requests
    /\ ~hurried =>
           /\ \A r, q \in Wizard!Waiting : r = q
           /\ \A r \in Wizard!Waiting : Unfinished(r)
           /\ Wizard!Waiting = {} => Sound(talk)

\* A product of the list is changed.
LEMMA ProductSet ==
    ASSUME NEW t \in Talk, NEW i \in DOMAIN t.products, NEW p \in Wizard!ProductType
    PROVE  LET u == [t EXCEPT !.products[i] = p] IN
           /\ u \in Talk /\ DOMAIN u.products = DOMAIN t.products
           /\ u.products[i] = p
           /\ \A j \in DOMAIN t.products : j # i => u.products[j] = t.products[j]
           /\ u.step = t.step /\ u.current_idx = t.current_idx /\ u.several = t.several
           /\ u.conditions = t.conditions /\ u.done = t.done
  <1> DEFINE u == [t EXCEPT !.products[i] = p]
  <1>1. t.products \in Seq(Wizard!ProductType)
    BY DEF Talk
  <1>2. /\ [t.products EXCEPT ![i] = p] \in Seq(Wizard!ProductType)
        /\ DOMAIN [t.products EXCEPT ![i] = p] = DOMAIN t.products
        /\ [t.products EXCEPT ![i] = p][i] = p
        /\ \A j \in DOMAIN t.products : j # i => [t.products EXCEPT ![i] = p][j] = t.products[j]
    BY <1>1, LenProperties, ExceptSeq
  <1>3. u = [t EXCEPT !.products = [t.products EXCEPT ![i] = p]]
    OBVIOUS
  <1>4. u.products = [t.products EXCEPT ![i] = p]
    BY <1>3 DEF Talk
  <1>5. u \in Talk
    BY <1>2, <1>3 DEF Talk
  <1> QED
    BY <1>2, <1>3, <1>4, <1>5 DEF Talk

\* The new models of a message come behind the others, without a price.
LEMMA ProductsAdded ==
    ASSUME NEW t \in Talk, NEW m \in WizardTexts
    PROVE  LET u == Wizard!AddProducts(t, m) IN
           /\ u \in Talk /\ Len(t.products) <= Len(u.products)
           /\ Wizard!NewModels(t, m) # <<>> => Len(t.products) < Len(u.products)
           /\ Wizard!NewModels(t, m) = <<>> => u = t
           /\ \A i \in DOMAIN t.products : u.products[i] = t.products[i]
           /\ \A i \in DOMAIN u.products \ DOMAIN t.products : ~u.products[i].sell_price
           /\ u.step = t.step /\ u.current_idx = t.current_idx /\ u.done = t.done
  <1> DEFINE new(k) == IF k \in DOMAIN Wizard!Named(m) /\ ~Wizard!Has(t, Wizard!Named(m)[k])
                       THEN <<Wizard!Named(m)[k]>> ELSE <<>>
             s == Wizard!NewModels(t, m)
             a == [i \in DOMAIN s |-> Wizard!Product(s[i])]
  <1>1. Wizard!Named(m) \in Seq(Models)
    <2>1. m \in Models /\ "X" \in Models /\ "XR" \in Models
      BY DEF Models
    <2>2. <<"X", "XR">> \in Seq(Models) /\ <<"X">> \in Seq(Models) /\ <<>> \in Seq(Models)
          /\ <<m>> \in Seq(Models)
      BY <2>1
    <2>3. Wizard!Named(m) \in {<<"X", "XR">>, <<"X">>, <<>>, <<m>>}
      BY DEF Wizard!Named
    <2> QED
      BY <2>2, <2>3
  <1>2. new(1) \in Seq(Models) /\ new(2) \in Seq(Models)
    BY <1>1
  <1>3. s = new(1) \o new(2)
    BY DEF Wizard!NewModels
  <1>4. s \in Seq(Models)
    BY <1>2, <1>3, ConcatProperties
  <1>5. a \in Seq(Wizard!ProductType) /\ Len(a) = Len(s)
    <2> HIDE DEF s
    <2>1. DOMAIN s = 1 .. Len(s) /\ Len(s) \in Nat /\ \A i \in 1 .. Len(s) : s[i] \in Models
      BY <1>4, LenProperties
    <2>2. \A i \in 1 .. Len(s) : Wizard!Product(s[i]) \in Wizard!ProductType
      BY <2>1 DEF Wizard!Product, Wizard!ProductType, Models
    <2> QED
      BY <2>1, <2>2
  <1>6. \A i \in 1 .. Len(a) : ~a[i].sell_price
    <2>1. DOMAIN s = 1 .. Len(s)
      BY <1>4, LenProperties
    <2> HIDE DEF s
    <2> QED
      BY <1>5, <2>1 DEF Wizard!Product
  <1>7. t.products \in Seq(Wizard!ProductType)
    BY DEF Talk
  <1> HIDE DEF new, s, a
  <1>8. /\ t.products \o a \in Seq(Wizard!ProductType)
        /\ Len(t.products \o a) = Len(t.products) + Len(a)
        /\ \A i \in 1 .. Len(t.products) + Len(a) : (t.products \o a)[i] =
               IF i <= Len(t.products) THEN t.products[i] ELSE a[i - Len(t.products)]
    BY <1>5, <1>7, ConcatProperties
  <1>9. Wizard!AddProducts(t, m) = [t EXCEPT !.products = t.products \o a]
    BY DEF Wizard!AddProducts, s, a
  <1>10. /\ Wizard!AddProducts(t, m) \in Talk
         /\ Wizard!AddProducts(t, m).products = t.products \o a
         /\ Wizard!AddProducts(t, m).step = t.step /\ Wizard!AddProducts(t, m).done = t.done
         /\ Wizard!AddProducts(t, m).current_idx = t.current_idx
    BY <1>8, <1>9 DEF Talk
  <1>11. /\ Len(t.products) \in Nat /\ Len(a) \in Nat
         /\ DOMAIN t.products = 1 .. Len(t.products)
         /\ DOMAIN (t.products \o a) = 1 .. Len(t.products) + Len(a)
         /\ s # <<>> => Len(a) > 0
    BY <1>4, <1>5, <1>7, <1>8, LenProperties, EmptySeq
  <1>12. \A i \in DOMAIN t.products : (t.products \o a)[i] = t.products[i]
    BY <1>8, <1>11
  <1>13. \A i \in DOMAIN (t.products \o a) \ DOMAIN t.products : ~(t.products \o a)[i].sell_price
    <2> SUFFICES ASSUME NEW i \in 1 .. Len(t.products) + Len(a), i \notin 1 .. Len(t.products)
                 PROVE  ~(t.products \o a)[i].sell_price
      BY <1>11
    <2>1. i - Len(t.products) \in 1 .. Len(a) /\ (t.products \o a)[i] = a[i - Len(t.products)]
      BY <1>8, <1>11
    <2> QED
      BY <1>6, <2>1
  <1>14. ASSUME s = <<>>
         PROVE  Wizard!AddProducts(t, m) = t
    <2>1. a = <<>>
      BY <1>5, <1>14, EmptySeq
    <2>2. t.products \o a = t.products
      BY <1>7, <2>1, ConcatEmptySeq
    <2> QED
      BY <1>9, <2>2 DEF Talk
  <1> QED
    BY <1>8, <1>10, <1>11, <1>12, <1>13, <1>14 DEF s

\* The current product is complete: the next one is asked for, or all are complete.
LEMMA OnwardSound ==
    ASSUME NEW t \in Talk, t.current_idx \in DOMAIN t.products, ~t.done,
           \A i \in DOMAIN t.products : i <= t.current_idx => Priced(t.products[i]),
           NEW step \in {"ask_quantity", "ask_conditions"}
    PROVE  Sound(Wizard!OnTo(t, step))
  <1>1. /\ DOMAIN t.products = 1 .. Len(t.products) /\ Len(t.products) \in Nat
        /\ t.current_idx \in Nat /\ t.products # <<>>
    BY LenProperties, EmptySeq DEF Talk
  <1>2. CASE t.current_idx < Len(t.products)
    <2> DEFINE u == [t EXCEPT !.current_idx = t.current_idx + 1, !.step = "ask_sell_price"]
    <2>1. Wizard!OnTo(t, step) = u
      BY <1>2 DEF Wizard!OnTo
    <2>2. /\ u \in Talk /\ u.products = t.products /\ u.current_idx = t.current_idx + 1
          /\ u.step = "ask_sell_price" /\ u.done = t.done
      <3>1. t.current_idx + 1 \in Nat \ {0}
        BY <1>1
      <3> QED
        BY <3>1 DEF Talk, Wizard!Steps
    <2> HIDE DEF u
    <2>3. \A i \in DOMAIN t.products : i < t.current_idx + 1 => Priced(t.products[i])
      BY <1>1
    <2>4. t.current_idx + 1 \in DOMAIN t.products
      BY <1>1, <1>2
    <2> QED
      BY <2>1, <2>2, <2>3, <2>4 DEF Sound
  <1>3. CASE ~(t.current_idx < Len(t.products))
    <2> DEFINE u == [t EXCEPT !.step = step]
    <2>1. Wizard!OnTo(t, step) = u
      BY <1>3 DEF Wizard!OnTo, Wizard!Ask
    <2>2. u \in Talk /\ u.products = t.products /\ u.step = step /\ u.done = t.done
      BY DEF Talk, Wizard!Steps
    <2>3. \A i \in DOMAIN t.products : Priced(t.products[i])
      BY <1>1, <1>3
    <2> HIDE DEF u
    <2> QED
      BY <1>1, <2>1, <2>2, <2>3 DEF Sound
  <1> QED
    BY <1>2, <1>3

LEMMA SellPriceSound ==
    ASSUME NEW t, Sound(t), t.step = "ask_sell_price", NEW m \in WizardTexts
    PROVE  Sound(Wizard!SellPrice(t, m))
  <1> DEFINE p == [t.products[t.current_idx] EXCEPT !.sell_price = TRUE]
             pp == [p EXCEPT !.profit = TRUE]
             u == [t EXCEPT !.products[t.current_idx] = p]
             uu == [t EXCEPT !.products[t.current_idx] = pp]
  <1>1. /\ t \in Talk /\ ~t.done /\ t.current_idx \in DOMAIN t.products
        /\ \A i \in DOMAIN t.products : i < t.current_idx => Priced(t.products[i])
    BY DEF Sound
  <1>2. /\ DOMAIN t.products = 1 .. Len(t.products) /\ Len(t.products) \in Nat
        /\ t.products[t.current_idx] \in Wizard!ProductType /\ t.current_idx \in Nat
    BY <1>1, LenProperties DEF Talk
  <1>3. /\ p \in Wizard!ProductType /\ p.sell_price
        /\ pp \in Wizard!ProductType /\ pp.sell_price /\ pp.profit
    BY <1>2 DEF Wizard!ProductType
  <1> HIDE DEF p, pp
  <1>4. /\ u \in Talk /\ DOMAIN u.products = DOMAIN t.products /\ u.products[t.current_idx] = p
        /\ \A j \in DOMAIN t.products : j # t.current_idx => u.products[j] = t.products[j]
        /\ u.current_idx = t.current_idx /\ u.done = t.done
    BY <1>1, <1>3, ProductSet
  <1>5. /\ uu \in Talk /\ DOMAIN uu.products = DOMAIN t.products /\ uu.products[t.current_idx] = pp
        /\ \A j \in DOMAIN t.products : j # t.current_idx => uu.products[j] = t.products[j]
        /\ uu.current_idx = t.current_idx /\ uu.done = t.done
    BY <1>1, <1>3, ProductSet
  <1>6. Wizard!SellPrice(t, m) \in {t, Wizard!OnTo(uu, Wizard!AfterSale(t)), [u EXCEPT !.step = "ask_profit"]}
    BY DEF Wizard!SellPrice, Wizard!SetCurrent, Wizard!Current, Wizard!Ask, p, pp
  <1> HIDE DEF u, uu
  <1>7. Sound(Wizard!OnTo(uu, Wizard!AfterSale(t)))
    <2>1. Wizard!AfterSale(t) \in {"ask_quantity", "ask_conditions"}
      BY DEF Wizard!AfterSale
    <2>2. \A i \in DOMAIN uu.products : i <= uu.current_idx => Priced(uu.products[i])
      BY <1>1, <1>2, <1>3, <1>5 DEF Priced
    <2> QED
      BY <1>1, <1>5, <2>1, <2>2, OnwardSound
  <1>8. Sound([u EXCEPT !.step = "ask_profit"])
    <2> DEFINE v == [u EXCEPT !.step = "ask_profit"]
    <2>1. /\ v \in Talk /\ v.step = "ask_profit" /\ v.products = u.products
          /\ v.current_idx = u.current_idx /\ v.done = u.done
      BY <1>4 DEF Talk, Wizard!Steps
    <2> HIDE DEF v
    <2>2. \A i \in DOMAIN v.products : i < v.current_idx => Priced(v.products[i])
      BY <1>1, <1>2, <1>4, <2>1
    <2> QED
      BY <1>1, <1>3, <1>4, <2>1, <2>2 DEF Sound, v
  <1> QED
    BY <1>6, <1>7, <1>8

LEMMA ProfitSound ==
    ASSUME NEW t, Sound(t), t.step = "ask_profit", NEW m \in WizardTexts
    PROVE  Sound(Wizard!Profit(t, m))
  <1> DEFINE p == [t.products[t.current_idx] EXCEPT !.profit = TRUE]
             u == [t EXCEPT !.products[t.current_idx] = p]
  <1>1. /\ t \in Talk /\ ~t.done /\ t.current_idx \in DOMAIN t.products
        /\ \A i \in DOMAIN t.products : i < t.current_idx => Priced(t.products[i])
        /\ t.products[t.current_idx].sell_price
    BY DEF Sound
  <1>2. /\ DOMAIN t.products = 1 .. Len(t.products) /\ Len(t.products) \in Nat
        /\ t.products[t.current_idx] \in Wizard!ProductType /\ t.current_idx \in Nat
    BY <1>1, LenProperties DEF Talk
  <1>3. p \in Wizard!ProductType /\ p.sell_price /\ p.profit
    BY <1>1, <1>2 DEF Wizard!ProductType
  <1>4. /\ u \in Talk /\ DOMAIN u.products = DOMAIN t.products /\ u.products[t.current_idx] = p
        /\ \A j \in DOMAIN t.products : j # t.current_idx => u.products[j] = t.products[j]
        /\ u.current_idx = t.current_idx /\ u.done = t.done
    <2> HIDE DEF p
    <2> QED
      BY <1>1, <1>3, ProductSet
  <1>5. Wizard!Profit(t, m) \in {t, Wizard!OnTo(u, "ask_quantity")}
    <2>1. [t.products[t.current_idx] EXCEPT !.profit = @ \/ t.products[t.current_idx].sell_price] = p
      BY <1>1, <1>2 DEF Wizard!ProductType
    <2>2. CASE Wizard!GivesPercent(m)
      BY <2>1, <2>2 DEF Wizard!Profit, Wizard!SetCurrent, Wizard!Current
    <2>3. CASE ~Wizard!GivesPercent(m)
      BY <2>3 DEF Wizard!Profit, Wizard!SetCurrent, Wizard!Current
    <2> QED
      BY <2>2, <2>3
  <1> HIDE DEF u, p
  <1>6. \A i \in DOMAIN u.products : i <= u.current_idx => Priced(u.products[i])
    BY <1>1, <1>2, <1>3, <1>4 DEF Priced
  <1>7. Sound(Wizard!OnTo(u, "ask_quantity"))
    BY <1>1, <1>4, <1>6, OnwardSound
  <1> QED
    BY <1>5, <1>7

\* Behind the two questions nothing changes a price, but the correction, which adds them.
LEMMA LaterSound ==
    ASSUME NEW t, Sound(t), NEW step \in {"ask_conditions", "confirm"},
           t.step \in {"ask_quantity", "ask_conditions", "confirm"},
           NEW several \in BOOLEAN, NEW conditions \in BOOLEAN
    PROVE  /\ Sound([t EXCEPT !.several = several, !.step = step])
           /\ Sound([t EXCEPT !.conditions = conditions, !.step = step])
           /\ Sound([t EXCEPT !.step = step])
           /\ Sound([t EXCEPT !.several = several])
           /\ Sound([t EXCEPT !.conditions = conditions])
  BY DEF Sound, Talk, Wizard!Steps

LEMMA QuantitySound ==
    ASSUME NEW t, Sound(t), t.step = "ask_quantity", NEW m \in WizardTexts
    PROVE  Sound(Wizard!HowMany(t, m))
  BY LaterSound DEF Wizard!HowMany, Wizard!Ask

LEMMA ConditionsSound ==
    ASSUME NEW t, Sound(t), t.step = "ask_conditions", NEW m \in WizardTexts
    PROVE  Sound(Wizard!WhichConditions(t, m))
  BY LaterSound DEF Wizard!WhichConditions, Wizard!Ask

LEMMA CorrectSound ==
    ASSUME NEW t, Sound(t), t.step = "confirm", NEW m \in WizardTexts
    PROVE  Sound(Wizard!CorrectLast(t, m))
  <1> DEFINE n == Len(t.products)
             sold == t.products[n].sell_price \/ Wizard!PriceCount(m) > 0
             gain == \/ t.products[n].profit
                     \/ t.products[n].sell_price /\ Wizard!PriceCount(m) > 0
                     \/ sold /\ Wizard!GivesPercent(m)
             p == [[t.products[n] EXCEPT !.sell_price = sold] EXCEPT !.profit = gain]
             u == [t EXCEPT !.products[n] = p]
  <1>1. /\ t \in Talk /\ ~t.done /\ t.products # <<>>
        /\ \A i \in DOMAIN t.products : Priced(t.products[i])
    BY DEF Sound
  <1>2. /\ t.products \in Seq(Wizard!ProductType) /\ n \in Nat /\ n # 0
        /\ DOMAIN t.products = 1 .. n
    BY <1>1, LenProperties, EmptySeq DEF Talk
  <1>3. /\ n \in DOMAIN t.products /\ t.products[n] \in Wizard!ProductType
        /\ t.products[n].sell_price = TRUE /\ t.products[n].profit = TRUE
    <2>1. n \in DOMAIN t.products /\ t.products[n] \in Wizard!ProductType
      BY <1>2, LenProperties
    <2>2. t.products[n].sell_price \in BOOLEAN /\ t.products[n].profit \in BOOLEAN
      BY <2>1 DEF Wizard!ProductType
    <2>3. t.products[n].sell_price /\ t.products[n].profit
      BY <1>1, <2>1 DEF Priced
    <2> QED
      BY <2>1, <2>2, <2>3
  <1>4. sold = TRUE /\ gain = TRUE
    BY <1>3
  <1>5. p = t.products[n]
    BY <1>3, <1>4 DEF Wizard!ProductType
  <1>6. [t.products EXCEPT ![n] = p] = t.products
    BY <1>2, <1>5
  <1>7. Wizard!CorrectLast(t, m) = [t EXCEPT !.products[n].sell_price = sold, !.products[n].profit = gain]
    BY <1>2 DEF Wizard!CorrectLast
  <1>8. Wizard!CorrectLast(t, m) = [t EXCEPT !.products = t.products]
    BY <1>1, <1>2, <1>3, <1>4, <1>6, <1>7 DEF Talk
  <1>9. Wizard!CorrectLast(t, m) = t
    BY <1>1, <1>8 DEF Talk
  <1> QED
    BY <1>9

\* New models at the confirmation: the first of them is asked about.
LEMMA UnpricedSound ==
    ASSUME NEW t, Sound(t), t.step = "confirm", NEW m \in WizardTexts,
           Wizard!NewModels(t, m) # <<>>
    PROVE  Sound(Wizard!AskUnpriced(Wizard!AddProducts(t, m)))
  <1> DEFINE u == Wizard!AddProducts(t, m)
             unpriced == {i \in DOMAIN u.products : ~u.products[i].sell_price}
             n == Len(t.products)
             first == CHOOSE i \in unpriced : \A j \in unpriced : i <= j
             v == [u EXCEPT !.current_idx = first, !.step = "ask_sell_price"]
  <1>1. t \in Talk /\ ~t.done /\ \A i \in DOMAIN t.products : Priced(t.products[i])
    BY DEF Sound
  <1>2. /\ u \in Talk /\ n < Len(u.products) /\ u.done = t.done
        /\ \A i \in DOMAIN t.products : u.products[i] = t.products[i]
        /\ \A i \in DOMAIN u.products \ DOMAIN t.products : ~u.products[i].sell_price
    BY <1>1, ProductsAdded
  <1> HIDE DEF u
  <1>3. /\ n \in Nat /\ Len(u.products) \in Nat
        /\ DOMAIN t.products = 1 .. n /\ DOMAIN u.products = 1 .. Len(u.products)
    BY <1>1, <1>2, LenProperties DEF Talk
  <1>4. \A i \in 1 .. n : Priced(u.products[i])
    BY <1>1, <1>2, <1>3
  <1>5. unpriced = n + 1 .. Len(u.products)
    <2>1. \A i \in 1 .. n : u.products[i].sell_price
      BY <1>4 DEF Priced
    <2>2. \A i \in n + 1 .. Len(u.products) : ~u.products[i].sell_price
      BY <1>2, <1>3
    <2> QED
      BY <1>3, <2>1, <2>2
  <1> HIDE DEF unpriced
  <1>6. first = n + 1 /\ unpriced # {}
    <2>1. n + 1 \in unpriced /\ \A j \in unpriced : n + 1 <= j
      BY <1>2, <1>3, <1>5
    <2>2. first \in unpriced /\ \A j \in unpriced : first <= j
      BY <2>1
    <2> HIDE DEF first
    <2>3. first \in Int /\ first <= n + 1 /\ n + 1 <= first
      BY <1>3, <1>5, <2>1, <2>2
    <2> QED
      BY <1>3, <2>1, <2>3
  <1>7. Wizard!AskUnpriced(u) = v
    BY <1>6 DEF Wizard!AskUnpriced, unpriced
  <1> HIDE DEF first
  <1>8. /\ v \in Talk /\ v.step = "ask_sell_price" /\ v.products = u.products
        /\ v.current_idx = n + 1 /\ v.done = u.done
    <2>1. first \in Nat \ {0} /\ "ask_sell_price" \in Wizard!Steps
      BY <1>3, <1>6 DEF Wizard!Steps
    <2> QED
      BY <1>2, <1>6, <2>1 DEF Talk
  <1> HIDE DEF v
  <1>9. n + 1 \in DOMAIN u.products /\ \A i \in DOMAIN u.products : i < n + 1 => Priced(u.products[i])
    BY <1>2, <1>3, <1>4
  <1>10. Sound(v)
    BY <1>1, <1>2, <1>8, <1>9 DEF Sound
  <1> QED
    BY <1>7, <1>10 DEF u

LEMMA ConfirmSound ==
    ASSUME NEW t, Sound(t), t.step = "confirm", NEW m \in WizardTexts
    PROVE  Sound(Wizard!Confirm(t, m))
  <1> DEFINE v == [[t EXCEPT !.step = "done"] EXCEPT !.done = TRUE]
  <1>1. Sound(v)
    BY DEF Sound, Talk, Wizard!Steps
  <1>2. /\ Sound([t EXCEPT !.several = TRUE]) /\ Sound([t EXCEPT !.conditions = TRUE])
    BY LaterSound
  <1>3. Sound(Wizard!CorrectLast(t, m))
    BY CorrectSound
  <1> QED
    BY <1>1, <1>2, <1>3 DEF Wizard!Confirm, Wizard!Ask

\* The first models: the first of them is asked about.
LEMMA FirstSound ==
    ASSUME NEW t, Sound(t), t.products = <<>>, NEW m \in WizardTexts
    PROVE  /\ t.step \in {"greeting", "ask_products"} /\ ~t.done
           /\ Wizard!Named(m) # <<>> => Sound(Wizard!FirstProducts(t, m))
           /\ Wizard!Named(m) = <<>> => Wizard!MoreProducts(t, m) = t
           /\ Sound([t EXCEPT !.step = "ask_products"])
  <1> DEFINE u == Wizard!AddProducts(t, m)
             v == [u EXCEPT !.step = "ask_sell_price", !.current_idx = 1]
  <1>1. t \in Talk /\ t.step \in {"greeting", "ask_products"} /\ ~t.done
    BY DEF Sound, Talk, Wizard!Steps
  <1>2. Sound([t EXCEPT !.step = "ask_products"])
    BY <1>1 DEF Sound, Talk, Wizard!Steps
  <1>3. DOMAIN t.products = {}
    OBVIOUS
  <1>4. \A n : ~Wizard!Has(t, n)
    BY <1>3 DEF Wizard!Has
  <1>5. ASSUME Wizard!Named(m) # <<>>
        PROVE  Sound(v)
    <2>1. Wizard!Named(m) \in {<<"X", "XR">>, <<"X">>, <<m>>}
      BY <1>5 DEF Wizard!Named
    <2>2. Wizard!NewModels(t, m) # <<>>
      BY <1>4, <2>1 DEF Wizard!NewModels
    <2>3. /\ u \in Talk /\ Len(t.products) < Len(u.products) /\ u.done = t.done
      BY <1>1, <2>2, ProductsAdded
    <2> HIDE DEF u
    <2>4. /\ v \in Talk /\ v.step = "ask_sell_price" /\ v.products = u.products
          /\ v.current_idx = 1 /\ v.done = u.done
      <3>1. 1 \in Nat \ {0} /\ "ask_sell_price" \in Wizard!Steps
        BY DEF Wizard!Steps
      <3> QED
        BY <2>3, <3>1 DEF Talk
    <2>5. /\ DOMAIN u.products = 1 .. Len(u.products) /\ Len(u.products) \in Nat
          /\ Len(t.products) = 0
      BY <1>1, <2>3, LenProperties DEF Talk
    <2>6. 1 \in DOMAIN u.products /\ \A i \in DOMAIN u.products : ~(i < 1)
      BY <2>3, <2>5
    <2> HIDE DEF v
    <2> QED
      BY <1>1, <2>3, <2>4, <2>6 DEF Sound
  <1>6. ASSUME Wizard!Named(m) = <<>>
        PROVE  Wizard!MoreProducts(t, m) = t
    <2>1. Wizard!NewModels(t, m) = <<>>
      BY <1>6 DEF Wizard!NewModels
    <2>2. u = t
      BY <1>1, <2>1, ProductsAdded
    <2> QED
      BY <2>2 DEF Wizard!MoreProducts
  <1> QED
    BY <1>1, <1>2, <1>5, <1>6 DEF Wizard!FirstProducts

LEMMA GatherSound ==
    ASSUME NEW t, Sound(t), NEW m
    PROVE  Sound(Wizard!Gather(t, m)) /\ Wizard!Gather(t, m).products = t.products
  <1> DEFINE several == t.several \/ Wizard!GivesQuantity(m)
             conditions == t.conditions \/ Wizard!NamesConditions(m)
             u == [t EXCEPT !.several = several, !.conditions = conditions]
  <1>1. several \in BOOLEAN /\ conditions \in BOOLEAN
    BY DEF Sound, Talk, Wizard!GivesQuantity, Wizard!NamesConditions
  <1>2. Wizard!Gather(t, m) = u
    BY DEF Wizard!Gather
  <1> HIDE DEF several, conditions
  <1>3. /\ u \in Talk /\ u.step = t.step /\ u.products = t.products
        /\ u.current_idx = t.current_idx /\ u.done = t.done
    BY <1>1 DEF Sound, Talk
  <1> HIDE DEF u
  <1> QED
    BY <1>2, <1>3 DEF Sound

LEMMA ReplySound ==
    ASSUME NEW t, Sound(t), NEW m \in WizardTexts, ~Wizard!Greets(t, m)
    PROVE  Sound(Wizard!Reply(t, m))
  <1>1. CASE t.products = <<>>
    <2>1. /\ t.step \in {"greeting", "ask_products"}
          /\ Wizard!Named(m) # <<>> => Sound(Wizard!FirstProducts(t, m))
          /\ Wizard!Named(m) = <<>> => Wizard!MoreProducts(t, m) = t
          /\ Sound([t EXCEPT !.step = "ask_products"])
      BY <1>1, FirstSound
    <2>2. Wizard!AnswerTo(t, m) = Wizard!MoreProducts(t, m)
      BY <2>1 DEF Wizard!AnswerTo
    <2>3. ~Wizard!SmallTalk(t, m)
      BY <1>1 DEF Wizard!SmallTalk
    <2>4. ~Wizard!IsGreeting(m)
      BY <1>1 DEF Wizard!Greets
    <2>5. CASE ~Wizard!IsGreeting(m) /\ Wizard!Named(m) # <<>>
      BY <1>1, <2>1, <2>3, <2>5 DEF Wizard!Reply
    <2>6. CASE ~Wizard!IsGreeting(m) /\ Wizard!Named(m) = <<>>
      BY <1>1, <2>1, <2>2, <2>3, <2>6 DEF Wizard!Reply
    <2> QED
      BY <2>4, <2>5, <2>6
  <1>2. CASE t.products # <<>>
    <2>1. Wizard!Reply(t, m) \in {t, Wizard!AnswerTo(t, m)}
      BY <1>2 DEF Wizard!Reply
    <2>2. t.step \notin {"greeting", "ask_products"}
      BY <1>2 DEF Sound
    <2>3. Wizard!AnswerTo(t, m) = t \/ Sound(Wizard!AnswerTo(t, m))
      BY <2>2, SellPriceSound, ProfitSound, QuantitySound, ConditionsSound, ConfirmSound
      DEF Wizard!AnswerTo
    <2> QED
      BY <2>1, <2>3
  <1> QED
    BY <1>1, <1>2

LEMMA FreshSound == Sound(Wizard!Fresh)
  BY DEF Wizard!Fresh, Sound, Talk, Wizard!Steps

\* A message is handled while no other request waits.
LEMMA HandleSound ==
    ASSUME Sound(talk), DOMAIN replying = Requests, NEW r \in Requests, NEW m \in WizardTexts,
           \A q \in Wizard!Waiting : q = r, Wizard!Handle(r, talk, m)
    PROVE  WizardInv'
  <1>1. PICK u : u = Wizard!Gather(talk, m)
    OBVIOUS
  <1>2. Sound(u)
    BY <1>1, GatherSound
  <1>3. ASSUME NEW kind, replying' = [replying EXCEPT ![r] = kind]
        PROVE  /\ DOMAIN replying' = Requests /\ replying'[r] = kind
               /\ \A q \in Wizard!Waiting' : q = r /\ kind # Wizard!Nothing
    BY <1>3 DEF Wizard!Waiting
  <1>4. CASE /\ Wizard!Greets(u, m) /\ talk' = u
             /\ replying' = [replying EXCEPT ![r] = Wizard!Left("greet", "none")]
    <2>1. /\ DOMAIN replying' = Requests /\ replying'[r].kind = "greet"
          /\ \A q \in Wizard!Waiting' : q = r
      BY <1>3, <1>4 DEF Wizard!Left
    <2>2. Sound(talk)' /\ talk'.products = <<>>
      BY <1>2, <1>4 DEF Wizard!Greets
    <2>3. Unfinished(r)'
      BY <2>1, <2>2 DEF Unfinished
    <2> QED
      BY <2>1, <2>2, <2>3 DEF WizardInv
  <1>5. CASE /\ Wizard!Adds(u, m) /\ talk' = Wizard!AddProducts(u, m)
             /\ replying' = [replying EXCEPT ![r] = Wizard!Left("added", "none")]
    <2>1. /\ DOMAIN replying' = Requests /\ replying'[r].kind = "added"
          /\ replying'[r] # Wizard!Nothing /\ \A q \in Wizard!Waiting' : q = r
      BY <1>3, <1>5 DEF Wizard!Left, Wizard!Nothing
    <2>2. r \in Wizard!Waiting'
      BY <2>1 DEF Wizard!Waiting
    <2>3. Sound(Wizard!AskUnpriced(Wizard!AddProducts(u, m)))
      BY <1>2, <1>5, UnpricedSound DEF Wizard!Adds
    <2>4. u \in Talk /\ u.step = "confirm" /\ ~u.done
      BY <1>2, <1>5 DEF Sound, Wizard!Adds
    <2>5. Wizard!AddProducts(u, m).done = u.done
      BY <2>4, ProductsAdded
    <2>6. Unfinished(r)'
      BY <1>5, <2>1, <2>3, <2>4, <2>5 DEF Unfinished
    <2> QED
      BY <2>1, <2>2, <2>6 DEF WizardInv
  <1>6. CASE /\ ~Wizard!Greets(u, m) /\ ~Wizard!Adds(u, m) /\ talk' = Wizard!Reply(u, m)
             /\ replying' = [replying EXCEPT ![r] = Wizard!Nothing]
    <2>1. DOMAIN replying' = Requests /\ Wizard!Waiting' = {}
      BY <1>3, <1>6
    <2>2. Sound(talk)'
      BY <1>2, <1>6, ReplySound
    <2> QED
      BY <2>1, <2>2 DEF WizardInv
  <1> QED
    BY <1>1, <1>4, <1>5, <1>6 DEF Wizard!Handle

\* The session is started again, by a request that did not wait.
LEMMA StartSound ==
    ASSUME DOMAIN replying = Requests, NEW r \in Requests, NEW text, Wizard!Start(r, text)
    PROVE  WizardInv'
  <1>1. /\ DOMAIN replying' = Requests /\ replying'[r].kind = "start" /\ Sound(talk)'
        /\ hurried' = (Wizard!Waiting # {})
    BY FreshSound DEF Wizard!Start, Wizard!Left
  <1>2. ASSUME Wizard!Waiting = {}
        PROVE  \A q \in Wizard!Waiting' : q = r
    BY <1>2 DEF Wizard!Start, Wizard!Waiting
  <1>3. Unfinished(r)'
    BY <1>1 DEF Unfinished
  <1> QED
    BY <1>1, <1>2, <1>3 DEF WizardInv

LEMMA FinishSound ==
    ASSUME WizardInv, NEW r \in Requests, Wizard!Finish(r)
    PROVE  WizardInv'
  <1>1. hurried' = hurried /\ DOMAIN replying = Requests
    BY DEF Wizard!Finish, WizardInv
  <1>2. replying[r] # Wizard!Nothing
    BY DEF Wizard!Finish, Wizard!Nothing, Wizard!Left
  <1>3. CASE hurried
    <2>1. DOMAIN replying' = Requests
      BY <1>1 DEF Wizard!Finish, Wizard!Handle
    <2> QED
      BY <1>1, <1>3, <2>1 DEF WizardInv
  <1>4. CASE ~hurried
    <2>1. /\ r \in Wizard!Waiting /\ Unfinished(r)
          /\ \A q \in Wizard!Waiting : q = r
      BY <1>2, <1>4 DEF WizardInv, Wizard!Waiting
    <2>2. ASSUME replying' = [replying EXCEPT ![r] = Wizard!Nothing], Sound(talk)'
          PROVE  WizardInv'
      <3>1. DOMAIN replying' = Requests /\ Wizard!Waiting' = {}
        BY <1>1, <2>1, <2>2 DEF Wizard!Waiting
      <3> QED
        BY <2>2, <3>1 DEF WizardInv
    <2>3. CASE replying[r].kind = "start" /\ replying[r].text \in WizardTexts
               /\ Wizard!Handle(r, talk, replying[r].text)
      BY <1>1, <2>1, <2>3, HandleSound DEF Unfinished
    <2>4. CASE /\ replying[r] = Wizard!Left("start", "none")
               /\ replying' = [replying EXCEPT ![r] = Wizard!Nothing] /\ UNCHANGED talk
      <3>1. replying[r].kind # "added"
        BY <2>4 DEF Wizard!Left
      <3>2. Sound(talk)
        BY <2>1, <3>1 DEF Unfinished
      <3> QED
        BY <2>2, <2>4, <3>2
    <2>5. CASE /\ replying[r].kind = "greet" /\ talk' = Wizard!Ask(talk, "ask_products")
               /\ replying' = [replying EXCEPT ![r] = Wizard!Nothing]
      <3>1. Sound(talk) /\ talk.products = <<>>
        BY <2>1, <2>5 DEF Unfinished
      <3>2. Sound([talk EXCEPT !.step = "ask_products"])
        <4>1. talk.step \in {"greeting", "ask_products"} /\ ~talk.done
          BY <3>1 DEF Sound, Talk, Wizard!Steps
        <4> QED
          BY <3>1, <4>1 DEF Sound, Talk, Wizard!Steps
      <3> QED
        BY <2>2, <2>5, <3>2 DEF Wizard!Ask
    <2>6. CASE /\ replying[r].kind = "added" /\ talk' = Wizard!AskUnpriced(talk)
               /\ replying' = [replying EXCEPT ![r] = Wizard!Nothing]
      BY <2>1, <2>2, <2>6 DEF Unfinished
    <2> QED
      BY <2>3, <2>4, <2>5, <2>6 DEF Wizard!Finish
  <1> QED
    BY <1>3, <1>4

LEMMA WizardStep == WizardInv /\ [Next]_vars => WizardInv'
  <1> SUFFICES ASSUME WizardInv, [Next]_vars
               PROVE  WizardInv'
    OBVIOUS
  <1>0. DOMAIN replying = Requests
    BY DEF WizardInv
  <1>1. Wizard!Next \/ UNCHANGED wizard
    BY DEF Next, vars, InWizard, InTira, InBot, InHunter, InGate
  <1>2. ASSUME NEW r \in Requests, Wizard!Open(r)
        PROVE  WizardInv'
    BY <1>0, <1>2, StartSound DEF Wizard!Open
  <1>3. ASSUME NEW r \in Requests, NEW m \in WizardTexts, Wizard!Chat(r, m)
        PROVE  WizardInv'
    <2>1. CASE Wizard!Start(r, m)
      BY <1>0, <2>1, StartSound
    <2>2. CASE /\ Wizard!Handle(r, talk, m) /\ hurried' = (hurried \/ Wizard!Waiting # {})
      <3>1. CASE hurried \/ Wizard!Waiting # {}
        <4>1. DOMAIN replying' = Requests
          BY <1>0, <2>2 DEF Wizard!Handle
        <4> QED
          BY <2>2, <3>1, <4>1 DEF WizardInv
      <3>2. CASE ~hurried /\ Wizard!Waiting = {}
        BY <1>0, <2>2, <3>2, HandleSound DEF WizardInv
      <3> QED
        BY <3>1, <3>2
    <2> QED
      BY <1>3, <2>1, <2>2 DEF Wizard!Chat
  <1>4. ASSUME NEW r \in Requests, Wizard!Finish(r)
        PROVE  WizardInv'
    BY <1>4, FinishSound
  <1>5. CASE UNCHANGED wizard
    BY <1>5 DEF WizardInv, Unfinished, Wizard!Waiting
  <1> QED
    BY <1>1, <1>2, <1>3, <1>4, <1>5 DEF Wizard!Next

\* A configuration reported ready has a sell price and a profit for every model, whatever the
\* user writes and however often the models change at the confirmation, unless a request was
\* handled while another was waiting for the language model (handle_user).
THEOREM ReadyHasPrices == Spec => []ReadyIsPriced
  <1>1. Init => WizardInv
    BY FreshSound DEF Init, Wizard!Init, WizardInv, Wizard!Waiting
  <1>2. WizardInv => ReadyIsPriced
    <2> SUFFICES ASSUME WizardInv, talk.done, ~hurried
                 PROVE  Wizard!AllPriced
      BY DEF ReadyIsPriced, Wizard!ReadyIsPriced
    <2>1. Sound(talk)
      BY DEF WizardInv, Unfinished
    <2> QED
      BY <2>1 DEF Sound, Priced, Wizard!AllPriced
  <1> QED
    BY <1>1, <1>2, WizardStep, PTL DEF Spec

-----------------------------------------------------------------------------
(* Tira *)

Hunt == [step : Tira!Steps, variants_all : Seq(Tira!Names), variants_selected : Seq(Tira!Names),
         current_variant_idx : Nat \ {0}, sold : SUBSET Tira!Names, gain : SUBSET Tira!Names,
         filled : SUBSET Tira!Names, conditions : BOOLEAN]

\* Both questions about variant i were answered, or it was filled in.
Done(t, i) ==
    \/ t.variants_selected[i] \in t.filled
    \/ t.variants_selected[i] \in t.sold /\ t.variants_selected[i] \in t.gain

\* The variants before the one asked about are done, and all of them are behind the two
\* questions.
Settled(t) ==
    /\ t \in Hunt
    /\ t.step = "start" => t = Tira!Fresh
    /\ t.step \in {"ask_variants", "ask_condition_new_used"} => t.current_variant_idx = 1
    /\ t.step = "ask_variants" => t.variants_all # <<>>
    /\ t.step = "ask_condition_new_used" => t.variants_selected # <<>>
    /\ t.step \in {"ask_sell_price", "ask_profit"} =>
           /\ t.current_variant_idx \in DOMAIN t.variants_selected
           /\ \A i \in DOMAIN t.variants_selected : i < t.current_variant_idx => Done(t, i)
    /\ t.step = "ask_profit" => t.variants_selected[t.current_variant_idx] \in t.sold
    /\ t.step \in {"ask_details", "confirm", "done"} =>
           t.variants_selected # <<>> /\ \A i \in DOMAIN t.variants_selected : Done(t, i)

\* Of a talk in which no message was handled while another waited, the one that waits
\* still finds the question it answers.
StillAsked(w) ==
    /\ awaits[w].kind = "product" => hunt.step = "start" /\ awaits[w].name \in TiraTexts
    /\ awaits[w].kind # "product" =>
           /\ hunt.step = "ask_sell_price"
           /\ awaits[w].name = hunt.variants_selected[hunt.current_variant_idx]

TiraInv ==
    /\ DOMAIN awaits = Requests
    /\ ~overlapped =>
           /\ Settled(hunt)
           /\ \A w \in Tira!Waiting : StillAsked(w)
           /\ \A w, v \in Tira!Waiting : w = v

LEMMA TiraFresh == Settled(Tira!Fresh)
  BY EmptySeq DEF Tira!Fresh, Settled, Hunt, Tira!Steps

\* The price of the current variant is known.
LEMMA SoldSettled ==
    ASSUME NEW t, Settled(t), t.step \in {"ask_condition_new_used", "ask_sell_price"}
    PROVE  Settled(Tira!Sold(t, t.variants_selected[t.current_variant_idx]))
  <1> DEFINE c == t.variants_selected[t.current_variant_idx]
             u == [t EXCEPT !.sold = t.sold \cup {c}, !.step = "ask_profit"]
  <1>1. /\ t \in Hunt /\ t.current_variant_idx \in Nat
        /\ t.variants_selected \in Seq(Tira!Names)
        /\ t.current_variant_idx \in DOMAIN t.variants_selected
        /\ \A i \in DOMAIN t.variants_selected : i < t.current_variant_idx => Done(t, i)
    <2>1. t \in Hunt /\ t.variants_selected \in Seq(Tira!Names) /\ t.current_variant_idx \in Nat
      BY DEF Settled, Hunt
    <2>2. CASE t.step = "ask_sell_price"
      BY <2>1, <2>2 DEF Settled
    <2>3. CASE t.step = "ask_condition_new_used"
      <3>1. t.current_variant_idx = 1 /\ t.variants_selected # <<>>
        BY <2>3 DEF Settled
      <3>2. DOMAIN t.variants_selected = 1 .. Len(t.variants_selected)
            /\ Len(t.variants_selected) \in Nat /\ Len(t.variants_selected) # 0
        BY <2>1, <3>1, LenProperties, EmptySeq
      <3> QED
        BY <2>1, <3>1, <3>2
    <2> QED
      BY <2>2, <2>3
  <1>2. c \in Tira!Names
    BY <1>1
  <1>3. Tira!Sold(t, c) = u
    BY <1>1 DEF Tira!Sold, Tira!Ask, Hunt
  <1>4. /\ u \in Hunt /\ u.step = "ask_profit" /\ u.sold = t.sold \cup {c} /\ u.gain = t.gain
        /\ u.filled = t.filled
        /\ u.variants_selected = t.variants_selected
        /\ u.current_variant_idx = t.current_variant_idx
    <2>1. t.sold \cup {c} \in SUBSET Tira!Names
      BY <1>1, <1>2 DEF Hunt
    <2> HIDE DEF c
    <2> QED
      BY <1>1, <2>1 DEF Hunt, Tira!Steps
  <1> HIDE DEF u
  <1>5. \A i \in DOMAIN t.variants_selected : i < t.current_variant_idx => Done(u, i)
    BY <1>1, <1>4 DEF Done
  <1>6. Settled(u)
    BY <1>1, <1>4, <1>5 DEF Settled
  <1> QED
    BY <1>3, <1>6

\* The missing prices and profits are filled in.
LEMMA FillInSettled ==
    ASSUME NEW t, Settled(t), t.step \in {"ask_sell_price", "ask_profit"},
           NEW step \in {"ask_details", "confirm"}
    PROVE  Settled(Tira!FillIn(t, step))
  <1> DEFINE all == Tira!Selected(t)
             new == t.filled \cup (all \ (t.sold \cap t.gain))
             u == [t EXCEPT !.filled = new, !.conditions = TRUE, !.step = step]
  <1>1. /\ t \in Hunt /\ t.variants_selected \in Seq(Tira!Names) /\ t.variants_selected # <<>>
    BY EmptySeq DEF Settled, Hunt
  <1>2. \A i \in DOMAIN t.variants_selected : t.variants_selected[i] \in all
    BY DEF Tira!Selected, Tira!ToSet
  <1>3. all \subseteq Tira!Names
    BY <1>1, ElementOfSeq, LenProperties DEF Tira!Selected, Tira!ToSet
  <1>4. Tira!FillIn(t, step) = u
    BY <1>1 DEF Tira!FillIn, Tira!Ask, Hunt
  <1> HIDE DEF all
  <1>5. /\ u \in Hunt /\ u.step = step /\ u.filled = new /\ u.sold = t.sold /\ u.gain = t.gain
        /\ u.variants_selected = t.variants_selected
    <2>1. new \in SUBSET Tira!Names /\ step \in Tira!Steps
      BY <1>1, <1>3 DEF Hunt, Tira!Steps
    <2> HIDE DEF new
    <2> QED
      BY <1>1, <2>1 DEF Hunt
  <1> HIDE DEF u
  <1>6. \A i \in DOMAIN t.variants_selected : Done(u, i)
    BY <1>2, <1>5 DEF Done
  <1>7. Settled(u)
    BY <1>1, <1>5, <1>6 DEF Settled
  <1> QED
    BY <1>4, <1>7

LEMMA TiraPriceSettled ==
    ASSUME NEW t, Settled(t), t.step = "ask_sell_price", NEW m
    PROVE  Settled(Tira!SellPrice(t, m))
  <1>1. Settled(Tira!FillIn(t, "confirm")) /\ Settled(Tira!FillIn(t, "ask_details"))
    BY FillInSettled
  <1>2. Settled(Tira!Sold(t, Tira!Current(t)))
    BY SoldSettled DEF Tira!Current
  <1> QED
    BY <1>1, <1>2 DEF Tira!SellPrice

\* The profit of the current variant is known: the next one is asked about, or all are done.
LEMMA TiraProfitSettled ==
    ASSUME NEW t, Settled(t), t.step = "ask_profit", NEW m
    PROVE  Settled(Tira!Profit(t, m))
  <1> DEFINE n == t.current_variant_idx
             c == t.variants_selected[n]
             u == [t EXCEPT !.gain = t.gain \cup {c}]
             next == [u EXCEPT !.current_variant_idx = n + 1, !.step = "ask_sell_price"]
             final == [u EXCEPT !.step = "ask_details"]
  <1>1. /\ t \in Hunt /\ n \in Nat /\ t.variants_selected \in Seq(Tira!Names)
        /\ n \in DOMAIN t.variants_selected /\ c \in t.sold
        /\ \A i \in DOMAIN t.variants_selected : i < n => Done(t, i)
    BY DEF Settled, Hunt
  <1>2. /\ DOMAIN t.variants_selected = 1 .. Len(t.variants_selected)
        /\ Len(t.variants_selected) \in Nat /\ c \in Tira!Names
    BY <1>1, LenProperties, ElementOfSeq
  <1>3. Settled(Tira!FillIn(t, "confirm"))
    BY FillInSettled
  <1>4. Tira!Profit(t, m) \in {t, Tira!FillIn(t, "confirm"),
                               IF n < Len(t.variants_selected) THEN next ELSE final}
    BY <1>1 DEF Tira!Profit, Tira!Current, Tira!Ask, Hunt
  <1>5. /\ u \in Hunt /\ u.gain = t.gain \cup {c} /\ u.sold = t.sold /\ u.filled = t.filled
        /\ u.variants_selected = t.variants_selected /\ u.current_variant_idx = n
    <2>1. t.gain \cup {c} \in SUBSET Tira!Names
      BY <1>1, <1>2 DEF Hunt
    <2> HIDE DEF c
    <2> QED
      BY <1>1, <2>1 DEF Hunt
  <1> HIDE DEF u
  <1>6. \A i \in DOMAIN t.variants_selected : i <= n => Done(u, i)
    BY <1>1, <1>2, <1>5 DEF Done
  <1>7. CASE n < Len(t.variants_selected)
    <2>1. /\ next \in Hunt /\ next.step = "ask_sell_price" /\ next.gain = u.gain /\ next.sold = u.sold
          /\ next.filled = u.filled
          /\ next.variants_selected = t.variants_selected /\ next.current_variant_idx = n + 1
      <3>1. n + 1 \in Nat \ {0} /\ "ask_sell_price" \in Tira!Steps
        BY <1>1 DEF Tira!Steps
      <3> HIDE DEF n
      <3> QED
        BY <1>5, <3>1 DEF Hunt
    <2> HIDE DEF next
    <2>2. n + 1 \in DOMAIN t.variants_selected
      BY <1>1, <1>2, <1>7
    <2>3. \A i \in DOMAIN t.variants_selected : i <= n => Done(next, i)
      BY <1>5, <1>6, <2>1 DEF Done
    <2>4. \A i \in DOMAIN t.variants_selected : i < n + 1 => i <= n
      BY <1>1, <1>2
    <2>5. Settled(next)
      BY <1>1, <2>1, <2>2, <2>3, <2>4 DEF Settled
    <2> QED
      BY <1>3, <1>4, <1>7, <2>5
  <1>8. CASE ~(n < Len(t.variants_selected))
    <2>1. /\ final \in Hunt /\ final.step = "ask_details" /\ final.gain = u.gain /\ final.sold = u.sold
          /\ final.filled = u.filled
          /\ final.variants_selected = t.variants_selected
      BY <1>5 DEF Hunt, Tira!Steps
    <2> HIDE DEF final
    <2>2. \A i \in DOMAIN t.variants_selected : i <= n
      BY <1>1, <1>2, <1>8
    <2>3. \A i \in DOMAIN t.variants_selected : Done(final, i)
      BY <1>5, <1>6, <2>1, <2>2 DEF Done
    <2>4. Settled(final)
      BY <1>1, <2>1, <2>3, EmptySeq DEF Settled
    <2> QED
      BY <1>3, <1>4, <1>8, <2>4
  <1> QED
    BY <1>7, <1>8

LEMMA VariantsChosen ==
    ASSUME NEW t, Settled(t), t.step = "ask_variants", NEW m
    PROVE  Settled(Tira!ChooseVariants(t, m))
  <1> DEFINE all == t.variants_all
             meant(k) == IF k \in DOMAIN all /\ (m = "pro" => Tira!IsPro(all[k]))
                         THEN <<all[k]>> ELSE <<>>
             named == meant(1) \o meant(2)
             chosen == IF named = <<>> THEN all ELSE named
             u == [t EXCEPT !.variants_selected = chosen, !.current_variant_idx = 1,
                            !.step = "ask_condition_new_used"]
  <1>1. t \in Hunt /\ all \in Seq(Tira!Names) /\ all # <<>>
    BY DEF Settled, Hunt
  <1>2. \A k \in DOMAIN all : all[k] \in Tira!Names
    BY <1>1, LenProperties, ElementOfSeq
  <1>3. meant(1) \in Seq(Tira!Names) /\ meant(2) \in Seq(Tira!Names)
    BY <1>2
  <1>4. named \in Seq(Tira!Names)
    <2> HIDE DEF meant
    <2> QED
      BY <1>3, ConcatProperties
  <1>5. chosen \in Seq(Tira!Names) /\ chosen # <<>>
    <2> HIDE DEF named
    <2> QED
      BY <1>1, <1>4
  <1>6. Tira!ChooseVariants(t, m) = u
    BY DEF Tira!ChooseVariants, Tira!Ask
  <1> HIDE DEF chosen
  <1>7. /\ u \in Hunt /\ u.step = "ask_condition_new_used" /\ u.variants_selected = chosen
        /\ u.current_variant_idx = 1
    <2>1. 1 \in Nat \ {0} /\ "ask_condition_new_used" \in Tira!Steps
      BY DEF Tira!Steps
    <2> QED
      BY <1>1, <1>5, <2>1 DEF Hunt
  <1> HIDE DEF u
  <1>8. Settled(u)
    BY <1>5, <1>7 DEF Settled
  <1> QED
    BY <1>6, <1>8

LEMMA NewOrUsedSettled ==
    ASSUME NEW t, Settled(t), t.step = "ask_condition_new_used", NEW m
    PROVE  Settled(Tira!NewOrUsed(t, m))
  <1> DEFINE u == [t EXCEPT !.step = "ask_sell_price"]
  <1>1. /\ t \in Hunt /\ t.current_variant_idx = 1 /\ t.variants_selected \in Seq(Tira!Names)
        /\ t.variants_selected # <<>>
    BY DEF Settled, Hunt
  <1>2. /\ DOMAIN t.variants_selected = 1 .. Len(t.variants_selected)
        /\ Len(t.variants_selected) \in Nat /\ Len(t.variants_selected) # 0
    BY <1>1, LenProperties, EmptySeq
  <1>3. 1 \in DOMAIN t.variants_selected /\ \A i \in DOMAIN t.variants_selected : ~(i < 1)
    BY <1>2
  <1>4. /\ u \in Hunt /\ u.step = "ask_sell_price" /\ u.current_variant_idx = 1
        /\ u.variants_selected = t.variants_selected
    <2>1. "ask_sell_price" \in Tira!Steps
      BY DEF Tira!Steps
    <2> QED
      BY <1>1, <2>1 DEF Hunt
  <1>5. Tira!Ask(t, "ask_sell_price") = u
    BY DEF Tira!Ask
  <1> HIDE DEF u
  <1>6. Settled(u)
    BY <1>3, <1>4 DEF Settled
  <1>7. Settled(Tira!Sold(t, Tira!Current(t)))
    BY SoldSettled DEF Tira!Current
  <1> QED
    BY <1>5, <1>6, <1>7 DEF Tira!NewOrUsed

\* The questions behind the prices change no price.
LEMMA LaterSettled ==
    ASSUME NEW t, Settled(t), t.step \in {"ask_details", "confirm"},
           NEW step \in {"confirm", "done"}, NEW conditions \in BOOLEAN
    PROVE  Settled([t EXCEPT !.conditions = conditions, !.step = step])
  <1> DEFINE u == [t EXCEPT !.conditions = conditions, !.step = step]
  <1>1. /\ t \in Hunt /\ t.variants_selected # <<>>
        /\ \A i \in DOMAIN t.variants_selected : Done(t, i)
    BY DEF Settled
  <1>2. /\ u \in Hunt /\ u.step = step /\ u.sold = t.sold /\ u.gain = t.gain /\ u.filled = t.filled
        /\ u.variants_selected = t.variants_selected
    <2>1. step \in Tira!Steps
      BY DEF Tira!Steps
    <2> QED
      BY <1>1, <2>1 DEF Hunt
  <1> HIDE DEF u
  <1>3. \A i \in DOMAIN t.variants_selected : Done(u, i)
    BY <1>1, <1>2 DEF Done
  <1> QED
    BY <1>1, <1>2, <1>3 DEF Settled, u

LEMMA AnsweredSettled ==
    ASSUME NEW t, Settled(t), NEW m
    PROVE  Settled(Tira!Answered(t, m))
  <1>1. CASE t.step = "ask_details"
    <2>1. Tira!IsDetails(m) \/ Tira!IsSame(m) \in BOOLEAN
      BY DEF Tira!IsDetails, Tira!IsSame
    <2>2. Settled(Tira!Details(t, m))
      BY <1>1, <2>1, LaterSettled DEF Tira!Details, Tira!Ask
    <2> QED
      BY <1>1, <2>2 DEF Tira!Answered
  <1>2. CASE t.step = "confirm"
    <2>1. t.conditions \in BOOLEAN /\ t \in Hunt
      BY DEF Settled, Hunt
    <2>2. Settled([t EXCEPT !.conditions = t.conditions, !.step = "done"])
      BY <1>2, <2>1, LaterSettled
    <2>3. Tira!Ask(t, "done") = [t EXCEPT !.conditions = t.conditions, !.step = "done"]
      BY <2>1 DEF Tira!Ask, Hunt
    <2> QED
      BY <1>2, <2>2, <2>3 DEF Tira!Answered
  <1>3. CASE t.step \in {"ask_variants", "ask_condition_new_used", "ask_sell_price", "ask_profit"}
    BY <1>3, VariantsChosen, NewOrUsedSettled, TiraPriceSettled, TiraProfitSettled
    DEF Tira!Answered
  <1>4. CASE t.step \notin {"ask_variants", "ask_condition_new_used", "ask_sell_price",
                            "ask_profit", "ask_details", "confirm"}
    BY <1>4 DEF Tira!Answered
  <1> QED
    BY <1>1, <1>2, <1>3, <1>4

\* The product of a new hunt is found: its variants are asked about.
LEMMA ResearchedSettled ==
    ASSUME NEW m \in TiraTexts
    PROVE  Settled(Tira!Researched(Tira!Fresh, m))
  <1> DEFINE all == Tira!Variants(m)
             u == Tira!Researched(Tira!Fresh, m)
  <1>1. all \in Seq(Tira!Names) /\ all # <<>>
    <2>1. /\ "A" \in Tira!Names /\ "APro" \in Tira!Names /\ m \in Tira!Names
      BY DEF Tira!Names
    <2>2. /\ <<"A", "APro">> \in Seq(Tira!Names) /\ <<"A", "APro">> # <<>>
          /\ <<m>> \in Seq(Tira!Names) /\ <<m>> # <<>>
      BY <2>1
    <2> QED
      BY <2>2 DEF Tira!Variants
  <1>2. Tira!Fresh \in Hunt /\ Tira!Fresh.current_variant_idx = 1
    BY TiraFresh DEF Settled, Tira!Fresh
  <1> HIDE DEF all
  <1>3. CASE Len(all) > 1
    <2> DEFINE v == [Tira!Fresh EXCEPT !.variants_all = all, !.step = "ask_variants"]
    <2>1. u = v
      BY <1>2, <1>3 DEF Tira!Researched, Tira!Ask, all, Hunt
    <2>2. /\ v \in Hunt /\ v.step = "ask_variants" /\ v.variants_all = all
          /\ v.current_variant_idx = 1
      BY <1>1, <1>2 DEF Hunt, Tira!Steps
    <2> HIDE DEF v
    <2>3. Settled(v)
      BY <1>1, <2>2 DEF Settled
    <2> QED
      BY <2>1, <2>3
  <1>4. CASE ~(Len(all) > 1)
    <2> DEFINE v == [Tira!Fresh EXCEPT !.variants_all = all, !.variants_selected = all,
                                       !.step = "ask_condition_new_used"]
    <2>1. u = v
      BY <1>2, <1>4 DEF Tira!Researched, Tira!Ask, all, Hunt
    <2>2. /\ v \in Hunt /\ v.step = "ask_condition_new_used" /\ v.variants_selected = all
          /\ v.current_variant_idx = 1
      BY <1>1, <1>2 DEF Hunt, Tira!Steps
    <2> HIDE DEF v
    <2>3. Settled(v)
      BY <1>1, <2>2 DEF Settled
    <2> QED
      BY <2>1, <2>3
  <1> QED
    BY <1>3, <1>4

LEMMA TiraStep == TiraInv /\ [Next]_vars => TiraInv'
  <1> SUFFICES ASSUME TiraInv, [Next]_vars
               PROVE  TiraInv'
    OBVIOUS
  <1>1. Tira!Next \/ UNCHANGED <<hunt, awaits, overlapped>>
    BY DEF Next, vars, InWizard, InTira, InBot, InHunter, InGate
  <1>2. CASE Tira!Reset
    BY <1>2, TiraFresh DEF Tira!Reset, Tira!Waiting, TiraInv
  <1>3. ASSUME NEW w \in Requests, Tira!Found(w)
        PROVE  TiraInv'
    <2>1. /\ awaits[w] # Tira!Nothing /\ awaits' = [awaits EXCEPT ![w] = Tira!Nothing]
          /\ overlapped' = overlapped /\ w \in Tira!Waiting
      BY <1>3 DEF Tira!Found, Tira!Waiting
    <2>2. DOMAIN awaits' = Requests
      BY <2>1 DEF TiraInv
    <2>3. ASSUME ~overlapped'
          PROVE  Settled(hunt)' /\ Tira!Waiting' = {}
      <3>1. /\ Settled(hunt) /\ StillAsked(w) /\ \A v \in Tira!Waiting : v = w
        BY <2>1, <2>3 DEF TiraInv
      <3>2. Tira!Waiting' = {}
        BY <2>1, <3>1 DEF Tira!Waiting, TiraInv
      <3>3. CASE awaits[w].kind = "product"
        <4>1. hunt = Tira!Fresh /\ awaits[w].name \in TiraTexts
          BY <3>1, <3>3 DEF StillAsked, Settled
        <4>2. hunt' = Tira!Researched(Tira!Fresh, awaits[w].name)
          BY <1>3, <3>3, <4>1 DEF Tira!Found
        <4> QED
          BY <3>2, <4>1, <4>2, ResearchedSettled
      <3>4. CASE awaits[w].kind # "product"
        <4>1. /\ hunt.step = "ask_sell_price"
              /\ awaits[w].name = hunt.variants_selected[hunt.current_variant_idx]
          BY <3>1, <3>4 DEF StillAsked
        <4>2. hunt' = Tira!Sold(hunt, hunt.variants_selected[hunt.current_variant_idx])
          BY <1>3, <3>4, <4>1 DEF Tira!Found
        <4> QED
          BY <3>1, <3>2, <4>1, <4>2, SoldSettled
      <3> QED
        BY <3>3, <3>4
    <2> QED
      BY <2>2, <2>3 DEF TiraInv
  <1>4. ASSUME NEW w \in Requests, NEW m \in TiraTexts, Tira!Command(w, m)
        PROVE  TiraInv'
    BY <1>4 DEF Tira!Command, TiraInv, StillAsked, Tira!Waiting
  <1>5. ASSUME NEW w \in Requests, NEW m \in TiraTexts, Tira!Search(w, m)
        PROVE  TiraInv'
    <2> DEFINE asked == IF hunt.step = "start" THEN [kind |-> "product", name |-> m]
                        ELSE [kind |-> "price", name |-> Tira!Current(hunt)]
    <2>1. /\ awaits' = [awaits EXCEPT ![w] = asked] /\ hunt' = hunt
          /\ overlapped' = (overlapped \/ Tira!Waiting # {})
      BY <1>5 DEF Tira!Search
    <2>2. DOMAIN awaits' = Requests
      BY <2>1 DEF TiraInv
    <2>3. ASSUME ~overlapped'
          PROVE  /\ Settled(hunt)' /\ \A v \in Tira!Waiting' : v = w
                 /\ StillAsked(w)'
      <3>1. ~overlapped /\ Tira!Waiting = {}
        BY <2>1, <2>3
      <3>2. \A v \in Tira!Waiting' : v = w
        BY <2>1, <3>1 DEF Tira!Waiting, TiraInv
      <3>3. awaits'[w] = asked
        BY <2>1 DEF TiraInv
      <3>4. StillAsked(w)'
        <4>1. hunt.step = "start" \/ hunt.step = "ask_sell_price"
          BY <1>5 DEF Tira!Search, Tira!AsksPrice
        <4> QED
          BY <2>1, <3>3, <4>1 DEF StillAsked, Tira!Current
      <3> QED
        BY <2>1, <3>1, <3>2, <3>4 DEF TiraInv
    <2> QED
      BY <2>2, <2>3 DEF TiraInv
  <1>6. ASSUME NEW w \in Requests, NEW m \in TiraTexts, Tira!Answer(w, m)
        PROVE  TiraInv'
    <2>1. /\ awaits' = awaits /\ hunt' = Tira!Answered(hunt, m)
          /\ overlapped' = (overlapped \/ Tira!Waiting # {})
      BY <1>6 DEF Tira!Answer
    <2>2. Tira!Waiting' = Tira!Waiting
      BY <2>1 DEF Tira!Waiting
    <2> QED
      BY <2>1, <2>2, AnsweredSettled DEF TiraInv
  <1>7. CASE UNCHANGED <<hunt, awaits, overlapped>>
    BY <1>7 DEF TiraInv, StillAsked, Tira!Waiting
  <1> QED
    BY <1>1, <1>2, <1>3, <1>4, <1>5, <1>6, <1>7 DEF Tira!Next, Tira!Chat

\* Tira asks to confirm no variant that slipped through its two questions, whatever is
\* answered and in whatever order: both were answered, or conditions were told in their place
\* and the rest was filled in, unless a message was handled while another waited for the
\* internet (handle_user).
THEOREM SummaryHasPrices == Spec => []SummaryIsPriced
  <1>1. Init => TiraInv
    BY TiraFresh DEF Init, Tira!Init, TiraInv, Tira!Waiting
  <1>2. ASSUME TiraInv, hunt.step \in {"confirm", "done"}, ~overlapped
        PROVE  /\ hunt.variants_selected # <<>>
               /\ Tira!Selected(hunt) \subseteq (hunt.sold \cap hunt.gain) \cup hunt.filled
    <2>1. /\ hunt.variants_selected # <<>>
          /\ \A i \in DOMAIN hunt.variants_selected : Done(hunt, i)
          /\ hunt.variants_selected \in Seq(Tira!Names)
      BY <1>2 DEF TiraInv, Settled, Hunt
    <2> QED
      BY <2>1, LenProperties DEF Tira!Selected, Tira!ToSet, Done
  <1>3. TiraInv => SummaryIsPriced
    BY <1>2 DEF SummaryIsPriced, Tira!SummaryIsPriced
  <1> QED
    BY <1>1, <1>3, TiraStep, PTL DEF Spec

-----------------------------------------------------------------------------
(* The judge of prices.  Sorted has one value for every place, which is     *)
(* shown without induction on the number of values.                        *)

\* FiniteSets is the same in HunterDeals.
LEMMA DealsCountAlike == \A S : Hunter!Cardinality(S) = Cardinality(S)
  BY DEF Hunter!Cardinality, Cardinality

\* The indices up to the place of i.
UpTo(f, i) == {j \in DOMAIN f : f[j] < f[i] \/ (f[j] = f[i] /\ j <= i)}

LEMMA PlaceCounts == \A f, i : Hunter!Place(f, i) = Cardinality(UpTo(f, i))
  BY DealsCountAlike DEF Hunter!Place, UpTo

LEMMA UpToCounted ==
    ASSUME NEW S \in SUBSET Nat, IsFiniteSet(S), NEW f \in [S -> Nat], NEW i \in S
    PROVE  /\ UpTo(f, i) \subseteq S /\ i \in UpTo(f, i) /\ IsFiniteSet(UpTo(f, i))
           /\ Cardinality(UpTo(f, i)) \in 1 .. Cardinality(S)
  <1>1. DOMAIN f = S /\ i \in Nat /\ f[i] \in Nat
    OBVIOUS
  <1>2. UpTo(f, i) \subseteq S /\ i \in UpTo(f, i)
    BY <1>1 DEF UpTo
  <1> HIDE DEF UpTo
  <1>3. /\ IsFiniteSet(UpTo(f, i)) /\ Cardinality(UpTo(f, i)) <= Cardinality(S)
    BY <1>2, FS_Subset
  <1>4. Cardinality(UpTo(f, i)) \in Nat /\ Cardinality(S) \in Nat
    BY <1>3, FS_CardinalityType
  <1>5. Cardinality(UpTo(f, i)) # 0
    BY <1>2, <1>3, FS_EmptySet
  <1> QED
    BY <1>2, <1>3, <1>4, <1>5

\* A value that is not larger, of an index before, has a smaller place.
LEMMA PlaceGrows ==
    ASSUME NEW S \in SUBSET Nat, IsFiniteSet(S), NEW f \in [S -> Nat], NEW i \in S, NEW j \in S,
           f[i] < f[j] \/ (f[i] = f[j] /\ i < j)
    PROVE  Cardinality(UpTo(f, i)) < Cardinality(UpTo(f, j))
  <1>1. DOMAIN f = S /\ i \in Nat /\ j \in Nat /\ \A k \in S : k \in Nat /\ f[k] \in Nat
    OBVIOUS
  <1>2. UpTo(f, i) \in SUBSET UpTo(f, j) /\ j \notin UpTo(f, i)
    <2>1. ASSUME NEW k \in S, f[k] < f[i] \/ (f[k] = f[i] /\ k <= i)
          PROVE  f[k] < f[j] \/ (f[k] = f[j] /\ k <= j)
      <3>1. f[k] \in Nat /\ f[i] \in Nat /\ f[j] \in Nat /\ k \in Nat /\ i \in Nat /\ j \in Nat
        BY <1>1
      <3> QED
        BY <2>1, <3>1
    <2>2. ~(f[j] < f[i] \/ (f[j] = f[i] /\ j <= i))
      <3>1. f[i] \in Nat /\ f[j] \in Nat /\ i \in Nat /\ j \in Nat
        BY <1>1
      <3> QED
        BY <3>1
    <2> QED
      BY <1>1, <2>1, <2>2 DEF UpTo
  <1>3. /\ IsFiniteSet(UpTo(f, j)) /\ j \in UpTo(f, j)
        /\ Cardinality(UpTo(f, i)) \in Nat /\ Cardinality(UpTo(f, j)) \in Nat
    <2>1. Cardinality(S) \in Nat
      BY FS_CardinalityType
    <2> QED
      BY <2>1, UpToCounted
  <1> HIDE DEF UpTo
  <1>4. /\ Cardinality(UpTo(f, i)) <= Cardinality(UpTo(f, j))
        /\ Cardinality(UpTo(f, j)) = Cardinality(UpTo(f, i)) => UpTo(f, j) = UpTo(f, i)
    BY <1>2, <1>3, FS_Subset
  <1>5. Cardinality(UpTo(f, i)) # Cardinality(UpTo(f, j))
    BY <1>2, <1>3, <1>4
  <1> QED
    BY <1>3, <1>4, <1>5

\* The values of a sequence do not fall.
Ascending(s) == \A k, l \in 1 .. Len(s) : k <= l => s[k] <= s[l]

LEMMA SortedAscends ==
    ASSUME NEW S \in SUBSET Nat, IsFiniteSet(S), NEW f \in [S -> Nat]
    PROVE  /\ Hunter!Sorted(f) \in Seq(Nat) /\ Len(Hunter!Sorted(f)) = Cardinality(S)
           /\ Ascending(Hunter!Sorted(f))
  <1> DEFINE n == Cardinality(S)
             place == [i \in S |-> Hunter!Place(f, i)]
             at(k) == CHOOSE i \in DOMAIN f : Hunter!Place(f, i) = k
             s == [k \in 1 .. n |-> f[at(k)]]
  <1>1. n \in Nat
    BY FS_CardinalityType
  <1>2. place \in [S -> 1 .. n]
    BY UpToCounted, PlaceCounts
  <1>3. ASSUME NEW i \in S, NEW j \in S, f[i] < f[j] \/ (f[i] = f[j] /\ i < j)
        PROVE  place[i] < place[j]
    BY <1>3, PlaceGrows, PlaceCounts
  <1>4. ASSUME NEW i \in S, NEW j \in S, i # j
        PROVE  place[i] # place[j]
    <2>1. i \in Nat /\ j \in Nat /\ f[i] \in Nat /\ f[j] \in Nat
      OBVIOUS
    <2>2. \/ f[i] < f[j] \/ (f[i] = f[j] /\ i < j)
          \/ f[j] < f[i] \/ (f[j] = f[i] /\ j < i)
      BY <1>4, <2>1
    <2>3. place[i] \in Int /\ place[j] \in Int
      BY <1>2, <1>1
    <2> HIDE DEF place
    <2> QED
      BY <1>3, <2>2, <2>3
  <1>5. place \in Injection(S, 1 .. n)
    <2> HIDE DEF place, n
    <2>1. \A i, j \in S : place[i] = place[j] => i = j
      BY <1>4
    <2> QED
      BY <1>2, <2>1, Fun_IsInj
  <1>6. IsFiniteSet(1 .. n) /\ Cardinality(1 .. n) = n
    BY <1>1, FS_Interval
  <1>7. place \in Surjection(S, 1 .. n)
    <2> HIDE DEF place, n
    <2>1. Cardinality(S) = Cardinality(1 .. n) <=> place \in Surjection(S, 1 .. n)
      BY <1>5, <1>6, FS_Injection
    <2>2. Cardinality(1 .. n) = Cardinality(S)
      BY <1>6 DEF n
    <2> QED
      BY <2>1, <2>2
  <1>8. ASSUME NEW k \in 1 .. n
        PROVE  at(k) \in S /\ place[at(k)] = k
    <2>1. \E i \in S : place[i] = k
      <3> HIDE DEF place
      <3> QED
        BY <1>7 DEF Surjection
    <2>2. \E i \in DOMAIN f : Hunter!Place(f, i) = k
      BY <2>1
    <2>3. at(k) \in DOMAIN f /\ Hunter!Place(f, at(k)) = k
      BY <2>2
    <2> HIDE DEF at
    <2> QED
      BY <2>3
  <1>9. Hunter!Sorted(f) = s
    <2>1. Hunter!Cardinality(DOMAIN f) = n
      BY DealsCountAlike
    <2> QED
      BY <2>1 DEF Hunter!Sorted
  <1> HIDE DEF place, at
  <1>10. s \in Seq(Nat) /\ Len(s) = n
    <2>1. \A k \in 1 .. n : s[k] \in Nat
      BY <1>8
    <2> HIDE DEF n
    <2> QED
      BY <1>1, <2>1
  <1>11. ASSUME NEW k \in 1 .. n, NEW l \in 1 .. n, k <= l
         PROVE  s[k] <= s[l]
    <2>1. /\ at(k) \in S /\ place[at(k)] = k /\ at(l) \in S /\ place[at(l)] = l
          /\ s[k] = f[at(k)] /\ s[l] = f[at(l)]
      BY <1>8
    <2>2. f[at(k)] \in Nat /\ f[at(l)] \in Nat
      BY <2>1
    <2>3. k \in Int /\ l \in Int
      BY <1>1
    <2> HIDE DEF n, s
    <2>4. ASSUME f[at(l)] < f[at(k)]
          PROVE  FALSE
      <3>1. place[at(l)] < place[at(k)]
        BY <1>3, <2>1, <2>4
      <3> QED
        BY <1>11, <2>1, <2>3, <3>1
    <2> QED
      BY <2>1, <2>2, <2>4
  <1> HIDE DEF s
  <1>12. Ascending(s)
    BY <1>10, <1>11 DEF Ascending
  <1> QED
    BY <1>9, <1>10, <1>12

-----------------------------------------------------------------------------
(* The market *)

LEMMA Quotient ==
    ASSUME NEW a \in Nat, NEW b \in Nat \ {0}
    PROVE  a \div b \in Nat
  OBVIOUS

\* The median lies among the values.
LEMMA MedianTyped ==
    ASSUME NEW s \in Seq(Nat), Len(s) > 0
    PROVE  Hunter!Median(s) \in Nat
  <1> DEFINE n == Len(s)
  <1>1. n \in Nat /\ n > 0 /\ \A k \in 1 .. n : s[k] \in Nat
    BY LenProperties, ElementOfSeq
  <1> HIDE DEF n
  <1>2. CASE n % 2 = 1
    <2>1. (n + 1) \div 2 \in 1 .. n
      BY <1>1
    <2>2. s[(n + 1) \div 2] \in Nat
      BY <1>1, <2>1
    <2> QED
      BY <1>2, <2>2 DEF Hunter!Median, n
  <1>3. CASE n % 2 # 1
    <2>1. n \div 2 \in 1 .. n /\ n \div 2 + 1 \in 1 .. n
      BY <1>1, <1>3
    <2>2. s[n \div 2] \in Nat /\ s[n \div 2 + 1] \in Nat
      BY <1>1, <2>1
    <2>3. (s[n \div 2] + s[n \div 2 + 1]) \div 2 \in Nat
      BY <2>2
    <2> QED
      BY <1>3, <2>3 DEF Hunter!Median, n
  <1> QED
    BY <1>2, <1>3

LEMMA Between ==
    ASSUME NEW a \in Nat, NEW b \in Nat, a <= b, NEW r \in 0 .. 9
    PROVE  /\ (a * (10 - r) + b * r) \div 10 \in Nat
           /\ (a * (10 - r) + b * r) \div 10 <= b
  <1>1. a * (10 - r) \in Nat /\ b * r \in Nat /\ b * (10 - r) = b * 10 - b * r
    OBVIOUS
  <1>2. a * (10 - r) <= b * (10 - r)
    OBVIOUS
  <1>3. a * (10 - r) + b * r <= 10 * b
    BY <1>1, <1>2
  <1> DEFINE x == a * (10 - r) + b * r
  <1>4. x \in Nat /\ x <= 10 * b
    BY <1>1, <1>3
  <1> HIDE DEF x
  <1>5. x \div 10 \in Nat /\ x \div 10 <= b
    BY <1>4
  <1> QED
    BY <1>5 DEF x

\* The lowest tenth of three values or more ends below their median.
LEMMA TenthBelowMedian ==
    ASSUME NEW s \in Seq(Nat), Ascending(s), Len(s) >= 3
    PROVE  /\ Hunter!Percentile10(s) \in Nat
           /\ Hunter!Percentile10(s) <= Hunter!Median(s)
  <1> DEFINE n == Len(s)
             f == (n - 1) \div 10
             r == (n - 1) % 10
             b == s[f + 2]
  <1>1. n \in Nat /\ n >= 3 /\ \A k \in 1 .. n : s[k] \in Nat
    BY LenProperties, ElementOfSeq
  <1>2. \A k, l \in 1 .. n : k <= l => s[k] <= s[l]
    BY DEF Ascending
  <1> HIDE DEF n
  <1>3. /\ f \in Nat /\ r \in 0 .. 9 /\ f + 1 \in 1 .. n /\ f + 2 \in 1 .. n
        /\ f + 2 <= (n + 1) \div 2 /\ (n % 2 # 1 => f + 2 <= n \div 2)
    BY <1>1
  <1>4. Hunter!Least(f + 2, (n - 1) + 1) = f + 2
    BY <1>1, <1>3 DEF Hunter!Least
  <1>5. Hunter!Percentile10(s) = (s[f + 1] * (10 - r) + b * r) \div 10
    BY <1>4 DEF Hunter!Percentile10, n
  <1> HIDE DEF f, r
  <1>6. s[f + 1] \in Nat /\ b \in Nat /\ s[f + 1] <= b
    BY <1>1, <1>2, <1>3
  <1>7. Hunter!Percentile10(s) \in Nat /\ Hunter!Percentile10(s) <= b
    BY <1>3, <1>5, <1>6, Between
  <1>8. Hunter!Median(s) \in Nat /\ b <= Hunter!Median(s)
    <2>1. CASE n % 2 = 1
      <3>1. (n + 1) \div 2 \in 1 .. n
        BY <1>1
      <3>2. b <= s[(n + 1) \div 2] /\ s[(n + 1) \div 2] \in Nat
        BY <1>1, <1>2, <1>3, <3>1
      <3> QED
        BY <2>1, <3>2 DEF Hunter!Median, n
    <2>2. CASE n % 2 # 1
      <3>1. n \div 2 \in 1 .. n /\ n \div 2 + 1 \in 1 .. n /\ f + 2 <= n \div 2 + 1
        BY <1>1, <1>3, <2>2
      <3>2. /\ b <= s[n \div 2] /\ b <= s[n \div 2 + 1]
            /\ s[n \div 2] \in Nat /\ s[n \div 2 + 1] \in Nat
        BY <1>1, <1>2, <1>3, <2>2, <3>1
      <3>3. /\ (s[n \div 2] + s[n \div 2 + 1]) \div 2 \in Nat
            /\ b <= (s[n \div 2] + s[n \div 2 + 1]) \div 2
        <4> DEFINE x == s[n \div 2]
                   y == s[n \div 2 + 1]
        <4>1. x \in Nat /\ y \in Nat /\ b \in Nat /\ b <= x /\ b <= y
          BY <1>6, <3>2
        <4> HIDE DEF b, x, y
        <4>2. (x + y) \div 2 \in Nat /\ b <= (x + y) \div 2
          BY <4>1
        <4> QED
          BY <4>2 DEF x, y
      <3> QED
        BY <2>2, <3>3 DEF Hunter!Median, n
    <2> QED
      BY <2>1, <2>2
  <1> HIDE DEF b
  <1> QED
    BY <1>6, <1>7, <1>8

\* Of three prices or more three are left, in their order.
LEMMA FilterKeeps ==
    ASSUME NEW s \in Seq(Nat), Ascending(s), Len(s) >= 3
    PROVE  /\ Hunter!IqrFilter(s) \in Seq(Nat) /\ Ascending(Hunter!IqrFilter(s))
           /\ Len(Hunter!IqrFilter(s)) >= 3
  <1> DEFINE n == Len(s)
             q1 == Hunter!Median(SubSeq(s, 1, n \div 2))
             q3 == Hunter!Median(SubSeq(s, (n + 1) \div 2 + 1, n))
             low == {i \in DOMAIN s : 2 * s[i] < 2 * q1 - 3 * (q3 - q1)}
             high == {i \in DOMAIN s : 2 * s[i] > 2 * q3 + 3 * (q3 - q1)}
             c == Cardinality(low)
             d == Cardinality(high)
             near == SubSeq(s, c + 1, n - d)
  <1>1. n \in Nat /\ n >= 3 /\ DOMAIN s = 1 .. n /\ \A k \in 1 .. n : s[k] \in Nat
    BY LenProperties, ElementOfSeq
  <1>2. \A k, l \in 1 .. n : k <= l => s[k] <= s[l]
    BY DEF Ascending
  <1>3. c \in Nat /\ d \in Nat
    <2>1. low \in SUBSET (1 .. n) /\ high \in SUBSET (1 .. n)
      BY <1>1
    <2> HIDE DEF low, high, n
    <2>2. IsFiniteSet(1 .. n)
      BY <1>1, FS_Interval
    <2> QED
      BY <2>1, <2>2, FS_Subset, FS_CardinalityType
  <1>4. Hunter!IqrFilter(s) = IF n < 5 \/ 10 * Len(near) < 6 * n THEN s ELSE near
    <2>1. Hunter!Cardinality(low) = c /\ Hunter!Cardinality(high) = d
      BY DealsCountAlike
    <2> HIDE DEF c, d
    <2> QED
      BY <2>1 DEF Hunter!IqrFilter
  <1> HIDE DEF c, d, n
  <1>5. /\ near \in Seq(Nat)
        /\ Len(near) = IF c + 1 <= n - d THEN n - d - (c + 1) + 1 ELSE 0
        /\ \A i \in 1 .. n - d - (c + 1) + 1 : near[i] = s[c + 1 + i - 1]
    <2>1. c + 1 \in Int /\ n - d \in Int /\ \A i \in c + 1 .. n - d : s[i] \in Nat
      BY <1>1, <1>3
    <2> QED
      BY <2>1, SubSeqProperties
  <1> HIDE DEF near
  <1>6. CASE n < 5 \/ 10 * Len(near) < 6 * n
    BY <1>1, <1>4, <1>6 DEF n
  <1>7. CASE ~(n < 5 \/ 10 * Len(near) < 6 * n)
    <2>1. Len(near) >= 3 /\ Len(near) \in Nat /\ Len(near) = n - d - (c + 1) + 1
      BY <1>1, <1>3, <1>5, <1>7
    <2>2. ASSUME NEW k \in 1 .. Len(near), NEW l \in 1 .. Len(near), k <= l
          PROVE  near[k] <= near[l]
      <3>1. near[k] = s[c + 1 + k - 1] /\ near[l] = s[c + 1 + l - 1]
        BY <1>5, <2>1
      <3>2. /\ c + 1 + k - 1 \in 1 .. n /\ c + 1 + l - 1 \in 1 .. n
            /\ c + 1 + k - 1 <= c + 1 + l - 1
        BY <1>1, <1>3, <2>1, <2>2
      <3> QED
        BY <1>2, <3>1, <3>2
    <2>3. Ascending(near)
      BY <2>2 DEF Ascending
    <2> QED
      BY <1>4, <1>5, <1>7, <2>1, <2>3
  <1> QED
    BY <1>6, <1>7

\* What the statistics promise to the judgement.
Market(m) ==
    /\ m.median \in Nat /\ m.p10 \in Nat /\ m.count \in Nat
    /\ m.p10 <= m.median

LEMMA StatsBounded ==
    ASSUME NEW S \in SUBSET Nat, IsFiniteSet(S), NEW asked \in [S -> Nat], NEW healthy \in [S -> Nat]
    PROVE  Market(Hunter!MarketStats(asked, healthy))
  <1> DEFINE n == Cardinality(S)
             kept == Hunter!IqrFilter(Hunter!Sorted(healthy))
  <1>1. n \in Nat /\ Hunter!Cardinality(DOMAIN asked) = n
    BY FS_CardinalityType, DealsCountAlike
  <1>2. /\ Hunter!Sorted(asked) \in Seq(Nat) /\ Len(Hunter!Sorted(asked)) = n
        /\ Hunter!Sorted(healthy) \in Seq(Nat) /\ Len(Hunter!Sorted(healthy)) = n
        /\ Ascending(Hunter!Sorted(healthy))
    BY SortedAscends
  <1> HIDE DEF n
  <1>3. CASE n = 0
    BY <1>1, <1>3 DEF Hunter!MarketStats, Market
  <1>4. CASE n # 0 /\ n < 3
    <2>1. Hunter!Median(Hunter!Sorted(asked)) \in Nat
      BY <1>1, <1>2, <1>4, MedianTyped
    <2> QED
      BY <1>1, <1>4, <2>1 DEF Hunter!MarketStats, Market
  <1>5. CASE n >= 3
    <2>1. kept \in Seq(Nat) /\ Ascending(kept) /\ Len(kept) >= 3
      BY <1>2, <1>5, FilterKeeps
    <2>2. Hunter!MarketStats(asked, healthy)
            = [median |-> Hunter!Median(kept), p10 |-> Hunter!Percentile10(kept), count |-> Len(kept)]
      BY <1>1, <1>5 DEF Hunter!MarketStats
    <2> HIDE DEF kept
    <2>3. Len(kept) \in Nat /\ Len(kept) > 0
      BY <2>1, LenProperties
    <2>4. /\ Hunter!Percentile10(kept) \in Nat /\ Hunter!Median(kept) \in Nat
          /\ Hunter!Percentile10(kept) <= Hunter!Median(kept)
      BY <2>1, <2>3, TenthBelowMedian, MedianTyped
    <2> QED
      BY <2>2, <2>3, <2>4 DEF Market
  <1> QED
    BY <1>1, <1>3, <1>4, <1>5

-----------------------------------------------------------------------------
(* The judgement *)

LEMMA ClampBounds ==
    ASSUME NEW x, NEW low \in Int, NEW high \in Int, low <= high
    PROVE  Hunter!Clamp(x, low, high) \in low .. high
  BY DEF Hunter!Clamp

LEMMA HealthyTyped ==
    ASSUME NEW price \in Nat, NEW ad
    PROVE  Hunter!NormalizeToHealthy(price, Hunter!SampleAdjustment(ad)) \in Nat
  <1> DEFINE adj == Hunter!SampleAdjustment(ad)
             b == Hunter!Most(300, 1000 + adj)
  <1>1. adj \in -450 .. 50
    BY ClampBounds DEF Hunter!SampleAdjustment
  <1> HIDE DEF adj
  <1>2. b \in Nat \ {0}
    BY <1>1 DEF Hunter!Most
  <1> HIDE DEF b
  <1>3. price * 1000 \in Nat
    OBVIOUS
  <1>4. (price * 1000) \div b \in Nat
    BY <1>2, <1>3, Quotient
  <1> QED
    BY <1>4 DEF Hunter!NormalizeToHealthy, b, adj

\* What an ad or an answer says.
Said == [flags : SUBSET DOMAIN Pct, age : Nat \cup {Hunter!Untold}, km : Nat]

\* A newer car with fewer kilometres is worth eight percent more than the median at most.
LEMMA AdjustmentBounded ==
    ASSUME NEW text \in Said, NEW chassis
    PROVE  Hunter!TargetAdjustment(text, chassis) \in -500 .. 80
  <1> DEFINE a == Hunter!AdjustmentPct(Hunter!Flags(text, chassis))
             m == Hunter!MileageAdjustment(text.km, text.age)
             y == Hunter!YearAdjustment(text.age)
  <1>1. a \in -450 .. 50
    BY ClampBounds DEF Hunter!AdjustmentPct
  <1>2. text.km \in Nat /\ text.age \in Nat \cup {Hunter!Untold}
    BY DEF Said
  <1>3. m \in Int /\ m <= 30
    BY <1>2 DEF Hunter!MileageAdjustment, Hunter!Most, Hunter!Untold
  <1>4. y \in Int /\ y <= 0
    BY <1>2 DEF Hunter!YearAdjustment, Hunter!Most, Hunter!Untold
  <1> HIDE DEF a, m, y
  <1>5. a + m + y \in Int /\ a + m + y <= 80
    BY <1>1, <1>3, <1>4
  <1>6. Hunter!Clamp(a + m + y, -500, 100) \in -500 .. 80
    BY <1>5 DEF Hunter!Clamp
  <1> QED
    BY <1>6 DEF Hunter!TargetAdjustment, a, m, y

LEMMA FairBounded ==
    ASSUME NEW median \in Nat, NEW text \in Said, NEW chassis
    PROVE  LET fair == Hunter!Fair(median, Hunter!TargetAdjustment(text, chassis))
           IN  fair \in Nat /\ 1000 * fair <= 1080 * median
  <1> DEFINE adj == Hunter!TargetAdjustment(text, chassis)
             x == median * (1000 + adj)
  <1>1. adj \in -500 .. 80
    BY AdjustmentBounded
  <1> HIDE DEF adj
  <1>2. x \in Nat /\ x <= median * 1080
    <2>1. 1000 + adj \in Nat /\ 1000 + adj <= 1080
      BY <1>1
    <2> DEFINE k == 1000 + adj
    <2> HIDE DEF k
    <2>2. median * k \in Nat /\ median * k <= median * 1080
      BY <2>1 DEF k
    <2> QED
      BY <2>2 DEF k
  <1> HIDE DEF x
  <1>3. x \div 1000 \in Nat /\ 1000 * (x \div 1000) <= 1080 * median
    BY <1>2
  <1> QED
    BY <1>3 DEF Hunter!Fair, x, adj

LEMMA DiscountMeans ==
    ASSUME NEW price \in Nat, NEW fair \in Nat \ {0}, NEW k \in Int,
           Hunter!Discount(fair, price) >= k
    PROVE  2000 * price <= (2001 - 2 * k) * fair
  <1> DEFINE x == 2000 * (fair - price) + fair
             b == 2 * fair
  <1>1. x \in Int /\ b \in Nat \ {0} /\ x \div b \in Int /\ x \div b >= k
    BY DEF Hunter!Discount
  <1>2. b * k <= x
    <2> HIDE DEF x, b
    <2> DEFINE q == x \div b
    <2>1. q \in Int /\ q >= k /\ b * q <= x
      BY <1>1
    <2> HIDE DEF q
    <2>2. b * k <= b * q
      BY <1>1, <2>1
    <2>3. b * k \in Int /\ b * q \in Int
      BY <1>1, <2>1
    <2> QED
      BY <1>1, <2>1, <2>2, <2>3
  <1>3. (2001 - 2 * k) * fair = 2001 * fair - b * k
    OBVIOUS
  <1> DEFINE y == b * k
             z == (2001 - 2 * k) * fair
  <1>4. y \in Int /\ z \in Int /\ y <= 2001 * fair - 2000 * price /\ z = 2001 * fair - y
    BY <1>2, <1>3
  <1> HIDE DEF y, z
  <1>5. 2000 * price <= z
    BY <1>4
  <1> QED
    BY <1>5 DEF z

Limits(t) == t.good \in Int /\ t.great \in Int

\* The smaller threshold of a hunt.
Threshold(t) == Hunter!Least(Hunter!GoodPct(t), Hunter!GreatPct(t))

LEMMA ThresholdTyped ==
    ASSUME NEW t, Limits(t)
    PROVE  /\ Hunter!GoodPct(t) \in Int /\ Hunter!GreatPct(t) \in Int /\ Threshold(t) \in Int
           /\ Threshold(t) <= Hunter!GoodPct(t) /\ Threshold(t) <= Hunter!GreatPct(t)
  BY DEF Limits, Threshold, Hunter!Least, Hunter!GoodPct, Hunter!GreatPct, Hunter!Given

LEMMA LowerThreshold ==
    ASSUME NEW price \in Nat, NEW fair \in Nat, NEW k \in Int, NEW least \in Int, least <= k,
           2000 * price <= (2001 - 2 * k) * fair
    PROVE  2000 * price <= (2001 - 2 * least) * fair
  <1>1. \A a, b \in Int : a <= b => a * fair <= b * fair
    OBVIOUS
  <1>2. (2001 - 2 * k) * fair <= (2001 - 2 * least) * fair
    BY <1>1
  <1> DEFINE y == (2001 - 2 * k) * fair
             z == (2001 - 2 * least) * fair
  <1>3. y \in Int /\ z \in Int /\ y <= z /\ 2000 * price <= y
    BY <1>2
  <1> HIDE DEF y, z
  <1>4. 2000 * price <= z
    BY <1>3
  <1> QED
    BY <1>4 DEF z

\* At least 7.5 percent off.
LEMMA SmallerShare ==
    ASSUME NEW price \in Nat, NEW fair \in Nat, NEW k \in Int, 75 <= k,
           2000 * price <= (2001 - 2 * k) * fair
    PROVE  2000 * price <= (2001 - 2 * 75) * fair
  BY LowerThreshold

\* A hunt is within the lowest tenth, or cheaper than the fair price by the threshold.
LEMMA HuntIsCheap ==
    ASSUME NEW price \in Nat, NEW fair \in Nat, NEW p10 \in Nat, NEW t, Limits(t),
           Hunter!RawLevel(price, fair, p10, t) \in {"good", "great"}
    PROVE  price <= p10 \/ 2000 * price <= (2001 - 2 * Threshold(t)) * fair
  <1> DEFINE d == Hunter!Discount(fair, price)
             good == Hunter!GoodPct(t)
             great == Hunter!GreatPct(t)
  <1>1. fair # 0
    BY DEF Hunter!RawLevel
  <1>2. /\ good \in Int /\ great \in Int /\ Threshold(t) \in Int
        /\ Threshold(t) <= good /\ Threshold(t) <= great
    BY ThresholdTyped
  <1>3. CASE d >= good
    BY <1>1, <1>2, <1>3, DiscountMeans, LowerThreshold
  <1>4. CASE d >= great
    BY <1>1, <1>2, <1>4, DiscountMeans, LowerThreshold
  <1>5. CASE ~(d >= good) /\ ~(d >= great)
    <2> HIDE DEF d, good, great
    <2>1. p10 > 0 /\ price <= p10
      BY <1>5 DEF Hunter!RawLevel, d, good, great
    <2> QED
      BY <2>1
  <1> QED
    BY <1>3, <1>4, <1>5

LEMMA HuntIsAffordable ==
    ASSUME NEW price \in Nat, NEW median \in Nat, NEW fair \in Nat, NEW t, Limits(t),
           1000 * fair <= 1080 * median,
           2000 * price <= (2001 - 2 * Threshold(t)) * fair
    PROVE  Hunter!Affordable(price, median, t)
  <1> DEFINE least == Threshold(t)
             k == 2001 - 2 * least
             y == k * fair
             z == k * median
  <1>1. least \in Int /\ k \in Int
    BY ThresholdTyped
  <1>2. CASE least >= 75
    <2>1. 2000 * price <= (2001 - 2 * 75) * fair
      BY <1>1, <1>2, SmallerShare
    <2>2. price <= median
      BY <2>1
    <2> QED
      BY <2>2 DEF Hunter!Affordable
  <1>3. CASE least < 75
    <2> HIDE DEF least
    <2>1. k \in Nat
      BY <1>1, <1>3
    <2> HIDE DEF k
    <2>2. k * (1000 * fair) <= k * (1080 * median)
      <3>1. \A a, b \in Nat : a <= b => k * a <= k * b
        BY <2>1
      <3> QED
        BY <3>1
    <2>3. k * (1000 * fair) = 1000 * y /\ k * (1080 * median) = 1080 * z
      BY <2>1
    <2>4. 2000 * price <= y
      BY DEF k, least
    <2>5. y \in Int /\ z \in Int
      BY <2>1
    <2> HIDE DEF y, z
    <2>6. 2000000 * price <= 1080 * z
      BY <2>2, <2>3, <2>4, <2>5
    <2>7. 1080 * z = 1080 * k * median
      BY <2>1 DEF z
    <2>8. least < 75 /\ 2000000 * price <= 1080 * (2001 - 2 * least) * median
      BY <1>3, <2>6, <2>7 DEF k
    <2> QED
      BY <2>8 DEF Hunter!Affordable, least, Threshold
  <1> QED
    BY <1>1, <1>2, <1>3

Levels == {"", "none", "market", "good", "great", "suspicious", "pending"}

LEMMA JudgementSound ==
    ASSUME NEW price \in Nat, NEW m, Market(m), NEW text \in Said, NEW chassis, NEW t, Limits(t)
    PROVE  LET sc == Hunter!Evaluate(price, m, text, chassis, t) IN
           /\ sc.level \in Levels /\ sc.median = m.median /\ sc.count = m.count
           /\ sc.level \in {"good", "great"} =>
                 /\ Hunter!Affordable(price, m.median, t)
                 /\ m.count >= 3 \/ Hunter!Missing(text) = {}
  <1> DEFINE fair == Hunter!Fair(m.median, Hunter!TargetAdjustment(text, chassis))
             raw == Hunter!RawLevel(price, fair, m.p10, t)
             sc == Hunter!Evaluate(price, m, text, chassis, t)
             pending == Hunter!Confidence(m.count, text, raw) < 60 /\ Hunter!Missing(text) # {}
  <1>1. m.median \in Nat /\ m.p10 \in Nat /\ m.count \in Nat /\ m.p10 <= m.median
    BY DEF Market
  <1>2. fair \in Nat /\ 1000 * fair <= 1080 * m.median
    BY <1>1, FairBounded
  <1>3. sc = [level |-> IF pending THEN "pending" ELSE raw,
              median |-> m.median, fair |-> fair, count |-> m.count]
    BY DEF Hunter!Evaluate
  <1> HIDE DEF fair
  <1>4. raw \in Levels
    BY DEF Hunter!RawLevel, Levels
  <1> HIDE DEF raw, sc
  <1>5. sc.level \in Levels /\ sc.median = m.median /\ sc.count = m.count
    BY <1>3, <1>4 DEF Levels
  <1>6. ASSUME sc.level \in {"good", "great"}
        PROVE  Hunter!Affordable(price, m.median, t) /\ (m.count >= 3 \/ Hunter!Missing(text) = {})
    <2>1. raw \in {"good", "great"} /\ ~pending
      BY <1>3, <1>6
    <2>2. price <= m.p10 \/ 2000 * price <= (2001 - 2 * Threshold(t)) * fair
      BY <1>1, <1>2, <2>1, HuntIsCheap DEF raw
    <2>3. Hunter!Affordable(price, m.median, t)
      <3>1. CASE price <= m.p10
        BY <1>1, <3>1 DEF Hunter!Affordable
      <3>2. CASE 2000 * price <= (2001 - 2 * Threshold(t)) * fair
        BY <1>1, <1>2, <3>2, HuntIsAffordable
      <3> QED
        BY <2>2, <3>1, <3>2
    <2>4. m.count >= 3 \/ Hunter!Missing(text) = {}
      <3>1. CASE Hunter!Missing(text) = {}
        BY <3>1
      <3>2. CASE ~(m.count >= 3)
        <4>1. Hunter!Confidence(m.count, text, raw) < 60
          BY <1>1, <3>2 DEF Hunter!Confidence
        <4> QED
          BY <2>1, <4>1
      <3> QED
        BY <3>1, <3>2
    <2> QED
      BY <2>3, <2>4
  <1> QED
    BY <1>5, <1>6 DEF sc

-----------------------------------------------------------------------------
(* The ads and the hunts that are announced *)

Ad == [price : Nat, text : Said, defect : BOOLEAN, removed : BOOLEAN,
       chassis : {"unknown", "hit"}, level : Levels,
       inquiry : {"", "pending", "sent", "answered"}]

\* No answer opens a question again that the ad or an earlier answer has settled.
Fair(v) ==
    /\ v.ad \in DOMAIN ads
    /\ Hunter!Affordable(v.original_price, v.healthy_median, Settings)
    /\ v.count >= 3 \/ Hunter!Missing(ads[v.ad].text) = {}

HunterInv == ads \in Seq(Ad) /\ \A v \in alerts : Fair(v)

LEMMA SamplesFinite ==
    ASSUME NEW rows \in Seq(Ad)
    PROVE  /\ Hunter!Samples(rows) \in SUBSET Nat /\ IsFiniteSet(Hunter!Samples(rows))
           /\ Hunter!Asked(rows) \in [Hunter!Samples(rows) -> Nat]
           /\ Hunter!Healthy(rows) \in [Hunter!Samples(rows) -> Nat]
  <1> DEFINE S == Hunter!Samples(rows)
             n == Len(rows)
  <1>1. n \in Nat /\ DOMAIN rows = 1 .. n /\ \A i \in 1 .. n : rows[i] \in Ad
    BY LenProperties, ElementOfSeq
  <1> HIDE DEF n
  <1>2. S \subseteq 1 .. n
    BY <1>1 DEF Hunter!Samples
  <1> HIDE DEF S
  <1>3. S \in SUBSET Nat /\ IsFiniteSet(S)
    <2>1. IsFiniteSet(1 .. n) /\ 1 .. n \subseteq Nat
      BY <1>1, FS_Interval
    <2> QED
      BY <1>2, <2>1, FS_Subset
  <1>4. \A i \in S : rows[i].price \in Nat
    BY <1>1, <1>2 DEF Ad
  <1>5. Hunter!Asked(rows) \in [S -> Nat] /\ Hunter!Healthy(rows) \in [S -> Nat]
    BY <1>4, HealthyTyped DEF Hunter!Asked, Hunter!Healthy, S
  <1> QED
    BY <1>3, <1>5 DEF S

LEMMA ThresholdsHold == Limits(Settings) /\ Limits(Profile)
  BY AssistantsAssumption DEF Hunter!HunterAssumption, Limits

LEMMA TextsSay == Texts \subseteq Said
  BY AssistantsAssumption DEF Hunter!HunterAssumption, Said

LEMMA FoundTyped ==
    ASSUME NEW text \in Texts, NEW price \in Prices, NEW level \in Levels
    PROVE  /\ Hunter!Found(text, price) \in Ad
           /\ Hunter!Scored(Hunter!Found(text, price), level) \in Ad
           /\ Hunter!Scored(Hunter!Found(text, price), level).text = text
           /\ Hunter!Found(text, price).price = price /\ price \in Nat
  <1> DEFINE lead == Hunter!Found(text, price)
  <1>1. text \in Said /\ price \in Nat
    BY AssistantsAssumption DEF Hunter!HunterAssumption, Said
  <1>2. lead \in Ad /\ lead.text = text /\ lead.price = price
    BY <1>1 DEF Hunter!Found, Hunter!Defective, Hunter!Chassis, Ad, Levels
  <1> HIDE DEF lead
  <1>3. Hunter!Scored(lead, level) \in Ad /\ Hunter!Scored(lead, level).text = text
    BY <1>2 DEF Hunter!Scored, Ad, Levels
  <1> QED
    BY <1>1, <1>2, <1>3 DEF lead

LEMMA ScanKeeps ==
    ASSUME HunterInv, NEW text \in Texts, NEW price \in Prices, Hunter!Scan(text, price)
    PROVE  HunterInv'
  <1> DEFINE lead == Hunter!Found(text, price)
             rows == Append(ads, lead)
             sc == Hunter!Judge(price, rows, text)
             item == Hunter!Scored(lead, sc.level)
             m == Hunter!MarketStats(Hunter!Asked(rows), Hunter!Healthy(rows))
             n == Len(ads)
  <1>1. /\ ads' = Append(ads, item)
        /\ alerts' = alerts \cup Hunter!Announced(Len(rows), lead, sc)
    BY DEF Hunter!Scan
  <1>2. lead \in Ad /\ lead.price = price /\ price \in Nat
    BY FoundTyped DEF Levels
  <1> HIDE DEF lead
  <1>3. /\ ads \in Seq(Ad) /\ rows \in Seq(Ad) /\ n \in Nat /\ Len(rows) = n + 1
        /\ DOMAIN ads = 1 .. n
    BY <1>2, AppendProperties, LenProperties DEF HunterInv
  <1> HIDE DEF rows
  <1>4. Market(m)
    BY <1>3, SamplesFinite, StatsBounded
  <1>5. /\ sc.level \in Levels /\ sc.median = m.median /\ sc.count = m.count
        /\ sc.level \in {"good", "great"} =>
              /\ Hunter!Affordable(price, m.median, Settings)
              /\ m.count >= 3 \/ Hunter!Missing(text) = {}
    BY <1>2, <1>4, TextsSay, ThresholdsHold, JudgementSound DEF Hunter!Judge
  <1> HIDE DEF sc, m
  <1>6. item \in Ad /\ item.text = text
    BY <1>5, FoundTyped DEF lead
  <1> HIDE DEF item
  <1>7. /\ ads' \in Seq(Ad) /\ DOMAIN ads' = 1 .. n + 1
        /\ \A i \in 1 .. n : ads'[i] = ads[i]
        /\ ads'[n + 1] = item
    <2>1. /\ Append(ads, item) \in Seq(Ad) /\ Len(Append(ads, item)) = n + 1
          /\ \A i \in 1 .. n : Append(ads, item)[i] = ads[i]
          /\ Append(ads, item)[n + 1] = item
      BY <1>3, <1>6, AppendProperties
    <2> QED
      BY <1>1, <2>1, LenProperties
  <1>8. ASSUME NEW v \in alerts
        PROVE  Fair(v)'
    <2>1. Fair(v)
      BY DEF HunterInv
    <2>2. v.ad \in 1 .. n /\ v.ad \in 1 .. n + 1
      BY <1>3, <2>1 DEF Fair
    <2> QED
      BY <1>7, <2>1, <2>2 DEF Fair
  <1>9. ASSUME NEW v \in Hunter!Announced(Len(rows), lead, sc)
        PROVE  Fair(v)'
    <2>1. /\ sc.level \in {"good", "great"} /\ v.ad = n + 1 /\ v.original_price = price
          /\ v.healthy_median = m.median /\ v.count = m.count
      BY <1>2, <1>3, <1>5 DEF Hunter!Announced
    <2>2. v.ad \in 1 .. n + 1 /\ ads'[v.ad].text = text
      BY <1>3, <1>6, <1>7, <2>1
    <2> QED
      BY <1>5, <1>7, <2>1, <2>2 DEF Fair
  <1> QED
    BY <1>1, <1>7, <1>8, <1>9 DEF HunterInv

\* A change of rows that leaves their number, and no question that was settled open.
LEMMA ChangeKeeps ==
    ASSUME HunterInv, alerts' = alerts, ads' \in Seq(Ad), DOMAIN ads' = DOMAIN ads,
           \A i \in DOMAIN ads : Hunter!Missing(ads[i].text) = {} => Hunter!Missing(ads'[i].text) = {}
    PROVE  HunterInv'
  BY DEF HunterInv, Fair

LEMMA OneRowChanged ==
    ASSUME NEW rows \in Seq(Ad), NEW i \in DOMAIN rows, NEW item \in Ad
    PROVE  /\ [rows EXCEPT ![i] = item] \in Seq(Ad)
           /\ DOMAIN [rows EXCEPT ![i] = item] = DOMAIN rows
           /\ [rows EXCEPT ![i] = item][i] = item
           /\ \A k \in DOMAIN rows : k # i => [rows EXCEPT ![i] = item][k] = rows[k]
  <1>1. /\ Len(rows) \in Nat /\ DOMAIN rows = 1 .. Len(rows)
        /\ \A k \in 1 .. Len(rows) : rows[k] \in Ad
    BY LenProperties, ElementOfSeq
  <1> DEFINE u == [rows EXCEPT ![i] = item]
  <1>2. u \in [1 .. Len(rows) -> Ad] /\ DOMAIN u = DOMAIN rows /\ u[i] = item
    BY <1>1
  <1>3. \A k \in DOMAIN rows : k # i => u[k] = rows[k]
    OBVIOUS
  <1>4. u \in Seq(Ad)
    <2> HIDE DEF u
    <2> QED
      BY <1>1, <1>2, SeqDef
  <1> QED
    BY <1>2, <1>3, <1>4

LEMMA AppliedTyped ==
    ASSUME NEW lead \in Ad, NEW means, NEW price \in Prices
    PROVE  Hunter!Applied(lead, means, price) \in Ad
           /\ Hunter!Applied(lead, means, price).text = lead.text
  <1>1. price \in Nat
    BY AssistantsAssumption DEF Hunter!HunterAssumption
  <1>2. /\ [lead EXCEPT !.removed = TRUE] \in Ad
        /\ [lead EXCEPT !.removed = TRUE].text = lead.text
    BY DEF Ad
  <1>3. /\ [lead EXCEPT !.defect = TRUE, !.level = ""] \in Ad
        /\ [lead EXCEPT !.defect = TRUE, !.level = ""].text = lead.text
    BY DEF Ad, Levels
  <1>4. /\ [lead EXCEPT !.level = "suspicious"] \in Ad
        /\ [lead EXCEPT !.level = "suspicious"].text = lead.text
    BY DEF Ad, Levels
  <1>5. /\ [lead EXCEPT !.price = price, !.inquiry = "answered"] \in Ad
        /\ [lead EXCEPT !.price = price, !.inquiry = "answered"].text = lead.text
    BY <1>1 DEF Ad
  <1> QED
    BY <1>2, <1>3, <1>4, <1>5 DEF Hunter!Applied

\* The year and the mileage are written when the answer has them, and never erased.
LEMMA NotedKeeps ==
    ASSUME NEW lead \in Ad, NEW text \in Texts, NEW level \in Levels
    PROVE  /\ Hunter!Noted(lead, text, level) \in Ad
           /\ Hunter!Missing(lead.text) = {} => Hunter!Missing(Hunter!Noted(lead, text, level).text) = {}
  <1> DEFINE age == IF text.age # Hunter!Untold THEN text.age ELSE lead.text.age
             km == IF text.km > 0 THEN text.km ELSE lead.text.km
             said == [lead.text EXCEPT !.age = age, !.km = km]
             inquiry == IF lead.inquiry \in {"pending", "sent"} THEN "answered" ELSE lead.inquiry
             item == [lead EXCEPT !.chassis = Hunter!Chassis(text), !.text = said, !.level = level,
                                 !.inquiry = inquiry]
  <1>1. lead.text \in Said /\ text \in Said
    BY AssistantsAssumption DEF Hunter!HunterAssumption, Said, Ad
  <1>2. /\ age \in Nat \cup {Hunter!Untold} /\ km \in Nat
        /\ inquiry \in {"", "pending", "sent", "answered"}
        /\ Hunter!Chassis(text) \in {"unknown", "hit"}
    BY <1>1 DEF Said, Ad, Hunter!Chassis
  <1>3. Hunter!Missing(lead.text) = {} => age # Hunter!Untold /\ km # 0 /\ lead.text.flags # {}
    <2>1. ASSUME Hunter!Missing(lead.text) = {}
          PROVE  lead.text.age # Hunter!Untold /\ lead.text.km # 0 /\ lead.text.flags # {}
      BY <2>1 DEF Hunter!Missing
    <2> QED
      BY <1>1, <2>1 DEF Said
  <1>4. Hunter!Noted(lead, text, level) = item
    BY DEF Hunter!Noted
  <1> HIDE DEF age, km, inquiry
  <1>5. said \in Said /\ said.flags = lead.text.flags /\ said.age = age /\ said.km = km
    BY <1>1, <1>2 DEF Said
  <1> HIDE DEF said
  <1>6. item \in Ad /\ item.text = said
    BY <1>2, <1>5 DEF Ad
  <1>7. Hunter!Missing(lead.text) = {} => Hunter!Missing(said) = {}
    BY <1>3, <1>5 DEF Hunter!Missing
  <1> QED
    BY <1>4, <1>6, <1>7

LEMMA RejudgedKeeps ==
    ASSUME NEW rows \in Seq(Ad), NEW i \in DOMAIN rows, NEW means, NEW text \in Texts,
           NEW price \in Prices
    PROVE  LET u == Hunter!Rejudged(rows, i, means, text, price) IN
           /\ u \in Seq(Ad) /\ DOMAIN u = DOMAIN rows
           /\ \A k \in DOMAIN rows :
                 Hunter!Missing(rows[k].text) = {} => Hunter!Missing(u[k].text) = {}
  <1> DEFINE asks == IF price > 0 THEN price ELSE rows[i].price
             m == Hunter!MarketStats(Hunter!Asked(rows), Hunter!Asked(rows))
             sc == Hunter!Evaluate(asks, m, text, Hunter!Chassis(text), Profile)
             level == IF means = "defect_admit" THEN "" ELSE sc.level
             item == Hunter!Noted(rows[i], text, level)
             u == Hunter!Rejudged(rows, i, means, text, price)
  <1>1. rows[i] \in Ad /\ price \in Nat
    <2>1. rows[i] \in Ad
      BY LenProperties, ElementOfSeq
    <2> QED
      BY <2>1, AssistantsAssumption DEF Hunter!HunterAssumption
  <1>2. asks \in Nat
    BY <1>1 DEF Ad
  <1>3. Market(m)
    BY SamplesFinite, StatsBounded
  <1>4. u = [rows EXCEPT ![i] = item]
    BY DEF Hunter!Rejudged
  <1> HIDE DEF asks, m
  <1>5. level \in Levels
    <2>1. sc.level \in Levels
      BY <1>2, <1>3, TextsSay, ThresholdsHold, JudgementSound
    <2> QED
      BY <2>1 DEF Levels
  <1> HIDE DEF level
  <1>6. item \in Ad /\ (Hunter!Missing(rows[i].text) = {} => Hunter!Missing(item.text) = {})
    BY <1>1, <1>5, NotedKeeps
  <1> HIDE DEF item, u
  <1>7. /\ u \in Seq(Ad) /\ DOMAIN u = DOMAIN rows /\ u[i] = item
        /\ \A k \in DOMAIN rows : k # i => u[k] = rows[k]
    BY <1>4, <1>6, OneRowChanged
  <1>8. \A k \in DOMAIN rows : Hunter!Missing(rows[k].text) = {} => Hunter!Missing(u[k].text) = {}
    BY <1>6, <1>7
  <1> QED
    BY <1>7, <1>8 DEF u

LEMMA AskKeeps ==
    ASSUME HunterInv, NEW i \in DOMAIN ads, Hunter!Ask(i)
    PROVE  HunterInv'
  <1> DEFINE item == [ads[i] EXCEPT !.inquiry = "sent"]
  <1>1. ads \in Seq(Ad) /\ ads[i] \in Ad
    BY LenProperties, ElementOfSeq DEF HunterInv
  <1>2. item \in Ad /\ item.text = ads[i].text
    BY <1>1 DEF Ad
  <1>3. ads' = [ads EXCEPT ![i] = item] /\ alerts' = alerts
    BY DEF Hunter!Ask
  <1> HIDE DEF item
  <1>4. /\ ads' \in Seq(Ad) /\ DOMAIN ads' = DOMAIN ads
        /\ \A k \in DOMAIN ads : ads'[k].text = ads[k].text
    BY <1>1, <1>2, <1>3, OneRowChanged
  <1> QED
    BY <1>3, <1>4, ChangeKeeps

LEMMA ReplyKeeps ==
    ASSUME HunterInv, NEW i \in DOMAIN ads, NEW means \in Meanings, NEW text \in Texts,
           NEW price \in Prices, Hunter!Reply(i, means, text, price)
    PROVE  HunterInv'
  <1> DEFINE item == Hunter!Applied(ads[i], means, price)
             rows == [ads EXCEPT ![i] = item]
             u == Hunter!Rejudged(rows, i, means, text, price)
  <1>1. ads \in Seq(Ad) /\ ads[i] \in Ad
    BY LenProperties, ElementOfSeq DEF HunterInv
  <1>2. item \in Ad /\ item.text = ads[i].text
    BY <1>1, AppliedTyped
  <1>3. alerts' = alerts /\ ads' \in {rows, u}
    BY DEF Hunter!Reply
  <1> HIDE DEF item
  <1>4. /\ rows \in Seq(Ad) /\ DOMAIN rows = DOMAIN ads
        /\ \A k \in DOMAIN ads : rows[k].text = ads[k].text
    BY <1>1, <1>2, OneRowChanged
  <1> HIDE DEF rows
  <1>5. /\ u \in Seq(Ad) /\ DOMAIN u = DOMAIN rows
        /\ \A k \in DOMAIN rows :
              Hunter!Missing(rows[k].text) = {} => Hunter!Missing(u[k].text) = {}
    BY <1>4, RejudgedKeeps
  <1> HIDE DEF u
  <1> QED
    BY <1>3, <1>4, <1>5, ChangeKeeps

LEMMA HunterStep == HunterInv /\ [Next]_vars => HunterInv'
  <1> SUFFICES ASSUME HunterInv, [Next]_vars
               PROVE  HunterInv'
    OBVIOUS
  <1>1. Hunter!Next \/ UNCHANGED <<ads, alerts>>
    BY DEF Next, vars, InWizard, InTira, InBot, InHunter, InGate
  <1>2. CASE UNCHANGED <<ads, alerts>>
    BY <1>2 DEF HunterInv, Fair
  <1>3. CASE Hunter!SeenAgain
    BY <1>3 DEF Hunter!SeenAgain, Hunter!vars, HunterInv, Fair
  <1> QED
    BY <1>1, <1>2, <1>3, ScanKeeps, AskKeeps, ReplyKeeps DEF Hunter!Next

LEMMA HunterHolds == Spec => []HunterInv
  <1>1. Init => HunterInv
    BY EmptySeq DEF Init, Hunter!Init, HunterInv
  <1> QED
    BY <1>1, HunterStep, PTL DEF Spec

\* For any thresholds, no ad is announced as a hunt that asks more than a sound car costs in
\* its market, or, with a threshold below 7.5 percent, more than the best one less the
\* threshold: the premium of a good car is eight percent, and the lowest tenth ends below the
\* median (_score_hunter, evaluate_professional).
THEOREM NoHuntAboveMarket == Spec => []AlertNotAboveMarket
  <1>1. HunterInv => AlertNotAboveMarket
    BY DEF HunterInv, Fair, AlertNotAboveMarket, Hunter!AlertNotAboveMarket
  <1> QED
    BY <1>1, HunterHolds, PTL

\* A hunt that is announced rests on three prices at least or on an ad without an open
\* question, and no answer opens one again (evaluate_professional, _apply_hunter_reply).
THEOREM HuntIsInformed == Spec => []AlertIsInformed
  <1>1. HunterInv => AlertIsInformed
    BY DEF HunterInv, Fair, AlertIsInformed, Hunter!AlertIsInformed
  <1> QED
    BY <1>1, HunterHolds, PTL

=============================================================================
