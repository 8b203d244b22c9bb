--------------------------- MODULE OutreachProofs ---------------------------
(***************************************************************************)
(* Theorems about Outreach for every set of ads, monitors and operators    *)
(* and every value of the limits and settings.                             *)
(***************************************************************************)
EXTENDS Outreach, FiniteSetTheorems, TLAPS

USE DEF adVars, msgVars, workVars, dayVars, sumVars, boundVars

-----------------------------------------------------------------------------
(* What a worker does with its message *)

\* A worker rests, or sends a message; what nobody asks for by hand is sent in a
\* channel with room, except for negotiations, which are not counted at all.
Asks(w) ==
    \/ Rest(w)
    \/ \E k \in Kinds, a \in Ads, c \in Channels :
            Send(w, k, a, c) /\ (k \in {"market", "inquiry"} => Room(c))

\* The checks before a message let through only a channel with room.
LEMMA MarketAsks ==
    ASSUME NEW w \in Workers, NEW a \in Ads, NEW c \in Channels, Market(w, a, c)
    PROVE  Asks(w)
  BY DEF Market, Asks, Kinds

LEMMA HunterChatAsks ==
    ASSUME NEW w \in Workers, NEW a \in Ads, NEW k \in Kinds,
           HunterChat(w, k, a)
    PROVE  Asks(w)
  BY DEF HunterChat, Asks, Channels

LEMMA HunterAsks ==
    ASSUME NEW w \in Workers, NEW a \in Ads, NEW k \in Kinds,
           NEW has_phone \in BOOLEAN, HunterMessage(w, k, a, has_phone)
    PROVE  Asks(w)
  <1>1. CASE has_phone /\ SmsReady /\ Room("sms")
    BY <1>1 DEF HunterMessage, Asks, Channels
  <1>2. CASE ~(has_phone /\ SmsReady /\ Room("sms"))
    BY <1>2, HunterChatAsks DEF HunterMessage
  <1> QED
    BY <1>1, <1>2

LEMMA OtherwiseAsks ==
    ASSUME NEW w \in Workers, job[w] \in Ads, kind[w] \in Kinds, Otherwise(w)
    PROVE  Asks(w)
  BY HunterChatAsks DEF Otherwise, Asks

\* A step of a worker is one of four, as far as its message is concerned: it
\* leaves the message alone, asks for another, takes an ad to find its contact,
\* or goes on with the message it has.
Keeps == UNCHANGED msgVars
Takes(w) == /\ pc' = [pc EXCEPT ![w] = "calling"]
            /\ \E a \in Ads : job' = [job EXCEPT ![w] = a]
            /\ UNCHANGED <<kind, via>>
GoesOn(w) == /\ \/ pc[w] = "sending" /\ pc' = [pc EXCEPT ![w] = "out"]
                \/ /\ pc[w] = "out" /\ kind[w] = "market"
                   /\ pc' = [pc EXCEPT ![w] = "recorded"]
             /\ UNCHANGED <<kind, job, via>>

LEMMA MessageTyped ==
    ASSUME MessageTypeOK, NEW w \in Workers,
           Asks(w) \/ Keeps \/ Takes(w) \/ GoesOn(w)
    PROVE  MessageTypeOK'
  <1>1. CASE Rest(w)
    BY <1>1 DEF Rest, MessageTypeOK
  <1>2. ASSUME NEW k \in Kinds, NEW a \in Ads, NEW c \in Channels,
               Send(w, k, a, c)
        PROVE  MessageTypeOK'
    BY <1>2 DEF Send, MessageTypeOK
  <1>3. CASE Keeps
    BY <1>3 DEF Keeps, MessageTypeOK
  <1>4. CASE Takes(w)
    BY <1>4 DEF Takes, MessageTypeOK
  <1>5. CASE GoesOn(w)
    BY <1>5 DEF GoesOn, MessageTypeOK
  <1> QED
    BY <1>1, <1>2, <1>3, <1>4, <1>5 DEF Asks

\* What each step of a worker does with its message.
LEMMA MessageStepShape ==
    ASSUME TypeOK, NEW w \in Workers, MessageStep(w)
    PROVE  Asks(w) \/ GoesOn(w)
  <1> USE DEF TypeOK, MessageTypeOK
  <1>1. CASE Delivered(w) \/ Recorded(w)
    BY <1>1 DEF Delivered, Recorded, GoesOn
  <1>2. CASE Confirmed(w) \/ Counted(w) \/ PageGone(w)
    BY <1>2 DEF Confirmed, Counted, PageGone, Asks
  <1>3. CASE NegotiationConfirmed(w) \/ Failed(w) \/ Unrecorded(w)
    BY <1>3, OtherwiseAsks DEF NegotiationConfirmed, Failed, Unrecorded
  <1> QED
    BY <1>1, <1>2, <1>3 DEF MessageStep

LEMMA MonitorStepShape ==
    ASSUME TypeOK, NEW m \in Monitors, MonitorStep(m)
    PROVE  Asks(m) \/ Keeps \/ Takes(m) \/ GoesOn(m)
  <1> USE DEF Workers
  <1>1. CASE \E a \in Ads : FetchClaim(m, a)
    BY <1>1 DEF FetchClaim, Takes
  <1>2. CASE FetchFailed(m)
    BY <1>2 DEF FetchFailed, Asks
  <1>3. ASSUME NEW answer \in {"found", "hidden", "removed"},
               FetchStored(m, answer)
        PROVE  Asks(m)
    <2>1. job[m] \in Ads
      BY <1>3 DEF FetchStored, TypeOK, MessageTypeOK
    <2>2. \/ Rest(m) \/ Market(m, job[m], "chat") \/ Market(m, job[m], "sms")
          \/ HunterMessage(m, "inquiry", job[m], TRUE)
      BY <1>3 DEF FetchStored
    <2> QED
      BY <2>1, <2>2, MarketAsks, HunterAsks DEF Asks, Channels, Kinds
  <1>4. CASE \/ DrainEnds(m) \/ DrainCut(m) \/ LoopCut(m) \/ BeginInquiries(m)
             \/ EndRound(m)
    BY <1>4 DEF DrainEnds, DrainCut, BeginChats, LoopCut, BeginInquiries,
                EndRound, Keeps
  <1>5. CASE NextChat(m)
    BY <1>5, MarketAsks DEF NextChat, Channels
  <1>6. CASE NextInquiry(m)
    BY <1>6, HunterAsks DEF NextInquiry, Kinds
  <1>7. CASE MessageStep(m)
    BY <1>7, MessageStepShape
  <1> QED
    BY <1>1, <1>2, <1>3, <1>4, <1>5, <1>6, <1>7 DEF MonitorStep

LEMMA OperatorStepShape ==
    ASSUME TypeOK, NEW o \in Operators, OperatorStep(o)
    PROVE  Asks(o) \/ Keeps \/ GoesOn(o)
  <1> USE DEF Workers
  <1>1. CASE \E a \in Ads : SendSms(o, a)
    BY <1>1 DEF SendSms, Asks, Kinds, Channels
  <1>2. CASE \E a \in Ads : Negotiate(o, a)
    BY <1>2, HunterAsks DEF Negotiate, Kinds
  <1>3. CASE BeginWeek(o) \/ LoopCut(o) \/ EndWeek(o)
    BY <1>3 DEF BeginWeek, LoopCut, EndWeek, Keeps
  <1>4. CASE NextOfWeek(o)
    BY <1>4, HunterAsks DEF NextOfWeek, Asks, Kinds
  <1>5. CASE MessageStep(o)
    BY <1>5, MessageStepShape
  <1> QED
    BY <1>1, <1>2, <1>3, <1>4, <1>5 DEF OperatorStep

-----------------------------------------------------------------------------
(* Type correctness *)

LEMMA TypeInit == Init => TypeOK
  <1> SUFFICES ASSUME Init PROVE TypeOK
    OBVIOUS
  <1>1. AdsTypeOK
    BY DEF Init, AdsTypeOK, Contacts, Levels, MessageStatus, InquiryStatus,
           LeadStatus
  <1>2. MessageTypeOK
    BY DEF Init, MessageTypeOK
  <1>3. LoopTypeOK
    BY DEF Init, LoopTypeOK
  <1>4. SumsTypeOK
    <2>1. 0 \in 0 .. MaxSends
      BY OutreachAssumption
    <2>2. sent \in [Ads -> [Kinds -> [Channels -> 0 .. MaxSends]]]
      <3>1. sent = [a \in Ads |-> [k \in Kinds |-> [c \in Channels |-> 0]]]
        BY DEF Init
      <3>2. [c \in Channels |-> 0] \in [Channels -> 0 .. MaxSends]
        BY <2>1
      <3> QED
        BY <3>1, <3>2
    <2>3. /\ crashes \in 0 .. MaxCrash /\ days \in 0 .. MaxDays
          /\ marks \in 0 .. MaxMarks /\ answers \in [Ads -> 0 .. MaxReplies]
      <3>1. /\ crashes = 0 /\ days = 0 /\ marks = 0
            /\ answers = [a \in Ads |-> 0]
        BY DEF Init
      <3> QED
        BY <3>1, OutreachAssumption
    <2>4. /\ quota \in [Channels -> Nat] /\ doubt \in [Ads -> [Kinds -> Nat]]
          /\ reopened \in [Ads -> Nat] /\ overruled \in [Ads -> Nat]
          /\ mine \in [Channels -> Nat] /\ haggled \in [Channels -> Nat]
          /\ delivered \in [Channels -> Nat] /\ uncounted \in [Channels -> Nat]
      BY DEF Init
    <2> QED
      BY <2>2, <2>3, <2>4 DEF SumsTypeOK
  <1> QED
    BY <1>1, <1>2, <1>3, <1>4 DEF TypeOK

\* What a worker reads from the database is a row.
LEMMA ReadsRow ==
    ASSUME AdsTypeOK, NEW a \in Ads
    PROVE  Read(a) \in Rows
  BY DEF AdsTypeOK, Read, Rows

\* A message under way leaves the loop of its worker alone.
LEMMA LoopKept ==
    ASSUME LoopTypeOK, NEW w \in Workers, Asks(w) \/ Keeps \/ GoesOn(w),
           MessageTypeOK, at' = at, row' = row, todo' \in [Workers -> SUBSET Ads]
    PROVE  LoopTypeOK'
  <1>1. \A x \in Workers : pc'[x] = "calling" => pc[x] = "calling"
    BY DEF Asks, Rest, Send, Keeps, GoesOn, MessageTypeOK
  <1> QED
    BY <1>1 DEF LoopTypeOK

\* A worker that is not calling may end a loop and forget its rows.
LEMMA LoopLeft ==
    ASSUME LoopTypeOK, MessageTypeOK, NEW w \in Workers, pc'[w] # "calling",
           \A x \in Workers \ {w} : pc'[x] = pc[x],
           NEW p \in {"off", "fetch", "chats"},
           at' = [at EXCEPT ![w] = p], row' = [row EXCEPT ![w] = None],
           todo' \in [Workers -> SUBSET Ads]
    PROVE  LoopTypeOK'
  BY DEF LoopTypeOK

\* A worker that is not calling may begin a loop over rows it has read.
LEMMA LoopBegun ==
    ASSUME LoopTypeOK, AdsTypeOK, NEW w \in Workers, pc[w] = "free", Keeps,
           NEW p \in {"inquiries", "week"}, at' = [at EXCEPT ![w] = p],
           row' = [row EXCEPT ![w] = [a \in Ads |-> Read(a)]],
           todo' \in [Workers -> SUBSET Ads]
    PROVE  LoopTypeOK'
  <1>1. [a \in Ads |-> Read(a)] \in [Ads -> Rows]
    BY ReadsRow
  <1> QED
    BY <1>1 DEF LoopTypeOK, Keeps

LEMMA LoopMessage ==
    ASSUME TypeOK, NEW w \in Workers, MessageStep(w)
    PROVE  LoopTypeOK'
  <1>1. at' = at /\ row' = row /\ todo' = todo
    BY DEF MessageStep, Delivered, Confirmed, Recorded, Counted,
           NegotiationConfirmed, Failed, PageGone, Unrecorded
  <1> QED
    BY <1>1, LoopKept, MessageStepShape DEF TypeOK, LoopTypeOK

LEMMA LoopMonitor ==
    ASSUME TypeOK, NEW m \in Monitors, MonitorStep(m)
    PROVE  LoopTypeOK'
  <1> USE DEF Workers, TypeOK
  <1>1. ASSUME NEW a \in Ads, FetchClaim(m, a)
        PROVE  LoopTypeOK'
    BY <1>1, ReadsRow DEF FetchClaim, LoopTypeOK, MessageTypeOK
  <1>2. CASE FetchFailed(m)
    BY <1>2 DEF FetchFailed, Rest, LoopTypeOK, MessageTypeOK
  <1>3. ASSUME NEW answer \in {"found", "hidden", "removed"},
               FetchStored(m, answer)
        PROVE  LoopTypeOK'
    <2>1. Asks(m)
      <3>1. job[m] \in Ads
        BY <1>3 DEF FetchStored, MessageTypeOK
      <3> QED
        BY <3>1, <1>3, MarketAsks, HunterAsks
        DEF FetchStored, Asks, Channels, Kinds
    <2>2. /\ pc'[m] # "calling"
          /\ \A x \in Workers \ {m} : pc'[x] = pc[x]
      BY <2>1 DEF Asks, Rest, Send, MessageTypeOK
    <2>3. at[m] = "fetch"
      BY <1>3 DEF FetchStored, LoopTypeOK
    <2> QED
      BY <1>3, <2>2, <2>3 DEF FetchStored, LoopTypeOK
  <1>4. CASE DrainEnds(m) \/ DrainCut(m)
    <2>1. BeginChats(m)
      BY <1>4 DEF DrainEnds, DrainCut
    <2>2. todo' \in [Workers -> SUBSET Ads]
      BY <2>1 DEF BeginChats, Newest, ChatQueue, LoopTypeOK
    <2> QED
      BY <2>1, <2>2 DEF BeginChats, LoopTypeOK
  <1>5. CASE LoopCut(m)
    BY <1>5, LoopKept DEF LoopCut, Keeps, LoopTypeOK
  <1>6. CASE BeginInquiries(m)
    BY <1>6, LoopBegun DEF BeginInquiries, Keeps, InquiryQueue, LoopTypeOK
  <1>7. CASE EndRound(m)
    BY <1>7, LoopLeft DEF EndRound, LoopTypeOK
  <1>8. CASE NextChat(m)
    <2>1. Asks(m)
      BY <1>8, MarketAsks DEF NextChat, Channels
    <2> QED
      BY <1>8, <2>1, LoopKept DEF NextChat, LoopTypeOK
  <1>9. CASE NextInquiry(m)
    <2>1. Asks(m)
      BY <1>9, HunterAsks DEF NextInquiry, Kinds
    <2> QED
      BY <1>9, <2>1, LoopKept DEF NextInquiry, LoopTypeOK
  <1>10. CASE MessageStep(m)
    BY <1>10, LoopMessage
  <1> QED
    BY <1>1, <1>2, <1>3, <1>4, <1>5, <1>6, <1>7, <1>8, <1>9, <1>10
    DEF MonitorStep

LEMMA LoopOperator ==
    ASSUME TypeOK, NEW o \in Operators, OperatorStep(o)
    PROVE  LoopTypeOK'
  <1> USE DEF Workers, TypeOK
  <1>1. CASE \E a \in Ads : SendSms(o, a) \/ Negotiate(o, a)
    <2>1. Asks(o)
      BY <1>1, HunterAsks DEF SendSms, Negotiate, Asks, Kinds, Channels
    <2> QED
      BY <1>1, <2>1, LoopKept DEF SendSms, Negotiate, LoopTypeOK
  <1>2. CASE BeginWeek(o)
    BY <1>2, LoopBegun DEF BeginWeek, Keeps, WeekHunts, LoopTypeOK
  <1>3. CASE LoopCut(o)
    BY <1>3, LoopKept DEF LoopCut, Keeps, LoopTypeOK
  <1>4. CASE EndWeek(o)
    BY <1>4, LoopLeft DEF EndWeek, LoopTypeOK
  <1>5. CASE NextOfWeek(o)
    <2>1. Asks(o)
      BY <1>5, HunterAsks DEF NextOfWeek, Asks, Kinds
    <2> QED
      BY <1>5, <2>1, LoopKept DEF NextOfWeek, LoopTypeOK
  <1>6. CASE MessageStep(o)
    BY <1>6, LoopMessage
  <1> QED
    BY <1>1, <1>2, <1>3, <1>4, <1>5, <1>6 DEF OperatorStep

\* One entry of a table of tables may be replaced.
LEMMA EntrySet ==
    ASSUME NEW S, NEW T, NEW V, NEW f \in [S -> [T -> V]], NEW s \in S,
           NEW t \in T, NEW v \in V
    PROVE  [f EXCEPT ![s][t] = v] \in [S -> [T -> V]]
  <1>1. [f[s] EXCEPT ![t] = v] \in [T -> V]
    OBVIOUS
  <1> QED
    BY <1>1

LEMMA MarkTyped ==
    ASSUME AdsTypeOK, NEW a \in Ads, NEW c \in Channels,
           status' = [status EXCEPT ![a][c] = "failed"]
    PROVE  status' \in [Ads -> [Channels -> MessageStatus]]
  <1>1. "failed" \in MessageStatus
    BY DEF MessageStatus
  <1> QED
    BY <1>1, EntrySet DEF AdsTypeOK

\* A message and its outcome write values of their type.
LEMMA AdsMessage ==
    ASSUME TypeOK, NEW w \in Workers, MessageStep(w)
    PROVE  AdsTypeOK'
  <1> USE DEF TypeOK, MessageTypeOK, Contacts, MessageStatus, InquiryStatus,
              LeadStatus
  <1>1. CASE Delivered(w) \/ NegotiationConfirmed(w) \/ Unrecorded(w) \/ Counted(w)
    BY <1>1 DEF Delivered, NegotiationConfirmed, Unrecorded, Counted, AdsTypeOK
  <1>2. CASE Confirmed(w)
    BY <1>2 DEF Confirmed, AdsTypeOK
  <1>3. CASE Recorded(w)
    BY <1>3 DEF Recorded, AdsTypeOK
  <1>4. CASE Failed(w)
    <2>1. job[w] \in Ads /\ via[w] \in Channels
      BY <1>4 DEF Failed
    <2>2. status' \in [Ads -> [Channels -> MessageStatus]]
      <3>1. \/ status' = status
            \/ status' = [status EXCEPT ![job[w]][via[w]] = "failed"]
        BY <1>4 DEF Failed
      <3>2. CASE status' = status
        BY <3>2 DEF AdsTypeOK
      <3> QED
        BY <2>1, <3>1, <3>2, MarkTyped
    <2>3. lead_status' \in [Ads -> LeadStatus]
      BY <1>4, <2>1 DEF Failed, AdsTypeOK
    <2> QED
      BY <1>4, <2>2, <2>3 DEF Failed, AdsTypeOK
  <1>5. CASE PageGone(w)
    BY <1>5 DEF PageGone, AdsTypeOK
  <1> QED
    BY <1>1, <1>2, <1>3, <1>4, <1>5 DEF MessageStep

LEMMA AdsWorker ==
    ASSUME TypeOK, NEW w \in Workers,
           \/ w \in Monitors /\ MonitorStep(w)
           \/ w \in Operators /\ OperatorStep(w)
    PROVE  AdsTypeOK'
  <1>1. CASE MessageStep(w)
    BY <1>1, AdsMessage
  <1>2. ASSUME NEW answer \in {"found", "hidden", "removed"},
               FetchStored(w, answer)
        PROVE  AdsTypeOK'
    <2>1. /\ contact' = [contact EXCEPT ![job[w]] = answer]
          /\ UNCHANGED <<level, status, inquiry_status, lead_status>>
      BY <1>2 DEF FetchStored
    <2> QED
      BY <2>1 DEF TypeOK, AdsTypeOK, Contacts
  <1>3. CASE UNCHANGED adVars
    BY <1>3 DEF TypeOK, AdsTypeOK
  <1> QED
    BY <1>1, <1>2, <1>3
    DEF MonitorStep, OperatorStep, FetchClaim, FetchFailed, DrainEnds, DrainCut,
        BeginChats, NextChat, LoopCut, BeginInquiries, NextInquiry, EndRound,
        SendSms, Negotiate, BeginWeek, NextOfWeek, EndWeek

\* A message and its outcome keep the sums within their types.
LEMMA SumsMessage ==
    ASSUME TypeOK, NEW w \in Workers, MessageStep(w)
    PROVE  SumsTypeOK'
  <1>1. /\ pc[w] # "free" /\ job[w] \in Ads /\ kind[w] \in Kinds
        /\ via[w] \in Channels
    BY DEF MessageStep, Delivered, Confirmed, Recorded, Counted,
           NegotiationConfirmed, Failed, PageGone, Unrecorded, TypeOK,
           MessageTypeOK
  <1>2. Doubted(w) => doubt' \in [Ads -> [Kinds -> Nat]]
    BY <1>1 DEF Doubted, TypeOK, SumsTypeOK
  <1>3. Count(w) => /\ quota' \in [Channels -> Nat]
                    /\ mine' \in [Channels -> Nat]
    BY <1>1 DEF Count, TypeOK, SumsTypeOK
  <1>9. Uncounted(w) => uncounted' \in [Channels -> Nat]
    BY <1>1 DEF Uncounted, TypeOK, SumsTypeOK
  <1>4. CASE Delivered(w)
    <2>2. delivered' \in [Channels -> Nat]
      BY <1>1, <1>4 DEF Delivered, TypeOK, SumsTypeOK
    <2>1. sent' \in [Ads -> [Kinds -> [Channels -> 0 .. MaxSends]]]
      <3>1. sent[job[w]][kind[w]][via[w]] + 1 \in 0 .. MaxSends
        <4>1. sent[job[w]][kind[w]][via[w]] \in 0 .. MaxSends
          BY <1>1 DEF TypeOK, SumsTypeOK
        <4> QED
          BY <1>4, <4>1, OutreachAssumption DEF Delivered
      <3> QED
        BY <1>1, <1>4, <3>1 DEF Delivered, TypeOK, SumsTypeOK
    <2> QED
      BY <1>4, <2>1, <2>2 DEF Delivered, TypeOK, SumsTypeOK
  <1>5. CASE Confirmed(w) \/ Counted(w)
    BY <1>3, <1>5 DEF Confirmed, Counted, TypeOK, SumsTypeOK
  <1>6. CASE Recorded(w) \/ PageGone(w)
    BY <1>6 DEF Recorded, PageGone, TypeOK, SumsTypeOK
  <1>7. CASE NegotiationConfirmed(w)
    BY <1>1, <1>2, <1>7 DEF NegotiationConfirmed, TypeOK, SumsTypeOK
  <1>8. CASE Failed(w) \/ Unrecorded(w)
    BY <1>2, <1>8, <1>9 DEF Failed, Unrecorded, TypeOK, SumsTypeOK
  <1> QED
    BY <1>4, <1>5, <1>6, <1>7, <1>8 DEF MessageStep

LEMMA SumsWorker ==
    ASSUME TypeOK, NEW w \in Workers,
           \/ w \in Monitors /\ MonitorStep(w)
           \/ w \in Operators /\ OperatorStep(w)
    PROVE  SumsTypeOK'
  <1>1. CASE MessageStep(w)
    BY <1>1, SumsMessage
  <1>2. CASE UNCHANGED <<quota, sumVars, boundVars>>
    BY <1>2 DEF TypeOK, SumsTypeOK
  <1> QED
    BY <1>1, <1>2
    DEF MonitorStep, OperatorStep, FetchClaim, FetchFailed, FetchStored,
        DrainEnds, DrainCut, BeginChats, NextChat, LoopCut, BeginInquiries,
        NextInquiry, EndRound, SendSms, Negotiate, BeginWeek, NextOfWeek,
        EndWeek

\* A step of the seller, the user or the clock; none of a worker.
LEMMA TypeWorld ==
    ASSUME TypeOK, WorldStep
    PROVE  TypeOK'
  <1>1. ASSUME NEW a \in Ads, SellerAnswers(a)
        PROVE  TypeOK'
    <2>1. AdsTypeOK'
      BY <1>1 DEF SellerAnswers, TypeOK, AdsTypeOK, Contacts, InquiryStatus,
                  LeadStatus
    <2>2. answers' \in [Ads -> 0 .. MaxReplies]
      BY <1>1, OutreachAssumption DEF SellerAnswers, TypeOK, SumsTypeOK
    <2> QED
      BY <1>1, <2>1, <2>2
      DEF SellerAnswers, TypeOK, SumsTypeOK, MessageTypeOK, LoopTypeOK
  <1>2. ASSUME NEW a \in Ads, Requeue(a)
        PROVE  TypeOK'
    BY <1>2 DEF Requeue, TypeOK, SumsTypeOK, MessageTypeOK, LoopTypeOK,
                AdsTypeOK, Contacts
  <1>3. ASSUME NEW a \in Ads, NEW s \in LeadStatus, NEW chat \in MessageStatus,
               UserMarks(a, s, chat)
        PROVE  TypeOK'
    <2>1. AdsTypeOK'
      BY <1>3 DEF UserMarks, TypeOK, AdsTypeOK, Channels
    <2>2. marks' \in 0 .. MaxMarks /\ reopened' \in [Ads -> Nat]
      BY <1>3, OutreachAssumption DEF UserMarks, TypeOK, SumsTypeOK
    <2> QED
      BY <1>3, <2>1, <2>2
      DEF UserMarks, TypeOK, SumsTypeOK, MessageTypeOK, LoopTypeOK
  <1>4. CASE QuotaReset
    <2>1. days' \in 0 .. MaxDays
      BY <1>4, OutreachAssumption DEF QuotaReset, TypeOK, SumsTypeOK
    <2> QED
      BY <1>4, <2>1
      DEF QuotaReset, TypeOK, SumsTypeOK, MessageTypeOK, LoopTypeOK, AdsTypeOK
  <1>5. CASE Crash
    <2>1. doubt' \in [Ads -> [Kinds -> Nat]]
      <3>1. ASSUME NEW a \in Ads, NEW k \in Kinds
            PROVE  Cardinality({w \in Workers : /\ pc[w] = "out" /\ job[w] = a
                                                /\ kind[w] = k}) \in Nat
        <4> DEFINE Lost == {w \in Workers : pc[w] = "out" /\ job[w] = a
                                            /\ kind[w] = k}
        <4>1. Lost \in SUBSET Workers
          OBVIOUS
        <4>2. IsFiniteSet(Lost)
          BY <4>1, OutreachAssumption, FS_Subset
        <4> QED
          BY <4>2, FS_CardinalityType
      <3>2. doubt \in [Ads -> [Kinds -> Nat]]
        BY DEF TypeOK, SumsTypeOK
      <3>3. doubt' = [a \in Ads |-> [k \in Kinds |-> doubt[a][k] +
                Cardinality({w \in Workers : /\ pc[w] = "out" /\ job[w] = a
                                             /\ kind[w] = k})]]
        BY <1>5 DEF Crash
      <3> QED
        BY <3>1, <3>2, <3>3
    <2>2. crashes' \in 0 .. MaxCrash
      BY <1>5, OutreachAssumption DEF Crash, TypeOK, SumsTypeOK
    <2>5. uncounted' \in [Channels -> Nat]
      <3>1. \A c \in Channels : Cardinality(Out(c)) \in Nat
        BY OutreachAssumption, FS_Subset, FS_CardinalityType DEF Out
      <3>2. uncounted' = [c \in Channels |-> uncounted[c] + Cardinality(Out(c))]
        BY <1>5 DEF Crash
      <3> QED
        BY <3>1, <3>2 DEF TypeOK, SumsTypeOK
    <2>3. SumsTypeOK' /\ AdsTypeOK'
      BY <1>5, <2>1, <2>2, <2>5 DEF Crash, TypeOK, SumsTypeOK, AdsTypeOK
    <2>4. MessageTypeOK' /\ LoopTypeOK'
      BY <1>5 DEF Crash, MessageTypeOK, LoopTypeOK
    <2> QED
      BY <2>3, <2>4 DEF TypeOK
  <1> QED
    BY <1>1, <1>2, <1>3, <1>4, <1>5 DEF WorldStep

LEMMA TypeStep == TypeOK /\ [Next]_vars => TypeOK'
  <1> SUFFICES ASSUME TypeOK, [Next]_vars PROVE TypeOK'
    OBVIOUS
  <1> USE DEF Workers
  <1>1. ASSUME NEW m \in Monitors, MonitorStep(m)
        PROVE  TypeOK'
    BY <1>1, MonitorStepShape, MessageTyped, LoopMonitor, AdsWorker, SumsWorker
    DEF TypeOK
  <1>2. ASSUME NEW o \in Operators, OperatorStep(o)
        PROVE  TypeOK'
    BY <1>2, OperatorStepShape, MessageTyped, LoopOperator, AdsWorker,
       SumsWorker DEF TypeOK
  <1>3. CASE WorldStep
    BY <1>3, TypeWorld
  <1>4. CASE UNCHANGED vars
    BY <1>4 DEF vars, TypeOK, AdsTypeOK, MessageTypeOK, LoopTypeOK, SumsTypeOK
  <1> QED
    BY <1>1, <1>2, <1>3, <1>4 DEF Next

\* Every variable keeps its type, and a worker with a message its ad, kind and
\* channel, in every reachable state.
THEOREM TypeCorrect == Spec => []TypeOK
  BY TypeInit, TypeStep, PTL DEF Spec

-----------------------------------------------------------------------------
(* The daily limits.  What was counted for nobody is in the quota row as well, *)
(* so a check that finds room leaves place for a message of every worker; a    *)
(* message that got through is counted, about to be, or its count was lost.    *)

\* Messages on their way that count against the limit of their channel.
UnderWay(c) == {w \in Workers : /\ pc[w] \in {"sending", "out", "recorded"}
                                /\ via[w] = c
                                /\ kind[w] \in {"market", "inquiry"}}

CountedWithinLimits ==
    \A c \in Channels :
        mine[c] + Cardinality(UnderWay(c))
            <= Limit[c] + (Cardinality(Workers) - 1)

Budget ==
    /\ \A c \in Channels : mine[c] <= quota[c]
    /\ CountedWithinLimits

\* The messages under way are some of the workers'.
LEMMA UnderWaySizes ==
    ASSUME NEW S \in SUBSET Workers, NEW T \in SUBSET S
    PROVE  /\ IsFiniteSet(S) /\ Cardinality(S) \in Nat
           /\ Cardinality(T) \in Nat /\ Cardinality(T) <= Cardinality(S)
  <1>1. IsFiniteSet(S)
    BY OutreachAssumption, FS_Subset
  <1> QED
    BY <1>1, FS_Subset, FS_CardinalityType

LEMMA UnderWayLoses ==
    ASSUME NEW S \in SUBSET Workers, NEW w \in S
    PROVE  /\ Cardinality(S) \in Nat /\ Cardinality(S \ {w}) \in Nat
           /\ Cardinality(S \ {w}) = Cardinality(S) - 1
  BY UnderWaySizes, FS_RemoveElement

LEMMA NumbersTyped ==
    ASSUME SumsTypeOK, NEW c \in Channels
    PROVE  /\ quota[c] \in Nat /\ mine[c] \in Nat
           /\ Limit[c] \in Nat \ {0}
           /\ Cardinality(Workers) \in Nat
           /\ UnderWay(c) \in SUBSET Workers /\ UnderWay(c)' \in SUBSET Workers
           /\ Cardinality(UnderWay(c)) \in Nat
           /\ Cardinality(UnderWay(c)') \in Nat
           /\ Cardinality(UnderWay(c)') <= Cardinality(Workers)
  <1>1. UnderWay(c) \in SUBSET Workers /\ UnderWay(c)' \in SUBSET Workers
    BY DEF UnderWay
  <1>2. quota[c] \in Nat /\ mine[c] \in Nat
    BY DEF SumsTypeOK
  <1>3. Limit[c] \in Nat \ {0}
    BY OutreachAssumption DEF Limit
  <1> QED
    BY <1>1, <1>2, <1>3, UnderWaySizes

\* A step that counts nothing and sends nothing new.
LEMMA BudgetKept ==
    ASSUME SumsTypeOK, Budget, UNCHANGED <<mine, quota>>,
           \A c \in Channels : UnderWay(c)' \subseteq UnderWay(c)
    PROVE  Budget'
  <1>1. ASSUME NEW c \in Channels
        PROVE  mine'[c] + Cardinality(UnderWay(c)')
                    <= Limit[c] + (Cardinality(Workers) - 1)
    <2>1. Cardinality(UnderWay(c)') <= Cardinality(UnderWay(c))
      BY <1>1, NumbersTyped, UnderWaySizes
    <2>2. mine[c] + Cardinality(UnderWay(c))
              <= Limit[c] + (Cardinality(Workers) - 1)
      BY <1>1 DEF Budget, CountedWithinLimits
    <2> QED
      BY <1>1, <2>1, <2>2, NumbersTyped
  <1> QED
    BY <1>1 DEF Budget, CountedWithinLimits

\* A worker that sends a message found room for it, or is not limited.
LEMMA BudgetAsks ==
    ASSUME TypeOK, Budget, NEW w \in Workers, Asks(w), UNCHANGED <<mine, quota>>
    PROVE  Budget'
  <1> USE DEF TypeOK
  <1>1. CASE Rest(w)
    <2>1. \A c \in Channels : UnderWay(c)' \subseteq UnderWay(c)
      BY <1>1 DEF Rest, UnderWay, MessageTypeOK
    <2> QED
      BY <2>1, BudgetKept
  <1>2. ASSUME NEW k \in Kinds, NEW a \in Ads, NEW c \in Channels,
               Send(w, k, a, c), k \in {"market", "inquiry"} => Room(c)
        PROVE  Budget'
    <2>1. CASE k \notin {"market", "inquiry"}
      <3>1. \A d \in Channels : UnderWay(d)' \subseteq UnderWay(d)
        BY <1>2, <2>1 DEF Send, UnderWay, MessageTypeOK
      <3> QED
        BY <3>1, BudgetKept
    <2>2. CASE k \in {"market", "inquiry"}
      <3>1. \A d \in Channels \ {c} : UnderWay(d)' \subseteq UnderWay(d)
        BY <1>2, <2>2 DEF Send, UnderWay, MessageTypeOK
      <3>2. ASSUME NEW d \in Channels
            PROVE  mine'[d] + Cardinality(UnderWay(d)')
                        <= Limit[d] + (Cardinality(Workers) - 1)
        <4>1. CASE d = c
          <5>1. mine[c] <= quota[c] /\ quota[c] < Limit[c]
            BY <1>2, <2>2 DEF Budget, Room
          <5> QED
            BY <4>1, <5>1, NumbersTyped
        <4>2. CASE d # c
          <5>1. Cardinality(UnderWay(d)') <= Cardinality(UnderWay(d))
            BY <3>1, <3>2, <4>2, NumbersTyped, UnderWaySizes
          <5>2. mine[d] + Cardinality(UnderWay(d))
                    <= Limit[d] + (Cardinality(Workers) - 1)
            BY <3>2 DEF Budget, CountedWithinLimits
          <5> QED
            BY <3>2, <5>1, <5>2, NumbersTyped
        <4> QED
          BY <4>1, <4>2
      <3> QED
        BY <3>2 DEF Budget, CountedWithinLimits
    <2> QED
      BY <2>1, <2>2
  <1> QED
    BY <1>1, <1>2 DEF Asks

\* A counted message leaves the way for the row; one asked for by hand was not
\* limited and takes room from the others.
LEMMA BudgetCount ==
    ASSUME TypeOK, Budget, NEW w \in Workers, pc[w] \in {"out", "recorded"},
           kind[w] \in {"market", "inquiry", "manual"}, Count(w), Rest(w)
    PROVE  Budget'
  <1> USE DEF TypeOK
  <1>1. PICK v \in Channels : v = via[w]
    BY DEF MessageTypeOK
  <1>2. \A c \in Channels : UnderWay(c)' = UnderWay(c) \ {w}
    BY DEF Rest, UnderWay, MessageTypeOK
  <1>3. quota' = [quota EXCEPT ![v] = @ + 1]
    BY <1>1 DEF Count
  <1>4. CASE kind[w] = "manual"
    <2>1. mine' = mine
      BY <1>4 DEF Count
    <2>2. ASSUME NEW c \in Channels
          PROVE  /\ mine'[c] <= quota'[c]
                 /\ mine'[c] + Cardinality(UnderWay(c)')
                        <= Limit[c] + (Cardinality(Workers) - 1)
      <3>1. Cardinality(UnderWay(c)') <= Cardinality(UnderWay(c))
        BY <1>2, NumbersTyped, UnderWaySizes
      <3>2. quota[c] <= quota'[c]
        BY <1>3, NumbersTyped DEF SumsTypeOK
      <3>3. /\ mine[c] <= quota[c]
            /\ mine[c] + Cardinality(UnderWay(c))
                    <= Limit[c] + (Cardinality(Workers) - 1)
        BY DEF Budget, CountedWithinLimits
      <3>4. quota'[c] \in Nat
        BY <1>1, <1>3 DEF SumsTypeOK
      <3> QED
        BY <2>1, <3>1, <3>2, <3>3, <3>4, NumbersTyped
    <2> QED
      BY <2>2 DEF Budget, CountedWithinLimits
  <1>5. CASE kind[w] # "manual"
    <2>1. mine' = [mine EXCEPT ![v] = @ + 1]
      BY <1>1, <1>5 DEF Count
    <2>2. ASSUME NEW c \in Channels
          PROVE  /\ mine'[c] <= quota'[c]
                 /\ mine'[c] + Cardinality(UnderWay(c)')
                        <= Limit[c] + (Cardinality(Workers) - 1)
      <3>1. /\ mine[c] <= quota[c]
            /\ mine[c] + Cardinality(UnderWay(c))
                    <= Limit[c] + (Cardinality(Workers) - 1)
        BY DEF Budget, CountedWithinLimits
      <3>2. CASE c = v
        <4>1. w \in UnderWay(v)
          BY <1>1, <1>5 DEF UnderWay
        <4>2. Cardinality(UnderWay(v)') = Cardinality(UnderWay(v)) - 1
          BY <1>1, <1>2, <4>1, NumbersTyped, UnderWayLoses
        <4>3. mine'[v] = mine[v] + 1 /\ quota'[v] = quota[v] + 1
          BY <1>1, <1>3, <2>1 DEF SumsTypeOK
        <4> QED
          BY <3>1, <3>2, <4>2, <4>3, NumbersTyped
      <3>3. CASE c # v
        <4>1. Cardinality(UnderWay(c)') <= Cardinality(UnderWay(c))
          BY <1>2, NumbersTyped, UnderWaySizes
        <4>2. mine'[c] = mine[c] /\ quota'[c] = quota[c]
          BY <1>3, <2>1, <3>3 DEF SumsTypeOK
        <4> QED
          BY <3>1, <4>1, <4>2, NumbersTyped
      <3> QED
        BY <3>2, <3>3
    <2> QED
      BY <2>2 DEF Budget, CountedWithinLimits
  <1> QED
    BY <1>4, <1>5

\* Every step of a worker keeps the budget.
LEMMA BudgetMessage ==
    ASSUME TypeOK, Budget, NEW w \in Workers, MessageStep(w)
    PROVE  Budget'
  <1>1. CASE Delivered(w) \/ Recorded(w)
    <2>1. GoesOn(w) /\ UNCHANGED <<mine, quota>>
      BY <1>1 DEF Delivered, Recorded, GoesOn
    <2>2. \A c \in Channels : UnderWay(c)' \subseteq UnderWay(c)
      BY <2>1 DEF GoesOn, UnderWay, TypeOK, MessageTypeOK
    <2> QED
      BY <2>1, <2>2, BudgetKept DEF TypeOK
  <1>2. CASE Confirmed(w) \/ Counted(w)
    <2>1. /\ Count(w) /\ Rest(w) /\ pc[w] \in {"out", "recorded"}
          /\ kind[w] \in {"market", "inquiry", "manual"}
      BY <1>2 DEF Confirmed, Counted, TypeOK, MessageTypeOK
    <2> QED
      BY <2>1, BudgetCount
  <1>3. CASE \/ NegotiationConfirmed(w) \/ Failed(w) \/ PageGone(w)
             \/ Unrecorded(w)
    <2>1. UNCHANGED <<mine, quota>>
      BY <1>3 DEF NegotiationConfirmed, Failed, PageGone, Unrecorded
    <2>2. job[w] \in Ads /\ kind[w] \in Kinds
      BY <1>3 DEF NegotiationConfirmed, Failed, PageGone, Unrecorded, TypeOK,
                  MessageTypeOK
    <2>3. Asks(w)
      BY <1>3, <2>2, OtherwiseAsks
      DEF NegotiationConfirmed, Failed, PageGone, Unrecorded, Asks
    <2> QED
      BY <2>1, <2>3, BudgetAsks
  <1> QED
    BY <1>1, <1>2, <1>3 DEF MessageStep

LEMMA BudgetWorker ==
    ASSUME TypeOK, Budget, NEW w \in Workers,
           \/ w \in Monitors /\ MonitorStep(w)
           \/ w \in Operators /\ OperatorStep(w)
    PROVE  Budget'
  <1>1. CASE MessageStep(w)
    BY <1>1, BudgetMessage
  <1>2. CASE ~MessageStep(w)
    <2>1. UNCHANGED <<mine, quota>>
      BY <1>2
      DEF MonitorStep, OperatorStep, FetchClaim, FetchFailed, FetchStored,
          DrainEnds, DrainCut, BeginChats, NextChat, LoopCut, BeginInquiries,
          NextInquiry, EndRound, SendSms, Negotiate, BeginWeek, NextOfWeek,
          EndWeek
    <2>2. Asks(w) \/ Keeps \/ Takes(w) \/ GoesOn(w)
      BY MonitorStepShape, OperatorStepShape
    <2>3. CASE Asks(w)
      BY <2>1, <2>3, BudgetAsks
    <2>4. CASE Keeps \/ Takes(w) \/ GoesOn(w)
      <3>1. \A c \in Channels : UnderWay(c)' \subseteq UnderWay(c)
        BY <2>4 DEF Keeps, Takes, GoesOn, UnderWay, TypeOK, MessageTypeOK
      <3> QED
        BY <2>1, <3>1, BudgetKept DEF TypeOK
    <2> QED
      BY <2>2, <2>3, <2>4
  <1> QED
    BY <1>1, <1>2

\* A new day starts with at most one message of every worker under way.
LEMMA BudgetWorld ==
    ASSUME TypeOK, Budget, WorldStep
    PROVE  Budget'
  <1>1. CASE \/ \E a \in Ads : SellerAnswers(a) \/ Requeue(a)
             \/ \E a \in Ads, s \in LeadStatus, chat \in MessageStatus :
                    UserMarks(a, s, chat)
    <2>1. UNCHANGED <<mine, quota>> /\ Keeps
      BY <1>1 DEF SellerAnswers, Requeue, UserMarks, Keeps
    <2>2. \A c \in Channels : UnderWay(c)' \subseteq UnderWay(c)
      BY <2>1 DEF Keeps, UnderWay
    <2> QED
      BY <2>1, <2>2, BudgetKept DEF TypeOK
  <1>2. CASE QuotaReset
    <2>1. /\ quota' = [c \in Channels |-> 0] /\ mine' = [c \in Channels |-> 0]
      BY <1>2 DEF QuotaReset
    <2>2. \A c \in Channels : mine'[c] = 0 /\ quota'[c] = 0
      BY <2>1
    <2> QED
      BY <2>2, NumbersTyped DEF Budget, CountedWithinLimits, TypeOK
  <1>3. CASE Crash
    <2>1. UNCHANGED <<mine, quota>>
      BY <1>3 DEF Crash
    <2>2. \A c \in Channels : UnderWay(c)' \subseteq UnderWay(c)
      BY <1>3 DEF Crash, UnderWay
    <2> QED
      BY <2>1, <2>2, BudgetKept DEF TypeOK
  <1> QED
    BY <1>1, <1>2, <1>3 DEF WorldStep

LEMMA BudgetInit == Init => Budget
  <1> SUFFICES ASSUME Init PROVE Budget
    OBVIOUS
  <1>1. ASSUME NEW c \in Channels
        PROVE  mine[c] = 0 /\ quota[c] = 0 /\ UnderWay(c) = {}
    BY DEF Init, UnderWay
  <1> QED
    BY <1>1, TypeInit, NumbersTyped, FS_EmptySet, UnderWaySizes
    DEF Budget, CountedWithinLimits, TypeOK

LEMMA BudgetInvariant == Spec => []Budget
  <1>1. ASSUME TypeOK, Budget, [Next]_vars
        PROVE  Budget'
    <2>1. CASE UNCHANGED vars
      <3>1. UNCHANGED <<mine, quota>>
        BY <2>1 DEF vars
      <3>2. \A c \in Channels : UnderWay(c)' \subseteq UnderWay(c)
        BY <2>1 DEF vars, UnderWay
      <3> QED
        BY <1>1, <3>1, <3>2, BudgetKept DEF TypeOK
    <2> QED
      BY <1>1, <2>1, BudgetWorker, BudgetWorld DEF Next, Workers
  <1> QED
    BY BudgetInit, <1>1, TypeCorrect, PTL DEF Spec

\* A message that got through is counted, about to be, or its count was lost.
Accounted ==
    \A c \in Channels : delivered[c] <= mine[c] + Cardinality(Out(c)) + uncounted[c]

LEMMA OutSizes ==
    ASSUME NEW c \in Channels, NEW w \in Workers
    PROVE  /\ Cardinality(Out(c) \ {w}) \in Nat
           /\ Cardinality(Out(c)) = Cardinality(Out(c) \ {w})
                                       + (IF w \in Out(c) THEN 1 ELSE 0)
           /\ Cardinality(Out(c)') = Cardinality(Out(c)' \ {w})
                                       + (IF w \in Out(c)' THEN 1 ELSE 0)
  <1>1. Out(c) \in SUBSET Workers /\ Out(c)' \in SUBSET Workers
    BY DEF Out
  <1>2. ASSUME NEW S \in SUBSET Workers
        PROVE  /\ Cardinality(S \ {w}) \in Nat
               /\ Cardinality(S) = Cardinality(S \ {w}) + (IF w \in S THEN 1 ELSE 0)
    <2>1. CASE w \in S
      BY <2>1, UnderWayLoses
    <2>2. CASE w \notin S
      <3>1. S \ {w} = S
        BY <2>2
      <3> QED
        BY <2>2, <3>1, UnderWaySizes
    <2> QED
      BY <2>1, <2>2
  <1> QED
    BY <1>1, <1>2

\* The other workers' messages are where they were.
LEMMA OutOthers ==
    ASSUME TypeOK, NEW w \in Workers, Asks(w) \/ Keeps \/ Takes(w) \/ GoesOn(w),
           NEW c \in Channels
    PROVE  Out(c)' \ {w} = Out(c) \ {w}
  BY DEF Asks, Rest, Send, Keeps, Takes, GoesOn, Out, TypeOK, MessageTypeOK

LEMMA AskedIsNotOut ==
    ASSUME TypeOK, NEW w \in Workers, Asks(w), NEW c \in Channels
    PROVE  w \notin Out(c)'
  BY DEF Asks, Rest, Send, Out, TypeOK, MessageTypeOK

LEMMA AccountedMessage ==
    ASSUME TypeOK, Accounted, NEW w \in Workers, MessageStep(w)
    PROVE  Accounted'
  <1> SUFFICES ASSUME NEW c \in Channels
               PROVE  delivered'[c] <= mine'[c] + Cardinality(Out(c)') + uncounted'[c]
    BY DEF Accounted
  <1> DEFINE N == Cardinality(Out(c) \ {w})
  <1>0. Out(c)' \ {w} = Out(c) \ {w}
    BY OutOthers, MessageStepShape
  <1>1. /\ N \in Nat /\ delivered[c] \in Nat /\ mine[c] \in Nat /\ uncounted[c] \in Nat
        /\ delivered \in [Channels -> Nat] /\ mine \in [Channels -> Nat]
        /\ uncounted \in [Channels -> Nat]
    BY OutSizes DEF TypeOK, SumsTypeOK
  <1>2. /\ delivered[c] <= mine[c] + N + (IF w \in Out(c) THEN 1 ELSE 0) + uncounted[c]
        /\ Cardinality(Out(c)') = N + (IF w \in Out(c)' THEN 1 ELSE 0)
    <2>1. /\ Cardinality(Out(c)) = N + (IF w \in Out(c) THEN 1 ELSE 0)
          /\ Cardinality(Out(c)') = N + (IF w \in Out(c)' THEN 1 ELSE 0)
      BY <1>0, OutSizes
    <2>2. delivered[c] <= mine[c] + Cardinality(Out(c)) + uncounted[c]
      BY DEF Accounted
    <2> HIDE DEF N
    <2> QED
      BY <1>1, <2>1, <2>2
  <1> HIDE DEF N
  <1>3. kind[w] \in Kinds /\ via[w] \in Channels
    BY DEF MessageStep, Delivered, Confirmed, Recorded, Counted,
           NegotiationConfirmed, Failed, PageGone, Unrecorded, TypeOK, MessageTypeOK
  <1>4. CASE Delivered(w)
    <2>1. w \notin Out(c) /\ UNCHANGED <<mine, uncounted>>
      BY <1>4 DEF Delivered, Out
    <2>2. CASE kind[w] \in Limited /\ via[w] = c
      <3>1. w \in Out(c)'
        BY <1>4, <2>2 DEF Delivered, Out, TypeOK, MessageTypeOK
      <3>2. delivered'[c] = delivered[c] + 1
        BY <1>1, <1>4, <2>2 DEF Delivered
      <3> QED
        BY <1>1, <1>2, <2>1, <3>1, <3>2
    <2>3. CASE ~(kind[w] \in Limited /\ via[w] = c)
      <3>1. delivered'[c] = delivered[c]
        BY <1>1, <1>3, <1>4, <2>3 DEF Delivered
      <3> QED
        BY <1>1, <1>2, <2>1, <3>1
    <2> QED
      BY <2>2, <2>3
  <1>5. CASE Recorded(w)
    <2>1. w \in Out(c) => w \in Out(c)'
      BY <1>5 DEF Recorded, Out, TypeOK, MessageTypeOK
    <2>2. UNCHANGED <<delivered, mine, uncounted>>
      BY <1>5 DEF Recorded
    <2> QED
      BY <1>1, <1>2, <2>1, <2>2
  <1>6. CASE Confirmed(w) \/ Counted(w)
    <2>1. Count(w) /\ UNCHANGED <<delivered, uncounted>>
      BY <1>6 DEF Confirmed, Counted
    <2>2. CASE w \in Out(c)
      <3>1. mine'[c] = mine[c] + 1
        BY <1>1, <2>1, <2>2 DEF Count, Out, Limited
      <3> QED
        BY <1>1, <1>2, <2>1, <2>2, <3>1
    <2>3. CASE w \notin Out(c)
      <3>1. mine'[c] >= mine[c] /\ mine'[c] \in Nat
        BY <1>1, <1>3, <2>1 DEF Count
      <3> QED
        BY <1>1, <1>2, <2>1, <2>3, <3>1
    <2> QED
      BY <2>2, <2>3
  <1>7. CASE NegotiationConfirmed(w) \/ PageGone(w)
    <2>1. w \notin Out(c) /\ UNCHANGED <<delivered, mine, uncounted>>
      BY <1>7 DEF NegotiationConfirmed, PageGone, Out, Limited
    <2> QED
      BY <1>1, <1>2, <2>1
  <1>8. CASE Failed(w) \/ Unrecorded(w)
    <2>1. Uncounted(w) /\ UNCHANGED <<delivered, mine>>
      BY <1>8 DEF Failed, Unrecorded
    <2>2. CASE w \in Out(c)
      <3>1. uncounted'[c] = uncounted[c] + 1
        BY <1>1, <2>1, <2>2 DEF Uncounted, Out
      <3> QED
        BY <1>1, <1>2, <2>1, <2>2, <3>1
    <2>3. CASE w \notin Out(c)
      <3>1. uncounted'[c] >= uncounted[c] /\ uncounted'[c] \in Nat
        BY <1>1, <1>3, <2>1 DEF Uncounted
      <3> QED
        BY <1>1, <1>2, <2>1, <2>3, <3>1
    <2> QED
      BY <2>2, <2>3
  <1> QED
    BY <1>4, <1>5, <1>6, <1>7, <1>8 DEF MessageStep

LEMMA AccountedKept ==
    ASSUME Accounted, UNCHANGED <<delivered, mine, uncounted>>,
           \A c \in Channels : Out(c)' = Out(c)
    PROVE  Accounted'
  BY DEF Accounted

LEMMA AccountedWorker ==
    ASSUME TypeOK, Accounted, NEW w \in Workers,
           \/ w \in Monitors /\ MonitorStep(w)
           \/ w \in Operators /\ OperatorStep(w)
    PROVE  Accounted'
  <1>1. CASE MessageStep(w)
    BY <1>1, AccountedMessage
  <1>2. CASE ~MessageStep(w)
    <2>1. /\ UNCHANGED <<delivered, mine, uncounted>>
          /\ pc[w] \in {"free", "calling"} \/ Keeps
      BY <1>2
      DEF MonitorStep, OperatorStep, FetchClaim, FetchFailed, FetchStored,
          DrainEnds, DrainCut, BeginChats, NextChat, LoopCut, BeginInquiries,
          NextInquiry, EndRound, SendSms, Negotiate, BeginWeek, NextOfWeek,
          EndWeek, Keeps
    <2>2. CASE Keeps
      BY <2>1, <2>2, AccountedKept DEF Keeps, Out
    <2>3. CASE pc[w] \in {"free", "calling"}
      <3>1. Asks(w) \/ Keeps \/ Takes(w) \/ GoesOn(w)
        BY MonitorStepShape, OperatorStepShape
      <3>2. \A c \in Channels : w \notin Out(c)
        BY <2>3 DEF Out
      <3>3. \A c \in Channels : w \notin Out(c)'
        BY <2>3, <3>1, <3>2, AskedIsNotOut
        DEF Keeps, Takes, GoesOn, Out, TypeOK, MessageTypeOK
      <3>4. \A c \in Channels : Out(c)' = Out(c)
        BY <3>1, <3>2, <3>3, OutOthers
      <3> QED
        BY <2>1, <3>4, AccountedKept
    <2> QED
      BY <2>1, <2>2, <2>3
  <1> QED
    BY <1>1, <1>2

LEMMA AccountedWorld ==
    ASSUME TypeOK, Accounted, WorldStep
    PROVE  Accounted'
  <1>1. CASE \/ \E a \in Ads : SellerAnswers(a) \/ Requeue(a)
             \/ \E a \in Ads, s \in LeadStatus, chat \in MessageStatus :
                    UserMarks(a, s, chat)
    BY <1>1, AccountedKept DEF SellerAnswers, Requeue, UserMarks, Out
  <1>2. CASE QuotaReset
    <2>1. ASSUME NEW c \in Channels
          PROVE  /\ delivered'[c] = 0 /\ mine'[c] = 0 /\ uncounted'[c] = 0
                 /\ Cardinality(Out(c)') \in Nat
      <3>1. Out(c)' \in SUBSET Workers
        BY DEF Out
      <3> QED
        BY <1>2, <3>1, UnderWaySizes DEF QuotaReset
    <2> QED
      BY <2>1 DEF Accounted
  <1>3. CASE Crash
    <2>1. ASSUME NEW c \in Channels
          PROVE  delivered'[c] <= mine'[c] + Cardinality(Out(c)') + uncounted'[c]
      <3>1. Out(c)' = {} /\ Cardinality(Out(c)') = 0
        BY <1>3, FS_EmptySet DEF Crash, Out
      <3>2. /\ delivered'[c] = delivered[c] /\ mine'[c] = mine[c]
            /\ uncounted'[c] = uncounted[c] + Cardinality(Out(c))
        BY <1>3 DEF Crash
      <3>3. Cardinality(Out(c)) \in Nat
        BY UnderWaySizes DEF Out
      <3> QED
        BY <3>1, <3>2, <3>3 DEF Accounted, TypeOK, SumsTypeOK
    <2> QED
      BY <2>1 DEF Accounted
  <1> QED
    BY <1>1, <1>2, <1>3 DEF WorldStep

LEMMA AccountedInvariant == Spec => []Accounted
  <1>1. Init => Accounted
    <2> SUFFICES ASSUME Init, NEW c \in Channels
                 PROVE  delivered[c] <= mine[c] + Cardinality(Out(c)) + uncounted[c]
      BY DEF Accounted
    <2>1. Out(c) = {} /\ delivered[c] = 0 /\ mine[c] = 0 /\ uncounted[c] = 0
      BY DEF Init, Out
    <2> QED
      BY <2>1, FS_EmptySet
  <1>2. ASSUME TypeOK, Accounted, [Next]_vars
        PROVE  Accounted'
    <2>1. CASE UNCHANGED vars
      BY <1>2, <2>1, AccountedKept DEF vars, Out
    <2> QED
      BY <1>2, <2>1, AccountedWorker, AccountedWorld DEF Next, Workers
  <1> QED
    BY <1>1, <1>2, TypeCorrect, PTL DEF Spec

\* However the monitors and the request threads interleave with each other, with
\* crashes and with quota resets, the marketing messages and inquiries that reach a
\* seller in a day exceed the limit of a channel by one for every other worker and
\* one for every count that was lost at most.
THEOREM LimitsKept == Spec => []WithinDailyLimits
  <1>1. TypeOK /\ Budget /\ Accounted => WithinDailyLimits
    <2> SUFFICES ASSUME TypeOK, Budget, Accounted, NEW c \in Channels
                 PROVE  delivered[c] + Cardinality(Sending(c))
                            <= Limit[c] + (Cardinality(Workers) - 1) + uncounted[c]
      BY DEF WithinDailyLimits
    <2>1. /\ Out(c) \in SUBSET Workers /\ Sending(c) \in SUBSET Workers
          /\ UnderWay(c) = Out(c) \cup Sending(c) /\ Out(c) \cap Sending(c) = {}
      BY DEF Out, Sending, UnderWay, Limited
    <2>2. Cardinality(UnderWay(c)) = Cardinality(Out(c)) + Cardinality(Sending(c))
      <3>1. IsFiniteSet(Out(c)) /\ IsFiniteSet(Sending(c))
        BY <2>1, UnderWaySizes
      <3>2. Cardinality(Out(c) \cup Sending(c))
                = Cardinality(Out(c)) + Cardinality(Sending(c))
                    - Cardinality(Out(c) \cap Sending(c))
        BY <3>1, FS_Union
      <3>3. Cardinality(Out(c) \cap Sending(c)) = 0
        BY <2>1, FS_EmptySet
      <3>4. Cardinality(Out(c)) \in Nat /\ Cardinality(Sending(c)) \in Nat
        BY <2>1, UnderWaySizes
      <3> QED
        BY <2>1, <3>2, <3>3, <3>4
    <2>3. /\ mine[c] + Cardinality(UnderWay(c)) <= Limit[c] + (Cardinality(Workers) - 1)
          /\ delivered[c] <= mine[c] + Cardinality(Out(c)) + uncounted[c]
      BY DEF Budget, CountedWithinLimits, Accounted
    <2>4. Cardinality(Out(c)) \in Nat /\ Cardinality(Sending(c)) \in Nat
      BY <2>1, UnderWaySizes
    <2> QED
      BY <2>2, <2>3, <2>4, NumbersTyped DEF TypeOK, SumsTypeOK
  <1> QED
    BY <1>1, BudgetInvariant, AccountedInvariant, TypeCorrect, PTL

-----------------------------------------------------------------------------
(* Whose turn it is: the ad of a worker's message, and the ads it has left.   *)

\* A worker rests, or sends a message of this kind to the seller of this ad.
Turns(w, k, a) == Rest(w) \/ \E c \in Channels : Send(w, k, a, c)

LEMMA MarketTurns ==
    ASSUME NEW w \in Workers, NEW a \in Ads, NEW c \in Channels, Market(w, a, c)
    PROVE  Turns(w, "market", a)
  BY DEF Market, Turns

LEMMA HunterTurns ==
    ASSUME NEW w \in Workers, NEW a \in Ads, NEW k \in Kinds,
           NEW has_phone \in BOOLEAN, HunterMessage(w, k, a, has_phone)
    PROVE  Turns(w, k, a)
  BY DEF HunterMessage, HunterChat, Turns, Channels

LEMMA OtherwiseTurns ==
    ASSUME NEW w \in Workers, Otherwise(w)
    PROVE  /\ Turns(w, kind[w], job[w])
           /\ kind[w] \notin {"inquiry", "negotiation"} => Rest(w)
  BY DEF Otherwise, HunterChat, Turns, Channels

\* What a turn leaves in the hands of its worker.
LEMMA TurnTaken ==
    ASSUME MessageTypeOK, NEW w \in Workers, NEW k \in Kinds, NEW a \in Ads,
           Turns(w, k, a)
    PROVE  /\ pc'[w] \in {"free", "sending"}
           /\ pc'[w] = "sending" => kind'[w] = k /\ job'[w] = a
           /\ \A x \in Workers \ {w} : /\ pc'[x] = pc[x] /\ kind'[x] = kind[x]
                                       /\ job'[x] = job[x] /\ via'[x] = via[x]
  BY DEF Turns, Rest, Send, MessageTypeOK

\* A step of a worker leaves the others alone.
Alone(w) ==
    \A x \in Workers \ {w} :
        /\ pc'[x] = pc[x] /\ kind'[x] = kind[x] /\ job'[x] = job[x]
        /\ via'[x] = via[x] /\ at'[x] = at[x] /\ todo'[x] = todo[x]
        /\ row'[x] = row[x]

\* The steps of a worker's message, one by one.
LEMMA MessageTurn ==
    ASSUME TypeOK, NEW w \in Workers, MessageStep(w)
    PROVE  /\ at' = at /\ todo' = todo /\ row' = row
           /\ job[w] \in Ads /\ kind[w] \in Kinds /\ via[w] \in Channels
           /\ pc[w] \in {"sending", "out", "recorded"}
           /\ Turns(w, kind[w], job[w]) \/ GoesOn(w)
  <1> USE DEF TypeOK, MessageTypeOK
  <1>1. /\ at' = at /\ todo' = todo /\ row' = row
        /\ pc[w] \in {"sending", "out", "recorded"}
    BY DEF MessageStep, Delivered, Confirmed, Recorded, Counted,
           NegotiationConfirmed, Failed, PageGone, Unrecorded
  <1>2. job[w] \in Ads /\ kind[w] \in Kinds /\ via[w] \in Channels
    BY <1>1
  <1>3. CASE Delivered(w) \/ Recorded(w)
    BY <1>3 DEF Delivered, Recorded, GoesOn
  <1>4. CASE Confirmed(w) \/ Counted(w) \/ PageGone(w)
    BY <1>4 DEF Confirmed, Counted, PageGone, Turns
  <1>5. CASE NegotiationConfirmed(w) \/ Failed(w) \/ Unrecorded(w)
    BY <1>5, OtherwiseTurns DEF NegotiationConfirmed, Failed, Unrecorded
  <1> QED
    BY <1>1, <1>2, <1>3, <1>4, <1>5 DEF MessageStep

\* A worker at rest in the phone queue, or out of a loop, has no ads left, and
\* the ad of its message is no longer among them.
Own(w) == /\ at[w] \in {"fetch", "off"} => todo[w] = {}
          /\ pc[w] # "free" => job[w] \notin todo[w]
Handed == \A w \in Workers : Own(w)

\* A worker may yet deliver an inquiry, or has delivered one it has not stored:
\* on the ad's row as it read it, the seller had not been asked.
MayAsk(w, a) ==
    \/ pc[w] \in {"sending", "out"} /\ kind[w] = "inquiry" /\ job[w] = a
    \/ pc[w] = "calling" /\ job[w] = a /\ row[w].inquiry # "sent"
    \/ at[w] = "inquiries" /\ a \in todo[w]
    \/ at[w] = "week" /\ a \in todo[w] /\ row[w][a].inquiry # "sent"

\* A step of a worker concerns itself, and makes it one that may ask a seller
\* only while the database does not say that the seller was asked.
Careful(w) ==
    /\ Alone(w) /\ Own(w)'
    /\ \A a \in Ads : MayAsk(w, a)' => MayAsk(w, a) \/ inquiry_status[a] # "sent"

LEMMA CarefulMessage ==
    ASSUME TypeOK, Handed, NEW w \in Workers, MessageStep(w)
    PROVE  Careful(w)
  <1>1. /\ at' = at /\ todo' = todo /\ row' = row
        /\ job[w] \in Ads /\ kind[w] \in Kinds
        /\ pc[w] \in {"sending", "out", "recorded"}
        /\ Turns(w, kind[w], job[w]) \/ GoesOn(w)
    BY MessageTurn
  <1>2. /\ pc'[w] \in {"free", "sending", "out", "recorded"}
        /\ pc'[w] # "free" => kind'[w] = kind[w] /\ job'[w] = job[w]
        /\ \A x \in Workers \ {w} : /\ pc'[x] = pc[x] /\ kind'[x] = kind[x]
                                    /\ job'[x] = job[x] /\ via'[x] = via[x]
    BY <1>1, TurnTaken DEF GoesOn, TypeOK, MessageTypeOK
  <1>3. pc[w] = "recorded" => kind[w] = "market"
    BY DEF TypeOK, MessageTypeOK
  <1>4. Alone(w)
    BY <1>1, <1>2 DEF Alone
  <1>5. Own(w)'
    BY <1>1, <1>2 DEF Own, Handed
  <1>6. ASSUME NEW a \in Ads, MayAsk(w, a)'
        PROVE  MayAsk(w, a)
    BY <1>1, <1>2, <1>3, <1>6 DEF MayAsk
  <1> QED
    BY <1>4, <1>5, <1>6 DEF Careful

\* A turn out of a loop: what is asked was to do, and is no longer.
LEMMA CarefulTurn ==
    ASSUME TypeOK, Handed, NEW w \in Workers, NEW a \in todo[w], NEW k \in Kinds,
           pc[w] = "free", Turns(w, k, a), at' = at, row' = row,
           todo' = [todo EXCEPT ![w] = @ \ {a}],
           k = "inquiry" => MayAsk(w, a)
    PROVE  Careful(w)
  <1>1. a \in Ads /\ todo \in [Workers -> SUBSET Ads]
    BY DEF TypeOK, LoopTypeOK
  <1>2. /\ pc'[w] \in {"free", "sending"}
        /\ pc'[w] = "sending" => kind'[w] = k /\ job'[w] = a
        /\ \A x \in Workers \ {w} : /\ pc'[x] = pc[x] /\ kind'[x] = kind[x]
                                    /\ job'[x] = job[x] /\ via'[x] = via[x]
    BY <1>1, TurnTaken DEF TypeOK
  <1>3. todo'[w] = todo[w] \ {a} /\ \A x \in Workers \ {w} : todo'[x] = todo[x]
    BY <1>1
  <1>4. Alone(w)
    BY <1>2, <1>3 DEF Alone
  <1>5. Own(w)'
    BY <1>2, <1>3 DEF Own, Handed
  <1>6. ASSUME NEW b \in Ads, MayAsk(w, b)'
        PROVE  MayAsk(w, b)
    BY <1>2, <1>3, <1>6 DEF MayAsk
  <1> QED
    BY <1>4, <1>5, <1>6 DEF Careful

\* A worker that begins a loop, or ends one, has no message.
LEMMA CarefulLoop ==
    ASSUME TypeOK, NEW w \in Workers, pc[w] = "free", Keeps,
           NEW p, NEW S \in SUBSET Ads,
           at' = [at EXCEPT ![w] = p], todo' = [todo EXCEPT ![w] = S],
           row' = row \/ \E r : row' = [row EXCEPT ![w] = r],
           p \in {"fetch", "off"} => S = {},
           \A a \in S : \/ p \notin {"inquiries", "week"}
                        \/ inquiry_status[a] # "sent"
                        \/ p = "week" /\ row'[w][a].inquiry = "sent"
    PROVE  Careful(w)
  <1>1. at'[w] = p /\ todo'[w] = S /\ pc'[w] = "free" /\ Alone(w)
    BY DEF TypeOK, LoopTypeOK, Keeps, Alone
  <1>2. Own(w)'
    BY <1>1 DEF Own
  <1>3. ASSUME NEW a \in Ads, MayAsk(w, a)'
        PROVE  inquiry_status[a] # "sent"
    BY <1>1, <1>3 DEF MayAsk
  <1> QED
    BY <1>1, <1>2, <1>3 DEF Careful

LEMMA CarefulMonitor ==
    ASSUME TypeOK, Handed, NEW m \in Monitors, MonitorStep(m)
    PROVE  Careful(m)
  <1> USE DEF Workers
  <1>1. ASSUME NEW a \in Ads, FetchClaim(m, a)
        PROVE  Careful(m)
    <2>1. /\ pc'[m] = "calling" /\ job'[m] = a /\ row'[m] = Read(a)
          /\ at' = at /\ todo' = todo /\ at[m] = "fetch" /\ Alone(m)
      BY <1>1 DEF FetchClaim, Alone, TypeOK, MessageTypeOK, LoopTypeOK
    <2>2. todo[m] = {}
      BY <2>1 DEF Handed, Own
    <2>3. ASSUME NEW b \in Ads, MayAsk(m, b)'
          PROVE  inquiry_status[b] # "sent"
      BY <2>1, <2>3 DEF MayAsk, Read
    <2> QED
      BY <2>1, <2>2, <2>3 DEF Careful, Own
  <1>2. CASE FetchFailed(m)
    <2>1. /\ pc[m] = "calling" /\ pc'[m] = "free" /\ at' = at /\ todo' = todo
          /\ Alone(m)
      BY <1>2 DEF FetchFailed, Rest, Alone, TypeOK, MessageTypeOK, LoopTypeOK
    <2>2. at[m] = "fetch" /\ todo[m] = {}
      BY <2>1 DEF TypeOK, LoopTypeOK, Handed, Own
    <2> QED
      BY <2>1, <2>2 DEF Careful, Own, MayAsk
  <1>3. ASSUME NEW answer \in {"found", "hidden", "removed"},
               FetchStored(m, answer)
        PROVE  Careful(m)
    <2>1. /\ pc[m] = "calling" /\ at' = at /\ todo' = todo /\ job[m] \in Ads
          /\ at[m] = "fetch" /\ todo[m] = {}
          /\ row' = [row EXCEPT ![m] = None]
      BY <1>3 DEF FetchStored, TypeOK, MessageTypeOK, LoopTypeOK, Handed, Own
    <2>2. PICK k \in {"market", "inquiry"} :
              /\ Turns(m, k, job[m])
              /\ k = "inquiry" => row[m].inquiry # "sent"
      <3>1. \/ Rest(m) \/ Market(m, job[m], "chat") \/ Market(m, job[m], "sms")
            \/ /\ HunterMessage(m, "inquiry", job[m], TRUE)
               /\ row[m].inquiry # "sent"
        BY <1>3 DEF FetchStored
      <3>2. Rest(m) => Turns(m, "market", job[m])
        BY DEF Turns
      <3> QED
        BY <2>1, <3>1, <3>2, MarketTurns, HunterTurns DEF Channels, Kinds
    <2>3. /\ pc'[m] \in {"free", "sending"}
          /\ pc'[m] = "sending" => kind'[m] = k /\ job'[m] = job[m]
          /\ \A x \in Workers \ {m} : /\ pc'[x] = pc[x] /\ kind'[x] = kind[x]
                                      /\ job'[x] = job[x] /\ via'[x] = via[x]
      BY <2>1, <2>2, TurnTaken DEF TypeOK, Kinds
    <2>4. Alone(m)
      BY <2>1, <2>3 DEF Alone, TypeOK, LoopTypeOK
    <2>5. ASSUME NEW a \in Ads, MayAsk(m, a)'
          PROVE  MayAsk(m, a)
      BY <2>1, <2>2, <2>3, <2>5 DEF MayAsk
    <2> QED
      BY <2>1, <2>3, <2>4, <2>5 DEF Careful, Own
  <1>4. CASE DrainEnds(m) \/ DrainCut(m)
    <2>1. BeginChats(m)
      BY <1>4 DEF DrainEnds, DrainCut
    <2>2. PICK S \in SUBSET Ads : todo' = [todo EXCEPT ![m] = S]
      BY <2>1 DEF BeginChats, Newest, ChatQueue
    <2>3. \A a \in S : "chats" \notin {"inquiries", "week"}
      OBVIOUS
    <2> QED
      BY <2>1, <2>2, <2>3, CarefulLoop DEF BeginChats, Keeps
  <1>5. CASE NextChat(m)
    <2>1. PICK a \in todo[m] : /\ todo' = [todo EXCEPT ![m] = @ \ {a}]
                               /\ Market(m, a, "chat")
      BY <1>5 DEF NextChat, IsNext
    <2>2. a \in Ads
      BY DEF TypeOK, LoopTypeOK
    <2> QED
      BY <1>5, <2>1, <2>2, MarketTurns, CarefulTurn DEF NextChat, Channels, Kinds
  <1>6. CASE LoopCut(m)
    <2>1. /\ at' = at /\ todo'[m] = {} /\ pc'[m] = "free" /\ Alone(m)
      BY <1>6 DEF LoopCut, Alone, TypeOK, LoopTypeOK
    <2> QED
      BY <2>1 DEF Careful, Own, MayAsk
  <1>7. CASE BeginInquiries(m)
    <2>1. InquiryQueue \in SUBSET Ads
          /\ \A a \in InquiryQueue : inquiry_status[a] # "sent"
      BY DEF InquiryQueue
    <2> QED
      BY <1>7, <2>1, CarefulLoop DEF BeginInquiries, Keeps
  <1>8. CASE NextInquiry(m)
    <2>1. PICK a \in todo[m] :
              /\ todo' = [todo EXCEPT ![m] = @ \ {a}]
              /\ HunterMessage(m, "inquiry", a, row[m][a].contact = "found")
      BY <1>8 DEF NextInquiry, IsNext
    <2>2. a \in Ads
      BY DEF TypeOK, LoopTypeOK
    <2>3. MayAsk(m, a)
      BY <1>8 DEF NextInquiry, MayAsk
    <2> QED
      BY <1>8, <2>1, <2>2, <2>3, HunterTurns, CarefulTurn DEF NextInquiry, Kinds
  <1>9. CASE EndRound(m)
    <2>1. todo' = [todo EXCEPT ![m] = {}]
      BY <1>9 DEF EndRound, TypeOK, LoopTypeOK
    <2> QED
      BY <1>9, <2>1, CarefulLoop DEF EndRound, Keeps
  <1>10. CASE MessageStep(m)
    BY <1>10, CarefulMessage
  <1> QED
    BY <1>1, <1>2, <1>3, <1>4, <1>5, <1>6, <1>7, <1>8, <1>9, <1>10
    DEF MonitorStep

LEMMA CarefulOperator ==
    ASSUME TypeOK, Handed, NEW o \in Operators, OperatorStep(o)
    PROVE  Careful(o)
  <1> USE DEF Workers
  <1>1. ASSUME NEW a \in Ads, SendSms(o, a) \/ Negotiate(o, a)
        PROVE  Careful(o)
    <2>1. PICK k \in {"manual", "negotiation"} : Turns(o, k, a)
      BY <1>1, HunterTurns DEF SendSms, Negotiate, Turns, Channels, Kinds
    <2>2. /\ at[o] = "off" /\ at' = at /\ todo' = todo /\ row' = row
      BY <1>1 DEF SendSms, Negotiate
    <2>3. todo[o] = {}
      BY <2>2 DEF Handed, Own
    <2>4. /\ pc'[o] \in {"free", "sending"}
          /\ pc'[o] = "sending" => kind'[o] = k /\ job'[o] = a
          /\ \A x \in Workers \ {o} : /\ pc'[x] = pc[x] /\ kind'[x] = kind[x]
                                      /\ job'[x] = job[x] /\ via'[x] = via[x]
      BY <2>1, TurnTaken DEF TypeOK, Kinds
    <2>5. ASSUME NEW b \in Ads, MayAsk(o, b)'
          PROVE  FALSE
      BY <2>2, <2>3, <2>4, <2>5 DEF MayAsk
    <2> QED
      BY <2>2, <2>3, <2>4, <2>5 DEF Careful, Alone, Own
  <1>2. CASE BeginWeek(o)
    <2>1. /\ WeekHunts \in SUBSET Ads
          /\ \A a \in WeekHunts : \/ inquiry_status[a] # "sent"
                                  \/ row'[o][a].inquiry = "sent"
      BY <1>2 DEF BeginWeek, WeekHunts, Read, TypeOK, LoopTypeOK
    <2> QED
      BY <1>2, <2>1, CarefulLoop DEF BeginWeek, Keeps
  <1>3. CASE NextOfWeek(o)
    <2>1. PICK a \in todo[o] :
              /\ todo' = [todo EXCEPT ![o] = @ \ {a}]
              /\ \/ Rest(o)
                 \/ HunterMessage(o, "negotiation", a, row[o][a].contact = "found")
                 \/ /\ row[o][a].inquiry # "sent"
                    /\ HunterMessage(o, "inquiry", a, row[o][a].contact = "found")
      BY <1>3 DEF NextOfWeek, IsNext
    <2>2. a \in Ads
      BY DEF TypeOK, LoopTypeOK
    <2>3. row[o][a].inquiry # "sent" => MayAsk(o, a)
      BY <1>3 DEF NextOfWeek, MayAsk
    <2>4. PICK k \in {"negotiation", "inquiry"} :
              Turns(o, k, a) /\ (k = "inquiry" => MayAsk(o, a))
      BY <2>1, <2>2, <2>3, HunterTurns DEF Turns, Kinds
    <2> QED
      BY <1>3, <2>1, <2>4, CarefulTurn DEF NextOfWeek, Kinds
  <1>4. CASE LoopCut(o)
    <2>1. /\ at' = at /\ todo'[o] = {} /\ pc'[o] = "free" /\ Alone(o)
      BY <1>4 DEF LoopCut, Alone, TypeOK, LoopTypeOK
    <2> QED
      BY <2>1 DEF Careful, Own, MayAsk
  <1>5. CASE EndWeek(o)
    <2>1. todo' = [todo EXCEPT ![o] = {}]
      BY <1>5 DEF EndWeek, TypeOK, LoopTypeOK
    <2> QED
      BY <1>5, <2>1, CarefulLoop DEF EndWeek, Keeps
  <1>6. CASE MessageStep(o)
    BY <1>6, CarefulMessage
  <1> QED
    BY <1>1, <1>2, <1>3, <1>4, <1>5, <1>6 DEF OperatorStep

-----------------------------------------------------------------------------
(* The inquiries.  Stored is the number of inquiries to a seller that the      *)
(* database knows of: those delivered, less the ones whose outcome was lost    *)
(* and those still to be stored.  While the row does not say 'sent', it is     *)
(* within what is due for the earlier reasons; once it does, everyone that may *)
(* yet ask was already one of those it leaves room for.                        *)

Asked(a) == sent[a]["inquiry"]["sms"] + sent[a]["inquiry"]["chat"]
Posted(a) == {w \in Workers : /\ pc[w] = "out" /\ kind[w] = "inquiry"
                              /\ job[w] = a}
Stored(a) == Asked(a) - doubt[a]["inquiry"] - Cardinality(Posted(a))
Askers(a) == {w \in Workers : MayAsk(w, a)}
Reasons(a) == answers[a] + overruled[a]
Due(reasons) == reasons * Cardinality(Workers)

Inquiries ==
    \A a \in Ads :
        /\ Stored(a) + Cardinality(Askers(a))
                <= Due(Reasons(a)) + Cardinality(Workers)
        /\ inquiry_status[a] # "sent" => Stored(a) <= Due(Reasons(a))

\* With a reason more, every worker may ask once more.
LEMMA DueGrows ==
    ASSUME NEW x \in Nat
    PROVE  /\ Cardinality(Workers) \in Nat /\ Due(x) \in Nat
           /\ Due(x + 1) = Due(x) + Cardinality(Workers)
           /\ (1 + x) * Cardinality(Workers) = Due(x) + Cardinality(Workers)
  <1>1. PICK n \in Nat : n = Cardinality(Workers)
    BY UnderWaySizes
  <1>2. x * n \in Nat /\ (x + 1) * n = x * n + n /\ (1 + x) * n = x * n + n
    OBVIOUS
  <1> QED
    BY <1>1, <1>2 DEF Due

LEMMA InquiriesTyped ==
    ASSUME SumsTypeOK, NEW a \in Ads
    PROVE  /\ Asked(a) \in Nat /\ doubt[a]["inquiry"] \in Nat
           /\ Reasons(a) \in Nat /\ answers[a] \in Nat /\ overruled[a] \in Nat
           /\ Posted(a) \in SUBSET Workers /\ Askers(a) \in SUBSET Workers
           /\ Cardinality(Posted(a)) \in Nat /\ Cardinality(Askers(a)) \in Nat
           /\ Cardinality(Askers(a)) <= Cardinality(Workers)
           /\ Stored(a) \in Int
  <1>1. /\ sent[a]["inquiry"]["sms"] \in 0 .. MaxSends
        /\ sent[a]["inquiry"]["chat"] \in 0 .. MaxSends
        /\ doubt[a]["inquiry"] \in Nat /\ overruled[a] \in Nat
        /\ answers[a] \in 0 .. MaxReplies
    BY DEF SumsTypeOK, Kinds, Channels
  <1>2. Posted(a) \in SUBSET Workers /\ Askers(a) \in SUBSET Workers
    BY DEF Posted, Askers
  <1>3. /\ Cardinality(Posted(a)) \in Nat /\ Cardinality(Askers(a)) \in Nat
        /\ Cardinality(Askers(a)) <= Cardinality(Workers)
    BY <1>2, UnderWaySizes
  <1>4. Asked(a) \in Nat /\ Reasons(a) \in Nat /\ answers[a] \in Nat
    BY <1>1, OutreachAssumption DEF Asked, Reasons
  <1> QED
    BY <1>1, <1>2, <1>3, <1>4 DEF Stored

\* The same facts of the state after a step.
LEMMA InquiriesTypedNext ==
    ASSUME SumsTypeOK', NEW a \in Ads
    PROVE  /\ Asked(a)' \in Nat /\ doubt'[a]["inquiry"] \in Nat
           /\ Reasons(a)' \in Nat
           /\ Posted(a)' \in SUBSET Workers /\ Askers(a)' \in SUBSET Workers
           /\ Cardinality(Posted(a)') \in Nat /\ Cardinality(Askers(a)') \in Nat
           /\ Cardinality(Askers(a)') <= Cardinality(Workers)
           /\ Stored(a)' = Asked(a)' - doubt'[a]["inquiry"]
                                - Cardinality(Posted(a)')
           /\ Stored(a)' \in Int
  <1>1. /\ sent'[a]["inquiry"]["sms"] \in 0 .. MaxSends
        /\ sent'[a]["inquiry"]["chat"] \in 0 .. MaxSends
        /\ doubt'[a]["inquiry"] \in Nat /\ overruled'[a] \in Nat
        /\ answers'[a] \in 0 .. MaxReplies
    BY DEF SumsTypeOK, Kinds, Channels
  <1>2. Posted(a)' \in SUBSET Workers /\ Askers(a)' \in SUBSET Workers
    BY DEF Posted, Askers
  <1>3. /\ Cardinality(Posted(a)') \in Nat /\ Cardinality(Askers(a)') \in Nat
        /\ Cardinality(Askers(a)') <= Cardinality(Workers)
    BY <1>2, UnderWaySizes
  <1>4. Asked(a)' \in Nat /\ Reasons(a)' \in Nat
    BY <1>1, OutreachAssumption DEF Asked, Reasons
  <1>5. Stored(a)' = Asked(a)' - doubt'[a]["inquiry"] - Cardinality(Posted(a)')
    BY DEF Stored
  <1> QED
    BY <1>1, <1>2, <1>3, <1>4, <1>5

\* A step by which the database learns of no inquiry.
LEMMA InquiryKept ==
    ASSUME SumsTypeOK, SumsTypeOK', Inquiries, NEW a \in Ads,
           Stored(a)' = Stored(a),
           Askers(a)' \subseteq Askers(a) \/ inquiry_status[a] # "sent",
           \/ Reasons(a)' = Reasons(a) + 1
           \/ /\ Reasons(a)' = Reasons(a)
              /\ inquiry_status'[a] # "sent" => inquiry_status[a] # "sent"
    PROVE  /\ Stored(a)' + Cardinality(Askers(a)')
                   <= Due(Reasons(a)') + Cardinality(Workers)
           /\ inquiry_status'[a] # "sent" => Stored(a)' <= Due(Reasons(a)')
  <1>1. /\ Stored(a) + Cardinality(Askers(a))
                   <= Due(Reasons(a)) + Cardinality(Workers)
        /\ inquiry_status[a] # "sent" => Stored(a) <= Due(Reasons(a))
    BY DEF Inquiries
  <1>2. /\ Stored(a) \in Int /\ Cardinality(Askers(a)) \in Nat
        /\ Cardinality(Askers(a)') \in Nat
        /\ Cardinality(Askers(a)') <= Cardinality(Workers)
        /\ Reasons(a) \in Nat
        /\ Cardinality(Workers) \in Nat /\ Due(Reasons(a)) \in Nat
        /\ Due(Reasons(a) + 1) = Due(Reasons(a)) + Cardinality(Workers)
    BY InquiriesTyped, InquiriesTypedNext, DueGrows
  <1>3. Askers(a)' \subseteq Askers(a) =>
            Cardinality(Askers(a)') <= Cardinality(Askers(a))
    BY InquiriesTyped, UnderWaySizes
  <1>4. CASE Reasons(a)' = Reasons(a) + 1
    <2>1. Stored(a)' <= Due(Reasons(a)')
      BY <1>1, <1>2, <1>4
    <2> QED
      BY <1>2, <1>4, <2>1
  <1>5. CASE Reasons(a)' = Reasons(a) /\ inquiry_status[a] # "sent"
    BY <1>1, <1>2, <1>5
  <1>6. CASE /\ Reasons(a)' = Reasons(a) /\ inquiry_status[a] = "sent"
             /\ inquiry_status'[a] = "sent" /\ Askers(a)' \subseteq Askers(a)
    BY <1>1, <1>2, <1>3, <1>6
  <1> QED
    BY <1>4, <1>5, <1>6

LEMMA AskersKept ==
    ASSUME NEW w \in Workers, Careful(w), NEW a \in Ads
    PROVE  Askers(a)' \subseteq Askers(a) \/ inquiry_status[a] # "sent"
  <1>1. ASSUME NEW x \in Workers \ {w}, MayAsk(x, a)'
        PROVE  MayAsk(x, a)
    BY <1>1 DEF Careful, Alone, MayAsk
  <1>2. MayAsk(w, a)' => MayAsk(w, a) \/ inquiry_status[a] # "sent"
    BY DEF Careful
  <1> QED
    BY <1>1, <1>2 DEF Askers

\* The messages out with an inquiry, after a step of one worker.
LEMMA PostedBy ==
    ASSUME NEW w \in Workers, Alone(w), NEW a \in Ads
    PROVE  Posted(a)' = IF pc'[w] = "out" /\ kind'[w] = "inquiry" /\ job'[w] = a
                        THEN Posted(a) \cup {w} ELSE Posted(a) \ {w}
  BY DEF Posted, Alone

\* Nothing delivered, nothing lost: the database knows of what it knew.
LEMMA StoredKept ==
    ASSUME SumsTypeOK, SumsTypeOK', NEW w \in Workers, Alone(w), NEW a \in Ads,
           sent'[a] = sent[a], doubt'[a]["inquiry"] = doubt[a]["inquiry"],
           (w \in Posted(a)') <=> (w \in Posted(a))
    PROVE  Stored(a)' = Stored(a)
  <1>1. Posted(a)' = Posted(a)
    BY PostedBy DEF Posted
  <1>2. Asked(a)' = Asked(a)
    BY DEF Asked
  <1> QED
    BY <1>1, <1>2, InquiriesTypedNext DEF Stored

\* A message gets through: its inquiry is out.
LEMMA StoredDelivered ==
    ASSUME TypeOK, SumsTypeOK', NEW w \in Workers, Alone(w), Delivered(w),
           NEW a \in Ads
    PROVE  Stored(a)' = Stored(a)
  <1>1. PICK k \in Kinds, b \in Ads, c \in Channels :
            k = kind[w] /\ b = job[w] /\ c = via[w]
    BY DEF Delivered, TypeOK, MessageTypeOK
  <1>2. /\ sent' = [sent EXCEPT ![b][k][c] = @ + 1] /\ doubt' = doubt
        /\ pc[w] = "sending" /\ pc'[w] = "out" /\ kind' = kind /\ job' = job
    BY <1>1 DEF Delivered, TypeOK, MessageTypeOK
  <1>3. sent \in [Ads -> [Kinds -> [Channels -> 0 .. MaxSends]]]
    BY DEF TypeOK, SumsTypeOK
  <1>4. CASE k # "inquiry" \/ a # b
    <2>1. sent'[a]["inquiry"] = sent[a]["inquiry"]
      BY <1>2, <1>3, <1>4
    <2>2. Asked(a)' = Asked(a)
      BY <2>1 DEF Asked
    <2>3. Posted(a)' = Posted(a)
      BY <1>1, <1>2, <1>4, PostedBy DEF Posted
    <2> QED
      BY <1>2, <2>2, <2>3, InquiriesTypedNext DEF Stored
  <1>5. CASE k = "inquiry" /\ a = b
    <2>1. sent'[a]["inquiry"] = [sent[a]["inquiry"] EXCEPT ![c] = @ + 1]
      BY <1>2, <1>3, <1>5
    <2>2. sent[a]["inquiry"] \in [Channels -> 0 .. MaxSends]
      BY <1>3, <1>5
    <2>3. Asked(a)' = Asked(a) + 1
      <3>1. sent[a]["inquiry"]["sms"] \in Nat /\ sent[a]["inquiry"]["chat"] \in Nat
        BY <2>2 DEF Channels
      <3>2. c = "sms" \/ c = "chat"
        BY DEF Channels
      <3> QED
        BY <2>1, <2>2, <3>1, <3>2 DEF Asked, Channels
    <2>4. Posted(a)' = Posted(a) \cup {w} /\ w \notin Posted(a)
      BY <1>1, <1>2, <1>5, PostedBy DEF Posted
    <2>5. Cardinality(Posted(a)') = Cardinality(Posted(a)) + 1
      <3>1. IsFiniteSet(Posted(a))
        BY InquiriesTyped, UnderWaySizes DEF TypeOK
      <3> QED
        BY <2>4, <3>1, FS_AddElement
    <2>6. /\ Asked(a) \in Nat /\ doubt[a]["inquiry"] \in Nat
          /\ Cardinality(Posted(a)) \in Nat
      BY InquiriesTyped DEF TypeOK
    <2> QED
      BY <1>2, <2>3, <2>5, <2>6, InquiriesTypedNext DEF Stored
  <1> QED
    BY <1>4, <1>5

\* An outcome is lost: the message is doubted, and no longer out.
LEMMA StoredDoubted ==
    ASSUME TypeOK, SumsTypeOK', NEW w \in Workers, Alone(w), pc[w] = "out",
           pc'[w] # "out", Doubted(w), sent' = sent, NEW a \in Ads
    PROVE  Stored(a)' = Stored(a)
  <1>1. PICK k \in Kinds, b \in Ads : k = kind[w] /\ b = job[w]
    BY DEF TypeOK, MessageTypeOK
  <1>2. /\ doubt' = [doubt EXCEPT ![b][k] = @ + 1]
        /\ doubt \in [Ads -> [Kinds -> Nat]]
    BY <1>1 DEF Doubted, TypeOK, SumsTypeOK
  <1>3. Posted(a)' = Posted(a) \ {w}
    BY PostedBy
  <1>4. Asked(a)' = Asked(a)
    BY DEF Asked
  <1>5. CASE k # "inquiry" \/ a # b
    <2>1. doubt'[a]["inquiry"] = doubt[a]["inquiry"]
      BY <1>2, <1>5 DEF Kinds
    <2>2. Posted(a)' = Posted(a)
      BY <1>1, <1>3, <1>5 DEF Posted
    <2> QED
      BY <1>4, <2>1, <2>2, InquiriesTypedNext DEF Stored
  <1>6. CASE k = "inquiry" /\ a = b
    <2>1. doubt'[a]["inquiry"] = doubt[a]["inquiry"] + 1
      BY <1>2, <1>6 DEF Kinds
    <2>2. w \in Posted(a)
      BY <1>1, <1>6 DEF Posted
    <2>3. Cardinality(Posted(a)') = Cardinality(Posted(a)) - 1
      BY <1>3, <2>2, InquiriesTyped, UnderWayLoses DEF TypeOK
    <2>4. /\ Asked(a) \in Nat /\ doubt[a]["inquiry"] \in Nat
          /\ Cardinality(Posted(a)) \in Nat
      BY InquiriesTyped DEF TypeOK
    <2> QED
      BY <1>4, <2>1, <2>3, <2>4, InquiriesTypedNext DEF Stored
  <1> QED
    BY <1>5, <1>6

\* The step that stores an inquiry: the worker was one that may ask.
LEMMA InquiryStored ==
    ASSUME TypeOK, SumsTypeOK', Handed, Inquiries, NEW w \in Workers, Alone(w),
           Confirmed(w), kind[w] = "inquiry", NEW a \in Ads, a = job[w]
    PROVE  /\ Stored(a)' + Cardinality(Askers(a)')
                   <= Due(Reasons(a)') + Cardinality(Workers)
           /\ inquiry_status'[a] = "sent"
  <1>1. /\ pc[w] = "out" /\ pc'[w] = "free" /\ UNCHANGED <<at, todo, row>>
        /\ UNCHANGED <<sent, doubt, answers, overruled>>
        /\ inquiry_status' = [inquiry_status EXCEPT ![a] = "sent"]
    BY DEF Confirmed, Rest, TypeOK, MessageTypeOK
  <1>2. w \in Posted(a) /\ Posted(a)' = Posted(a) \ {w}
    BY <1>1, PostedBy DEF Posted
  <1>3. Cardinality(Posted(a)') = Cardinality(Posted(a)) - 1
    BY <1>2, InquiriesTyped, UnderWayLoses DEF TypeOK
  <1>4. Stored(a)' = Stored(a) + 1
    <2>1. /\ Asked(a)' = Asked(a) /\ doubt' = doubt
          /\ Asked(a) \in Nat /\ doubt[a]["inquiry"] \in Nat
          /\ Cardinality(Posted(a)) \in Nat
      BY <1>1, InquiriesTyped DEF Asked, TypeOK
    <2> QED
      BY <1>3, <2>1, InquiriesTypedNext DEF Stored
  <1>5. w \in Askers(a)
    BY <1>1 DEF Askers, MayAsk
  <1>6. Askers(a)' \subseteq Askers(a) \ {w}
    <2>1. a \notin todo[w]
      BY <1>1 DEF Handed, Own
    <2>2. ASSUME MayAsk(w, a)'
          PROVE  FALSE
      BY <1>1, <2>1, <2>2 DEF MayAsk
    <2>3. ASSUME NEW x \in Workers \ {w}, MayAsk(x, a)'
          PROVE  MayAsk(x, a)
      BY <2>3 DEF Alone, MayAsk
    <2> QED
      BY <2>2, <2>3 DEF Askers
  <1>7. Cardinality(Askers(a)') <= Cardinality(Askers(a)) - 1
    <2>1. Askers(a) \in SUBSET Workers /\ Askers(a) \ {w} \in SUBSET Workers
      BY InquiriesTyped DEF TypeOK
    <2>2. Cardinality(Askers(a) \ {w}) = Cardinality(Askers(a)) - 1
      BY <1>5, <2>1, UnderWayLoses
    <2> QED
      BY <1>6, <2>1, <2>2, UnderWaySizes
  <1>8. Reasons(a)' = Reasons(a) /\ inquiry_status'[a] = "sent"
    BY <1>1 DEF Reasons, TypeOK, AdsTypeOK
  <1>9. Stored(a) + Cardinality(Askers(a)) <= Due(Reasons(a)) + Cardinality(Workers)
    BY DEF Inquiries
  <1>10. /\ Stored(a) \in Int /\ Cardinality(Askers(a)) \in Nat
         /\ Cardinality(Askers(a)') \in Nat /\ Cardinality(Workers) \in Nat
         /\ Due(Reasons(a)) \in Nat
    BY InquiriesTyped, InquiriesTypedNext, DueGrows DEF TypeOK
  <1>11. Stored(a) + 1 + Cardinality(Askers(a)')
             <= Due(Reasons(a)) + Cardinality(Workers)
    BY <1>7, <1>9, <1>10
  <1> QED
    BY <1>4, <1>8, <1>11

LEMMA InquiriesMessage ==
    ASSUME TypeOK, SumsTypeOK', Handed, Inquiries, NEW w \in Workers, Careful(w),
           MessageStep(w)
    PROVE  Inquiries'
  <1> USE DEF TypeOK
  <1> SUFFICES ASSUME NEW a \in Ads
               PROVE  /\ Stored(a)' + Cardinality(Askers(a)')
                              <= Due(Reasons(a)') + Cardinality(Workers)
                      /\ inquiry_status'[a] # "sent" =>
                              Stored(a)' <= Due(Reasons(a)')
    BY DEF Inquiries
  <1>1. /\ Alone(w)
        /\ Askers(a)' \subseteq Askers(a) \/ inquiry_status[a] # "sent"
    BY AskersKept DEF Careful
  <1>2. /\ job[w] \in Ads /\ kind[w] \in Kinds
        /\ Turns(w, kind[w], job[w]) \/ GoesOn(w)
    BY MessageTurn
  <1>3. CASE Confirmed(w) /\ kind[w] = "inquiry" /\ a = job[w]
    BY <1>1, <1>3, InquiryStored
  <1>4. CASE Confirmed(w) /\ ~(kind[w] = "inquiry" /\ a = job[w])
    <2>1. /\ UNCHANGED <<sent, doubt, answers, overruled>> /\ pc'[w] = "free"
          /\ inquiry_status'[a] = inquiry_status[a]
      BY <1>4 DEF Confirmed, Rest, AdsTypeOK, MessageTypeOK
    <2>2. w \notin Posted(a) /\ w \notin Posted(a)'
      BY <1>4, <2>1 DEF Posted
    <2>3. Stored(a)' = Stored(a)
      BY <1>1, <2>1, <2>2, StoredKept
    <2> QED
      BY <1>1, <2>1, <2>3, InquiryKept DEF Reasons
  <1>5. CASE Delivered(w)
    <2>1. Stored(a)' = Stored(a)
      BY <1>1, <1>5, StoredDelivered
    <2>2. UNCHANGED <<answers, overruled, inquiry_status>>
      BY <1>5 DEF Delivered
    <2> QED
      BY <1>1, <2>1, <2>2, InquiryKept DEF Reasons
  <1>6. CASE \/ pc[w] = "out" /\ (NegotiationConfirmed(w) \/ Failed(w))
             \/ pc[w] = "out" /\ Unrecorded(w)
    <2>1. /\ Doubted(w) /\ UNCHANGED <<sent, answers, overruled, inquiry_status>>
      BY <1>6 DEF NegotiationConfirmed, Failed, Unrecorded
    <2>2. pc'[w] # "out"
      <3>1. Otherwise(w)
        BY <1>6 DEF NegotiationConfirmed, Failed, Unrecorded
      <3> QED
        BY <1>2, <3>1, OtherwiseTurns, TurnTaken
    <2>3. Stored(a)' = Stored(a)
      BY <1>1, <1>6, <2>1, <2>2, StoredDoubted
    <2> QED
      BY <1>1, <2>1, <2>3, InquiryKept DEF Reasons
  <1>7. CASE \/ pc[w] # "out" /\ (Failed(w) \/ Unrecorded(w))
             \/ Recorded(w) \/ Counted(w)
    <2>1. UNCHANGED <<sent, doubt, answers, overruled, inquiry_status>>
      BY <1>7 DEF Failed, Unrecorded, Recorded, Counted
    <2>2. w \notin Posted(a) /\ w \notin Posted(a)'
      <3>1. CASE Failed(w) \/ Unrecorded(w)
        <4>1. Otherwise(w)
          BY <3>1 DEF Failed, Unrecorded
        <4>2. pc'[w] # "out"
          BY <1>2, <4>1, OtherwiseTurns, TurnTaken
        <4> QED
          BY <1>7, <3>1, <4>2 DEF Posted, Recorded, Counted
      <3>2. CASE Recorded(w) \/ Counted(w)
        BY <3>2 DEF Recorded, Counted, Rest, Posted, MessageTypeOK
      <3> QED
        BY <1>7, <3>1, <3>2
    <2>3. Stored(a)' = Stored(a)
      BY <1>1, <2>1, <2>2, StoredKept
    <2> QED
      BY <1>1, <2>1, <2>3, InquiryKept DEF Reasons
  <1>8. CASE PageGone(w)
    <2>1. /\ UNCHANGED <<sent, doubt, answers>> /\ pc[w] = "sending"
          /\ pc'[w] = "free"
      BY <1>8 DEF PageGone, Rest, MessageTypeOK
    <2>2. w \notin Posted(a) /\ w \notin Posted(a)'
      BY <2>1 DEF Posted
    <2>3. Stored(a)' = Stored(a)
      BY <1>1, <2>1, <2>2, StoredKept
    <2>4. \/ overruled'[a] = overruled[a] + 1
          \/ /\ overruled'[a] = overruled[a]
             /\ inquiry_status'[a] # "sent" => inquiry_status[a] # "sent"
      BY <1>2, <1>8 DEF PageGone, AdsTypeOK, SumsTypeOK
    <2>5. \/ Reasons(a)' = Reasons(a) + 1
          \/ /\ Reasons(a)' = Reasons(a)
             /\ inquiry_status'[a] # "sent" => inquiry_status[a] # "sent"
      BY <2>1, <2>4, InquiriesTyped DEF Reasons
    <2> QED
      BY <1>1, <2>3, <2>5, InquiryKept
  <1> QED
    BY <1>3, <1>4, <1>5, <1>6, <1>7, <1>8
    DEF MessageStep, NegotiationConfirmed

\* The other steps of a worker deliver, lose and store nothing.
LEMMA InquiriesWorker ==
    ASSUME TypeOK, SumsTypeOK', Handed, Inquiries, NEW w \in Workers, Careful(w),
           \/ w \in Monitors /\ MonitorStep(w)
           \/ w \in Operators /\ OperatorStep(w)
    PROVE  Inquiries'
  <1>1. CASE MessageStep(w)
    BY <1>1, InquiriesMessage
  <1>2. CASE ~MessageStep(w)
    <2>1. /\ UNCHANGED <<sumVars, boundVars, inquiry_status>>
          /\ pc[w] \in {"free", "calling"}
      BY <1>2
      DEF MonitorStep, OperatorStep, FetchClaim, FetchFailed, FetchStored,
          DrainEnds, DrainCut, BeginChats, NextChat, LoopCut, BeginInquiries,
          NextInquiry, EndRound, SendSms, Negotiate, BeginWeek, NextOfWeek,
          EndWeek
    <2>2. pc'[w] # "out"
      <3>1. Asks(w) \/ Keeps \/ Takes(w) \/ GoesOn(w)
        BY MonitorStepShape, OperatorStepShape
      <3> QED
        BY <2>1, <3>1 DEF Asks, Rest, Send, Keeps, Takes, GoesOn, TypeOK,
                          MessageTypeOK
    <2>3. ASSUME NEW a \in Ads
          PROVE  /\ Stored(a)' + Cardinality(Askers(a)')
                         <= Due(Reasons(a)') + Cardinality(Workers)
                 /\ inquiry_status'[a] # "sent" =>
                         Stored(a)' <= Due(Reasons(a)')
      <3>1. /\ Alone(w)
            /\ Askers(a)' \subseteq Askers(a) \/ inquiry_status[a] # "sent"
        BY AskersKept DEF Careful
      <3>2. w \notin Posted(a) /\ w \notin Posted(a)'
        BY <2>1, <2>2 DEF Posted
      <3>3. Stored(a)' = Stored(a)
        BY <2>1, <3>1, <3>2, StoredKept DEF TypeOK
      <3> QED
        BY <2>1, <3>1, <3>3, InquiryKept DEF Reasons, TypeOK
    <2> QED
      BY <2>3 DEF Inquiries
  <1> QED
    BY <1>1, <1>2

\* Whatever leaves the workers alone leaves what they may ask alone.
LEMMA AskersSame ==
    ASSUME UNCHANGED workVars, NEW a \in Ads
    PROVE  /\ Askers(a)' = Askers(a) /\ Posted(a)' = Posted(a)
           /\ Handed => Handed'
  BY DEF Askers, Posted, MayAsk, Handed, Own

\* An answer is a reason to ask again; a crash loses what was out.
LEMMA InquiriesWorld ==
    ASSUME TypeOK, SumsTypeOK', Handed, Inquiries, WorldStep
    PROVE  Handed' /\ Inquiries'
  <1> USE DEF TypeOK
  <1>1. CASE ~Crash
    <2>1. UNCHANGED <<workVars, sent, doubt, overruled>>
      BY <1>1 DEF WorldStep, SellerAnswers, Requeue, UserMarks, QuotaReset
    <2>2. ASSUME NEW a \in Ads
          PROVE  /\ Stored(a)' + Cardinality(Askers(a)')
                         <= Due(Reasons(a)') + Cardinality(Workers)
                 /\ inquiry_status'[a] # "sent" =>
                         Stored(a)' <= Due(Reasons(a)')
      <3>1. Askers(a)' = Askers(a) /\ Posted(a)' = Posted(a)
        BY <2>1, AskersSame
      <3>2. Stored(a)' = Stored(a)
        BY <2>1, <3>1 DEF Stored, Asked
      <3>3. \/ answers'[a] = answers[a] + 1
            \/ /\ answers'[a] = answers[a]
               /\ inquiry_status'[a] = inquiry_status[a]
        BY <1>1 DEF WorldStep, SellerAnswers, Requeue, UserMarks, QuotaReset,
                    AdsTypeOK, SumsTypeOK
      <3>4. \/ Reasons(a)' = Reasons(a) + 1
            \/ /\ Reasons(a)' = Reasons(a)
               /\ inquiry_status'[a] = inquiry_status[a]
        BY <2>1, <3>3, InquiriesTyped DEF Reasons
      <3> QED
        BY <3>1, <3>2, <3>4, InquiryKept
    <2>3. Handed'
      BY <2>1 DEF Handed, Own
    <2> QED
      BY <2>2, <2>3 DEF Inquiries
  <1>2. CASE Crash
    <2>1. /\ at' = [w \in Workers |-> IF w \in Monitors THEN "fetch" ELSE "off"]
          /\ pc' = [w \in Workers |-> "free"] /\ todo' = [w \in Workers |-> {}]
          /\ UNCHANGED <<sent, answers, overruled, inquiry_status>>
      BY <1>2 DEF Crash
    <2>2. ASSUME NEW a \in Ads
          PROVE  /\ Stored(a)' + Cardinality(Askers(a)')
                         <= Due(Reasons(a)') + Cardinality(Workers)
                 /\ inquiry_status'[a] # "sent" =>
                         Stored(a)' <= Due(Reasons(a)')
      <3>1. Askers(a)' = {} /\ Posted(a)' = {}
        BY <2>1 DEF Askers, Posted, MayAsk
      <3>2. doubt'[a]["inquiry"] = doubt[a]["inquiry"] + Cardinality(Posted(a))
        <4>1. Posted(a) = {w \in Workers : /\ pc[w] = "out" /\ job[w] = a
                                           /\ kind[w] = "inquiry"}
          BY DEF Posted
        <4> QED
          BY <1>2, <4>1 DEF Crash, Kinds
      <3>3. Stored(a)' = Stored(a)
        <4>1. Cardinality(Posted(a)') = 0
          BY <3>1, FS_EmptySet
        <4>2. /\ Asked(a) \in Nat /\ doubt[a]["inquiry"] \in Nat
              /\ Cardinality(Posted(a)) \in Nat /\ Asked(a)' = Asked(a)
          BY <2>1, InquiriesTyped DEF Asked
        <4> QED
          BY <3>2, <4>1, <4>2, InquiriesTypedNext DEF Stored
      <3> QED
        BY <2>1, <3>1, <3>3, InquiryKept DEF Reasons
    <2>3. Handed'
      BY <2>1 DEF Handed, Own
    <2> QED
      BY <2>2, <2>3 DEF Inquiries
  <1> QED
    BY <1>1, <1>2

LEMMA InquiriesInit == Init => Handed /\ Inquiries
  <1> SUFFICES ASSUME Init PROVE Handed /\ Inquiries
    OBVIOUS
  <1>1. /\ pc = [w \in Workers |-> "free"] /\ todo = [w \in Workers |-> {}]
        /\ sent = [a \in Ads |-> [k \in Kinds |-> [c \in Channels |-> 0]]]
        /\ doubt = [a \in Ads |-> [k \in Kinds |-> 0]]
    BY DEF Init
  <1>2. ASSUME NEW a \in Ads
        PROVE  /\ Stored(a) + Cardinality(Askers(a))
                       <= Due(Reasons(a)) + Cardinality(Workers)
               /\ Stored(a) <= Due(Reasons(a))
    <2>1. Askers(a) = {} /\ Posted(a) = {}
      BY <1>1 DEF Askers, Posted, MayAsk
    <2>2. Cardinality(Askers(a)) = 0 /\ Cardinality(Posted(a)) = 0
      BY <2>1, FS_EmptySet
    <2>3. Asked(a) = 0 /\ doubt[a]["inquiry"] = 0
      BY <1>1 DEF Asked, Kinds, Channels
    <2>4. Reasons(a) \in Nat
      BY TypeInit, InquiriesTyped DEF TypeOK
    <2> QED
      BY <2>2, <2>3, <2>4, DueGrows DEF Stored
  <1>3. Handed
    BY <1>1 DEF Handed, Own
  <1> QED
    BY <1>2, <1>3 DEF Inquiries

LEMMA InquiriesInvariant == Spec => [](Handed /\ Inquiries)
  <1>1. ASSUME TypeOK, TypeOK', Handed, Inquiries, [Next]_vars
        PROVE  Handed' /\ Inquiries'
    <2>1. ASSUME NEW w \in Workers,
                 \/ w \in Monitors /\ MonitorStep(w)
                 \/ w \in Operators /\ OperatorStep(w)
          PROVE  Handed' /\ Inquiries'
      <3>1. Careful(w)
        BY <1>1, <2>1, CarefulMonitor, CarefulOperator
      <3>2. Inquiries'
        BY <1>1, <2>1, <3>1, InquiriesWorker DEF TypeOK
      <3>3. Handed'
        BY <1>1, <3>1 DEF Handed, Careful, Alone, Own
      <3> QED
        BY <3>2, <3>3
    <2>2. CASE WorldStep
      BY <1>1, <2>2, InquiriesWorld DEF TypeOK
    <2>3. CASE UNCHANGED vars
      <3>1. UNCHANGED <<workVars, sumVars, boundVars, inquiry_status>>
        BY <2>3 DEF vars
      <3>2. \A a \in Ads : /\ Stored(a)' = Stored(a)
                           /\ Askers(a)' = Askers(a)
                           /\ Reasons(a)' = Reasons(a)
        BY <3>1, AskersSame DEF Stored, Asked, Reasons
      <3>3. Inquiries'
        BY <1>1, <3>1, <3>2 DEF Inquiries
      <3> QED
        BY <1>1, <3>1, <3>3 DEF Handed, Own
    <2> QED
      BY <1>1, <2>1, <2>2, <2>3 DEF Next, Workers
  <1> QED
    BY InquiriesInit, <1>1, TypeCorrect, PTL DEF Spec

\* A seller is asked once, and once more by every worker for every answer, every
\* inquiry whose record was lost and every record that 'gone' was written over:
\* however the monitors and the request threads of the panel interleave, a row read
\* before the seller was asked leads to no more inquiries than that.
THEOREM AskedForAReason == Spec => []InquiredOnce
  <1>1. ASSUME TypeOK, Inquiries
        PROVE  InquiredOnce
    <2>1. ASSUME NEW a \in Ads
          PROVE  Asked(a) <= (1 + answers[a] + overruled[a]) * Cardinality(Workers)
                                + doubt[a]["inquiry"]
      <3>1. /\ Stored(a) + Cardinality(Askers(a))
                   <= Due(Reasons(a)) + Cardinality(Workers)
        BY <1>1 DEF Inquiries
      <3>2. Cardinality(Posted(a)) <= Cardinality(Askers(a))
        <4>1. Posted(a) \subseteq Askers(a)
          BY DEF Posted, Askers, MayAsk
        <4> QED
          BY <1>1, <4>1, InquiriesTyped, UnderWaySizes DEF TypeOK
      <3>3. /\ Asked(a) \in Nat /\ doubt[a]["inquiry"] \in Nat
            /\ Reasons(a) \in Nat /\ Cardinality(Posted(a)) \in Nat
            /\ Cardinality(Askers(a)) \in Nat
            /\ answers[a] \in Nat /\ overruled[a] \in Nat
        BY <1>1, InquiriesTyped DEF TypeOK
      <3>4. (1 + answers[a] + overruled[a]) = 1 + Reasons(a)
        BY <3>3 DEF Reasons
      <3>5. /\ Cardinality(Workers) \in Nat /\ Due(Reasons(a)) \in Nat
            /\ (1 + Reasons(a)) * Cardinality(Workers)
                    = Due(Reasons(a)) + Cardinality(Workers)
        BY <3>3, DueGrows
      <3>6. Asked(a) <= Due(Reasons(a)) + Cardinality(Workers)
                            + doubt[a]["inquiry"]
        BY <3>1, <3>2, <3>3, <3>5 DEF Stored
      <3> QED
        BY <3>4, <3>5, <3>6
    <2> QED
      BY <2>1 DEF InquiredOnce, Asked
  <1> QED
    BY <1>1, InquiriesInvariant, TypeCorrect, PTL

-----------------------------------------------------------------------------
(* The marketing messages, with the one monitor thread the program starts.     *)
(* An SMS follows the storing of a number, which happens once to an ad; a chat *)
(* follows a look at the record, which only the monitor itself and the user    *)
(* take back.                                                                  *)

OneMonitor == \A m, n \in Monitors : m = n

\* A marketing message to the seller of this ad has come this far.
Markets(a, c, p) == \E m \in Monitors : /\ pc[m] = p /\ kind[m] = "market"
                                        /\ job[m] = a /\ via[m] = c
Calls(a) == \E m \in Monitors : pc[m] = "calling" /\ job[m] = a
Excuses(a) == doubt[a]["market"] + reopened[a]

\* Only monitors market, and what is sent by hand is an SMS.
Duty(w) == pc[w] \in {"sending", "out", "recorded"} =>
               /\ kind[w] = "market" => w \in Monitors
               /\ kind[w] = "manual" => via[w] = "sms"

\* All chats but one are excused; that one is recorded, or out and to be recorded.
ChatOnce(a) ==
    \/ sent[a]["market"]["chat"] <= Excuses(a)
    \/ /\ sent[a]["market"]["chat"] <= 1 + Excuses(a)
       /\ ~Markets(a, "chat", "sending")
       /\ status[a]["chat"] = "sent" \/ Markets(a, "chat", "out")

\* No SMS has been sent; or the contact of the ad was found, the SMS that followed
\* is the only one, and the phone queue does not take the ad again.
SmsOnce(a) ==
    \/ /\ sent[a]["market"]["sms"] = 0
       /\ \A p \in {"sending", "out", "recorded"} : ~Markets(a, "sms", p)
    \/ /\ contact[a] \in {"found", "removed"} /\ ~Calls(a)
       /\ sent[a]["market"]["sms"] <= 1
       /\ Markets(a, "sms", "sending") => sent[a]["market"]["sms"] = 0

Once == \A a \in Ads : ChatOnce(a) /\ SmsOnce(a)
Duties == \A w \in Workers : Duty(w)

\* With one monitor, what a monitor does is what this one does.
LEMMA TheMonitor ==
    ASSUME OneMonitor, NEW m \in Monitors, NEW a, NEW c, NEW p
    PROVE  /\ Markets(a, c, p) <=> /\ pc[m] = p /\ kind[m] = "market"
                                   /\ job[m] = a /\ via[m] = c
           /\ Markets(a, c, p)' <=> /\ pc'[m] = p /\ kind'[m] = "market"
                                    /\ job'[m] = a /\ via'[m] = c
           /\ Calls(a) <=> pc[m] = "calling" /\ job[m] = a
           /\ Calls(a)' <=> pc'[m] = "calling" /\ job'[m] = a
  BY DEF OneMonitor, Markets, Calls

LEMMA MarketTyped ==
    ASSUME SumsTypeOK, NEW a \in Ads
    PROVE  /\ sent[a]["market"]["sms"] \in Nat
           /\ sent[a]["market"]["chat"] \in Nat
           /\ doubt[a]["market"] \in Nat /\ reopened[a] \in Nat
           /\ Excuses(a) \in Nat
  <1>1. /\ sent[a]["market"]["sms"] \in 0 .. MaxSends
        /\ sent[a]["market"]["chat"] \in 0 .. MaxSends
        /\ doubt[a]["market"] \in Nat /\ reopened[a] \in Nat
    BY DEF SumsTypeOK, Kinds, Channels
  <1> QED
    BY <1>1, OutreachAssumption DEF Excuses

\* What a worker asks for, by its kind.
LEMMA MonitorTurns ==
    ASSUME TypeOK, NEW m \in Monitors, MonitorStep(m)
    PROVE  \/ MessageStep(m) \/ Keeps \/ Takes(m)
           \/ \E k \in {"market", "inquiry"}, a \in Ads : Turns(m, k, a)
  <1> USE DEF Workers
  <1>1. CASE FetchFailed(m)
    <2>1. job[m] \in Ads /\ Rest(m)
      BY <1>1 DEF FetchFailed, TypeOK, MessageTypeOK
    <2> QED
      BY <2>1 DEF Turns
  <1>2. ASSUME NEW answer \in {"found", "hidden", "removed"},
               FetchStored(m, answer)
        PROVE  \E k \in {"market", "inquiry"}, a \in Ads : Turns(m, k, a)
    <2>1. job[m] \in Ads
      BY <1>2 DEF FetchStored, TypeOK, MessageTypeOK
    <2>2. \/ Rest(m) \/ Market(m, job[m], "chat") \/ Market(m, job[m], "sms")
          \/ HunterMessage(m, "inquiry", job[m], TRUE)
      BY <1>2 DEF FetchStored
    <2>3. Turns(m, "market", job[m]) \/ Turns(m, "inquiry", job[m])
      BY <2>1, <2>2, MarketTurns, HunterTurns DEF Turns, Channels, Kinds
    <2> QED
      BY <2>1, <2>3
  <1>3. CASE NextChat(m)
    BY <1>3, MarketTurns DEF NextChat, Channels
  <1>4. CASE NextInquiry(m)
    BY <1>4, HunterTurns DEF NextInquiry, Kinds
  <1> QED
    BY <1>1, <1>2, <1>3, <1>4
    DEF MonitorStep, FetchClaim, Takes, DrainEnds, DrainCut, BeginChats, LoopCut,
        BeginInquiries, EndRound, Keeps

LEMMA OperatorTurns ==
    ASSUME TypeOK, NEW o \in Operators, OperatorStep(o)
    PROVE  \/ MessageStep(o) \/ Keeps
           \/ \E a \in Ads : Send(o, "manual", a, "sms")
           \/ \E k \in {"negotiation", "inquiry"}, a \in Ads : Turns(o, k, a)
  <1> USE DEF Workers
  <1>1. CASE \E a \in Ads : Negotiate(o, a)
    BY <1>1, HunterTurns DEF Negotiate, Kinds
  <1>2. CASE NextOfWeek(o)
    BY <1>2, HunterTurns DEF NextOfWeek, Turns, Kinds
  <1> QED
    BY <1>1, <1>2 DEF OperatorStep, SendSms, BeginWeek, LoopCut, EndWeek, Keeps

\* Only hunters' messages are tried again, in the chat.
LEMMA MessageRetried ==
    ASSUME TypeOK, NEW w \in Workers, MessageStep(w)
    PROVE  \/ GoesOn(w) \/ Rest(w)
           \/ kind[w] \in {"inquiry", "negotiation"} /\ Turns(w, kind[w], job[w])
  <1>1. CASE NegotiationConfirmed(w) \/ Failed(w) \/ Unrecorded(w)
    BY <1>1, OtherwiseTurns DEF NegotiationConfirmed, Failed, Unrecorded
  <1> QED
    BY <1>1 DEF MessageStep, Delivered, Recorded, GoesOn, Confirmed, Counted,
                PageGone, TypeOK, MessageTypeOK

LEMMA DutyKept ==
    ASSUME TypeOK, Duties, NEW w \in Workers,
           \/ w \in Monitors /\ MonitorStep(w)
           \/ w \in Operators /\ OperatorStep(w)
    PROVE  Duties'
  <1> USE DEF TypeOK, MessageTypeOK
  <1>1. ASSUME NEW k \in {"market", "inquiry", "negotiation"}, NEW a,
               Turns(w, k, a), k = "market" => w \in Monitors
        PROVE  Duties'
    BY <1>1 DEF Turns, Rest, Send, Duties, Duty
  <1>2. ASSUME NEW a \in Ads, Send(w, "manual", a, "sms")
        PROVE  Duties'
    BY <1>2 DEF Send, Duties, Duty
  <1>3. CASE Keeps \/ Takes(w) \/ GoesOn(w) \/ Rest(w)
    BY <1>3 DEF Keeps, Takes, GoesOn, Rest, Duties, Duty
  <1>4. CASE MessageStep(w)
    BY <1>1, <1>3, <1>4, MessageRetried
  <1> QED
    BY <1>1, <1>2, <1>3, <1>4, MonitorTurns, OperatorTurns

\* A message step sends no marketing message but the worker's own.
LEMMA MarketSent ==
    ASSUME TypeOK, NEW w \in Workers, MessageStep(w), NEW a \in Ads
    PROVE  /\ kind[w] # "market" => sent'[a]["market"] = sent[a]["market"]
           /\ ~Delivered(w) => sent' = sent
           /\ \A c \in Channels : job[w] # a \/ via[w] # c =>
                    sent'[a]["market"][c] = sent[a]["market"][c]
           /\ Delivered(w) /\ kind[w] = "market" /\ job[w] = a =>
                    \A c \in Channels : c = via[w] =>
                        sent'[a]["market"][c] = sent[a]["market"][c] + 1
  <1>1. CASE Delivered(w)
    <2>1. PICK k \in Kinds, b \in Ads, c \in Channels :
              k = kind[w] /\ b = job[w] /\ c = via[w]
      BY <1>1 DEF Delivered, TypeOK, MessageTypeOK
    <2>2. /\ sent' = [sent EXCEPT ![b][k][c] = @ + 1]
          /\ sent \in [Ads -> [Kinds -> [Channels -> 0 .. MaxSends]]]
      BY <1>1, <2>1 DEF Delivered, TypeOK, SumsTypeOK
    <2>3. sent'[b][k] = [sent[b][k] EXCEPT ![c] = @ + 1]
          /\ \A d \in Ads, l \in Kinds : d # b \/ l # k => sent'[d][l] = sent[d][l]
      BY <2>2
    <2>4. sent[b][k] \in [Channels -> 0 .. MaxSends] /\ "market" \in Kinds
      BY <2>2 DEF Kinds
    <2> QED
      BY <1>1, <2>1, <2>3, <2>4
  <1>2. CASE ~Delivered(w)
    BY <1>2 DEF MessageStep, Confirmed, Recorded, Counted, NegotiationConfirmed,
                Failed, PageGone, Unrecorded
  <1> QED
    BY <1>1, <1>2

\* Another message does no more to the record of the marketing than to say that a
\* message was sent, or to find the ad gone.
LEMMA OtherMessage ==
    ASSUME TypeOK, Duties, NEW w \in Workers, MessageStep(w), kind[w] # "market",
           NEW a \in Ads
    PROVE  /\ sent'[a]["market"] = sent[a]["market"]
           /\ Excuses(a)' = Excuses(a)
           /\ \/ status'[a]["chat"] = status[a]["chat"]
              \/ status'[a]["chat"] = "sent"
           /\ contact'[a] = contact[a] \/ contact'[a] = "removed"
  <1> USE DEF TypeOK
  <1>1. /\ job[w] \in Ads /\ kind[w] \in Kinds /\ via[w] \in Channels
        /\ pc[w] \in {"sending", "out", "recorded"}
    BY MessageTurn
  <1>2. kind[w] = "manual" => via[w] = "sms"
    BY <1>1 DEF Duties, Duty
  <1>3. sent'[a]["market"] = sent[a]["market"]
    BY MarketSent
  <1>4. doubt'[a]["market"] = doubt[a]["market"] /\ reopened' = reopened
    <2>1. (doubt' = doubt \/ Doubted(w)) /\ reopened' = reopened
      BY DEF MessageStep, Delivered, Confirmed, Recorded, Counted,
             NegotiationConfirmed, Failed, PageGone, Unrecorded
    <2>2. doubt \in [Ads -> [Kinds -> Nat]]
      BY DEF SumsTypeOK
    <2> QED
      BY <1>1, <2>1, <2>2 DEF Doubted, Kinds
  <1>5. \/ status'[a]["chat"] = status[a]["chat"]
        \/ status'[a]["chat"] = "sent"
    <2>1. status \in [Ads -> [Channels -> MessageStatus]]
      BY DEF AdsTypeOK
    <2>2. CASE Confirmed(w)
      BY <1>1, <2>1, <2>2 DEF Confirmed, Channels
    <2>3. CASE Failed(w)
      BY <1>1, <1>2, <2>1, <2>3 DEF Failed, Channels
    <2>4. CASE ~Confirmed(w) /\ ~Failed(w)
      BY <2>4 DEF MessageStep, Delivered, Recorded, Counted, NegotiationConfirmed,
                  PageGone, Unrecorded
    <2> QED
      BY <2>2, <2>3, <2>4
  <1>6. contact'[a] = contact[a] \/ contact'[a] = "removed"
    BY <1>1
    DEF MessageStep, Delivered, Confirmed, Recorded, Counted, AdsTypeOK,
        NegotiationConfirmed, Failed, PageGone, Unrecorded
  <1> QED
    BY <1>3, <1>4, <1>5, <1>6 DEF Excuses

\* A request thread of the panel markets nothing.
LEMMA OnceOperator ==
    ASSUME TypeOK, Handed, Duties, Once, Monitors \cap Operators = {},
           NEW o \in Operators, OperatorStep(o)
    PROVE  Once'
  <1> USE DEF Workers, TypeOK
  <1>1. ASSUME NEW m \in Monitors
        PROVE  /\ pc'[m] = pc[m] /\ kind'[m] = kind[m] /\ job'[m] = job[m]
               /\ via'[m] = via[m]
    BY CarefulOperator DEF Careful, Alone
  <1>2. ASSUME NEW a, NEW c, NEW p
        PROVE  /\ Markets(a, c, p)' <=> Markets(a, c, p)
               /\ Calls(a)' <=> Calls(a)
    BY <1>1 DEF Markets, Calls
  <1>3. ASSUME NEW a \in Ads
        PROVE  /\ sent'[a]["market"] = sent[a]["market"]
               /\ Excuses(a)' = Excuses(a)
               /\ \/ status'[a]["chat"] = status[a]["chat"]
                  \/ status'[a]["chat"] = "sent"
               /\ contact'[a] = contact[a] \/ contact'[a] = "removed"
    <2>1. CASE MessageStep(o)
      <3>1. kind[o] # "market"
        <4>1. pc[o] \in {"sending", "out", "recorded"}
          BY <2>1, MessageTurn
        <4> QED
          BY <4>1 DEF Duties, Duty
      <3> QED
        BY <2>1, <3>1, OtherMessage
    <2>2. CASE ~MessageStep(o)
      <3>1. UNCHANGED <<adVars, sumVars>>
        BY <2>2 DEF OperatorStep, SendSms, Negotiate, BeginWeek, NextOfWeek,
                    LoopCut, EndWeek
      <3> QED
        BY <3>1 DEF Excuses
    <2> QED
      BY <2>1, <2>2
  <1>4. ASSUME NEW a \in Ads
        PROVE  ChatOnce(a)' /\ SmsOnce(a)'
    <2>1. ChatOnce(a) /\ SmsOnce(a)
      BY DEF Once
    <2>2. ChatOnce(a)'
      BY <1>2, <1>3, <2>1 DEF ChatOnce
    <2>3. SmsOnce(a)'
      BY <1>2, <1>3, <2>1 DEF SmsOnce
    <2> QED
      BY <2>2, <2>3
  <1> QED
    BY <1>4 DEF Once

\* What the check before a marketing message lets through.
LEMMA MarketChecked ==
    ASSUME TypeOK, NEW m \in Monitors, NEW a \in Ads, NEW c \in Channels,
           Market(m, a, c)
    PROVE  /\ pc'[m] \in {"free", "sending"}
           /\ pc'[m] = "sending" => /\ kind'[m] = "market" /\ job'[m] = a
                                    /\ via'[m] = c /\ status[a][c] # "sent"
  BY DEF Market, Send, Rest, TypeOK, MessageTypeOK, Workers

\* The monitor between two messages: a marketing chat that it turns to is not on
\* record, and an SMS follows the call that has just found the number.
LEMMA MonitorChecks ==
    ASSUME TypeOK, NEW m \in Monitors, MonitorStep(m), ~MessageStep(m)
    PROVE  /\ pc[m] \in {"free", "calling"}
           /\ pc'[m] \in {"free", "calling", "sending"}
           /\ pc'[m] = "sending" /\ kind'[m] = "market" =>
                  \/ via'[m] = "chat" /\ status[job'[m]]["chat"] # "sent"
                  \/ /\ via'[m] = "sms" /\ pc[m] = "calling"
                     /\ job'[m] = job[m] /\ contact'[job[m]] = "found"
           /\ pc'[m] = "calling" => contact'[job'[m]] = "none"
           /\ \A a \in Ads : \/ contact'[a] = contact[a]
                             \/ pc[m] = "calling" /\ job[m] = a
           /\ UNCHANGED <<status, sumVars>>
  <1> USE DEF Workers
  <1>1. UNCHANGED <<status, sumVars>> /\ pc[m] \in {"free", "calling"}
    BY DEF MonitorStep, FetchClaim, FetchFailed, FetchStored, DrainEnds, DrainCut,
           BeginChats, NextChat, LoopCut, BeginInquiries, NextInquiry, EndRound
  <1>2. ASSUME NEW a \in Ads, FetchClaim(m, a)
        PROVE  /\ pc'[m] = "calling" /\ job'[m] = a /\ contact[a] = "none"
               /\ contact' = contact
    BY <1>2 DEF FetchClaim, TypeOK, MessageTypeOK
  <1>3. CASE FetchFailed(m)
    BY <1>1, <1>3 DEF FetchFailed, Rest, TypeOK, MessageTypeOK
  <1>4. ASSUME NEW answer \in {"found", "hidden", "removed"},
               FetchStored(m, answer)
        PROVE  /\ pc[m] = "calling" /\ pc'[m] \in {"free", "sending"}
               /\ pc'[m] = "sending" /\ kind'[m] = "market" =>
                      \/ via'[m] = "chat" /\ status[job'[m]]["chat"] # "sent"
                      \/ /\ via'[m] = "sms" /\ job'[m] = job[m]
                         /\ contact'[job[m]] = "found"
               /\ \A a \in Ads : contact'[a] = contact[a] \/ job[m] = a
    <2>1. /\ pc[m] = "calling" /\ job[m] \in Ads
          /\ contact' = [contact EXCEPT ![job[m]] = answer]
          /\ contact \in [Ads -> Contacts]
      BY <1>4 DEF FetchStored, TypeOK, MessageTypeOK, AdsTypeOK
    <2>2. CASE Rest(m)
      BY <2>1, <2>2 DEF Rest, TypeOK, MessageTypeOK
    <2>3. CASE Market(m, job[m], "chat")
      BY <2>1, <2>3, MarketChecked DEF Channels
    <2>4. CASE answer = "found" /\ Market(m, job[m], "sms")
      BY <2>1, <2>4, MarketChecked DEF Channels
    <2>5. CASE HunterMessage(m, "inquiry", job[m], TRUE)
      <3>1. Turns(m, "inquiry", job[m])
        BY <2>1, <2>5, HunterTurns DEF Kinds
      <3> QED
        BY <2>1, <3>1, TurnTaken DEF TypeOK, Kinds
    <2> QED
      BY <1>4, <2>2, <2>3, <2>4, <2>5 DEF FetchStored
  <1>5. CASE \/ DrainEnds(m) \/ DrainCut(m) \/ LoopCut(m) \/ BeginInquiries(m)
             \/ EndRound(m)
    BY <1>5 DEF DrainEnds, DrainCut, BeginChats, LoopCut, BeginInquiries,
                EndRound
  <1>6. CASE NextChat(m)
    <2>1. PICK a \in Ads : Market(m, a, "chat")
      BY <1>6 DEF NextChat
    <2>2. contact' = contact
      BY <1>6 DEF NextChat
    <2> QED
      BY <1>1, <2>1, <2>2, MarketChecked DEF Channels
  <1>7. CASE NextInquiry(m)
    <2>1. PICK a \in Ads : Turns(m, "inquiry", a)
      BY <1>7, HunterTurns DEF NextInquiry, Kinds
    <2>2. contact' = contact
      BY <1>7 DEF NextInquiry
    <2>3. /\ pc'[m] \in {"free", "sending"}
          /\ pc'[m] = "sending" => kind'[m] = "inquiry"
      BY <2>1, TurnTaken DEF TypeOK, Kinds
    <2> QED
      BY <1>1, <2>2, <2>3
  <1> QED
    BY <1>1, <1>2, <1>3, <1>4, <1>5, <1>6, <1>7 DEF MonitorStep

LEMMA OnceQuiet ==
    ASSUME TypeOK, OneMonitor, Once, NEW m \in Monitors, MonitorStep(m),
           ~MessageStep(m)
    PROVE  Once'
  <1> SUFFICES ASSUME NEW a \in Ads
               PROVE  ChatOnce(a)' /\ SmsOnce(a)'
    BY DEF Once
  <1>1. ChatOnce(a) /\ SmsOnce(a)
    BY DEF Once
  <1>2. /\ pc[m] \in {"free", "calling"}
        /\ pc'[m] \in {"free", "calling", "sending"}
        /\ pc'[m] = "sending" /\ kind'[m] = "market" =>
               \/ via'[m] = "chat" /\ status[job'[m]]["chat"] # "sent"
               \/ /\ via'[m] = "sms" /\ pc[m] = "calling"
                  /\ job'[m] = job[m] /\ contact'[job[m]] = "found"
        /\ pc'[m] = "calling" => contact'[job'[m]] = "none"
        /\ \/ contact'[a] = contact[a]
           \/ pc[m] = "calling" /\ job[m] = a
        /\ UNCHANGED <<status, sumVars>>
    BY MonitorChecks
  <1>3. \A c, p : /\ Markets(a, c, p) <=> /\ pc[m] = p /\ kind[m] = "market"
                                          /\ job[m] = a /\ via[m] = c
                  /\ Markets(a, c, p)' <=> /\ pc'[m] = p /\ kind'[m] = "market"
                                           /\ job'[m] = a /\ via'[m] = c
    BY TheMonitor
  <1>4. /\ Calls(a) <=> pc[m] = "calling" /\ job[m] = a
        /\ Calls(a)' <=> pc'[m] = "calling" /\ job'[m] = a
    BY TheMonitor
  <1>5. /\ sent' = sent /\ status' = status /\ Excuses(a)' = Excuses(a)
    BY <1>2 DEF Excuses
  <1>6. ChatOnce(a)'
    BY <1>1, <1>2, <1>3, <1>5 DEF ChatOnce
  <1>7. SmsOnce(a)'
    <2>1. CASE Calls(a)
      <3>1. sent[a]["market"]["sms"] = 0
        BY <1>1, <2>1 DEF SmsOnce
      <3>2. CASE Markets(a, "sms", "sending")'
        BY <1>2, <1>3, <1>4, <1>5, <2>1, <3>1, <3>2 DEF SmsOnce
      <3>3. CASE ~Markets(a, "sms", "sending")'
        BY <1>2, <1>3, <1>5, <3>1, <3>3 DEF SmsOnce
      <3> QED
        BY <3>2, <3>3
    <2>2. CASE ~Calls(a)
      <3>1. ~Markets(a, "sms", "sending")' /\ contact'[a] = contact[a]
        BY <1>2, <1>3, <1>4, <2>2
      <3>2. Calls(a)' => contact[a] = "none"
        BY <1>2, <1>4, <3>1
      <3> QED
        BY <1>1, <1>2, <1>3, <1>5, <3>1, <3>2 DEF SmsOnce
    <2> QED
      BY <2>1, <2>2
  <1> QED
    BY <1>6, <1>7

\* What the steps of a marketing message do to its ad: it gets through, is put on
\* record and counted, or it fails; and if it is not on record by then, an excuse
\* is on record.
LEMMA MarketMessage ==
    ASSUME TypeOK, NEW m \in Workers, MessageStep(m), kind[m] = "market",
           NEW a \in Ads
    PROVE  /\ UNCHANGED <<kind, job, via>> \/ Rest(m)
           /\ contact'[a] = contact[a] \/ contact'[a] = "removed"
           /\ job[m] # a => /\ sent'[a]["market"] = sent[a]["market"]
                            /\ Excuses(a)' = Excuses(a)
           /\ job[m] # a \/ via[m] # "chat" =>
                  status'[a]["chat"] = status[a]["chat"]
           /\ \/ /\ pc[m] = "sending" /\ pc'[m] = "out"
                 /\ \A c \in Channels : job[m] = a /\ via[m] = c =>
                        sent'[a]["market"][c] = sent[a]["market"][c] + 1
                 /\ \A c \in Channels : job[m] # a \/ via[m] # c =>
                        sent'[a]["market"][c] = sent[a]["market"][c]
                 /\ Excuses(a)' = Excuses(a)
                 /\ status' = status
              \/ /\ pc[m] = "out" /\ pc'[m] = "recorded" /\ sent' = sent
                 /\ Excuses(a)' = Excuses(a)
                 /\ job[m] = a /\ via[m] = "chat" => status'[a]["chat"] = "sent"
              \/ /\ pc[m] = "out" /\ Rest(m) /\ sent' = sent
                 /\ job[m] = a => Excuses(a)' = Excuses(a) + 1
              \/ /\ pc[m] = "sending" /\ Rest(m) /\ sent' = sent
                 /\ Excuses(a)' = Excuses(a)
              \/ /\ pc[m] = "recorded" /\ Rest(m) /\ sent' = sent
                 /\ Excuses(a)' = Excuses(a) /\ status' = status
  <1> USE DEF TypeOK
  <1>1. /\ job[m] \in Ads /\ via[m] \in Channels
        /\ pc[m] \in {"sending", "out", "recorded"}
    BY MessageTurn
  <1>2. \/ Delivered(m) \/ Recorded(m) \/ Counted(m) \/ Failed(m) \/ PageGone(m)
        \/ Unrecorded(m)
    BY DEF MessageStep, Confirmed, NegotiationConfirmed
  <1>3. Otherwise(m) <=> Rest(m)
    BY DEF Otherwise
  <1>4. /\ ~Delivered(m) => sent' = sent
        /\ job[m] # a => \A c \in Channels :
                             sent'[a]["market"][c] = sent[a]["market"][c]
    BY MarketSent
  <1>5. job[m] # a => sent'[a]["market"] = sent[a]["market"]
    <2>1. PICK k \in Kinds, b \in Ads, c \in Channels :
              k = kind[m] /\ b = job[m] /\ c = via[m]
      BY <1>1 DEF Kinds
    <2>2. Delivered(m) => sent' = [sent EXCEPT ![b][k][c] = @ + 1]
      BY <2>1 DEF Delivered
    <2> QED
      BY <1>4, <2>1, <2>2 DEF SumsTypeOK
  <1>6. /\ reopened' = reopened
        /\ Doubted(m) => doubt'[a]["market"] = IF job[m] = a
                                               THEN doubt[a]["market"] + 1
                                               ELSE doubt[a]["market"]
    <2>1. reopened' = reopened
      BY <1>2 DEF Delivered, Recorded, Counted, Failed, PageGone, Unrecorded
    <2> QED
      BY <1>1, <2>1 DEF Doubted, SumsTypeOK, Kinds
  <1>7. /\ doubt' = doubt => Excuses(a)' = Excuses(a)
        /\ Doubted(m) => Excuses(a)' = IF job[m] = a THEN Excuses(a) + 1
                                       ELSE Excuses(a)
    BY <1>6, MarketTyped DEF Excuses
  <1>8. CASE Delivered(m)
    <2>1. /\ pc[m] = "sending" /\ pc'[m] = "out" /\ doubt' = doubt
          /\ UNCHANGED <<kind, job, via, status, contact>>
      BY <1>8 DEF Delivered, MessageTypeOK
    <2> QED
      BY <1>5, <1>7, <1>8, <2>1, MarketSent
  <1>9. CASE Recorded(m)
    <2>1. /\ pc[m] = "out" /\ pc'[m] = "recorded" /\ doubt' = doubt
          /\ UNCHANGED <<kind, job, via, contact, sent>>
          /\ status' = [status EXCEPT ![job[m]][via[m]] = "sent"]
      BY <1>9 DEF Recorded, MessageTypeOK
    <2>2. /\ job[m] # a \/ via[m] # "chat" =>
                 status'[a]["chat"] = status[a]["chat"]
          /\ job[m] = a /\ via[m] = "chat" => status'[a]["chat"] = "sent"
      BY <1>1, <2>1 DEF AdsTypeOK, Channels
    <2> QED
      BY <1>7, <2>1, <2>2
  <1>10. CASE Counted(m)
    <2>1. /\ pc[m] = "recorded" /\ Rest(m) /\ doubt' = doubt /\ sent' = sent
          /\ status' = status /\ contact' = contact
      BY <1>10 DEF Counted
    <2> QED
      BY <1>7, <2>1
  <1>11. CASE Failed(m)
    <2>1. /\ Rest(m) /\ sent' = sent /\ contact' = contact
          /\ pc[m] \in {"sending", "out"}
          /\ IF pc[m] = "out" THEN Doubted(m) ELSE doubt' = doubt
          /\ status' = [status EXCEPT ![job[m]][via[m]] = "failed"]
      BY <1>3, <1>11 DEF Failed
    <2>2. job[m] # a \/ via[m] # "chat" =>
              status'[a]["chat"] = status[a]["chat"]
      BY <1>1, <2>1 DEF AdsTypeOK, Channels
    <2> QED
      BY <1>7, <2>1, <2>2
  <1>12. CASE PageGone(m)
    <2>1. /\ Rest(m) /\ pc[m] = "sending" /\ sent' = sent /\ doubt' = doubt
          /\ via[m] = "chat"
          /\ status' = [status EXCEPT ![job[m]]["chat"] = "removed"]
          /\ contact' = [contact EXCEPT ![job[m]] = "removed"]
      BY <1>12 DEF PageGone
    <2>2. /\ job[m] # a => status'[a]["chat"] = status[a]["chat"]
          /\ contact'[a] = contact[a] \/ contact'[a] = "removed"
      BY <1>1, <2>1 DEF AdsTypeOK, Channels
    <2> QED
      BY <1>7, <2>1, <2>2
  <1>13. CASE Unrecorded(m)
    <2>1. /\ Rest(m) /\ sent' = sent /\ contact' = contact /\ status' = status
          /\ pc[m] \in {"out", "recorded"}
          /\ IF pc[m] = "out" THEN Doubted(m) ELSE doubt' = doubt
      BY <1>3, <1>13 DEF Unrecorded
    <2> QED
      BY <1>7, <2>1
  <1> QED
    BY <1>2, <1>8, <1>9, <1>10, <1>11, <1>12, <1>13

LEMMA OnceMessage ==
    ASSUME TypeOK, TypeOK', OneMonitor, Handed, Duties, Once, NEW m \in Monitors,
           m \in Workers, MessageStep(m)
    PROVE  Once'
  <1> SUFFICES ASSUME NEW a \in Ads
               PROVE  ChatOnce(a)' /\ SmsOnce(a)'
    BY DEF Once
  <1>1. ChatOnce(a) /\ SmsOnce(a)
    BY DEF Once
  <1>2. /\ pc[m] \in {"sending", "out", "recorded"}
        /\ Turns(m, kind[m], job[m]) \/ GoesOn(m)
        /\ job[m] \in Ads /\ kind[m] \in Kinds
    BY MessageTurn
  <1>3. /\ pc'[m] \in {"free", "sending", "out", "recorded"}
        /\ pc'[m] # "free" => kind'[m] = kind[m]
    BY <1>2, TurnTaken DEF GoesOn, TypeOK, MessageTypeOK
  <1>4. \A c, p : /\ Markets(a, c, p) <=> /\ pc[m] = p /\ kind[m] = "market"
                                          /\ job[m] = a /\ via[m] = c
                  /\ Markets(a, c, p)' <=> /\ pc'[m] = p /\ kind'[m] = "market"
                                           /\ job'[m] = a /\ via'[m] = c
    BY TheMonitor
  <1>5. ~Calls(a) /\ ~Calls(a)'
    BY <1>2, <1>3, TheMonitor
  <1>6. /\ sent[a]["market"]["sms"] \in Nat /\ sent[a]["market"]["chat"] \in Nat
        /\ Excuses(a) \in Nat
        /\ sent'[a]["market"]["sms"] \in Nat
        /\ sent'[a]["market"]["chat"] \in Nat /\ Excuses(a)' \in Nat
    <2>1. /\ sent'[a]["market"]["sms"] \in 0 .. MaxSends
          /\ sent'[a]["market"]["chat"] \in 0 .. MaxSends
          /\ doubt'[a]["market"] \in Nat /\ reopened'[a] \in Nat
      BY DEF TypeOK, SumsTypeOK, Kinds, Channels
    <2> QED
      BY <2>1, MarketTyped, OutreachAssumption DEF Excuses, TypeOK
  <1>7. CASE kind[m] # "market"
    <2>1. /\ sent'[a]["market"] = sent[a]["market"]
          /\ Excuses(a)' = Excuses(a)
          /\ \/ status'[a]["chat"] = status[a]["chat"]
             \/ status'[a]["chat"] = "sent"
          /\ contact'[a] = contact[a] \/ contact'[a] = "removed"
      BY <1>7, OtherMessage
    <2>2. \A c \in Channels, p \in {"sending", "out", "recorded"} :
              ~Markets(a, c, p) /\ ~Markets(a, c, p)'
      BY <1>3, <1>4, <1>7
    <2>3. ChatOnce(a)'
      BY <1>1, <2>1, <2>2 DEF ChatOnce, Channels
    <2>4. SmsOnce(a)'
      BY <1>1, <1>5, <2>1, <2>2 DEF SmsOnce, Channels
    <2> QED
      BY <2>3, <2>4
  <1>8. CASE kind[m] = "market"
    <2>1. /\ \/ UNCHANGED <<kind, job, via>>
             \/ pc'[m] = "free" /\ kind'[m] = None
          /\ contact'[a] = contact[a] \/ contact'[a] = "removed"
      BY <1>8, MarketMessage DEF Rest, TypeOK, MessageTypeOK
    <2>2. /\ job[m] # a => /\ sent'[a]["market"] = sent[a]["market"]
                           /\ Excuses(a)' = Excuses(a)
          /\ job[m] # a \/ via[m] # "chat" =>
                 status'[a]["chat"] = status[a]["chat"]
      BY <1>8, MarketMessage
    <2>3. CASE job[m] # a
      <3>1. \A c, p : p # "free" => ~Markets(a, c, p) /\ ~Markets(a, c, p)'
        BY <1>4, <2>1, <2>3
      <3>2. ChatOnce(a)'
        BY <1>1, <2>2, <2>3, <3>1 DEF ChatOnce
      <3>3. SmsOnce(a)'
        BY <1>1, <1>5, <2>1, <2>2, <2>3, <3>1 DEF SmsOnce
      <3> QED
        BY <3>2, <3>3
    <2>4. CASE job[m] = a /\ via[m] = "chat"
      <3>1. \A p : p # "free" => ~Markets(a, "sms", p) /\ ~Markets(a, "sms", p)'
        BY <1>4, <2>1, <2>4
      <3>2. sent'[a]["market"]["sms"] = sent[a]["market"]["sms"]
        BY <2>4, MarketSent DEF Channels
      <3>3. SmsOnce(a)'
        BY <1>1, <1>5, <2>1, <3>1, <3>2 DEF SmsOnce
      <3>4. CASE pc[m] = "sending" /\ pc'[m] = "out"
        <4>1. /\ sent'[a]["market"]["chat"] = sent[a]["market"]["chat"] + 1
              /\ Excuses(a)' = Excuses(a)
          BY <1>8, <2>4, <3>4, MarketMessage DEF Rest, TypeOK, MessageTypeOK,
                                                 Channels
        <4>2. Markets(a, "chat", "sending") /\ Markets(a, "chat", "out")'
              /\ ~Markets(a, "chat", "sending")'
          BY <1>4, <1>8, <2>1, <2>4, <3>4
        <4> QED
          BY <1>1, <1>6, <3>3, <4>1, <4>2 DEF ChatOnce
      <3>5. CASE pc[m] = "out" /\ pc'[m] = "recorded"
        <4>1. /\ sent' = sent /\ Excuses(a)' = Excuses(a)
              /\ status'[a]["chat"] = "sent"
          BY <1>8, <2>4, <3>5, MarketMessage DEF Rest, TypeOK, MessageTypeOK
        <4>2. ~Markets(a, "chat", "sending")'
          BY <1>4, <3>5
        <4> QED
          BY <1>1, <1>6, <3>3, <4>1, <4>2 DEF ChatOnce
      <3>6. CASE pc'[m] = "free"
        <4>1. ~Markets(a, "chat", "sending")'
          BY <1>4, <3>6
        <4>2. /\ sent' = sent
              /\ \/ pc[m] = "out" /\ Excuses(a)' = Excuses(a) + 1
                 \/ pc[m] = "sending" /\ Excuses(a)' = Excuses(a)
                 \/ /\ pc[m] = "recorded" /\ Excuses(a)' = Excuses(a)
                    /\ status' = status
          BY <1>8, <2>4, <3>6, MarketMessage
        <4>3. /\ Markets(a, "chat", "sending") <=> pc[m] = "sending"
              /\ Markets(a, "chat", "out") <=> pc[m] = "out"
          BY <1>4, <1>8, <2>4
        <4> QED
          BY <1>1, <1>2, <1>6, <3>3, <4>1, <4>2, <4>3 DEF ChatOnce
      <3> QED
        BY <1>8, <3>4, <3>5, <3>6, MarketMessage DEF Rest, TypeOK, MessageTypeOK
    <2>5. CASE job[m] = a /\ via[m] = "sms"
      <3>1. \A p : p # "free" => ~Markets(a, "chat", p) /\ ~Markets(a, "chat", p)'
        BY <1>4, <2>1, <2>5
      <3>2. /\ sent'[a]["market"]["chat"] = sent[a]["market"]["chat"]
            /\ status'[a]["chat"] = status[a]["chat"]
        BY <2>2, <2>5, MarketSent DEF Channels
      <3>3. Excuses(a)' = Excuses(a) \/ Excuses(a)' = Excuses(a) + 1
        BY <1>8, <2>5, MarketMessage
      <3>4. ChatOnce(a)'
        BY <1>1, <1>6, <3>1, <3>2, <3>3 DEF ChatOnce
      <3>5. /\ contact[a] \in {"found", "removed"}
            /\ sent[a]["market"]["sms"] <= 1
            /\ pc[m] = "sending" => sent[a]["market"]["sms"] = 0
        BY <1>1, <1>2, <1>4, <1>8, <2>5 DEF SmsOnce
      <3>6. /\ contact'[a] \in {"found", "removed"}
            /\ sent'[a]["market"]["sms"] <= 1 /\ pc'[m] # "sending"
        BY <1>6, <1>8, <2>1, <2>5, <3>5, MarketMessage
        DEF Rest, TypeOK, MessageTypeOK, Channels
      <3>7. SmsOnce(a)'
        BY <1>4, <1>5, <3>6 DEF SmsOnce
      <3> QED
        BY <3>4, <3>7
    <2> QED
      BY <1>8, <2>3, <2>4, <2>5, MessageTurn DEF Channels
  <1> QED
    BY <1>7, <1>8

\* The user takes a record back, which is an excuse; a crash makes one of every
\* message that is out.
LEMMA OnceWorld ==
    ASSUME TypeOK, TypeOK', Duties, Once, WorldStep
    PROVE  Once' /\ Duties'
  <1>1. Duties'
    <2>1. \/ UNCHANGED <<pc, kind, via>>
          \/ \A w \in Workers : pc'[w] = "free"
      BY DEF WorldStep, SellerAnswers, Requeue, UserMarks, QuotaReset, Crash
    <2> QED
      BY <2>1 DEF Duties, Duty
  <1> SUFFICES ASSUME NEW a \in Ads
               PROVE  ChatOnce(a)' /\ SmsOnce(a)'
    BY <1>1 DEF Once
  <1>2. ChatOnce(a) /\ SmsOnce(a)
    BY DEF Once
  <1>3. sent' = sent
    BY DEF WorldStep, SellerAnswers, Requeue, UserMarks, QuotaReset, Crash
  <1>4. /\ sent[a]["market"]["sms"] \in Nat /\ sent[a]["market"]["chat"] \in Nat
        /\ doubt[a]["market"] \in Nat /\ reopened[a] \in Nat
        /\ Excuses(a) \in Nat
    BY MarketTyped DEF TypeOK
  <1>5. CASE Crash
    <2>1. /\ UNCHANGED <<status, contact, reopened>>
          /\ pc' = [w \in Workers |-> "free"]
      BY <1>5 DEF Crash
    <2>2. \A c, p : p # "free" => ~Markets(a, c, p)'
      BY <2>1 DEF Markets, Workers
    <2>3. ~Calls(a)'
      BY <2>1 DEF Calls, Workers
    <2>4. PICK n \in Nat : /\ doubt'[a]["market"] = doubt[a]["market"] + n
                           /\ Markets(a, "chat", "out") => n >= 1
      <3> DEFINE Lost == {w \in Workers : /\ pc[w] = "out" /\ job[w] = a
                                          /\ kind[w] = "market"}
      <3>1. doubt'[a]["market"] = doubt[a]["market"] + Cardinality(Lost)
        BY <1>5 DEF Crash, Kinds
      <3>2. Lost \in SUBSET Workers
        OBVIOUS
      <3>3. IsFiniteSet(Lost) /\ Cardinality(Lost) \in Nat
        BY <3>2, UnderWaySizes
      <3>4. ASSUME Markets(a, "chat", "out")
            PROVE  Cardinality(Lost) >= 1
        <4>1. PICK w : w \in Lost
          BY <3>4 DEF Markets, Workers
        <4> HIDE DEF Lost
        <4>2. Cardinality(Lost \ {w}) \in Nat
              /\ Cardinality(Lost \ {w}) = Cardinality(Lost) - 1
          BY <3>2, <4>1, UnderWayLoses
        <4> QED
          BY <3>3, <4>2
      <3> QED
        BY <3>1, <3>3, <3>4
    <2>5. Excuses(a)' = Excuses(a) + n
      BY <1>4, <2>1, <2>4 DEF Excuses
    <2>6. ChatOnce(a)'
      BY <1>2, <1>3, <1>4, <2>1, <2>2, <2>4, <2>5 DEF ChatOnce
    <2>7. SmsOnce(a)'
      BY <1>2, <1>3, <2>1, <2>2, <2>3 DEF SmsOnce
    <2> QED
      BY <2>6, <2>7
  <1>6. CASE ~Crash
    <2>1. UNCHANGED <<pc, kind, job, via, doubt>>
      BY <1>6 DEF WorldStep, SellerAnswers, Requeue, UserMarks, QuotaReset
    <2>2. /\ \A c, p : Markets(a, c, p)' <=> Markets(a, c, p)
          /\ Calls(a)' <=> Calls(a)
      BY <2>1 DEF Markets, Calls
    <2>3. /\ \/ contact'[a] = contact[a]
             \/ contact'[a] = "removed"
             \/ contact[a] = "hidden"
          /\ \/ /\ reopened'[a] = reopened[a]
                /\ \/ status'[a]["chat"] = status[a]["chat"]
                   \/ status'[a]["chat"] = "sent"
                   \/ status[a]["chat"] # "sent"
             \/ reopened'[a] = reopened[a] + 1
      <3>1. ASSUME NEW b \in Ads, SellerAnswers(b) \/ Requeue(b)
            PROVE  /\ status' = status /\ reopened' = reopened
                   /\ \/ contact'[a] = contact[a]
                      \/ contact'[a] = "removed"
                      \/ contact[a] = "hidden"
        BY <3>1 DEF SellerAnswers, Requeue, TypeOK, AdsTypeOK
      <3>2. ASSUME NEW b \in Ads, NEW s \in LeadStatus,
                   NEW chat \in MessageStatus, UserMarks(b, s, chat)
            PROVE  /\ contact' = contact
                   /\ \/ /\ reopened'[a] = reopened[a]
                         /\ \/ status'[a]["chat"] = status[a]["chat"]
                            \/ status'[a]["chat"] = "sent"
                            \/ status[a]["chat"] # "sent"
                      \/ reopened'[a] = reopened[a] + 1
        BY <3>2 DEF UserMarks, TypeOK, AdsTypeOK, SumsTypeOK, Channels
      <3>3. QuotaReset => UNCHANGED <<contact, status, reopened>>
        BY DEF QuotaReset
      <3> QED
        BY <1>6, <3>1, <3>2, <3>3 DEF WorldStep
    <2>4. ChatOnce(a)'
      BY <1>2, <1>3, <1>4, <2>1, <2>2, <2>3 DEF ChatOnce, Excuses
    <2>5. SmsOnce(a)'
      BY <1>2, <1>3, <2>2, <2>3 DEF SmsOnce
    <2> QED
      BY <2>4, <2>5
  <1> QED
    BY <1>5, <1>6

LEMMA OnceInit == Init => Once /\ Duties
  <1> SUFFICES ASSUME Init PROVE Once /\ Duties
    OBVIOUS
  <1>1. /\ pc = [w \in Workers |-> "free"]
        /\ sent = [a \in Ads |-> [k \in Kinds |-> [c \in Channels |-> 0]]]
        /\ doubt = [a \in Ads |-> [k \in Kinds |-> 0]]
        /\ reopened = [a \in Ads |-> 0]
    BY DEF Init
  <1>2. ASSUME NEW a \in Ads
        PROVE  ChatOnce(a) /\ SmsOnce(a)
    <2>1. \A c, p : p # "free" => ~Markets(a, c, p)
      BY <1>1 DEF Markets, Workers
    <2>2. /\ sent[a]["market"]["sms"] = 0 /\ sent[a]["market"]["chat"] = 0
          /\ Excuses(a) = 0
      BY <1>1 DEF Excuses, Kinds, Channels
    <2> QED
      BY <2>1, <2>2 DEF ChatOnce, SmsOnce
  <1> QED
    BY <1>1, <1>2 DEF Once, Duties, Duty

\* With one monitor thread an ad is marketed once through a channel, and again
\* only for a message whose record was lost or that the user took back: whatever
\* the request threads send, wherever a crash falls, and however often the ad
\* comes back to the phone queue or to the chat queue.
THEOREM MarketedForAReason ==
    ASSUME OneMonitor
    PROVE  Spec => []MarketedOnce
  <1>1. ASSUME TypeOK, TypeOK', Handed, Once, Duties, [Next]_vars
        PROVE  Once' /\ Duties'
    <2>1. ASSUME NEW m \in Monitors, MonitorStep(m)
          PROVE  Once' /\ Duties'
      <3>1. Once'
        BY <1>1, <2>1, OnceMessage, OnceQuiet DEF Workers
      <3> QED
        BY <1>1, <2>1, <3>1, DutyKept DEF Workers
    <2>2. ASSUME NEW o \in Operators, OperatorStep(o)
          PROVE  Once' /\ Duties'
      <3>1. Once'
        BY <1>1, <2>2, OnceOperator, OutreachAssumption
      <3> QED
        BY <1>1, <2>2, <3>1, DutyKept DEF Workers
    <2>3. CASE WorldStep
      BY <1>1, <2>3, OnceWorld
    <2>4. CASE UNCHANGED vars
      BY <1>1, <2>4 DEF vars, Once, Duties, Duty, ChatOnce, SmsOnce, Markets,
                        Calls, Excuses
    <2> QED
      BY <1>1, <2>1, <2>2, <2>3, <2>4 DEF Next
  <1>2. ASSUME TypeOK, Once
        PROVE  MarketedOnce
    <2>1. ASSUME NEW a \in Ads, NEW c \in Channels
          PROVE  sent[a]["market"][c] <= 1 + doubt[a]["market"] + reopened[a]
      <3>1. ChatOnce(a) /\ SmsOnce(a)
        BY <1>2 DEF Once
      <3>2. /\ sent[a]["market"]["sms"] \in Nat
            /\ sent[a]["market"]["chat"] \in Nat
            /\ doubt[a]["market"] \in Nat /\ reopened[a] \in Nat
        BY <1>2, MarketTyped DEF TypeOK
      <3>3. c = "sms" \/ c = "chat"
        BY DEF Channels
      <3> QED
        BY <3>1, <3>2, <3>3 DEF ChatOnce, SmsOnce, Excuses
    <2> QED
      BY <2>1 DEF MarketedOnce
  <1> QED
    BY <1>1, <1>2, OnceInit, TypeCorrect, InquiriesInvariant, PTL DEF Spec
=============================================================================
