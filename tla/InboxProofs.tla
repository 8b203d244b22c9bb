---------------------------- MODULE InboxProofs ----------------------------
(***************************************************************************)
(* Theorems about Inbox for every number of ads, sellers, messages and     *)
(* monitors, and of failures between the commits of a poll.                *)
(***************************************************************************)
EXTENDS Inbox, FiniteSetTheorems, FunctionTheorems, SequenceTheorems, TLAPS

USE DEF leadVars, pollVars, history

-----------------------------------------------------------------------------
(* The invariant *)

Places == {"off", "idle", "sms", "check", "insert", "apply", "chats", "chatInsert", "chatApply"}
WithSms == {"check", "insert", "apply"}
OnPage == {"chatInsert", "chatApply"}
Damning == {"gone", "defect_admit"}

SmsText == [from : Sellers \cup {Stranger}, message : Messages]
ChatText == [own : BOOLEAN, means : Intents]
InHands == [message : Messages \cup {None}, ad : Ads \cup {0}, inquire : BOOLEAN]

LeadTypes ==
    /\ smsSent \in [Ads -> BOOLEAN] /\ chatSent \in [Ads -> BOOLEAN]
    /\ threadKnown \in [Ads -> BOOLEAN]
    /\ inquiry \in [Ads -> {"", "sent", "answered"}]
    /\ removed \in [Ads -> BOOLEAN] /\ defect \in [Ads -> BOOLEAN]
    /\ replied \in [Ads -> BOOLEAN]

Types ==
    /\ LeadTypes
    /\ sms \in Seq(SmsText)
    /\ thread \in [Ads -> Seq(ChatText)]
    /\ replies \in [Messages \X Ads -> 0 .. 2] /\ unapplied \subseteq Messages \X Ads
    /\ pc \in [Monitors -> Places] /\ todo \in [Monitors -> Seq(Nat)]
    /\ inHand \in [Monitors -> InHands] /\ page \in [Monitors -> Seq(ChatText)]

\* One SMS is of the seller of the ad, or of a stranger.
His(k, a) == sms[k].from \in {SellerOf[a], Stranger}

\* A page that bears the title of the ad, its own among them
PageOf(b, a) == b = a \/ <<b, a>> \in Matches

\* It was said where the ad is looked for.
Heard(a, i) ==
    \/ \E b \in Ads : PageOf(b, a) /\ \E k \in 1 .. Len(thread[b]) : thread[b][k].means = i
    \/ \E k \in 1 .. Len(sms) : MeansOf[sms[k].message] = i /\ His(k, a)

\* What a poll has in hand is of the ad it has in hand.
Reading(m) ==
    /\ pc[m] \in {"sms"} \cup WithSms => todo[m] \in Seq(1 .. Len(sms))
    /\ pc[m] \in {"chats"} \cup OnPage => todo[m] \in Seq(Ads)
    /\ pc[m] \in WithSms =>
          /\ inHand[m].message \in Messages /\ inHand[m].ad \in Ads
          /\ \E k \in 1 .. Len(sms) :
                sms[k].message = inHand[m].message /\ His(k, inHand[m].ad)
    /\ pc[m] \in OnPage <=> page[m] # <<>>
    /\ page[m] # <<>> =>
          /\ inHand[m].ad \in Ads
          /\ \A k \in 1 .. Len(page[m]) :
                page[m][k].means \in Damning => Heard(inHand[m].ad, page[m][k].means)

Judged(a) == (removed[a] => Heard(a, "gone")) /\ (defect[a] => Heard(a, "defect_admit"))

Done(x) == /\ replied[x[2]]
           /\ MeansOf[x[1]] = "gone" => removed[x[2]]
           /\ MeansOf[x[1]] = "defect_admit" => defect[x[2]]

\* A stored message has done its work, has a poll that is about to do it, or lost it.
Stored(x) ==
    replies[x] > 0 =>
        \/ x \in unapplied
        \/ \E m \in Monitors : pc[m] = "apply" /\ <<inHand[m].message, inHand[m].ad>> = x
        \/ Done(x)

InboxInv ==
    /\ Types
    /\ \A m \in Monitors : Reading(m)
    /\ \A a \in Ads : Judged(a)
    /\ \A x \in Messages \X Ads : Stored(x)

-----------------------------------------------------------------------------
(* The batch of ads *)

LEMMA Ranked ==
    ASSUME NEW S, IsFiniteSet(S), S \subseteq Nat
    PROVE  \A k \in 1 .. Cardinality(S) : \E a \in S : Cardinality({b \in S : b > a}) = k - 1
  <1> DEFINE n == Cardinality(S)
             Newer == [a \in S |-> {b \in S : b > a}]
             Place == [a \in S |-> Cardinality(Newer[a]) + 1]
  <1>1. n \in Nat
    BY FS_CardinalityType
  <1>2. ASSUME NEW a \in S
        PROVE  /\ IsFiniteSet(Newer[a]) /\ Cardinality(Newer[a]) \in Nat
               /\ Cardinality(Newer[a]) < n
    <2>1. Newer[a] \subseteq S /\ a \notin Newer[a]
      OBVIOUS
    <2> HIDE DEF Newer
    <2>2. IsFiniteSet(Newer[a]) /\ Cardinality(Newer[a]) <= n
          /\ (Cardinality(S) = Cardinality(Newer[a]) => S = Newer[a])
      BY <2>1, FS_Subset
    <2>3. Cardinality(Newer[a]) \in Nat
      BY <2>2, FS_CardinalityType
    <2>4. Cardinality(Newer[a]) # n
      BY <2>1, <2>2
    <2> HIDE DEF n
    <2> QED
      BY <1>1, <2>2, <2>3, <2>4
  <1>3. ASSUME NEW a \in S, NEW b \in S, a < b
        PROVE  Cardinality(Newer[b]) < Cardinality(Newer[a])
    <2>1. Newer[b] \subseteq Newer[a]
      <3> SUFFICES ASSUME NEW c \in S, c > b PROVE c > a
        OBVIOUS
      <3>1. a \in Nat /\ b \in Nat /\ c \in Nat
        OBVIOUS
      <3> HIDE DEF Newer, n, Place
      <3> QED
        BY <1>3, <3>1
    <2>2. b \in Newer[a] /\ b \notin Newer[b]
      BY <1>3
    <2> HIDE DEF Newer
    <2>3. /\ Cardinality(Newer[b]) <= Cardinality(Newer[a])
          /\ Cardinality(Newer[a]) = Cardinality(Newer[b]) => Newer[a] = Newer[b]
      BY <1>2, <2>1, FS_Subset
    <2>4. Cardinality(Newer[a]) \in Nat /\ Cardinality(Newer[b]) \in Nat
      BY <1>2
    <2> QED
      BY <2>2, <2>3, <2>4
  <1>4. Place \in [S -> 1 .. n]
    <2> SUFFICES ASSUME NEW a \in S PROVE Cardinality(Newer[a]) + 1 \in 1 .. n
      OBVIOUS
    <2>1. Cardinality(Newer[a]) \in Nat /\ Cardinality(Newer[a]) < n
      BY <1>2
    <2> HIDE DEF Newer, n
    <2> QED
      BY <1>1, <2>1
  <1>5. ASSUME NEW a \in S, NEW b \in S, a # b
        PROVE  Place[a] # Place[b]
    <2>1. Cardinality(Newer[a]) \in Nat /\ Cardinality(Newer[b]) \in Nat
      BY <1>2
    <2>2. a < b \/ b < a
      BY <1>5
    <2>3. Cardinality(Newer[a]) # Cardinality(Newer[b])
      <3> HIDE DEF Newer
      <3> QED
        BY <1>3, <2>1, <2>2
    <2> HIDE DEF Newer
    <2> QED
      BY <2>1, <2>3
  <1>6. Place \in Injection(S, 1 .. n)
    <2> HIDE DEF Place, n
    <2>1. \A a, b \in S : Place[a] = Place[b] => a = b
      BY <1>5
    <2> QED
      BY <1>4, <2>1, Fun_IsInj
  <1>7. IsFiniteSet(1 .. n) /\ Cardinality(1 .. n) = n
    BY <1>1, FS_Interval
  <1>8. Place \in Surjection(S, 1 .. n)
    <2> HIDE DEF Place, n
    <2>1. Cardinality(S) = Cardinality(1 .. n) <=> Place \in Surjection(S, 1 .. n)
      BY <1>6, <1>7, FS_Injection
    <2>2. Cardinality(1 .. n) = Cardinality(S)
      BY <1>7 DEF n
    <2> QED
      BY <2>1, <2>2
  <1>9. \A k \in 1 .. n : \E a \in S : Place[a] = k
    <2> HIDE DEF Place
    <2> QED
      BY <1>8 DEF Surjection
  <1>10. ASSUME NEW k \in 1 .. n
         PROVE  \E a \in S : Cardinality({b \in S : b > a}) = k - 1
    <2>1. PICK a \in S : Place[a] = k
      BY <1>9
    <2>2. Cardinality(Newer[a]) \in Nat /\ Cardinality(Newer[a]) + 1 = k
      BY <1>2, <2>1
    <2>3. Newer[a] = {b \in S : b > a}
      OBVIOUS
    <2> HIDE DEF Newer, Place
    <2>4. Cardinality(Newer[a]) = k - 1
      BY <2>2
    <2> QED
      BY <2>3, <2>4
  <1> QED
    BY <1>10

\* The batch is of ads, though it names them by their number of newer ones.
LEMMA BatchOfAds == Batch \in Seq(Ads)
  <1> DEFINE newer(a) == {b \in Written : b > a}
             rows == {a \in Written : Cardinality(newer(a)) < PollBatch}
             n == Cardinality(rows)
             first == [k \in 1 .. n |-> CHOOSE a \in rows : Cardinality(newer(a)) = k - 1]
  <1>1. /\ Written \subseteq Ads /\ IsFiniteSet(Written) /\ Written \subseteq Nat
        /\ rows \subseteq Written
    <2>1. Written \subseteq Ads /\ Ads \subseteq Nat /\ IsFiniteSet(Ads)
      BY InboxAssumption DEF Written
    <2>2. IsFiniteSet(Written)
      BY <2>1, FS_Subset
    <2> QED
      BY <2>1, <2>2
  <1>2. IsFiniteSet(rows) /\ n \in Nat
    <2>1. IsFiniteSet(rows)
      BY <1>1, FS_Subset
    <2> QED
      BY <2>1, FS_CardinalityType
  <1>3. ASSUME NEW a \in rows
        PROVE  newer(a) = {b \in rows : b > a}
    <2>1. a \in Ads /\ newer(a) = {b \in Written : b > a} /\ Cardinality(newer(a)) < PollBatch
      BY <1>1
    <2>2. ASSUME NEW b \in newer(a)
          PROVE  b \in rows
      <3>1. b \in Written /\ b \in Ads /\ b > a /\ b \in Nat /\ a \in Nat
        BY <1>1, <2>1
      <3>2. newer(b) \subseteq newer(a)
        <4> SUFFICES ASSUME NEW c \in Written, c > b PROVE c > a
          OBVIOUS
        <4>1. c \in Nat
          BY <1>1
        <4> HIDE DEF newer, rows, n, first
        <4> QED
          BY <3>1, <4>1
      <3>3. newer(a) \subseteq Written
        BY <2>1
      <3> HIDE DEF newer
      <3>4. IsFiniteSet(newer(a))
        BY <1>1, <3>3, FS_Subset
      <3>5. Cardinality(newer(b)) <= Cardinality(newer(a)) /\ IsFiniteSet(newer(b))
        BY <3>2, <3>4, FS_Subset
      <3>6. Cardinality(newer(b)) \in Nat /\ Cardinality(newer(a)) \in Nat /\ PollBatch \in Nat
        BY <3>4, <3>5, FS_CardinalityType, InboxAssumption
      <3>7. Cardinality(newer(b)) < PollBatch
        BY <2>1, <3>5, <3>6
      <3> QED
        BY <3>1, <3>7
    <2> HIDE DEF rows
    <2> QED
      BY <1>1, <2>1, <2>2
  <1>4. ASSUME NEW k \in 1 .. n
        PROVE  (CHOOSE a \in rows : Cardinality(newer(a)) = k - 1) \in Ads
    <2>1. \E a \in rows : Cardinality({b \in rows : b > a}) = k - 1
      <3> HIDE DEF rows
      <3> QED
        BY <1>1, <1>2, Ranked DEF n
    <2>2. \E a \in rows : Cardinality(newer(a)) = k - 1
      <3> HIDE DEF rows, newer
      <3> QED
        BY <1>3, <2>1
    <2> HIDE DEF newer, n, rows
    <2> QED
      BY <1>1, <2>2
  <1>5. first \in [1 .. n -> Ads]
    <2> HIDE DEF n, rows, newer
    <2> QED
      BY <1>4
  <1>6. first \in Seq(Ads)
    <2> HIDE DEF n, first
    <2> QED
      BY <1>2, <1>5, SeqDef
  <1>7. Batch = first
    BY DEF Batch
  <1> QED
    BY <1>6, <1>7

-----------------------------------------------------------------------------
(* What only grows *)

\* Messages are only added; what is known of an ad is not taken back.
Grown ==
    /\ Len(sms) <= Len(sms') /\ \A k \in 1 .. Len(sms) : sms'[k] = sms[k]
    /\ \A a \in Ads : /\ Len(thread[a]) <= Len(thread'[a])
                      /\ \A k \in 1 .. Len(thread[a]) : thread'[a][k] = thread[a][k]
    /\ \A a \in Ads : /\ removed[a] => removed'[a]
                      /\ defect[a] => defect'[a]
                      /\ replied[a] => replied'[a]

LEMMA Lengths ==
    ASSUME Types, Types'
    PROVE  /\ Len(sms) \in Nat /\ Len(sms') \in Nat
           /\ \A a \in Ads : Len(thread[a]) \in Nat /\ Len(thread'[a]) \in Nat
           /\ \A m \in Monitors : Len(page[m]) \in Nat
  <1>1. Len(sms) \in Nat /\ Len(sms') \in Nat
    BY LenProperties DEF Types
  <1>2. ASSUME NEW a \in Ads
        PROVE  Len(thread[a]) \in Nat /\ Len(thread'[a]) \in Nat
    <2>1. thread[a] \in Seq(ChatText) /\ thread'[a] \in Seq(ChatText)
      BY DEF Types
    <2> QED
      BY <2>1, LenProperties
  <1>3. ASSUME NEW m \in Monitors
        PROVE  Len(page[m]) \in Nat
    <2>1. page[m] \in Seq(ChatText)
      BY DEF Types
    <2> QED
      BY <2>1, LenProperties
  <1> QED
    BY <1>1, <1>2, <1>3

LEMMA HeardStays ==
    ASSUME Types, Types', Grown, NEW a \in Ads, NEW i, Heard(a, i)
    PROVE  Heard(a, i)'
  <1>1. /\ Len(sms) \in Nat /\ Len(sms') \in Nat /\ Len(thread[a]) \in Nat
        /\ Len(thread'[a]) \in Nat
    BY Lengths
  <1>2. CASE \E b \in Ads : PageOf(b, a) /\ \E k \in 1 .. Len(thread[b]) : thread[b][k].means = i
    <2>1. PICK b \in Ads : PageOf(b, a) /\ \E k \in 1 .. Len(thread[b]) : thread[b][k].means = i
      BY <1>2
    <2>2. PICK k \in 1 .. Len(thread[b]) : thread[b][k].means = i
      BY <2>1
    <2>3. k \in 1 .. Len(thread'[b]) /\ thread'[b][k] = thread[b][k]
      BY Lengths DEF Grown
    <2> QED
      BY <2>1, <2>2, <2>3 DEF Heard, PageOf
  <1>3. CASE \E k \in 1 .. Len(sms) : MeansOf[sms[k].message] = i /\ His(k, a)
    <2>1. PICK k \in 1 .. Len(sms) : MeansOf[sms[k].message] = i /\ His(k, a)
      BY <1>3
    <2>2. k \in 1 .. Len(sms') /\ sms'[k] = sms[k]
      BY <1>1 DEF Grown
    <2> QED
      BY <2>1, <2>2 DEF Heard, His
  <1> QED
    BY <1>2, <1>3 DEF Heard

\* A poll that does not move keeps its work.
LEMMA ReadingStays ==
    ASSUME Types, Types', Grown, NEW m \in Monitors, Reading(m),
           UNCHANGED <<pc[m], todo[m], inHand[m], page[m]>>
    PROVE  Reading(m)'
  <1>1. Len(sms) \in Nat /\ Len(sms') \in Nat /\ Len(sms) <= Len(sms')
    BY Lengths DEF Grown
  <1>2. pc[m] \in {"sms"} \cup WithSms => todo[m] \in Seq(1 .. Len(sms'))
    <2>1. 1 .. Len(sms) \subseteq 1 .. Len(sms')
      BY <1>1
    <2> QED
      BY <2>1, SeqMonotonic DEF Reading
  <1>3. pc[m] \in WithSms =>
           \E k \in 1 .. Len(sms') :
              sms'[k].message = inHand[m].message /\ His(k, inHand[m].ad)'
    <2> SUFFICES ASSUME pc[m] \in WithSms
                 PROVE  \E k \in 1 .. Len(sms') :
                           sms'[k].message = inHand[m].message /\ His(k, inHand[m].ad)'
      OBVIOUS
    <2>1. PICK k \in 1 .. Len(sms) :
             sms[k].message = inHand[m].message /\ His(k, inHand[m].ad)
      BY DEF Reading
    <2>2. k \in 1 .. Len(sms') /\ sms'[k] = sms[k]
      BY <1>1 DEF Grown
    <2> QED
      BY <2>1, <2>2 DEF His
  <1>4. page[m] # <<>> =>
           \A k \in 1 .. Len(page[m]) :
              page[m][k].means \in Damning => Heard(inHand[m].ad, page[m][k].means)'
    BY HeardStays DEF Reading
  <1> QED
    BY <1>2, <1>3, <1>4 DEF Reading

LEMMA JudgedStays ==
    ASSUME Types, Types', Grown, NEW a \in Ads, Judged(a),
           UNCHANGED <<removed[a], defect[a]>>
    PROVE  Judged(a)'
  BY HeardStays DEF Judged

LEMMA StoredStays ==
    ASSUME Types, Types', Grown, NEW x \in Messages \X Ads, Stored(x),
           UNCHANGED replies[x], unapplied \subseteq unapplied',
           \A m \in Monitors :
              pc[m] = "apply" /\ <<inHand[m].message, inHand[m].ad>> = x =>
                 \/ pc'[m] = "apply" /\ inHand'[m] = inHand[m]
                 \/ x \in unapplied' \/ Done(x)'
    PROVE  Stored(x)'
  <1>1. x[1] \in Messages /\ x[2] \in Ads
    OBVIOUS
  <1>2. Done(x) => Done(x)'
    BY <1>1 DEF Done, Grown
  <1>3. CASE \E m \in Monitors : pc[m] = "apply" /\ <<inHand[m].message, inHand[m].ad>> = x
    BY <1>3 DEF Stored
  <1> QED
    BY <1>2, <1>3 DEF Stored

-----------------------------------------------------------------------------
(* Messages out and in *)

\* Whatever happens outside the polls: they keep their work.
LEMMA WorldKeeps ==
    ASSUME InboxInv, Types', Grown, UNCHANGED <<removed, defect, replied, replies, pollVars, history>>
    PROVE  InboxInv'
  <1>1. Types
    BY DEF InboxInv
  <1>2. ASSUME NEW m \in Monitors
        PROVE  Reading(m)'
    <2>1. Reading(m)
      BY DEF InboxInv
    <2> QED
      BY <1>1, <2>1, ReadingStays
  <1>3. ASSUME NEW a \in Ads
        PROVE  Judged(a)'
    <2>1. Judged(a)
      BY DEF InboxInv
    <2> QED
      BY <1>1, <2>1, JudgedStays
  <1>4. ASSUME NEW x \in Messages \X Ads
        PROVE  Stored(x)'
    <2>1. Stored(x)
      BY DEF InboxInv
    <2> QED
      BY <1>1, <2>1, StoredStays
  <1> QED
    BY <1>2, <1>3, <1>4 DEF InboxInv

LEMMA Extended ==
    ASSUME NEW S, NEW s \in Seq(S), NEW e \in S
    PROVE  /\ Append(s, e) \in Seq(S) /\ Len(Append(s, e)) = Len(s) + 1
           /\ \A k \in 1 .. Len(s) : Append(s, e)[k] = s[k]
           /\ Append(s, e)[Len(s) + 1] = e /\ Len(s) \in Nat
  OBVIOUS

LEMMA SendSmsKeeps ==
    ASSUME InboxInv, NEW a \in Ads, SendSms(a)
    PROVE  InboxInv'
  <1>1. Types
    BY DEF InboxInv
  <1>2. Types'
    BY <1>1 DEF Types, LeadTypes, SendSms, Inquiring
  <1>3. Grown
    BY <1>1, Lengths, <1>2 DEF Grown, SendSms
  <1> QED
    BY <1>2, <1>3, WorldKeeps DEF SendSms

\* A message more on the page of an ad.
LEMMA ThreadGrows ==
    ASSUME Types, NEW a \in Ads, NEW e \in ChatText,
           thread' = [thread EXCEPT ![a] = Append(@, e)],
           UNCHANGED <<sms, removed, defect, replied>>
    PROVE  thread' \in [Ads -> Seq(ChatText)] /\ Grown
  <1>1. thread[a] \in Seq(ChatText) /\ thread'[a] = Append(thread[a], e)
    BY DEF Types
  <1>2. /\ thread'[a] \in Seq(ChatText) /\ Len(thread'[a]) = Len(thread[a]) + 1
        /\ \A k \in 1 .. Len(thread[a]) : thread'[a][k] = thread[a][k]
        /\ thread'[a][Len(thread[a]) + 1] = e /\ Len(thread[a]) \in Nat
    BY <1>1, Extended
  <1>3. \A b \in Ads : b # a => thread'[b] = thread[b]
    BY DEF Types
  <1>4. thread' \in [Ads -> Seq(ChatText)]
    BY <1>2 DEF Types
  <1>5. \A b \in Ads : Len(thread[b]) \in Nat
    BY LenProperties DEF Types
  <1>6. Len(sms) \in Nat
    BY LenProperties DEF Types
  <1>7. Grown
    BY <1>2, <1>3, <1>5, <1>6 DEF Grown
  <1> QED
    BY <1>4, <1>7

LEMMA SendChatKeeps ==
    ASSUME InboxInv, NEW a \in Ads, SendChat(a)
    PROVE  InboxInv'
  <1>1. Types
    BY DEF InboxInv
  <1>2. PICK i \in Meanings : thread' = [thread EXCEPT ![a] = Append(@, [own |-> TRUE, means |-> i])]
    BY DEF SendChat
  <1> DEFINE e == [own |-> TRUE, means |-> i]
  <1>3. e \in ChatText
    BY InboxAssumption DEF ChatText
  <1>4. thread' = [thread EXCEPT ![a] = Append(@, e)] /\ UNCHANGED <<sms, removed, defect, replied>>
    BY <1>2 DEF SendChat
  <1> HIDE DEF e
  <1>5. thread' \in [Ads -> Seq(ChatText)] /\ Grown
    BY <1>1, <1>3, <1>4, ThreadGrows
  <1>6. LeadTypes'
    <2>1. threadKnown' \in [Ads -> BOOLEAN]
      BY <1>1 DEF Types, LeadTypes, SendChat
    <2>2. inquiry' \in [Ads -> {"", "sent", "answered"}]
      BY <1>1 DEF Types, LeadTypes, SendChat, Inquiring
    <2> QED
      BY <1>1, <2>1, <2>2 DEF Types, LeadTypes, SendChat
  <1>7. Types'
    BY <1>1, <1>5, <1>6 DEF Types, SendChat
  <1> QED
    BY <1>5, <1>7, WorldKeeps DEF SendChat

LEMMA SellerChatsKeeps ==
    ASSUME InboxInv, NEW a \in Ads, SellerChats(a)
    PROVE  InboxInv'
  <1>1. Types
    BY DEF InboxInv
  <1>2. PICK i \in Meanings : thread' = [thread EXCEPT ![a] = Append(@, [own |-> FALSE, means |-> i])]
    BY DEF SellerChats
  <1> DEFINE e == [own |-> FALSE, means |-> i]
  <1>3. e \in ChatText
    BY InboxAssumption DEF ChatText
  <1>4. thread' = [thread EXCEPT ![a] = Append(@, e)] /\ UNCHANGED <<sms, removed, defect, replied>>
    BY <1>2 DEF SellerChats
  <1> HIDE DEF e
  <1>5. thread' \in [Ads -> Seq(ChatText)] /\ Grown
    BY <1>1, <1>3, <1>4, ThreadGrows
  <1>6. Types'
    BY <1>1, <1>5 DEF Types, LeadTypes, SellerChats
  <1> QED
    BY <1>5, <1>6, WorldKeeps DEF SellerChats

LEMMA SellerWritesKeeps ==
    ASSUME InboxInv, NEW s \in Sellers \cup {Stranger}, SellerWrites(s)
    PROVE  InboxInv'
  <1>1. Types
    BY DEF InboxInv
  <1>2. PICK x \in Messages : sms' = Append(sms, [from |-> s, message |-> x])
    BY DEF SellerWrites
  <1> DEFINE e == [from |-> s, message |-> x]
  <1>3. e \in SmsText
    BY DEF SmsText
  <1> HIDE DEF e
  <1>4. /\ sms' \in Seq(SmsText) /\ Len(sms') = Len(sms) + 1 /\ Len(sms) \in Nat
        /\ \A k \in 1 .. Len(sms) : sms'[k] = sms[k]
    BY <1>1, <1>2, <1>3, Extended DEF Types, e
  <1>5. Types'
    BY <1>1, <1>4 DEF Types, LeadTypes, SellerWrites
  <1>6. Grown
    BY <1>1, <1>4, <1>5, Lengths DEF Grown, SellerWrites
  <1> QED
    BY <1>5, <1>6, WorldKeeps DEF SellerWrites

-----------------------------------------------------------------------------
(* The polls *)

\* A step of one poll that changes no ad and stores nothing.
LEMMA PollKeeps ==
    ASSUME InboxInv, NEW m \in Monitors, UNCHANGED <<leadVars, sms, thread, replies, unapplied>>,
           NEW p \in Places, NEW d \in Seq(Nat), NEW h \in InHands, NEW g \in Seq(ChatText),
           pc' = [pc EXCEPT ![m] = p], todo' = [todo EXCEPT ![m] = d],
           inHand' = [inHand EXCEPT ![m] = h], page' = [page EXCEPT ![m] = g],
           pc[m] # "apply", Reading(m)'
    PROVE  InboxInv'
  <1>1. Types
    BY DEF InboxInv
  <1>2. Types'
    BY <1>1 DEF Types, LeadTypes
  <1>3. Grown
    BY <1>1, <1>2, Lengths DEF Grown
  <1>4. ASSUME NEW n \in Monitors, n # m
        PROVE  UNCHANGED <<pc[n], todo[n], inHand[n], page[n]>> /\ Reading(n)'
    <2>1. Reading(n)
      BY DEF InboxInv
    <2>2. UNCHANGED <<pc[n], todo[n], inHand[n], page[n]>>
      BY <1>1, <1>4 DEF Types
    <2> QED
      BY <1>1, <1>2, <1>3, <2>1, <2>2, ReadingStays
  <1>5. ASSUME NEW a \in Ads
        PROVE  Judged(a)'
    <2>1. Judged(a)
      BY DEF InboxInv
    <2> QED
      BY <1>1, <1>2, <1>3, <2>1, JudgedStays
  <1>6. ASSUME NEW x \in Messages \X Ads
        PROVE  Stored(x)'
    <2>1. Stored(x)
      BY DEF InboxInv
    <2>2. \A n \in Monitors : pc[n] = "apply" => pc'[n] = "apply" /\ inHand'[n] = inHand[n]
      BY <1>4
    <2> QED
      BY <1>1, <1>2, <1>3, <2>1, <2>2, StoredStays
  <1> QED
    BY <1>2, <1>4, <1>5, <1>6 DEF InboxInv

LEMMA NothingInHand == Nothing \in InHands
  BY DEF Nothing, InHands

\* What a poll has, typed.
LEMMA PollTyped ==
    ASSUME InboxInv, NEW m \in Monitors
    PROVE  /\ Types /\ Reading(m)
           /\ pc[m] \in Places /\ todo[m] \in Seq(Nat) /\ inHand[m] \in InHands
           /\ page[m] \in Seq(ChatText)
           /\ todo' = todo => todo' = [todo EXCEPT ![m] = todo[m]]
           /\ pc' = pc => pc' = [pc EXCEPT ![m] = pc[m]]
           /\ inHand' = inHand => inHand' = [inHand EXCEPT ![m] = inHand[m]]
           /\ page' = page => page' = [page EXCEPT ![m] = page[m]]
           /\ \A S : todo[m] \in Seq(S) /\ todo[m] # <<>> =>
                 Head(todo[m]) \in S /\ Tail(todo[m]) \in Seq(S)
           /\ Len(sms) \in Nat
  <1>1. /\ Types /\ Reading(m) /\ pc[m] \in Places /\ todo[m] \in Seq(Nat) /\ inHand[m] \in InHands
        /\ page[m] \in Seq(ChatText) /\ sms \in Seq(SmsText)
    BY DEF InboxInv, Types
  <1>2. \A S : todo[m] \in Seq(S) /\ todo[m] # <<>> =>
           Head(todo[m]) \in S /\ Tail(todo[m]) \in Seq(S)
    BY HeadTailProperties
  <1>3. /\ todo' = todo => todo' = [todo EXCEPT ![m] = todo[m]]
        /\ pc' = pc => pc' = [pc EXCEPT ![m] = pc[m]]
        /\ inHand' = inHand => inHand' = [inHand EXCEPT ![m] = inHand[m]]
        /\ page' = page => page' = [page EXCEPT ![m] = page[m]]
    BY <1>1 DEF Types
  <1> QED
    BY <1>1, <1>2, <1>3, LenProperties

\* Between polls there is nothing to keep.
LEMMA RestKeeps ==
    ASSUME InboxInv, NEW m \in Monitors, UNCHANGED <<leadVars, sms, thread, replies, unapplied>>,
           NEW p \in {"off", "idle"}, NEW d \in Seq(Nat), NEW h \in InHands,
           pc' = [pc EXCEPT ![m] = p], todo' = [todo EXCEPT ![m] = d],
           inHand' = [inHand EXCEPT ![m] = h], page' = [page EXCEPT ![m] = <<>>],
           pc[m] # "apply"
    PROVE  InboxInv'
  <1>1. p \in Places /\ <<>> \in Seq(ChatText)
    BY DEF Places
  <1>2. pc'[m] = p /\ page'[m] = <<>>
    BY PollTyped DEF Types
  <1>3. Reading(m)'
    BY <1>2 DEF Reading, WithSms, OnPage
  <1> QED
    BY <1>1, <1>3, PollKeeps

LEMMA StartStopKeeps ==
    ASSUME InboxInv, NEW m \in Monitors, Start(m) \/ Stop(m) \/ EndPoll(m) \/ InsertFails(m)
    PROVE  InboxInv'
  <1>1. PICK p \in {"off", "idle"} :
           pc' = [pc EXCEPT ![m] = p] /\ pc[m] # "apply"
             /\ UNCHANGED <<leadVars, sms, thread, replies, unapplied>>
    BY DEF Start, Stop, EndPoll, InsertFails, Goto, Rest
  <1>2. PICK d \in {todo[m], <<>>} : todo' = [todo EXCEPT ![m] = d]
    <2>1. todo' = todo \/ todo' = [todo EXCEPT ![m] = <<>>]
      BY DEF Start, Stop, EndPoll, InsertFails
    <2>2. todo' = [todo EXCEPT ![m] = todo[m]] \/ todo' = [todo EXCEPT ![m] = <<>>]
      BY <2>1, PollTyped
    <2> QED
      BY <2>2
  <1>5. d \in Seq(Nat)
    <2>1. todo[m] \in Seq(Nat)
      BY PollTyped
    <2>2. <<>> \in Seq(Nat)
      OBVIOUS
    <2> QED
      BY <1>2, <2>1, <2>2
  <1>3. \E h \in InHands : inHand' = [inHand EXCEPT ![m] = h]
    BY PollTyped, NothingInHand DEF Start, Stop, EndPoll, InsertFails
  <1>4. page' = [page EXCEPT ![m] = <<>>]
    <2>1. pc[m] \notin OnPage => page[m] = <<>>
      BY PollTyped DEF Reading
    <2> QED
      BY <2>1, PollTyped DEF Start, Stop, EndPoll, InsertFails, OnPage
  <1> QED
    BY <1>1, <1>2, <1>3, <1>4, <1>5, RestKeeps

\* A listing is of SMS that have arrived.
LEMMA ListedAreSms ==
    ASSUME Types, NEW d \in Listings
    PROVE  d \in Seq(1 .. Len(sms)) /\ d \in Seq(Nat)
  <1> DEFINE n == Len(sms)
             b == NewestSms
  <1>1. n \in Nat
    BY LenProperties DEF Types
  <1>2. b \in 0 .. n
    BY <1>1, InboxAssumption DEF NewestSms
  <1>3. d = <<>> \/ d = [k \in 1 .. b |-> n + 1 - k] \/ d = [k \in 1 .. b |-> n - b + k]
    BY DEF Listings
  <1> HIDE DEF n, b
  <1>4. d \in Seq(1 .. n)
    <2>1. CASE d = <<>>
      BY <2>1
    <2>2. CASE d = [k \in 1 .. b |-> n + 1 - k]
      <3>1. \A k \in 1 .. b : n + 1 - k \in 1 .. n
        BY <1>1, <1>2
      <3>2. d \in [1 .. b -> 1 .. n]
        BY <2>2, <3>1
      <3> QED
        BY <1>1, <1>2, <3>2, SeqDef
    <2>3. CASE d = [k \in 1 .. b |-> n - b + k]
      <3>1. \A k \in 1 .. b : n - b + k \in 1 .. n
        BY <1>1, <1>2
      <3>2. d \in [1 .. b -> 1 .. n]
        BY <2>3, <3>1
      <3> QED
        BY <1>1, <1>2, <3>2, SeqDef
    <2> QED
      BY <1>3, <2>1, <2>2, <2>3
  <1>5. 1 .. n \subseteq Nat
    BY <1>1
  <1> QED
    BY <1>4, <1>5, SeqMonotonic DEF n

LEMMA BeginPollKeeps ==
    ASSUME InboxInv, NEW m \in Monitors, BeginPoll(m)
    PROVE  InboxInv'
  <1>1. PICK d \in Listings : todo' = [todo EXCEPT ![m] = d]
    BY DEF BeginPoll
  <1>a. d \in Seq(1 .. Len(sms)) /\ d \in Seq(Nat)
    BY ListedAreSms, PollTyped
  <1>2. /\ pc' = [pc EXCEPT ![m] = "sms"]
        /\ inHand' = [inHand EXCEPT ![m] = inHand[m]] /\ page' = [page EXCEPT ![m] = page[m]]
        /\ UNCHANGED <<leadVars, sms, thread, replies, unapplied>> /\ pc[m] = "idle"
    BY PollTyped DEF BeginPoll, Goto, Rest
  <1>3. pc'[m] = "sms" /\ todo'[m] = d /\ page'[m] = page[m] /\ inHand'[m] = inHand[m]
    BY <1>1, <1>2, PollTyped DEF Types
  <1>4. page[m] = <<>>
    BY <1>2, PollTyped DEF Reading, OnPage
  <1>5. Reading(m)'
    BY <1>a, <1>2, <1>3, <1>4 DEF Reading, WithSms, OnPage
  <1>6. "sms" \in Places /\ inHand[m] \in InHands /\ page[m] \in Seq(ChatText)
    BY PollTyped DEF Places
  <1>7. pc[m] # "apply" /\ UNCHANGED <<leadVars, sms, thread, replies, unapplied>>
    BY <1>2
  <1> QED
    BY <1>1, <1>a, <1>2, <1>5, <1>6, <1>7, PollKeeps

\* The ad that is found is of the one who wrote, unless nobody knows the number.
LEMMA FoundIsHis ==
    ASSUME NEW s \in Sellers \cup {Stranger}, NEW a \in FindForSms(s)
    PROVE  a \in Ads /\ s \in {SellerOf[a], Stranger}
  BY DEF FindForSms, Newest

LEMMA FindLeadKeeps ==
    ASSUME InboxInv, NEW m \in Monitors, FindLead(m)
    PROVE  InboxInv'
  <1> DEFINE k == Head(todo[m])
  <1>1. /\ pc[m] = "sms" /\ todo[m] # <<>> /\ todo' = [todo EXCEPT ![m] = Tail(todo[m])]
        /\ UNCHANGED <<leadVars, sms, thread, replies, unapplied, page>>
    BY DEF FindLead, Rest
  <1>2. /\ k \in 1 .. Len(sms) /\ Tail(todo[m]) \in Seq(1 .. Len(sms)) /\ page[m] = <<>>
        /\ Tail(todo[m]) \in Seq(Nat)
    BY <1>1, PollTyped DEF Reading, OnPage, WithSms
  <1>3. page' = [page EXCEPT ![m] = page[m]] /\ page'[m] = <<>> /\ todo'[m] = Tail(todo[m])
    BY <1>1, <1>2, PollTyped DEF Types
  <1>6. /\ "sms" \in Places /\ "check" \in Places /\ inHand[m] \in InHands
        /\ page[m] \in Seq(ChatText) /\ pc[m] # "apply"
    BY <1>1, PollTyped DEF Places
  <1>4. CASE Goto(m, "sms") /\ UNCHANGED inHand
    <2>1. pc' = [pc EXCEPT ![m] = "sms"] /\ pc'[m] = "sms"
      BY <1>4, PollTyped DEF Goto, Types
    <2>2. Reading(m)'
      BY <1>1, <1>2, <1>3, <2>1 DEF Reading, WithSms, OnPage
    <2>3. inHand' = [inHand EXCEPT ![m] = inHand[m]]
      BY <1>4, PollTyped
    <2> HIDE DEF k
    <2> QED
      BY <1>1, <1>2, <1>3, <1>6, <2>1, <2>2, <2>3, PollKeeps
  <1>5. CASE \E a \in FindForSms(sms[k].from) :
               /\ Goto(m, "check")
               /\ inHand' = [inHand EXCEPT ![m] = [message |-> sms[k].message, ad |-> a, inquire |-> Inquire(a)]]
    <2>1. PICK j \in 1 .. Len(sms) : j = k
      BY <1>2
    <2>2. PICK a \in FindForSms(sms[j].from) :
               /\ Goto(m, "check")
               /\ inHand' = [inHand EXCEPT ![m] =
                                [message |-> sms[j].message, ad |-> a, inquire |-> Inquire(a)]]
      BY <1>5, <2>1
    <2> HIDE DEF k
    <2>3. sms[j] \in SmsText
      BY PollTyped, ElementOfSeq DEF Types
    <2>4. a \in Ads /\ His(j, a) /\ sms[j].message \in Messages
      BY <2>3, FoundIsHis DEF SmsText, His
    <2>5. PICK h \in InHands : /\ h.message = sms[j].message /\ h.ad = a
                              /\ inHand' = [inHand EXCEPT ![m] = h]
      <3>1. [message |-> sms[j].message, ad |-> a, inquire |-> Inquire(a)] \in InHands
        BY <2>4 DEF InHands, Inquire
      <3> QED
        BY <2>2, <3>1
    <2>6. pc' = [pc EXCEPT ![m] = "check"] /\ pc'[m] = "check" /\ inHand'[m] = h
      BY <2>2, <2>5, PollTyped DEF Goto, Types
    <2>7. His(j, a)' /\ sms'[j].message = h.message /\ j \in 1 .. Len(sms')
      BY <1>1, <2>4, <2>5 DEF His
    <2>8. Reading(m)'
      <3>1. \E i \in 1 .. Len(sms') : sms'[i].message = inHand'[m].message /\ His(i, inHand[m].ad)'
        BY <2>5, <2>6, <2>7
      <3>2. pc'[m] = "check" /\ todo'[m] \in Seq(1 .. Len(sms'))
        BY <1>1, <1>2, <1>3, <2>6
      <3>3. inHand'[m].ad \in Ads /\ inHand'[m].message \in Messages
        BY <2>4, <2>5, <2>6
      <3> QED
        BY <1>3, <3>1, <3>2, <3>3 DEF Reading, WithSms, OnPage
    <2> QED
      BY <1>1, <1>2, <1>3, <1>6, <2>5, <2>6, <2>8, PollKeeps
  <1> QED
    BY <1>4, <1>5 DEF FindLead

LEMMA CheckNewKeeps ==
    ASSUME InboxInv, NEW m \in Monitors, CheckNew(m)
    PROVE  InboxInv'
  <1>1. /\ pc[m] = "check" /\ UNCHANGED <<leadVars, sms, thread, replies, unapplied, todo, page>>
        /\ todo[m] \in Seq(1 .. Len(sms)) /\ page[m] = <<>>
    BY PollTyped DEF CheckNew, Rest, Reading, WithSms, OnPage
  <1>2. PICK p \in {"sms", "insert"}, h \in InHands :
           /\ pc' = [pc EXCEPT ![m] = p] /\ inHand' = [inHand EXCEPT ![m] = h]
           /\ p = "insert" => h = inHand[m]
    <2>1. CASE Goto(m, "sms") /\ inHand' = [inHand EXCEPT ![m] = Nothing]
      BY <2>1, NothingInHand DEF Goto
    <2>2. CASE Goto(m, "insert") /\ UNCHANGED inHand
      <3>1. inHand[m] \in InHands /\ inHand' = [inHand EXCEPT ![m] = inHand[m]]
        BY <2>2, PollTyped
      <3> QED
        BY <2>2, <3>1 DEF Goto
    <2> QED
      BY <2>1, <2>2 DEF CheckNew
  <1>3. pc'[m] = p /\ inHand'[m] = h
    BY <1>2, PollTyped DEF Types
  <1>4. Reading(m)'
    <2>1. pc[m] \in WithSms /\ Reading(m)
      BY <1>1, PollTyped DEF WithSms
    <2>2. page'[m] = <<>> /\ todo'[m] \in Seq(1 .. Len(sms')) /\ p \notin {"chats"} \cup OnPage
      BY <1>1 DEF OnPage
    <2>3. CASE p = "sms"
      BY <1>3, <2>2, <2>3 DEF Reading, WithSms, OnPage
    <2>4. CASE p = "insert"
      <3>1. inHand'[m] = inHand[m] /\ pc'[m] = "insert"
        BY <1>2, <1>3, <2>4
      <3>2. \A k, a : His(k, a) => His(k, a)'
        BY <1>1 DEF His
      <3> QED
        BY <1>1, <2>1, <2>2, <3>1, <3>2 DEF Reading, WithSms, OnPage
    <2> QED
      BY <2>3, <2>4
  <1>5. /\ p \in Places /\ todo[m] \in Seq(Nat) /\ page[m] \in Seq(ChatText)
        /\ todo' = [todo EXCEPT ![m] = todo[m]] /\ page' = [page EXCEPT ![m] = page[m]]
    BY <1>1, PollTyped DEF Places
  <1> QED
    BY <1>1, <1>2, <1>4, <1>5, PollKeeps

LEMMA BeginChatsKeeps ==
    ASSUME InboxInv, NEW m \in Monitors, BeginChats(m)
    PROVE  InboxInv'
  <1>1. /\ pc[m] = "sms" /\ UNCHANGED <<leadVars, sms, thread, replies, unapplied, inHand, page>>
        /\ page[m] = <<>> /\ pc' = [pc EXCEPT ![m] = "chats"]
    BY PollTyped DEF BeginChats, Rest, Reading, WithSms, OnPage, Goto
  <1>a. PICK d \in {<<>>, Batch} : todo' = [todo EXCEPT ![m] = d]
    BY DEF BeginChats
  <1>2. d \in Seq(Ads) /\ d \in Seq(Nat)
    <2>1. Ads \subseteq Nat
      BY InboxAssumption
    <2>2. d \in Seq(Ads)
      <3>1. <<>> \in Seq(Ads)
        OBVIOUS
      <3> QED
        BY <3>1, BatchOfAds
    <2> QED
      BY <2>1, <2>2, SeqMonotonic
  <1>3. pc'[m] = "chats" /\ todo'[m] = d /\ page'[m] = <<>>
    BY <1>1, <1>a, PollTyped DEF Types
  <1>4. Reading(m)'
    BY <1>2, <1>3 DEF Reading, WithSms, OnPage
  <1>5. /\ "chats" \in Places /\ inHand[m] \in InHands /\ page[m] \in Seq(ChatText)
        /\ inHand' = [inHand EXCEPT ![m] = inHand[m]] /\ page' = [page EXCEPT ![m] = page[m]]
    BY <1>1, PollTyped DEF Places
  <1> QED
    BY <1>1, <1>a, <1>2, <1>4, <1>5, PollKeeps

\* What is read of a page stands on it.
LEMMA TextsOfPage ==
    ASSUME Types, NEW a \in Ads
    PROVE  /\ Texts(a) \in Seq(ChatText)
           /\ \A k \in 1 .. Len(Texts(a)) :
                 \E j \in 1 .. Len(thread[a]) : Texts(a)[k] = thread[a][j]
  <1> DEFINE s == thread[a]
             n == Len(s)
             f == IF n > LastOfThread THEN n - LastOfThread + 1 ELSE 1
  <1>1. s \in Seq(ChatText) /\ n \in Nat /\ LastOfThread \in Nat \ {0}
    BY InboxAssumption, LenProperties DEF Types
  <1>2. f \in 1 .. n + 1
    BY <1>1
  <1>3. Texts(a) = SubSeq(s, f, n)
    BY DEF Texts, Last
  <1> HIDE DEF f, s, n
  <1>4. \A i \in f .. n : s[i] \in ChatText
    BY <1>1, <1>2, ElementOfSeq DEF n
  <1>5. /\ SubSeq(s, f, n) \in Seq(ChatText)
        /\ Len(SubSeq(s, f, n)) = IF f <= n THEN n - f + 1 ELSE 0
        /\ \A i \in 1 .. n - f + 1 : SubSeq(s, f, n)[i] = s[f + i - 1]
    BY <1>1, <1>2, <1>4, SubSeqProperties
  <1>6. ASSUME NEW k \in 1 .. Len(SubSeq(s, f, n))
        PROVE  \E j \in 1 .. n : SubSeq(s, f, n)[k] = s[j]
    <2>1. k \in 1 .. n - f + 1 /\ f + k - 1 \in 1 .. n
      BY <1>1, <1>2, <1>5
    <2> QED
      BY <1>5, <2>1
  <1> QED
    BY <1>3, <1>5, <1>6 DEF s, n

\* The ad a page is taken for is its own, or one whose title it bears.
LEMMA FoundOnPage ==
    ASSUME NEW a \in Ads, NEW b \in FindForChat(a)
    PROVE  b \in Ads /\ PageOf(a, b)
  <1>1. CASE threadKnown[a]
    BY <1>1 DEF FindForChat, PageOf
  <1>2. CASE ~threadKnown[a]
    <2>1. b \in Scanned /\ (b = a \/ <<a, b>> \in Matches)
      BY <1>2 DEF FindForChat, Newest
    <2>2. Scanned \subseteq Ads
      BY DEF Scanned
    <2> QED
      BY <2>1, <2>2 DEF PageOf
  <1> QED
    BY <1>1, <1>2

LEMMA ReadPageKeeps ==
    ASSUME InboxInv, NEW m \in Monitors, ReadPage(m)
    PROVE  InboxInv'
  <1>1. /\ pc[m] = "chats" /\ todo[m] # <<>> /\ todo' = [todo EXCEPT ![m] = Tail(todo[m])]
        /\ UNCHANGED <<leadVars, sms, thread, replies, unapplied>>
    BY DEF ReadPage, Rest
  <1>2. Tail(todo[m]) \in Seq(Ads) /\ Tail(todo[m]) \in Seq(Nat) /\ page[m] = <<>>
    BY <1>1, PollTyped DEF Reading, OnPage
  <1>a. PICK a \in Ads : a = Head(todo[m])
    BY <1>1, PollTyped DEF Reading, OnPage
  <1>3. CASE Goto(m, "chats") /\ UNCHANGED <<inHand, page>>
    <2>1. /\ pc' = [pc EXCEPT ![m] = "chats"] /\ inHand' = [inHand EXCEPT ![m] = inHand[m]]
          /\ page' = [page EXCEPT ![m] = <<>>] /\ inHand[m] \in InHands
      BY <1>2, <1>3, PollTyped DEF Goto
    <2>2. pc'[m] = "chats" /\ todo'[m] = Tail(todo[m]) /\ page'[m] = <<>>
      BY <1>1, <1>2, <2>1, PollTyped DEF Types
    <2>3. Reading(m)'
      BY <1>2, <2>2 DEF Reading, WithSms, OnPage
    <2>4. "chats" \in Places /\ <<>> \in Seq(ChatText) /\ pc[m] # "apply"
      BY <1>1 DEF Places
    <2> QED
      BY <1>1, <1>2, <2>1, <2>3, <2>4, PollKeeps
  <1>4. CASE \E b \in FindForChat(a) :
               /\ Texts(a) # <<>> /\ page' = [page EXCEPT ![m] = Texts(a)]
               /\ inHand' = [inHand EXCEPT ![m] =
                                [message |-> None, ad |-> b, inquire |-> Inquire(b)]]
               /\ Goto(m, "chatInsert")
    <2>1. PICK b \in FindForChat(a) :
               /\ Texts(a) # <<>> /\ page' = [page EXCEPT ![m] = Texts(a)]
               /\ inHand' = [inHand EXCEPT ![m] =
                                [message |-> None, ad |-> b, inquire |-> Inquire(b)]]
               /\ Goto(m, "chatInsert")
      BY <1>4
    <2>2. b \in Ads /\ PageOf(a, b)
      BY FoundOnPage
    <2>3. PICK h \in InHands : h.ad = b /\ inHand' = [inHand EXCEPT ![m] = h]
      <3>1. [message |-> None, ad |-> b, inquire |-> Inquire(b)] \in InHands
        BY <2>2 DEF InHands, Inquire
      <3> QED
        BY <2>1, <3>1
    <2>4. PICK g : g = Texts(a)
      OBVIOUS
    <2>5. /\ g \in Seq(ChatText) /\ g # <<>> /\ page' = [page EXCEPT ![m] = g]
          /\ \A k \in 1 .. Len(g) : \E j \in 1 .. Len(thread[a]) : g[k] = thread[a][j]
      <3>1. Types
        BY PollTyped
      <3>2. /\ Texts(a) \in Seq(ChatText)
            /\ \A k \in 1 .. Len(Texts(a)) : \E j \in 1 .. Len(thread[a]) : Texts(a)[k] = thread[a][j]
        BY <3>1, TextsOfPage
      <3> QED
        BY <2>1, <2>4, <3>2
    <2>6. \A k \in 1 .. Len(g) : Heard(b, g[k].means)'
      <3> SUFFICES ASSUME NEW k \in 1 .. Len(g) PROVE Heard(b, g[k].means)'
        OBVIOUS
      <3>1. PICK j \in 1 .. Len(thread[a]) : g[k] = thread[a][j]
        BY <2>5
      <3>2. j \in 1 .. Len(thread'[a]) /\ thread'[a][j].means = g[k].means
        BY <1>1, <3>1
      <3> QED
        BY <2>2, <3>2 DEF Heard, PageOf
    <2>7. /\ pc' = [pc EXCEPT ![m] = "chatInsert"] /\ pc'[m] = "chatInsert" /\ page'[m] = g
          /\ todo'[m] = Tail(todo[m]) /\ inHand'[m] = h
      BY <1>1, <2>1, <2>3, <2>5, PollTyped DEF Types, Goto
    <2>8. Reading(m)'
      BY <1>2, <2>2, <2>3, <2>5, <2>6, <2>7 DEF Reading, WithSms, OnPage
    <2>9. "chatInsert" \in Places /\ pc[m] # "apply"
      BY <1>1 DEF Places
    <2> QED
      BY <1>1, <1>2, <2>3, <2>5, <2>7, <2>8, <2>9, PollKeeps
  <1> QED
    BY <1>a, <1>3, <1>4 DEF ReadPage

LEMMA ChatInsertKeeps ==
    ASSUME InboxInv, NEW m \in Monitors, ChatInsert(m)
    PROVE  InboxInv'
  <1>1. /\ pc[m] = "chatInsert" /\ pc' = [pc EXCEPT ![m] = "chatApply"]
        /\ UNCHANGED <<leadVars, sms, thread, replies, unapplied, todo, inHand, page>>
    BY DEF ChatInsert, Rest, Goto
  <1>2. pc'[m] = "chatApply"
    BY <1>1, PollTyped DEF Types
  <1>3. Reading(m)'
    <2>1. \A a, i : Heard(a, i) => Heard(a, i)'
      BY <1>1 DEF Heard, PageOf, His
    <2> QED
      BY <1>1, <1>2, <2>1, PollTyped DEF Reading, WithSms, OnPage
  <1>4. /\ "chatApply" \in Places /\ inHand[m] \in InHands /\ page[m] \in Seq(ChatText)
        /\ todo[m] \in Seq(Nat) /\ todo' = [todo EXCEPT ![m] = todo[m]]
        /\ inHand' = [inHand EXCEPT ![m] = inHand[m]] /\ page' = [page EXCEPT ![m] = page[m]]
    BY <1>1, PollTyped DEF Places
  <1> QED
    BY <1>1, <1>3, <1>4, PollKeeps

-----------------------------------------------------------------------------
(* What is stored, and what it does *)

LEMMA InsertReplyKeeps ==
    ASSUME InboxInv, NEW m \in Monitors, InsertReply(m)
    PROVE  InboxInv'
  <1> DEFINE y == <<inHand[m].message, inHand[m].ad>>
  <1>1. /\ pc[m] = "insert" /\ pc' = [pc EXCEPT ![m] = "apply"]
        /\ UNCHANGED <<leadVars, sms, thread, unapplied, todo, inHand, page>>
    BY DEF InsertReply, Rest, Goto
  <1>2. Types /\ Len(sms) \in Nat
    BY PollTyped
  <1>3. inHand[m].message \in Messages /\ inHand[m].ad \in Ads
    BY <1>1, PollTyped DEF Reading, WithSms
  <1>4. y \in Messages \X Ads
    BY <1>3
  <1>5. /\ replies' \in [Messages \X Ads -> 0 .. 2]
        /\ \A x \in Messages \X Ads : x # y => replies'[x] = replies[x]
    <2>1. replies' = [replies EXCEPT ![y] = IF replies[y] < 2 THEN replies[y] + 1 ELSE replies[y]]
      BY DEF InsertReply
    <2>2. replies[y] \in 0 .. 2
      BY <1>2, <1>4 DEF Types
    <2> DEFINE v == IF replies[y] < 2 THEN replies[y] + 1 ELSE replies[y]
    <2>3. v \in 0 .. 2
      BY <2>2
    <2> HIDE DEF v, y
    <2>4. replies' = [replies EXCEPT ![y] = v]
      BY <2>1 DEF v
    <2> QED
      BY <1>2, <1>4, <2>3, <2>4 DEF Types
  <1> HIDE DEF y
  <1>6. Types'
    BY <1>1, <1>2, <1>5 DEF Types, LeadTypes, Places
  <1>7. Grown
    BY <1>1, <1>2, <1>6, Lengths DEF Grown
  <1>8. pc'[m] = "apply" /\ \A n \in Monitors : n # m => pc'[n] = pc[n]
    BY <1>1, <1>2 DEF Types
  <1>9. ASSUME NEW n \in Monitors
        PROVE  Reading(n)'
    <2>1. Reading(n)
      BY DEF InboxInv
    <2>2. CASE n # m
      BY <1>1, <1>2, <1>6, <1>7, <1>8, <2>1, <2>2, ReadingStays
    <2>3. CASE n = m
      <3>1. \A a, i : Heard(a, i) => Heard(a, i)'
        BY <1>1 DEF Heard, PageOf, His
      <3>2. \A k, a : His(k, a) => His(k, a)'
        BY <1>1 DEF His
      <3> QED
        BY <1>1, <1>8, <2>1, <2>3, <3>1, <3>2 DEF Reading, WithSms, OnPage
    <2> QED
      BY <2>2, <2>3
  <1>10. ASSUME NEW a \in Ads
         PROVE  Judged(a)'
    BY <1>1, <1>2, <1>6, <1>7, JudgedStays DEF InboxInv
  <1>11. ASSUME NEW x \in Messages \X Ads
         PROVE  Stored(x)'
    <2>1. CASE x = y
      <3>1. pc'[m] = "apply" /\ <<inHand'[m].message, inHand'[m].ad>> = x
        BY <1>1, <1>8, <2>1 DEF y
      <3> QED
        BY <3>1 DEF Stored
    <2>2. CASE x # y
      <3>1. UNCHANGED replies[x] /\ Stored(x)
        BY <1>5, <2>2 DEF InboxInv
      <3>2. \A n \in Monitors : pc[n] = "apply" => pc'[n] = "apply" /\ inHand'[n] = inHand[n]
        BY <1>1, <1>8
      <3> QED
        BY <1>1, <1>2, <1>6, <1>7, <3>1, <3>2, StoredStays
    <2> QED
      BY <2>1, <2>2
  <1> QED
    BY <1>6, <1>9, <1>10, <1>11 DEF InboxInv

LEMMA ApplyTyped ==
    ASSUME Types, NEW a \in Ads, NEW i, NEW q \in BOOLEAN, Apply(a, i, q), UNCHANGED <<sms, thread>>
    PROVE  /\ LeadTypes' /\ Grown
           /\ replied'[a] /\ (i = "gone" => removed'[a]) /\ (i = "defect_admit" => defect'[a])
           /\ \A b \in Ads : /\ removed'[b] => removed[b] \/ (b = a /\ i = "gone")
                             /\ defect'[b] => defect[b] \/ (b = a /\ i = "defect_admit")
  <1>1. /\ removed' = [removed EXCEPT ![a] = removed[a] \/ i = "gone"]
        /\ defect' = [defect EXCEPT ![a] = defect[a] \/ i = "defect_admit"]
        /\ replied' = [replied EXCEPT ![a] = TRUE] /\ UNCHANGED <<smsSent, chatSent, threadKnown>>
        /\ inquiry' = inquiry \/ inquiry' = [inquiry EXCEPT ![a] = "answered"]
    BY DEF Apply
  <1>2. LeadTypes'
    BY <1>1 DEF Types, LeadTypes
  <1>3. /\ \A b \in Ads : (removed[b] => removed'[b]) /\ (defect[b] => defect'[b])
                          /\ (replied[b] => replied'[b])
        /\ \A b \in Ads : /\ removed'[b] => removed[b] \/ (b = a /\ i = "gone")
                          /\ defect'[b] => defect[b] \/ (b = a /\ i = "defect_admit")
        /\ replied'[a] /\ (i = "gone" => removed'[a]) /\ (i = "defect_admit" => defect'[a])
    BY <1>1 DEF Types, LeadTypes
  <1>4. Len(sms) \in Nat /\ \A b \in Ads : Len(thread[b]) \in Nat
    BY LenProperties DEF Types
  <1> QED
    BY <1>2, <1>3, <1>4 DEF Grown

\* A step of one poll that changes ads, or loses the change.
LEMMA ChangeKeeps ==
    ASSUME InboxInv, NEW m \in Monitors, LeadTypes', Grown, UNCHANGED <<sms, thread, replies>>,
           unapplied \subseteq unapplied', unapplied' \subseteq Messages \X Ads,
           NEW p \in Places, NEW d \in Seq(Nat), NEW h \in InHands, NEW g \in Seq(ChatText),
           pc' = [pc EXCEPT ![m] = p], todo' = [todo EXCEPT ![m] = d],
           inHand' = [inHand EXCEPT ![m] = h], page' = [page EXCEPT ![m] = g],
           Reading(m)', \A a \in Ads : Judged(a)',
           pc[m] = "apply" =>
              \A x \in Messages \X Ads :
                 <<inHand[m].message, inHand[m].ad>> = x => x \in unapplied' \/ Done(x)'
    PROVE  InboxInv'
  <1>1. Types
    BY DEF InboxInv
  <1>2. Types'
    BY <1>1 DEF Types
  <1>3. ASSUME NEW n \in Monitors, n # m
        PROVE  UNCHANGED <<pc[n], todo[n], inHand[n], page[n]>> /\ Reading(n)'
    <2>1. Reading(n)
      BY DEF InboxInv
    <2>2. UNCHANGED <<pc[n], todo[n], inHand[n], page[n]>>
      BY <1>1, <1>3 DEF Types
    <2> QED
      BY <1>1, <1>2, <2>1, <2>2, ReadingStays
  <1>5. ASSUME NEW x \in Messages \X Ads
        PROVE  Stored(x)'
    <2>1. Stored(x)
      BY DEF InboxInv
    <2>2. \A n \in Monitors : pc[n] = "apply" /\ <<inHand[n].message, inHand[n].ad>> = x =>
             \/ pc'[n] = "apply" /\ inHand'[n] = inHand[n]
             \/ x \in unapplied' \/ Done(x)'
      BY <1>3
    <2> QED
      BY <1>1, <1>2, <2>1, <2>2, StoredStays
  <1> QED
    BY <1>2, <1>3, <1>5 DEF InboxInv

\* Judged, when one ad is condemned on a word that was heard.
LEMMA CondemnedOnWord ==
    ASSUME InboxInv, Types', Grown, NEW a \in Ads, NEW i, i \in Damning => Heard(a, i),
           \A b \in Ads : /\ removed'[b] => removed[b] \/ (b = a /\ i = "gone")
                          /\ defect'[b] => defect[b] \/ (b = a /\ i = "defect_admit")
    PROVE  \A b \in Ads : Judged(b)'
  <1> SUFFICES ASSUME NEW b \in Ads PROVE Judged(b)'
    OBVIOUS
  <1>1. Types /\ Judged(b)
    BY DEF InboxInv
  <1>2. removed'[b] => Heard(b, "gone")
    BY <1>1 DEF Judged, Damning
  <1>3. defect'[b] => Heard(b, "defect_admit")
    BY <1>1 DEF Judged, Damning
  <1> QED
    BY <1>1, <1>2, <1>3, HeardStays DEF Judged

LEMMA ApplySmsKeeps ==
    ASSUME InboxInv, NEW m \in Monitors, ApplySms(m)
    PROVE  InboxInv'
  <1>1. /\ pc[m] = "apply" /\ pc' = [pc EXCEPT ![m] = "sms"]
        /\ inHand' = [inHand EXCEPT ![m] = Nothing]
        /\ UNCHANGED <<sms, thread, replies, unapplied, todo, page>>
    BY DEF ApplySms, Rest, Goto
  <1>2. Types /\ Reading(m) /\ Len(sms) \in Nat /\ todo[m] \in Seq(1 .. Len(sms)) /\ page[m] = <<>>
    BY <1>1, PollTyped DEF Reading, WithSms, OnPage
  <1>3. PICK a \in Ads, x \in Messages, q \in BOOLEAN :
           inHand[m].ad = a /\ inHand[m].message = x /\ inHand[m].inquire = q
    BY <1>1, PollTyped DEF Reading, WithSms, InHands
  <1>4. PICK i : MeansOf[x] = i /\ Apply(a, i, q)
    BY <1>1, <1>2, <1>3 DEF ApplySms
  <1>5. /\ LeadTypes' /\ Grown
        /\ replied'[a] /\ (i = "gone" => removed'[a]) /\ (i = "defect_admit" => defect'[a])
        /\ \A b \in Ads : /\ removed'[b] => removed[b] \/ (b = a /\ i = "gone")
                          /\ defect'[b] => defect[b] \/ (b = a /\ i = "defect_admit")
    BY <1>1, <1>2, <1>4, ApplyTyped
  <1>6. Types'
    BY <1>1, <1>2, <1>5, NothingInHand DEF Types, Places
  <1>7. Heard(a, i)
    BY <1>1, <1>2, <1>3, <1>4 DEF Heard, Reading, WithSms
  <1>8. \A b \in Ads : Judged(b)'
    BY <1>5, <1>6, <1>7, CondemnedOnWord
  <1>9. pc'[m] = "sms" /\ inHand'[m] = Nothing
    BY <1>1, <1>2 DEF Types
  <1>10. Reading(m)'
    BY <1>1, <1>2, <1>9 DEF Reading, WithSms, OnPage
  <1>11. \A y \in Messages \X Ads : <<inHand[m].message, inHand[m].ad>> = y => Done(y)'
    BY <1>1, <1>3, <1>4, <1>5 DEF Done
  <1>12. /\ "sms" \in Places /\ Nothing \in InHands /\ todo[m] \in Seq(Nat)
         /\ page[m] \in Seq(ChatText) /\ unapplied' \subseteq Messages \X Ads
         /\ todo' = [todo EXCEPT ![m] = todo[m]] /\ page' = [page EXCEPT ![m] = page[m]]
    BY <1>1, <1>6, PollTyped, NothingInHand DEF Places, Types
  <1> QED
    BY <1>1, <1>5, <1>8, <1>10, <1>11, <1>12, ChangeKeeps

LEMMA ApplyFailsKeeps ==
    ASSUME InboxInv, NEW m \in Monitors, ApplyFails(m)
    PROVE  InboxInv'
  <1>1. /\ pc[m] = "apply" /\ pc' = [pc EXCEPT ![m] = "sms"]
        /\ inHand' = [inHand EXCEPT ![m] = Nothing]
        /\ unapplied' = unapplied \cup {<<inHand[m].message, inHand[m].ad>>}
        /\ UNCHANGED <<leadVars, sms, thread, replies, todo, page>>
    BY DEF ApplyFails, Goto
  <1>2. Types /\ Reading(m) /\ Len(sms) \in Nat /\ todo[m] \in Seq(1 .. Len(sms)) /\ page[m] = <<>>
    BY <1>1, PollTyped DEF Reading, WithSms, OnPage
  <1>3. <<inHand[m].message, inHand[m].ad>> \in Messages \X Ads
    <2>1. inHand[m].message \in Messages /\ inHand[m].ad \in Ads
      BY <1>1, <1>2 DEF Reading, WithSms
    <2> QED
      BY <2>1
  <1>4. unapplied' \subseteq Messages \X Ads
    BY <1>1, <1>2, <1>3 DEF Types
  <1>5. Types'
    BY <1>1, <1>2, <1>4, NothingInHand DEF Types, LeadTypes, Places
  <1>6. LeadTypes' /\ Grown
    BY <1>1, <1>2, <1>5, Lengths DEF Grown, Types
  <1>7. \A b \in Ads : Judged(b)'
    BY <1>1, <1>2, <1>5, <1>6, JudgedStays DEF InboxInv
  <1>8. pc'[m] = "sms" /\ inHand'[m] = Nothing
    BY <1>1, <1>2 DEF Types
  <1>9. Reading(m)'
    BY <1>1, <1>2, <1>8 DEF Reading, WithSms, OnPage
  <1>10. /\ "sms" \in Places /\ Nothing \in InHands /\ todo[m] \in Seq(Nat)
         /\ page[m] \in Seq(ChatText)
         /\ todo' = [todo EXCEPT ![m] = todo[m]] /\ page' = [page EXCEPT ![m] = page[m]]
    BY <1>1, PollTyped, NothingInHand DEF Places
  <1> QED
    BY <1>1, <1>4, <1>6, <1>7, <1>9, <1>10, ChangeKeeps

\* The next message of a page, or the next page.
LEMMA NextOfPageReads ==
    ASSUME InboxInv, NEW m \in Monitors, pc[m] \in OnPage, NextOfPage(m), UNCHANGED todo,
           \A a \in Ads : \A i : Heard(a, i) => Heard(a, i)'
    PROVE  /\ Reading(m)'
           /\ \E p \in Places, h \in InHands, g \in Seq(ChatText) :
                 /\ pc' = [pc EXCEPT ![m] = p] /\ inHand' = [inHand EXCEPT ![m] = h]
                 /\ page' = [page EXCEPT ![m] = g]
  <1>1. /\ Types /\ Reading(m) /\ page[m] # <<>> /\ page[m] \in Seq(ChatText)
        /\ inHand[m].ad \in Ads /\ todo[m] \in Seq(Ads)
    BY PollTyped DEF Reading
  <1> DEFINE g == Tail(page[m])
             n == Len(page[m])
  <1>2. /\ g \in Seq(ChatText) /\ Len(g) = n - 1 /\ n \in Nat
        /\ \A k \in 1 .. Len(g) : g[k] = page[m][k + 1]
    BY <1>1, HeadTailProperties, LenProperties
  <1>3. page' = [page EXCEPT ![m] = g] /\ page'[m] = g
    BY <1>1 DEF NextOfPage, Types
  <1> HIDE DEF g
  <1>4. CASE n = 1
    <2>1. g = <<>>
      BY <1>2, <1>4, EmptySeq
    <2>2. /\ pc' = [pc EXCEPT ![m] = "chats"] /\ pc'[m] = "chats"
          /\ inHand' = [inHand EXCEPT ![m] = Nothing]
      BY <1>1, <1>4 DEF NextOfPage, Goto, Types
    <2>3. Reading(m)'
      BY <1>1, <1>3, <2>1, <2>2 DEF Reading, WithSms, OnPage
    <2> QED
      BY <1>2, <1>3, <2>2, <2>3, NothingInHand DEF Places
  <1>5. CASE n # 1
    <2>1. g # <<>>
      <3>1. n # 0
        BY <1>1, EmptySeq
      <3>2. Len(g) # 0
        BY <1>2, <1>5, <3>1
      <3> QED
        BY <3>2, EmptySeq
    <2>2. /\ pc' = [pc EXCEPT ![m] = "chatInsert"] /\ pc'[m] = "chatInsert"
          /\ UNCHANGED inHand
      BY <1>1, <1>5 DEF NextOfPage, Goto, Types
    <2>3. \A k \in 1 .. Len(g) : g[k].means \in Damning => Heard(inHand[m].ad, g[k].means)
      <3> SUFFICES ASSUME NEW k \in 1 .. Len(g), g[k].means \in Damning
                   PROVE  Heard(inHand[m].ad, g[k].means)
        OBVIOUS
      <3>1. k + 1 \in 1 .. Len(page[m]) /\ g[k] = page[m][k + 1]
        BY <1>2
      <3> HIDE DEF n
      <3> QED
        BY <1>1, <3>1 DEF Reading
    <2>4. PICK a \in Ads : inHand[m].ad = a /\ inHand'[m].ad = a
      BY <1>1, <2>2
    <2>5. \A k \in 1 .. Len(g) : g[k].means \in Damning => Heard(a, g[k].means)
      BY <2>3, <2>4
    <2>6. PICK w : w = g
      OBVIOUS
    <2>7. \A k \in 1 .. Len(w) : w[k].means \in Damning => Heard(a, w[k].means)'
      BY <2>5, <2>6
    <2>8. page'[m] = w
      BY <1>3, <2>6
    <2>9. Reading(m)'
      BY <1>1, <2>1, <2>2, <2>4, <2>6, <2>7, <2>8 DEF Reading, WithSms, OnPage
    <2>10. "chatInsert" \in Places /\ inHand[m] \in InHands /\ inHand' = [inHand EXCEPT ![m] = inHand[m]]
      BY <2>2, PollTyped DEF Places
    <2> QED
      BY <1>2, <1>3, <2>2, <2>9, <2>10
  <1> QED
    BY <1>4, <1>5

LEMMA ChatApplyKeeps ==
    ASSUME InboxInv, NEW m \in Monitors, ChatApply(m)
    PROVE  InboxInv'
  <1>1. /\ pc[m] \in OnPage /\ pc[m] # "apply" /\ NextOfPage(m)
        /\ UNCHANGED <<sms, thread, replies, unapplied, todo>>
    BY DEF ChatApply, Rest, OnPage
  <1>2. /\ Types /\ Reading(m) /\ page[m] # <<>> /\ page[m] \in Seq(ChatText)
        /\ inHand[m].ad \in Ads /\ inHand[m] \in InHands
    BY <1>1, PollTyped DEF Reading
  <1>3. PICK a \in Ads, q \in BOOLEAN : inHand[m].ad = a /\ inHand[m].inquire = q
    BY <1>2 DEF InHands
  <1>4. PICK i : Head(page[m]).means = i
    OBVIOUS
  <1>5. Apply(a, i, q)
    BY <1>3, <1>4 DEF ChatApply
  <1>6. /\ LeadTypes' /\ Grown
        /\ \A b \in Ads : /\ removed'[b] => removed[b] \/ (b = a /\ i = "gone")
                          /\ defect'[b] => defect[b] \/ (b = a /\ i = "defect_admit")
    BY <1>1, <1>2, <1>5, ApplyTyped
  <1>7. i \in Damning => Heard(a, i)
    <2>1. Len(page[m]) \in Nat \ {0}
      BY <1>2, EmptySeq
    <2>2. Head(page[m]) = page[m][1] /\ 1 \in 1 .. Len(page[m])
      BY <1>2, <2>1
    <2> QED
      BY <1>2, <1>3, <1>4, <2>2 DEF Reading
  <1>8. \A b \in Ads : \A j : Heard(b, j) => Heard(b, j)'
    BY <1>1 DEF Heard, PageOf, His
  <1>9. /\ Reading(m)'
        /\ \E p \in Places, h \in InHands, g \in Seq(ChatText) :
              /\ pc' = [pc EXCEPT ![m] = p] /\ inHand' = [inHand EXCEPT ![m] = h]
              /\ page' = [page EXCEPT ![m] = g]
    BY <1>1, <1>8, NextOfPageReads
  <1>10. Types'
    BY <1>1, <1>2, <1>6, <1>9 DEF Types
  <1>11. \A b \in Ads : Judged(b)'
    BY <1>6, <1>7, <1>10, CondemnedOnWord
  <1>12. /\ todo[m] \in Seq(Nat) /\ todo' = [todo EXCEPT ![m] = todo[m]]
         /\ unapplied' \subseteq Messages \X Ads
    BY <1>1, <1>10, PollTyped DEF Types
  <1> QED
    BY <1>1, <1>6, <1>9, <1>11, <1>12, ChangeKeeps

LEMMA ChatApplyFailsKeeps ==
    ASSUME InboxInv, NEW m \in Monitors, ChatApplyFails(m)
    PROVE  InboxInv'
  <1>1. /\ pc[m] \in OnPage /\ pc[m] # "apply" /\ NextOfPage(m)
        /\ UNCHANGED <<leadVars, sms, thread, replies, unapplied, todo>>
    BY DEF ChatApplyFails, OnPage
  <1>2. \A b \in Ads : \A j : Heard(b, j) => Heard(b, j)'
    BY <1>1 DEF Heard, PageOf, His
  <1>3. /\ Reading(m)'
        /\ \E p \in Places, h \in InHands, g \in Seq(ChatText) :
              /\ pc' = [pc EXCEPT ![m] = p] /\ inHand' = [inHand EXCEPT ![m] = h]
              /\ page' = [page EXCEPT ![m] = g]
    BY <1>1, <1>2, NextOfPageReads
  <1>4. todo[m] \in Seq(Nat) /\ todo' = [todo EXCEPT ![m] = todo[m]]
    BY <1>1, PollTyped
  <1> QED
    BY <1>1, <1>3, <1>4, PollKeeps

LEMMA PageGoneKeeps ==
    ASSUME InboxInv, NEW m \in Monitors, PageGone(m)
    PROVE  InboxInv'
  <1>1. /\ pc[m] = "chats" /\ todo[m] # <<>> /\ todo' = [todo EXCEPT ![m] = Tail(todo[m])]
        /\ UNCHANGED <<smsSent, chatSent, threadKnown, inquiry, defect, replied, sms, thread,
                       replies, pc, inHand, page, unapplied>>
    BY DEF PageGone, Rest
  <1>2. /\ Types /\ Reading(m) /\ Tail(todo[m]) \in Seq(Ads) /\ Tail(todo[m]) \in Seq(Nat)
        /\ page[m] = <<>>
    BY <1>1, PollTyped DEF Reading, OnPage
  <1>3. PICK a \in Ads : a = Head(todo[m])
    BY <1>1, PollTyped DEF Reading, OnPage
  <1>4. /\ \E k \in 1 .. Len(thread[a]) : thread[a][k].means = "gone"
        /\ removed' = [removed EXCEPT ![a] = TRUE]
    BY <1>3 DEF PageGone
  <1>5. LeadTypes'
    BY <1>1, <1>2, <1>4 DEF Types, LeadTypes
  <1>6. Types'
    BY <1>1, <1>2, <1>5 DEF Types
  <1>7. \A b \in Ads : /\ removed[b] => removed'[b]
                       /\ removed'[b] => removed[b] \/ b = a
    BY <1>2, <1>4 DEF Types, LeadTypes
  <1>8. Grown
    BY <1>1, <1>2, <1>6, <1>7, Lengths DEF Grown
  <1>9. \A b \in Ads : Judged(b)'
    <2>1. Heard(a, "gone")
      BY <1>4 DEF Heard, PageOf
    <2> QED
      BY <1>1, <1>6, <1>7, <1>8, <2>1, CondemnedOnWord
  <1>10. todo'[m] = Tail(todo[m])
    BY <1>1, <1>2 DEF Types
  <1>11. Reading(m)'
    BY <1>1, <1>2, <1>10 DEF Reading, WithSms, OnPage
  <1>12. /\ pc[m] \in Places /\ inHand[m] \in InHands /\ page[m] \in Seq(ChatText)
         /\ pc' = [pc EXCEPT ![m] = pc[m]] /\ inHand' = [inHand EXCEPT ![m] = inHand[m]]
         /\ page' = [page EXCEPT ![m] = page[m]] /\ unapplied' \subseteq Messages \X Ads
         /\ pc[m] # "apply"
    BY <1>1, <1>6, PollTyped DEF Types
  <1> QED
    BY <1>1, <1>2, <1>5, <1>8, <1>9, <1>11, <1>12, ChangeKeeps

LEMMA CrashKeeps ==
    ASSUME InboxInv, Crash
    PROVE  InboxInv'
  <1>1. /\ UNCHANGED <<leadVars, sms, thread, replies>>
        /\ pc' = [m \in Monitors |-> "off"] /\ todo' = [m \in Monitors |-> <<>>]
        /\ inHand' = [m \in Monitors |-> Nothing] /\ page' = [m \in Monitors |-> <<>>]
        /\ unapplied' = unapplied \cup
              {<<inHand[m].message, inHand[m].ad>> : m \in {w \in Monitors : pc[w] = "apply"}}
    BY DEF Crash
  <1>2. Types
    BY DEF InboxInv
  <1>3. ASSUME NEW m \in Monitors, pc[m] = "apply"
        PROVE  <<inHand[m].message, inHand[m].ad>> \in Messages \X Ads
    <2>1. inHand[m].message \in Messages /\ inHand[m].ad \in Ads
      BY <1>3, PollTyped DEF Reading, WithSms
    <2> QED
      BY <2>1
  <1>4. Types'
    <2>1. unapplied' \subseteq Messages \X Ads
      BY <1>1, <1>2, <1>3 DEF Types
    <2>2. todo' \in [Monitors -> Seq(Nat)] /\ page' \in [Monitors -> Seq(ChatText)]
      BY <1>1
    <2>3. pc' \in [Monitors -> Places] /\ inHand' \in [Monitors -> InHands]
      BY <1>1, NothingInHand DEF Places
    <2> QED
      BY <1>1, <1>2, <2>1, <2>2, <2>3 DEF Types, LeadTypes
  <1>5. Grown
    BY <1>1, <1>2, <1>4, Lengths DEF Grown
  <1>6. ASSUME NEW m \in Monitors
        PROVE  Reading(m)'
    BY <1>1 DEF Reading, WithSms, OnPage
  <1>7. ASSUME NEW a \in Ads
        PROVE  Judged(a)'
    BY <1>1, <1>2, <1>4, <1>5, JudgedStays DEF InboxInv
  <1>8. ASSUME NEW x \in Messages \X Ads
        PROVE  Stored(x)'
    <2>1. \A m \in Monitors :
             pc[m] = "apply" /\ <<inHand[m].message, inHand[m].ad>> = x => x \in unapplied'
      BY <1>1
    <2>2. unapplied \subseteq unapplied' /\ Stored(x)
      BY <1>1 DEF InboxInv
    <2> QED
      BY <1>1, <1>2, <1>4, <1>5, <2>1, <2>2, StoredStays
  <1> QED
    BY <1>4, <1>6, <1>7, <1>8 DEF InboxInv

LEMMA InboxInductive ==
    ASSUME InboxInv, [Next]_vars
    PROVE  InboxInv'
  <1>1. CASE UNCHANGED vars
    <2>1. Types /\ Types' /\ UNCHANGED <<removed, defect, replied, replies, pollVars, history>>
      BY <1>1 DEF vars, InboxInv, Types, LeadTypes
    <2>2. Grown
      BY <1>1, <2>1, Lengths DEF vars, Grown
    <2> QED
      BY <2>1, <2>2, WorldKeeps
  <1>2. ASSUME NEW m \in Monitors, PollOn(m)
        PROVE  InboxInv'
    BY <1>2, FindLeadKeeps, CheckNewKeeps, InsertReplyKeeps, ApplySmsKeeps,
       BeginChatsKeeps, ReadPageKeeps, PageGoneKeeps, ChatInsertKeeps, ChatApplyKeeps,
       StartStopKeeps DEF PollOn
  <1> QED
    BY <1>1, <1>2, SendSmsKeeps, SendChatKeeps, SellerChatsKeeps, SellerWritesKeeps,
       StartStopKeeps, BeginPollKeeps, ApplyFailsKeeps, ChatApplyFailsKeeps, CrashKeeps DEF Next

LEMMA InitiallyNone ==
    ASSUME Init
    PROVE  /\ replies \in [Messages \X Ads -> 0 .. 2]
           /\ \A x \in Messages \X Ads : replies[x] = 0
  <1> DEFINE S == Messages \X Ads
  <1>1. replies = [x \in S |-> 0]
    BY Zenon DEF Init
  <1> HIDE DEF S
  <1>2. replies \in [S -> 0 .. 2] /\ \A x \in S : replies[x] = 0
    BY <1>1
  <1> QED
    BY <1>2 DEF S

LEMMA InboxInvariant == Spec => []InboxInv
  <1>1. Init => InboxInv
    <2> SUFFICES ASSUME Init PROVE InboxInv
      OBVIOUS
    <2>1. /\ sms = <<>> /\ thread = [a \in Ads |-> <<>>] /\ pc = [m \in Monitors |-> "off"]
          /\ todo = [m \in Monitors |-> <<>>] /\ inHand = [m \in Monitors |-> Nothing]
          /\ page = [m \in Monitors |-> <<>>] /\ unapplied = {}
          /\ removed = [a \in Ads |-> FALSE] /\ defect = [a \in Ads |-> FALSE]
      BY Zenon DEF Init
    <2>2. \A x \in Messages \X Ads : replies[x] = 0
      BY InitiallyNone
    <2>3. /\ sms \in Seq(SmsText) /\ thread \in [Ads -> Seq(ChatText)]
          /\ todo \in [Monitors -> Seq(Nat)] /\ page \in [Monitors -> Seq(ChatText)]
          /\ pc \in [Monitors -> Places] /\ inHand \in [Monitors -> InHands]
      BY <2>1, NothingInHand DEF Places
    <2>4. Types
      <3>1. LeadTypes
        BY Zenon DEF Init, LeadTypes
      <3> QED
        BY <2>1, <2>3, <3>1, InitiallyNone DEF Types
    <2>5. \A m \in Monitors : Reading(m)
      BY <2>1 DEF Reading, WithSms, OnPage
    <2>6. \A a \in Ads : Judged(a)
      BY <2>1 DEF Judged
    <2>7. \A x \in Messages \X Ads : Stored(x)
      BY <2>2 DEF Stored
    <2> QED
      BY <2>4, <2>5, <2>6, <2>7 DEF InboxInv
  <1> QED
    BY <1>1, InboxInductive, PTL DEF Spec

-----------------------------------------------------------------------------
(* One monitor stores a message once *)

OneMonitor == \A m, n \in Monitors : m = n

Dated == Messages \ Undated

\* What a poll is about to insert, and knows by its date, is not stored yet.
OnceInv ==
    /\ \A x \in Dated \X Ads : replies[x] <= 1
    /\ \A m \in Monitors : pc[m] = "insert" /\ inHand[m].message \in Dated
                              => replies[<<inHand[m].message, inHand[m].ad>>] = 0

LEMMA OnceStep ==
    ASSUME OneMonitor, InboxInv, OnceInv, [Next]_vars
    PROVE  OnceInv'
  <1>1. Types
    BY DEF InboxInv
  <1>2. CASE UNCHANGED <<replies, pc, inHand>>
    BY <1>2 DEF OnceInv
  <1>3. ASSUME NEW m \in Monitors, UNCHANGED replies,
               pc'[m] = "insert" /\ inHand'[m].message \in Dated
                  => replies[<<inHand'[m].message, inHand'[m].ad>>] = 0
        PROVE  OnceInv'
    BY <1>3 DEF OnceInv, OneMonitor
  <1>4. ASSUME NEW m \in Monitors, UNCHANGED replies,
               NEW p \in Places \ {"insert"}, pc' = [pc EXCEPT ![m] = p]
        PROVE  OnceInv'
    <2>1. pc'[m] # "insert"
      BY <1>1, <1>4 DEF Types
    <2> QED
      BY <1>3, <1>4, <2>1
  <1>5. ASSUME NEW m \in Monitors, CheckNew(m)
        PROVE  OnceInv'
    <2>1. /\ UNCHANGED replies
          /\ \/ pc' = [pc EXCEPT ![m] = "sms"]
             \/ /\ UNCHANGED inHand
                /\ \/ ~(replies[<<inHand[m].message, inHand[m].ad>>] > 0)
                   \/ inHand[m].message \in Undated
      BY <1>5 DEF CheckNew, Goto
    <2>2. inHand[m].message \in Messages /\ inHand[m].ad \in Ads
      BY <1>5, PollTyped DEF Reading, WithSms, CheckNew
    <2>3. replies[<<inHand[m].message, inHand[m].ad>>] \in 0 .. 2
      BY <1>1, <2>2 DEF Types
    <2>4. CASE pc' = [pc EXCEPT ![m] = "sms"]
      BY <1>4, <2>1, <2>4 DEF Places
    <2>5. CASE ~(replies[<<inHand[m].message, inHand[m].ad>>] > 0) /\ UNCHANGED inHand
      <3>1. replies[<<inHand[m].message, inHand[m].ad>>] = 0
        BY <2>3, <2>5
      <3> QED
        BY <1>3, <2>1, <2>5, <3>1
    <2>6. CASE inHand[m].message \in Undated /\ UNCHANGED inHand
      BY <1>3, <2>1, <2>6 DEF Dated
    <2> QED
      BY <2>1, <2>4, <2>5, <2>6
  <1>6. ASSUME NEW m \in Monitors, InsertReply(m)
        PROVE  OnceInv'
    <2> DEFINE y == <<inHand[m].message, inHand[m].ad>>
    <2>1. /\ pc[m] = "insert" /\ pc' = [pc EXCEPT ![m] = "apply"]
          /\ replies' = [replies EXCEPT ![y] = IF replies[y] < 2 THEN replies[y] + 1 ELSE replies[y]]
      BY <1>6 DEF InsertReply, Goto
    <2>2. inHand[m].message \in Dated => replies[y] = 0
      BY <2>1 DEF OnceInv
    <2>3. y[1] = inHand[m].message
      OBVIOUS
    <2> HIDE DEF y
    <2>4. ASSUME NEW x \in Dated \X Ads
          PROVE  replies'[x] <= 1
      <3>1. x[1] \in Dated /\ x \in Messages \X Ads
        BY DEF Dated
      <3>2. CASE x = y
        <4>1. replies[y] = 0
          BY <2>2, <2>3, <3>1, <3>2
        <4> QED
          BY <1>1, <2>1, <3>1, <3>2, <4>1 DEF Types
      <3>3. CASE x # y
        <4>1. replies'[x] = replies[x]
          BY <1>1, <2>1, <3>1, <3>3 DEF Types
        <4> QED
          BY <4>1 DEF OnceInv
      <3> QED
        BY <3>2, <3>3
    <2>5. \A n \in Monitors : pc'[n] # "insert"
      BY <1>1, <2>1 DEF OneMonitor, Types
    <2> QED
      BY <2>4, <2>5 DEF OnceInv
  <1>7. ASSUME NEW m \in Monitors, Start(m) \/ Stop(m) \/ BeginPoll(m) \/ FindLead(m)
                 \/ ApplySms(m) \/ BeginChats(m) \/ ReadPage(m) \/ ChatInsert(m) \/ ChatApply(m)
                 \/ EndPoll(m) \/ InsertFails(m) \/ ApplyFails(m) \/ ChatApplyFails(m)
        PROVE  OnceInv'
    <2>1. UNCHANGED replies /\ \E p \in Places \ {"insert"} : pc' = [pc EXCEPT ![m] = p]
      BY <1>7 DEF Start, Stop, BeginPoll, FindLead, ApplySms, BeginChats, ReadPage, ChatInsert,
                  ChatApply, EndPoll, InsertFails, ApplyFails, ChatApplyFails, NextOfPage, Goto,
                  Places
    <2> QED
      BY <1>4, <2>1
  <1>8. CASE Crash
    BY <1>8 DEF Crash, OnceInv
  <1>9. CASE \E a \in Ads : SendSms(a) \/ SendChat(a) \/ SellerChats(a)
    BY <1>2, <1>9 DEF SendSms, SendChat, SellerChats
  <1>10. CASE \E s \in Sellers \cup {Stranger} : SellerWrites(s)
    BY <1>2, <1>10 DEF SellerWrites
  <1>11. CASE \E m \in Monitors : PageGone(m)
    BY <1>2, <1>11 DEF PageGone
  <1> QED
    BY <1>2, <1>5, <1>6, <1>7, <1>8, <1>9, <1>10, <1>11 DEF Next, PollOn, vars

-----------------------------------------------------------------------------
(* Theorems *)

\* Every variable keeps its type, and a poll with an answer in hand has its ad.
THEOREM TypeCorrect == Spec => []TypeOK
  <1>1. InboxInv => TypeOK
    <2> SUFFICES ASSUME InboxInv PROVE TypeOK
      OBVIOUS
    <2>1. Types
      BY DEF InboxInv
    <2>2. ASSUME NEW m \in Monitors
          PROVE  /\ inHand[m].ad \in Ads \cup {0}
                 /\ pc[m] \in {"check", "insert", "apply"} =>
                       inHand[m].message \in Messages /\ inHand[m].ad \in Ads
                 /\ pc[m] \in {"chatInsert", "chatApply"} <=> page[m] # <<>>
      BY <2>1 DEF InboxInv, Reading, WithSms, OnPage, Types, InHands
    <2>3. \A a \in Ads : {smsSent[a], chatSent[a], threadKnown[a], removed[a], defect[a],
                        replied[a]} \subseteq BOOLEAN
      BY <2>1 DEF Types, LeadTypes
    <2> QED
      BY <2>1, <2>2, <2>3 DEF TypeOK, Types, LeadTypes
  <1> QED
    BY <1>1, InboxInvariant, PTL

\* An answer that is stored has changed its ad, has a poll about to change it, or was
\* stored by one that died or failed between the two commits.
THEOREM StoredHasEffect == Spec => []StoredIsApplied
  <1>1. InboxInv => StoredIsApplied
    BY DEF InboxInv, Stored, Done, StoredIsApplied
  <1> QED
    BY <1>1, InboxInvariant, PTL

\* Nothing makes an ad removed or defective but a text of its own page or of one that bears
\* its title, or an SMS of its seller or of a stranger whose words matched no ad, however
\* many polls read inbox and pages while messages arrive.
THEOREM VerdictIsSaid == Spec => []VerdictFromItsTexts
  <1>1. InboxInv => VerdictFromItsTexts
    <2> SUFFICES ASSUME InboxInv, NEW a \in Ads, NEW i \in Damning,
                        IF i = "gone" THEN removed[a] ELSE defect[a]
                 PROVE  Heard(a, i)
      BY DEF VerdictFromItsTexts, Heard, Damning, PageOf, His
    <2> QED
      BY DEF InboxInv, Judged, Damning
  <1> QED
    BY <1>1, InboxInvariant, PTL

\* One monitor stores an SMS that comes with its date once for an ad, however often it is
\* listed and whatever fails between the commits.
THEOREM StoredOnce ==
    ASSUME OneMonitor
    PROVE  Spec => []SmsStoredOnce
  <1>1. Init => OnceInv
    <2> SUFFICES ASSUME Init PROVE OnceInv
      OBVIOUS
    <2>1. pc = [m \in Monitors |-> "off"]
      BY Zenon DEF Init
    <2>2. \A x \in Messages \X Ads : replies[x] <= 1
      BY InitiallyNone
    <2> QED
      BY <2>1, <2>2 DEF OnceInv, Dated
  <1>2. OnceInv => SmsStoredOnce
    BY DEF OnceInv, SmsStoredOnce, Dated
  <1>3. InboxInv /\ OnceInv /\ [Next]_vars => OnceInv'
    BY OnceStep
  <1> QED
    BY <1>1, <1>2, <1>3, InboxInvariant, PTL DEF Spec
=============================================================================
