------------------------------- MODULE Inbox -------------------------------
(***************************************************************************)
(* The sellers' answers: Monitor.poll_inboxes (monitor.py), inbox.py and   *)
(* apply_to_lead (nlu.py).  A poll reads the newest SMS of the provider's  *)
(* inbox and the chat pages of the newest ads, stores what it has not      *)
(* stored yet, and lets each stored answer change its ad.                  *)
(*                                                                         *)
(* Ads are row ids.  A message is what a stored SMS is known by, its words *)
(* with the date the provider gives; two SMS may be one message.  What it  *)
(* means (analyze) is given with it.                                       *)
(***************************************************************************)
EXTENDS Integers, Sequences, FiniteSets

CONSTANTS
    Ads, Sellers,
    SellerOf,       \* the phone of an ad
    Stranger,       \* a number that belongs to no ad
    ChatOnly,       \* ads whose phone is hidden: nobody knows their number
    Matches,        \* <<a, b>>: the page of a bears the title of b, or its id
    Messages,       \* the words and dates of the SMS that may arrive
    Undated,        \* those the provider gives without a date
    MeansOf,        \* what a message means
    Meanings,       \* what the texts of a page may mean, in this instance
    Monitors, None,
    SmsBatch,       \* count=50
    ScanRows,       \* LIMIT 80
    PollBatch,      \* LIMIT 6
    LastOfThread,   \* the last 8 messages of a page
    MaxSms,         \* bound: SMS that arrive
    MaxThread,      \* bound: texts of a page
    MaxFails        \* bound: failed steps and process deaths

\* INTENTS, those that apply_to_lead treats alike taken together
Intents == {"gone", "defect_admit", "scam_deposit", "price_quote", "available_yes",
            "unclear"}

ASSUME InboxAssumption ==
    /\ Ads \subseteq Nat \ {0} /\ IsFiniteSet(Ads) /\ SellerOf \in [Ads -> Sellers]
    /\ ChatOnly \subseteq Ads /\ Matches \subseteq Ads \X Ads
    /\ Undated \subseteq Messages /\ MeansOf \in [Messages -> Intents]
    /\ Meanings \subseteq Intents /\ SmsBatch \in Nat \ {0} /\ ScanRows \in Nat \ {0}
    /\ Stranger \notin Sellers /\ None \notin Sellers \cup Messages \cup Monitors
    /\ PollBatch \in Nat \ {0} /\ LastOfThread \in Nat \ {0}

VARIABLES
    smsSent, chatSent,      \* sms_status, chat_status = 'sent' of an ad
    threadKnown,            \* chat_thread_id is the name its page is read under
    inquiry,                \* inquiry_status: "", "sent", "answered"
    removed,                \* phone_status = 'removed'
    defect,                 \* is_defect, which takes hunter_level away
    replied,                \* lead_status has reached 'replied'
    sms,                    \* the provider's inbox: who wrote which message, in order
    thread,                 \* the texts on an ad's page: [own, means]
    replies,                \* stored SMS: how often a message is stored for an ad
    pc,                     \* "off", "idle", "sms", "check", "insert", "apply",
                            \* "chats", "chatInsert" or "chatApply"
    todo,                   \* SMS or ads a poll has still to do
    inHand,                 \* what it has read: message, ad and context
    page,                   \* the messages of the page it has still to do
    \* history, read by the properties only
    unapplied,              \* <<message, ad>> stored, the change of the ad lost
    fails

leadVars == <<smsSent, chatSent, threadKnown, inquiry, removed, defect, replied>>
pollVars == <<pc, todo, inHand, page>>
history == <<unapplied, fails>>
vars == <<leadVars, sms, thread, replies, pollVars, history>>

Nothing == [message |-> None, ad |-> 0, inquire |-> FALSE]

Init ==
    /\ smsSent = [a \in Ads |-> FALSE] /\ chatSent = [a \in Ads |-> FALSE]
    /\ threadKnown = [a \in Ads |-> FALSE] /\ inquiry = [a \in Ads |-> ""]
    /\ removed = [a \in Ads |-> FALSE]
    /\ defect = [a \in Ads |-> FALSE] /\ replied = [a \in Ads |-> FALSE]
    /\ sms = <<>> /\ thread = [a \in Ads |-> <<>>]
    /\ replies = [x \in Messages \X Ads |-> 0]
    /\ pc = [m \in Monitors |-> "off"] /\ todo = [m \in Monitors |-> <<>>]
    /\ inHand = [m \in Monitors |-> Nothing] /\ page = [m \in Monitors |-> <<>>]
    /\ unapplied = {} /\ fails = 0

-----------------------------------------------------------------------------
(* Messages out and in.                                                    *)

\* An inquiry asks for the price; another message does not.
Inquiring(a) ==
    \/ UNCHANGED inquiry
    \/ inquiry[a] = "" /\ inquiry' = [inquiry EXCEPT ![a] = "sent"]

SendSms(a) ==
    /\ a \notin ChatOnly /\ ~smsSent[a] /\ ~removed[a]
    /\ smsSent' = [smsSent EXCEPT ![a] = TRUE]
    /\ Inquiring(a)
    /\ UNCHANGED <<chatSent, threadKnown, removed, defect, replied, sms, thread,
                   replies, pollVars, history>>

\* Our own text stands on the page as well.  It quotes the title of the ad, so it
\* may be taken for any answer.  The id in the address may change when a chat begins.
SendChat(a) ==
    /\ ~chatSent[a] /\ ~removed[a] /\ Len(thread[a]) < MaxThread
    /\ chatSent' = [chatSent EXCEPT ![a] = TRUE]
    /\ threadKnown' \in {threadKnown, [threadKnown EXCEPT ![a] = TRUE]}
    /\ \E i \in Meanings : thread' = [thread EXCEPT ![a] = Append(@, [own |-> TRUE, means |-> i])]
    /\ Inquiring(a)
    /\ UNCHANGED <<smsSent, removed, defect, replied, sms, replies, pollVars, history>>

SellerWrites(s) ==
    /\ Len(sms) < MaxSms
    /\ s # Stranger => \E a \in Ads : SellerOf[a] = s /\ smsSent[a]
    /\ \E x \in Messages : sms' = Append(sms, [from |-> s, message |-> x])
    /\ UNCHANGED <<leadVars, thread, replies, pollVars, history>>

\* A text on the page that is not ours: of the seller, of the site, or the ad's own.
SellerChats(a) ==
    /\ Len(thread[a]) < MaxThread
    /\ \E i \in Meanings : thread' = [thread EXCEPT ![a] = Append(@, [own |-> FALSE, means |-> i])]
    /\ UNCHANGED <<leadVars, sms, replies, pollVars, history>>

-----------------------------------------------------------------------------
(* What an answer does to its ad.                                          *)

\* apply_to_lead with _apply_hunter_reply: one transaction.  The prices, levels
\* and slots it also writes are left out.
Apply(a, i, inquire) ==
    /\ replied' = [replied EXCEPT ![a] = TRUE]
    /\ removed' = [removed EXCEPT ![a] = @ \/ i = "gone"]
    /\ defect' = [defect EXCEPT ![a] = @ \/ i = "defect_admit"]
    /\ LET hunter == inquire \/ i \in {"price_quote", "available_yes", "defect_admit"}
       IN inquiry' = IF (hunter /\ inquiry[a] = "sent") \/ (i = "price_quote" /\ inquire)
                     THEN [inquiry EXCEPT ![a] = "answered"] ELSE inquiry
    /\ UNCHANGED <<smsSent, chatSent, threadKnown>>

\* _context, of the row as it was read
Inquire(a) == inquiry[a] = "sent"

\* Mutant of FindForSms: any ad that was written to.
FindForAny(s) == {a \in Ads : smsSent[a] \/ chatSent[a]}

\* Another: only an ad whose price was asked.
FindForInquired(s) == {a \in Ads : SellerOf[a] = s /\ inquiry[a] = "sent"}

\* find_lead_for_sms: the newest ad of this phone that was written to, else the
\* newest of this phone.  A stranger's unclear words go to the newest ad that
\* was written to.
Newest(S) == {a \in S : \A b \in S : b <= a}
FindForSms(s) ==
    LET its == {a \in Ads \ ChatOnly : SellerOf[a] = s}
        asked == {a \in its : smsSent[a] \/ inquiry[a] = "sent"}
    IN IF s = Stranger THEN Newest({a \in Ads : smsSent[a]})
       ELSE Newest(IF asked # {} THEN asked ELSE its)

-----------------------------------------------------------------------------
(* One poll of a monitor.                                                  *)

Goto(m, to) == pc' = [pc EXCEPT ![m] = to]
Rest == UNCHANGED <<sms, thread, fails>>

Start(m) ==
    /\ pc[m] = "off"
    /\ Goto(m, "idle")
    /\ UNCHANGED <<leadVars, sms, thread, replies, todo, inHand, page, history>>

Stop(m) ==
    /\ pc[m] = "idle"
    /\ Goto(m, "off")
    /\ UNCHANGED <<leadVars, sms, thread, replies, todo, inHand, page, history>>

\* receive_melipayamak: the newest SMS in one order or the other, those read before
\* included; nothing when the request fails or the inbox is switched off.
NewestSms == LET n == Len(sms)
             IN IF n > SmsBatch THEN SmsBatch ELSE n
Listings == {<<>>, [k \in 1..NewestSms |-> Len(sms) + 1 - k],
                   [k \in 1..NewestSms |-> Len(sms) - NewestSms + k]}

BeginPoll(m) ==
    /\ pc[m] = "idle"
    /\ Goto(m, "sms")
    /\ \E d \in Listings : todo' = [todo EXCEPT ![m] = d]
    /\ UNCHANGED <<leadVars, replies, inHand, page, unapplied>> /\ Rest

\* detect_ambiguous_text_reply of a stranger's words, which are left open
Unclear == BOOLEAN

\* The lead is read, then the text is analysed; an unmatched one is left.
FindLead(m) ==
    /\ pc[m] = "sms" /\ todo[m] # <<>>
    /\ LET k == Head(todo[m])
           found == FindForSms(sms[k].from)
       IN \/ /\ found = {} \/ (sms[k].from = Stranger /\ FALSE \in Unclear)
             /\ Goto(m, "sms") /\ UNCHANGED inHand
          \/ \E a \in found :
               /\ Goto(m, "check")
               /\ inHand' = [inHand EXCEPT ![m] =
                                [message |-> sms[k].message, ad |-> a, inquire |-> Inquire(a)]]
    /\ todo' = [todo EXCEPT ![m] = Tail(@)]
    /\ UNCHANGED <<leadVars, replies, page, unapplied>> /\ Rest

\* Mutant of CheckNew: the stored replies are not looked at.
CheckNothing(m) ==
    /\ pc[m] = "check"
    /\ Goto(m, "insert")
    /\ UNCHANGED <<leadVars, replies, todo, inHand, page, unapplied>> /\ Rest

\* save_reply: SELECT the same words and date of the same ad, then INSERT and commit.
\* Without a date the time of the poll is taken, the same within a second only.
CheckNew(m) ==
    /\ pc[m] = "check"
    /\ LET stored == replies[<<inHand[m].message, inHand[m].ad>>] > 0
       IN \/ stored /\ Goto(m, "sms") /\ inHand' = [inHand EXCEPT ![m] = Nothing]
          \/ /\ ~stored \/ inHand[m].message \in Undated
             /\ Goto(m, "insert") /\ UNCHANGED inHand
    /\ UNCHANGED <<leadVars, replies, todo, page, unapplied>> /\ Rest

InsertReply(m) ==
    /\ pc[m] = "insert"
    /\ replies' = [replies EXCEPT ![<<inHand[m].message, inHand[m].ad>>] =
                      IF @ < 2 THEN @ + 1 ELSE @]
    /\ Goto(m, "apply")
    /\ UNCHANGED <<leadVars, todo, inHand, page, unapplied>> /\ Rest

\* Mutant of ApplySms: a reply is applied only while the ad awaits an answer.
ApplySmsAwaited(m) ==
    /\ pc[m] = "apply"
    /\ IF inHand[m].inquire
       THEN Apply(inHand[m].ad, MeansOf[inHand[m].message], TRUE)
       ELSE UNCHANGED leadVars
    /\ Goto(m, "sms")
    /\ inHand' = [inHand EXCEPT ![m] = Nothing]
    /\ UNCHANGED <<replies, todo, page, unapplied>> /\ Rest

ApplySms(m) ==
    /\ pc[m] = "apply"
    /\ Apply(inHand[m].ad, MeansOf[inHand[m].message], inHand[m].inquire)
    /\ Goto(m, "sms")
    /\ inHand' = [inHand EXCEPT ![m] = Nothing]
    /\ UNCHANGED <<replies, todo, page, unapplied>> /\ Rest

-----------------------------------------------------------------------------
(* The chat pages of the newest ads that were written to.                  *)

Written == {a \in Ads : (chatSent[a] \/ inquiry[a] = "sent") /\ ~removed[a]}
Batch == LET newer(a) == {b \in Written : b > a}
             rows == {a \in Written : Cardinality(newer(a)) < PollBatch}
         IN [k \in 1..Cardinality(rows) |->
                CHOOSE a \in rows : Cardinality(newer(a)) = k - 1]

\* Nothing when chats are switched off or no account is free.
BeginChats(m) ==
    /\ pc[m] = "sms" /\ todo[m] = <<>>
    /\ \E d \in {<<>>, Batch} : todo' = [todo EXCEPT ![m] = d]
    /\ Goto(m, "chats")
    /\ UNCHANGED <<leadVars, replies, inHand, page, unapplied>> /\ Rest

Last(s, n) == SubSeq(s, IF Len(s) > n THEN Len(s) - n + 1 ELSE 1, Len(s))

\* _js_read_thread: every text of the page, ours among them
Texts(a) == Last(thread[a], LastOfThread)

\* find_lead_for_chat: the ad its thread id was stored for, else the newest among
\* the rows that are scanned whose id or title the page bears, own ad or not.
Scanned == LET rows == {b \in Ads : chatSent[b] \/ (b \in ChatOnly /\ ~removed[b])}
           IN {b \in rows : Cardinality({c \in rows : c > b}) < ScanRows}
FindForChat(a) == IF threadKnown[a] THEN {a}
                  ELSE Newest({b \in Scanned : b = a \/ <<a, b>> \in Matches})

\* A page that is busy or fails has no texts, and one without an ad is left.
ReadPage(m) ==
    /\ pc[m] = "chats" /\ todo[m] # <<>>
    /\ \/ Goto(m, "chats") /\ UNCHANGED <<inHand, page>>
       \/ \E b \in FindForChat(Head(todo[m])) :
            /\ Texts(Head(todo[m])) # <<>>
            /\ page' = [page EXCEPT ![m] = Texts(Head(todo[m]))]
            /\ inHand' = [inHand EXCEPT ![m] =
                             [message |-> None, ad |-> b, inquire |-> Inquire(b)]]
            /\ Goto(m, "chatInsert")
    /\ todo' = [todo EXCEPT ![m] = Tail(@)]
    /\ UNCHANGED <<leadVars, replies, unapplied>> /\ Rest

\* A text of the page says that the ad is gone in the words _js_read_thread looks for.
PageGone(m) ==
    /\ pc[m] = "chats" /\ todo[m] # <<>>
    /\ LET a == Head(todo[m])
       IN /\ \E k \in 1..Len(thread[a]) : thread[a][k].means = "gone"
          /\ removed' = [removed EXCEPT ![a] = TRUE]
    /\ todo' = [todo EXCEPT ![m] = Tail(@)]
    /\ UNCHANGED <<smsSent, chatSent, threadKnown, inquiry, defect, replied, replies, pc,
                   inHand, page, unapplied>> /\ Rest

\* received_at is the time of this poll: never a duplicate.
ChatInsert(m) ==
    /\ pc[m] = "chatInsert"
    /\ Goto(m, "chatApply")
    /\ UNCHANGED <<leadVars, replies, todo, inHand, page, unapplied>> /\ Rest

NextOfPage(m) ==
    /\ page' = [page EXCEPT ![m] = Tail(@)]
    /\ Goto(m, IF Len(page[m]) = 1 THEN "chats" ELSE "chatInsert")
    /\ inHand' = IF Len(page[m]) = 1 THEN [inHand EXCEPT ![m] = Nothing] ELSE inHand

ChatApply(m) ==
    /\ pc[m] = "chatApply"
    /\ Apply(inHand[m].ad, Head(page[m]).means, inHand[m].inquire)
    /\ NextOfPage(m)
    /\ UNCHANGED <<replies, todo, unapplied>> /\ Rest

EndPoll(m) ==
    /\ pc[m] = "chats" /\ todo[m] = <<>>
    /\ Goto(m, "idle")
    /\ inHand' = [inHand EXCEPT ![m] = Nothing]
    /\ UNCHANGED <<leadVars, replies, todo, page, unapplied>> /\ Rest

-----------------------------------------------------------------------------
(* Failures.                                                               *)

\* 'database is locked' in save_reply ends the poll.
InsertFails(m) ==
    /\ fails < MaxFails /\ fails' = fails + 1
    /\ pc[m] \in {"insert", "chatInsert"}
    /\ Goto(m, "idle")
    /\ todo' = [todo EXCEPT ![m] = <<>>]
    /\ inHand' = [inHand EXCEPT ![m] = Nothing]
    /\ page' = [page EXCEPT ![m] = <<>>]
    /\ UNCHANGED <<leadVars, sms, thread, replies, unapplied>>

\* In apply_to_lead it is swallowed: the answer stays stored, the ad as it was.
ApplyFails(m) ==
    /\ fails < MaxFails /\ fails' = fails + 1
    /\ pc[m] = "apply"
    /\ unapplied' = unapplied \cup {<<inHand[m].message, inHand[m].ad>>}
    /\ Goto(m, "sms")
    /\ inHand' = [inHand EXCEPT ![m] = Nothing]
    /\ UNCHANGED <<leadVars, sms, thread, replies, todo, page>>

ChatApplyFails(m) ==
    /\ fails < MaxFails /\ fails' = fails + 1
    /\ pc[m] = "chatApply"
    /\ NextOfPage(m)
    /\ UNCHANGED <<leadVars, sms, thread, replies, todo, unapplied>>

Crash ==
    /\ fails < MaxFails /\ fails' = fails + 1
    /\ unapplied' = unapplied \cup
          {<<inHand[m].message, inHand[m].ad>> : m \in {w \in Monitors : pc[w] = "apply"}}
    /\ pc' = [m \in Monitors |-> "off"] /\ todo' = [m \in Monitors |-> <<>>]
    /\ inHand' = [m \in Monitors |-> Nothing] /\ page' = [m \in Monitors |-> <<>>]
    /\ UNCHANGED <<leadVars, sms, thread, replies>>

\* What a poll that has begun goes on to do
PollOn(m) ==
    \/ FindLead(m) \/ CheckNew(m) \/ InsertReply(m) \/ ApplySms(m)
    \/ BeginChats(m) \/ ReadPage(m) \/ PageGone(m) \/ ChatInsert(m) \/ ChatApply(m)
    \/ EndPoll(m)

Next ==
    \/ \E a \in Ads : SendSms(a) \/ SendChat(a) \/ SellerChats(a)
    \/ \E s \in Sellers \cup {Stranger} : SellerWrites(s)
    \/ \E m \in Monitors : Start(m) \/ Stop(m) \/ BeginPoll(m) \/ PollOn(m)
                           \/ InsertFails(m) \/ ApplyFails(m) \/ ChatApplyFails(m)
    \/ Crash

Spec == Init /\ [][Next]_vars
\* A poll goes on: its requests have timeouts.  That another one begins is not assumed.
FairSpec == Spec /\ \A m \in Monitors : WF_vars(PollOn(m))

-----------------------------------------------------------------------------
\* Types.  A poll with an answer in hand has its ad.
TypeOK ==
    /\ inquiry \in [Ads -> {"", "sent", "answered"}]
    /\ \A a \in Ads : {smsSent[a], chatSent[a], threadKnown[a], removed[a], defect[a],
                       replied[a]} \subseteq BOOLEAN
    /\ replies \in [Messages \X Ads -> 0..2] /\ unapplied \subseteq Messages \X Ads
    /\ \A m \in Monitors :
         /\ inHand[m].ad \in Ads \cup {0}
         /\ pc[m] \in {"check", "insert", "apply"} =>
               inHand[m].message \in Messages /\ inHand[m].ad \in Ads
         /\ pc[m] \in {"chatInsert", "chatApply"} <=> page[m] # <<>>

\* An SMS that comes with a date is stored once for an ad, however often it is listed
\* and whatever fails between.  (Two monitors polling together may store it twice: the
\* look and the insert are two steps, inbox.py:25.)
SmsStoredOnce == \A x \in (Messages \ Undated) \X Ads : replies[x] <= 1

\* A stored SMS has changed its ad: one that says the thing is sold has the ad
\* removed.  It is not looked at again, so what was lost between the two commits
\* stays lost (inbox.py:43, nlu.py:240): a death or a locked database.
StoredIsApplied ==
    \A x \in Messages \X Ads : replies[x] > 0 =>
        \/ x \in unapplied
        \/ \E m \in Monitors : pc[m] = "apply" /\ <<inHand[m].message, inHand[m].ad>> = x
        \/ /\ replied[x[2]]
           /\ MeansOf[x[1]] = "gone" => removed[x[2]]
           /\ MeansOf[x[1]] = "defect_admit" => defect[x[2]]

\* An ad is taken for sold or defective only on an SMS of its own seller, or of a
\* stranger whose words matched no ad, or on a text of its own page or of a page that
\* bears its title: whoever wrote that text, we ourselves included.
VerdictFromItsTexts ==
    \A a \in Ads : \A i \in {"gone", "defect_admit"} :
        (IF i = "gone" THEN removed[a] ELSE defect[a]) =>
            \/ \E b \in Ads : /\ b = a \/ <<b, a>> \in Matches
                              /\ \E k \in 1..Len(thread[b]) : thread[b][k].means = i
            \/ \E k \in 1..Len(sms) : /\ MeansOf[sms[k].message] = i
                                      /\ sms[k].from \in {SellerOf[a], Stranger}

\* An SMS of a seller that the polls list again and again is stored for an ad of his,
\* whatever failed before and whatever else arrives.
ListsSms(m, k) == BeginPoll(m) /\ \E j \in 1..Len(todo'[m]) : todo'[m][j] = k
EverySmsRead ==
    \A k \in 1..MaxSms :
        []<><<\E m \in Monitors : ListsSms(m, k)>>_vars =>
            ((Len(sms) >= k /\ sms[k].from # Stranger) ~>
                (\E a \in Ads : /\ Len(sms) >= k /\ SellerOf[a] = sms[k].from
                                /\ replies[<<sms[k].message, a>>] > 0))

\* What the code does not keep.  An SMS without a date is new at every poll (sms.py:295,
\* inbox.py:17); an answer belongs to one ad (inbox.py:1), a chat page to its own
\* (chat_browser.py:150) and a verdict to the seller; an ad counts as answered only
\* after its seller wrote (monitor.py:1120).
EverySmsStoredOnce == \A x \in Messages \X Ads : replies[x] <= 1
OneAdPerSms ==
    \A k \in 1..Len(sms) : \A a, b \in Ads :
        LET x == sms[k].message
        IN replies[<<x, a>>] > 0 /\ replies[<<x, b>>] > 0 =>
              a = b \/ \E l \in (1..Len(sms)) \ {k} : sms[l].message = x
VerdictFromItsSeller ==
    \A a \in Ads : \A i \in {"gone", "defect_admit"} :
        (IF i = "gone" THEN removed[a] ELSE defect[a]) =>
            \/ \E k \in 1..Len(thread[a]) : ~thread[a][k].own /\ thread[a][k].means = i
            \/ \E k \in 1..Len(sms) : /\ MeansOf[sms[k].message] = i
                                      /\ sms[k].from \in {SellerOf[a], Stranger}
RepliedWasAnswered ==
    \A a \in Ads : replied[a] =>
        \/ \E k \in 1..Len(thread[a]) : ~thread[a][k].own
        \/ \E k \in 1..Len(sms) : sms[k].from \in {SellerOf[a], Stranger}
=============================================================================
