# A verification of the lead collector

`marketing_divar` searches the classified site Divar (and two others) for ads, reveals the sellers'
phone numbers with a few accounts, sends them messages, and lets a "hunter" judge which cars are worth
buying. It runs as one desktop process: a local web panel (one thread per request), a monitor thread, an
account watcher, a Telegram bot; an older command-line collector works on the same database from another
process. Everything they share is a SQLite file, `data/accounts/state.json` and a few Python objects,
without a lock between a check and what follows from it.

This directory holds TLA+ models of that shared state, the TLC configurations that check them on small
instances, and proofs of the main theorems for every value of the constants.

    tlc -workers 2 -config PhoneQueueConfirm.cfg MCPhoneQueue.tla
    tlapm PhoneQueueProofs.tla

`PROJECT.json` lists the components, the runs, the source lines behind every definition (`map`), the
mutants that break each property, the hazards, and the places where the code does not do what its own
documents say (`findings`; section 4 explains them). Source paths below are relative to `src/marketing_divar/`.


## 1. The system

| Component | State it keeps | Operations | Hard behaviour |
|---|---|---|---|
| Phone queue: `monitor.py` (`_fetch_one`, `drain`), `db.py` | `leads.phone_status`, `retry_count`; today's `quota` and `quota_accounts` rows | pick the head, mark it `processing`, reveal, store the answer, count it, put it back | read and mark are two steps with a delay between them; store and count are two commits; a death leaves `processing`; an uncommitted scan locks every writer out |
| Captcha confirmation: `unlock.py` | the same rows, from a request thread | makes the account active, reveals the head of the queue | runs next to the monitor, on the same head; does not look at the quota |
| Monitor lifecycle: `web/server.py`, `monitor.py` | `_state["monitor"]`, `stop_event`, `paused` | start, stop, pause, the thread's end | two starts pass the check together; the end of one monitor clears the reference to the other |
| Accounts: `accounts.py`, watcher in `unlock.py` | `state.json`: the status of every account | `set_status`, `record_block`, `record_probe`, `delete_account`; probes | load, change, save without a lock; the file is truncated before it is filled; a probe answers late |
| Command-line collector: `collector.py`, `rate.py` | its breaker, its client's token, the same tables | search pages, log in, then reveal within the quota | reads the quota once, before a login that may take minutes; reveal, count and store are three steps; runs beside the panel; blocked pages and calls |
| Outreach: `monitor.py` (`_maybe_sms`, `_maybe_chat`, `_maybe_hunter_*`, `drain_chat`, `drain_hunter_*`, `drain_week_old`), panel requests | `sms_status`, `chat_status`, `inquiry_status`, `lead_status`; quota columns `sms`, `chats` | check, send, record, count | a send lies between the check and the record; the outcome may be lost; several threads; batches of the newest rows |
| Search and insertion: `matching.py`, `platforms.py`, ... | rows of `leads` | match an ad, insert it once per token | its transaction stays open over network calls |
| Inbox: `inbox.py`, `nlu*.py` | `replies` rows, the ad's columns, learned rules | poll, deduplicate, understand a reply, change the ad | every poll reads the newest SMS again and knows them by words and date; look, insert and change are three steps; an SMS is matched by number, a chat page by its title |
| Hunter: `hunter*.py`, `vehicle.py`, `profitability.py`, ... | `hunter_*` columns, price samples | value an ad, announce it, ask, judge again after a reply | percentages, clamps and percentiles at few samples; the ad is a sample of its own market |
| Hunter wizard: `hunter_ai_wizard.py` | a conversation | questions, corrections, confirmation | the order of the questions over several models, answers given early or late; a second request while the first waits for the language model |
| Tira: `tira_agent.py`, `tira_commands.py` | a conversation; categories and settings its commands change | questions, research, commands | two messages wait for the internet while others of the session are handled; a command may be found in an answer |
| Divar client: `client.py`, `contact.py`, the code login of `web/server.py` | the winning transport, `pending_logins`, `session.json` | search, number, chat, code, confirmation, probe | every transport repeats a request that may have been delivered; three endpoints whose refusals mean different things |
| Browser profiles: `chromium_profile.py`, `chat_browser.py`, `auth_session.py`, `session_view.py` | window processes, `_LIVE`, the port file, `account.json`, `session.json`, cookies, a lock per profile | open, create, save, delete, log in, collect, chat | windows outlive the program, may refuse to end, and are closed by the user; two files written one after the other |
| Chromium download: `app_chromium.py`, `installer/fetch_chromium.py` | zip, `.part` with its source, program folder, marker, `_LOCK`, `_STATUS` | try sources, resume, verify, extract, register | resumption over deaths and sources; two installers on one folder |
| Admin bot: `telegram_bot.py`, `notifier.py`, `events.py` | an offset per channel | poll three channels in turn, execute | an offset is confirmed by the next request only; restarts forget it; an error outside the `try` ends the thread for good |
| License: `license_ledger.py`, `license_session.py`, `gate.py` | the seller's ledger, a signed cookie, a remembered password | login, renew, return, log out, the gate | three periods of validity, edits of the ledger between them |
| Language model: `nlu_model.py` | a second download with the same start | | as for Chromium |
| Settings: `store.py`, `config.py` | single rows and files | read, write | |
| Shell: `desktop_app.py`, `cli.py`, `diag.py`, ..., `installer/` | | process start, packaging | |

What makes them correct:

* **Phone queue.** No ad is lost in `processing`; an answer is never overwritten except by a worker that
  had read the ad before; every contact is counted; the IP's daily limit holds up to what the threads had
  let through; a queued ad is served.
* **Accounts.** The status of an account is the one it was last given.
* **Collector.** The numbers revealed in a day stay within its limit, up to the counts that were lost, over
  runs, deaths and midnights; what was stored was counted; a breaker that tripped for good ends the requests
  about ads.
* **Outreach.** A seller is not marketed twice unless an outcome was lost; the messages that
  reach sellers in a day stay within the limits up to one per other worker and one per lost count; no ad of
  the chat queue is starved.
* **Inbox.** A dated answer is stored once; a stored one changes its ad; no ad is closed on words that were
  neither its seller's nor on a page taken for its own.
* **Client.** What it says about an ad is true there; a message arrives once; a code is not wasted.
* **Profiles.** A window is out of the panel's reach only for a named reason; a chat acts on its own page; the
  login a save has found stays stored.
* **Chromium.** What is registered is whole, what is resumed is of one source, every download ends.
* **Dialogues.** No model or variant slips through the questions; no conversation is stuck.
* **Bot.** No message is dropped before it was executed; a restart repeats one answer at most.
* **Hunter.** No car is announced above what its market and the thresholds allow, none without enough samples
  or answers (vehicles only: `hunter_analyzer.py:459` asks back about no other kind of goods).
* **License.** No request passes after the license of its session.


## 2. The modules

| Module | Models | With |
|---|---|---|
| `LeadLifecycle` | what the phone queue promises about one ad | abstract |
| `PhoneQueue` | monitor, captcha confirmation and panel on the queue | implements `LeadLifecycle` for one monitor |
| `PhoneQueueProofs` | five properties for any number of monitors, operators, ads, accounts; one monitor implements `LeadLifecycle` | |
| `AccountRegistry` | a table of statuses updated atomically | abstract |
| `AccountFile` | `state.json` and its read-modify-write updates | implements `AccountRegistry` around overlaps and deaths |
| `AccountFileProofs` | losses need an overlap or a death; otherwise the file is a table | |
| `Collector` | `run_collection` beside the panel's monitor | |
| `CollectorProofs` | the limit of what is revealed, the counting and the fatal breaker for any ads and any number of deaths | |
| `Outreach` | the messages to sellers | |
| `OutreachProofs` | the limits of a day, and how often one ad is marketed and asked | |
| `Inbox` | the sellers' answers, SMS and chat pages | |
| `InboxProofs` | dated answers stored once, stored ones applied, verdicts only on what was said to the ad | |
| `DivarClient` | requests over a chain of transports, the login with a code | |
| `DivarClientProofs` | verdicts, messages, silence and codes for any chain of transports | |
| `BrowserProfile` | windows, files and the lock of one profile | |
| `ChromiumInstall` | the download, verification and registration of Chromium | |
| `Browser` | the opening of a profile that downloads its Chromium first | composes `BrowserProfile` and `ChromiumInstall` |
| `BrowserProofs` | the profiles for any number of threads, the download for any number of installers and sources, and both together | |
| `HunterWizard`, `TiraAgent` | the two conversations | parts of `Assistants` |
| `TelegramBot` | the thread of the admin bot and its channels | part of `Assistants` |
| `HunterDeals` | market, valuation, level, alert, the second judgement | part of `Assistants` |
| `License` | ledger, cookie, remembered password, gate | part of `Assistants` |
| `Assistants` | what faces the operator, one part per behaviour | |
| `AssistantsProofs` | the seven invariants of its five parts | |
| `MC*` | sets, sample values and symmetry for TLC | |

**Steps.** A step is everything between two points at which another thread can see or change shared
state: a database commit, a network call, a sleep, a wait for a lock, the opening and closing of a file.
`mark_processing` is one step and the call's outcome another; `set_phone` with `log_operation` is one
commit and one step, `bump_quota` the next.

**What is abstracted.** Ads are row ids (their order is the order of insertion, which the queues sort
by), accounts are model values. `relogin` and `disabled` are one status `out`: `pick` treats them alike.
Which ads match a search, the wording of messages and answers, and the delays are left out; a delay only
shows as a point at which others may step. In `Outreach`, accounts and captchas are left open: a message
may fail, a loop may be cut (`LoopCut`: the stop button, no account left, the batch limits 6 and 12 of the
hunter loops). In `Collector` the order by `retry_count` is left out, since the collector never raises it.
What a text means (`analyze`, the extractors of the wizard and of Tira) is given with the text.

### PhoneQueue

`phone_status`, `retry_count`, `acct`, `acctErrors`, `phones`, `used`, `current`, `signal` are columns,
files and objects of the code under their own names. `pc` is where a worker is:

    off -> idle -> scan -> fetch -> picked -> calling -> stored -> outreach -> fetch ... -> sweep -> idle
                             \-> wait -/

`scan` inserts rows that nobody else sees before `ScanCommit` (`rows`); while they are uncommitted
`WriteLocked` holds for everyone else, who waits, or gives up after five seconds (`DatabaseLocked`). An
operator's captcha confirmation uses the same `picked`, `calling`, `stored`. `Crash` is any process death:
`shutdown` calls `os._exit`. `AccountSet` is every other writer of an account's status: the watcher, the
panel, the command line. A status set through a torn `state.json` is `AccountFile`'s subject, not this
module's.

History variables, read by properties only: `stranded` (ads left in `processing` by a death or a locked
database since the last start, which puts them back), `monTaken`, `opTaken` (contacts of this quota
period), `lost` (stored, never to be counted).

### AccountFile

`Load`, `Open` (truncates), `Write` (fills) are the three steps of every update; `plan` is the list of
updates a caller makes: a blocked call is `set_status` and then `record_block`, a probe is `record_probe`
and then `set_status` with what the probe found, whatever the account has become meanwhile: the watcher
chooses the accounts it probes, and nothing looks again when the answer comes. A file that does not parse reads
as `{}`, as `_load_states` does.

### Collector

`phase` walks through `run_collection`: `search`, `select`, `login`, `targets`, `fetch`, `count`, `store`.
`consecutive` is the breaker's counter, `left` the quota read before the login, `targets` the rows chosen once.
A number is revealed at Divar (`Answered`), counted (`Count`) and stored (`StoreAnswer`) in three steps; the
count may fail before or after its commit (`CountFails`), and a death in between leaves a revealed number
uncounted. `token` is that of the collector's own client, read when the run begins: `relogin` logs in with
another client, so a run that began without a token sends a login request (`EnsureLogin`), and the first number
ends it (`NoToken`). The panel appears as `PanelClaim`, `PanelAnswer`, `PanelDies`. `revealed` and `uncounted` are
history variables: what Divar has answered today, and the counts of it that were lost.

### Outreach

`at` is the loop a worker is in, `pc` where its current message is: `sending` (checks passed, nothing
sent), `out` (delivered, not recorded), `recorded` (marketing only: recorded and not yet counted). Every
check reads the database at the moment the code does; values a loop read earlier are in `row`, rows it has
still to do in `todo`. Two queries of the code name a column the table does not have and fall back to
others or to nothing; the module has what then happens. `delivered` and `uncounted` are history
variables: the messages of today that reached a seller without being asked for by hand, and those of them no
count was written for, because a call failed after the delivery, the database was locked, or the program
died. `answers`, `doubt` and `overruled` are history variables too: the reasons for which an ad may be asked
again. `overruled` counts inquiries that were recorded as
sent and whose record another worker's `PageGone` then replaced: `inquiry_status` is 'gone', the ad may come
back through a requeue, and everyone may ask again. It takes three workers; the proof of `InquiredOnce` did
not go through without it, and TLC has the trace.

### Inbox

`BeginPoll` is one request for the provider's newest SMS (`poll_inboxes`, `sms.py:302`): `SmsBatch` of them, in
one order or the other, or none. For each `FindLead` (`find_lead_for_sms`: newest ad of the number, else by its
words), `CheckNew` (the SELECT of `save_reply`), `InsertReply` (its INSERT and commit) and `ApplySms`
(`apply_to_lead`) are steps of their own. A message is its words and its date, as `save_reply` compares them; one of
`Undated` comes without a date, for which the time of the poll stands, and is new in every poll. Then
`BeginChats`, `ReadPage`, `ChatInsert`, `ChatApply` do the same for the pages of the newest ads. The ad of a page is
the one its thread id was stored for, else the newest of the `ScanRows` rows whose id or title the page bears
(`FindForChat`): `Matches` says which pages bear the title of another ad. A page shows our own messages too; the code
reads its last eight lines without telling them apart, and our own quote the title of the ad, so the module lets
every line of a page mean anything (`SendChat`). `InsertFails`, `ApplyFails`, `ChatApplyFails` and `Crash` are what may
happen between the commits. `unapplied` is a history variable.

### DivarClient

`req` is the request a call is at, `todo` the transports not tried for it; `winner` is tried first. `Answered`
is an answer by the head of the chain, `NotReached` an error before the site, `AnswerLost` one after it: both
lead to the next transport with the same request (`_fetch`). What follows an answer is one operator per call:
`AfterUuid`, `AfterV2` and `AfterV1` for a number, `AfterMessage`, `AfterSearch`, `AfterLogin`. `ad` and `code`
are the truth at the site, to which the verdicts are compared. The panel's part of a login, `pending_logins`, is
in `Return` and `PendingAfter`.

### BrowserProfile

A request of the panel is a chain of steps over `_LIVE` (`live`), the window processes (`running`), the
port file (`cdp`) and the two files; each rewrite of a file is a read (`LoadMeta`, `ReadSession`) and a
write (`WriteMeta`, `WriteSession`). A chat takes the lock of the profile (`Acquire`, or `Busy` after its
timeout), connects to the process of the port file, navigates and acts. `Kill` asks a process to end, which may
be refused or fail unnoticed: the window is then in `strays`, as those are that a death of the program left. A
window whose entry in `_LIVE` another one takes is in `displaced`. `UserCloses` is the user at the window.
`NoProgram` is an `open_profile` that ends before it touches a window, because there is no Chromium; why there is
none is the subject of `Browser`. A port file names at most one process; two windows of one profile started
together are allowed, as the code has no check against it.

What a save finds in the cookies is the user's doing (`Found`): a site counts as logged in on any one of its
hint cookies (`SitesOf`), whatever its value, while a complete session needs every member of `Proofs`. Cookies of the
window are known by name as `session_is_complete` knows them; with fewer than five the code adds those of the disk,
whose values may be empty and replace the others (`chromium_profile.py:678`, `auth_session.py:195`), which the module,
without values, leaves out. `harvest` is a history variable: the proofs the last save that was written to
`account.json` had found.

### ChromiumInstall

`Press` is the panel's request (`start_install_async`), `PressAgain` one while a download runs, which
calls `status()` under `_LOCK` and stays there; `OpenProfile` runs `ensure_installed` in the caller's
thread. An installer walks through `look`, `probe`, `name`, `connect`, `read`, `placed`, `extract`,
`register`, with every failure at each. A zip is a few chunks; `part.from` keeps whose bytes they are,
which the code cannot know, and `meta` what `.part.url` says. Chromium may have been installed earlier, whole,
or not at all (`Init`).

### Browser

`open_profile` at the place where it needs the program (`Opens`): without a marker it runs the download in
its own thread (`Fetch`: `at[t]` leaves `off`, and the thread does nothing else until it is back), looks
again, and goes on to the windows (`GoOn`) or raises (`GivesUp`). `asked[t]` says whether its download was
run, and whether it raised (`Raises`). The other installers are the threads of the panel's button (`Press`) and
step at any time, also while windows are open. A death (`Death`) is one for both: the program is one process.
Every step of `Browser` is a step of `BrowserProfile`, of `ChromiumInstall`, or of both.

### HunterWizard and TiraAgent

A conversation is a step, the list of models with what is known of each, and an index. The reply to a
message is a function of both (`Reply`, `Answered`), with one operator per question of `handle_user`. The
endpoints have no lock. In the wizard a request may wait up to twenty seconds for the language model to word its
reply; three replies have something left to store behind that wait: the greeting that starts a session, the answer
to a greeting, and the announcement of new models at the confirmation, whose next question is chosen only then
(`replying`, `Finish`). Other requests of the session are handled meanwhile (`hurried`). What a request does without
such a wait is one step. Tira's product research and its look-up of a price (`Search`, `Found`) leave the session
open in the same way, and write what they find into the state as it then is (`overlapped`). `Command` is what
`try_system_control` and `execute_intent` do before any answer is read. Tira's `sold` and `gain` are the variants
whose price and profit were answered; `filled` those for which `FillIn` wrote the default, ten percent or
another variant's price, because conditions were told in place of an answer.

### TelegramBot

`Poll` asks the channel whose turn it is, `Execute` runs one message of the answer; the offset moves with
the last. Telegram and Bale drop what lies before the offset of a request that reaches them, Rubika keeps
everything. `PollLost` and `PollGarbled` are requests without a usable answer, `Die` a program that is
started again. `ConfigFails` is the reading of the configuration outside the `try` of the loop: an error there ends
the thread for good (`alive`), since nothing but a new start of the program starts another; `Stopped` is the panel
without its bot.

### HunterDeals

The judgement of vehicles, the profile for which the code asks back (`hunter_analyzer.py:459`). The arithmetic of
the code in integers: prices in one unit of money, percentages in tenths. The thresholds are settings of any value, with
the defaults the code puts in the place of a zero (`GoodPct`, `GreatPct`, `SuspiciousPct`). `Median`, the tenth
percentile, `AdjustmentPct`, `MileageAdjustment`, `Fair`, `RawLevel`, `Confidence`, `Missing` are the
functions of `hunter_analyzer.py` and `hunter_profile.py`; `Scan` is a found ad with its judgement, and
an answer that names a price is judged again with what it says (`_apply_hunter_reply`). Compared with the
Python code itself: 4,368 sequences of up to three ads and 3,699 sampled ones of up to five gave the same
levels, payloads and rows; of 5,309 judged replies one differed, where the tenth percentile equals the
price and the code's floating point rounds to the other side.

### License

Time is an hour counter. `Login`, `Renew` and `Return` are `license_login` and the two ways of
`license_me`; `Passes` is the gate. A cookie has the end of its signature, the license's last day at that
time, and how long the browser keeps it. Left out are the two minutes of grace `verify_payload` grants, less than
the unit of time, and an installation with `license_enforced` off, where there is no gate; the clock of the program is
taken to be the ledger's.

### Assistants

Wizard, Tira, bot, hunter and license do not read or write each other's state. The module instantiates
the five; a behaviour lets one of them work (`with`), so that the state space is their sum.


## 3. The runs

Every run is exhaustive on its instance, but for one constraint in `install` (below). Deadlock is checked in all
of them but those of `PhoneQueue`, `Collector` and `Browser`: a stopped monitor with the process's bounds used
up, a collector after its last run, and installers that all wait for a lock held for ever are at rest, the last
by a fault of the code that section 4 reports.

| Run | Question | Instance |
|---|---|---|
| `confirm` | five properties of the queue with a captcha confirmation beside the monitor | 2 ads, 1 account, 1 monitor, 1 operator, limit 1, 1 retry, 1 requeue |
| `one_monitor` | does the queue implement `LeadLifecycle` when one monitor works at a time, and is every queued ad claimed? | 2 ads, 2 accounts, 1 death, 1 requeue |
| `collector` | the limit of what is revealed, counting, fatal breaker | 2 ads, 2 pages, 2 runs, 1 death, 1 midnight, any number of failed counts |
| `account_threads` | when is an update lost, and is the file a table of statuses otherwise? | 2 accounts, 2 threads, 1 death |
| `outreach` | is an ad marketed once, and asked once per answer? | 1 ad, 1 monitor, 2 deliveries per kind, death, midnight, edit, reply |
| `outreach_limits` | the limits of a day, for what reaches a seller | 1 ad, monitor and operator, limits 1, death, midnight |
| `outreach_chats` | does every ad of the chat queue get its turn? | 2 ads, batch 2 |
| `inbox` | is a dated answer stored once, a stored one applied, a verdict something that was said to the ad, and every SMS read that the polls go on listing? | 2 ads of 2 sellers, one known by its chat only and named by the title of the other's page, 2 SMS of which a poll lists the newest, one kind without a date, 1 text per page, 1 monitor, 1 failure |
| `client` | true verdicts, messages delivered once, silence after a 429, codes not wasted | 2 threads, 1 ad, 2 phones, 2 transports, 2 codes |
| `profiles` | windows accounted for, own page, a login that stays | 2 threads, all requests, 2 windows, 1 site, 1 proof, 1 death |
| `install` | is what a window runs from whole, over deaths; one source; an end | 1 thread that opens a profile, 1 window, 1 installer of the panel, a foreign and a genuine source, zip of 2 chunks, 2 attempts, 1 death |
| `assistants` | the ten properties of the five parts | wizard: 2 requests, 12 texts, no further model but the two phones once one is named; Tira: 2 requests, 12 texts; bot: 3, 1 and 2 messages, answers of 2, 2 lost, 1 restart; hunter: 3 ads, 3 samples, 4 texts, 3 prices, 1 reply, a threshold of one percent; license: days of 2 hours, sessions of 2 days, cookies of 3, 9 hours |

**Why these bounds.** The properties are about one ad, one account, one file, or the distance of a counter from
its limit. Two ads are needed for the order of the queue, for a second claim at the limit and for a reply that
might reach the wrong seller; two accounts for a pick and for updates that collide; a limit of 1 puts every
claim next to the limit. Deaths, midnights, edits and requeues act between any two steps; a second one of a kind
meets a state the first could have met. Two threads make every overlap of two steps. `MaxRetry` bounds how often
an ad returns to the queue, and with it hides a loop the code has: `drain` never ends while a call keeps failing
(section 4). `MaxSends` bounds deliveries of a kind through a channel to one ad; two are enough to see one too
many. Two transports are a first and a last one. In the download one source fails the check for a Chromium and
one passes it, and a file of two chunks can be cut in between. `OverlapOrDeath` leaves out of `install` the
deaths after two downloads ran together: both invariants excuse that overlap from then on, and `DownloadEnds` is
about installers, which a death ends. The requests of a profile other than opening it do not look for the
program; they are in `profiles`. `MaxProducts` lets a text that names neither of the wizard's two phones be a
model only as the first: with three models one is neither first nor last. One proof in `profiles` is enough,
because each is found, stored and kept by itself. In `inbox` the batch is shorter than what arrives, so that an
SMS can fall off the list. A message more than one answer holds is needed to see an offset confirmed on the way,
hence three on one channel. In `HunterDeals` three prices are the number from which the code trusts a market;
the texts are a sound, a new, a used and a hit car, and the threshold of one percent and the prices are such
that a hunt above the median happens. They are in units of 100,000 toman, so that the products of `Affordable`
fit the integers of TLC. `inbox` has 556,320 states, `profiles` 8.99 million, `assistants` 639,218; the longest
run takes a little over two minutes on two workers. Licenses shorter and longer than a session occur.

**Fairness.** No fairness is assumed of users, operators, the panel or the network's answers.

* `PhoneQueue`, `Outreach`: weak fairness of each monitor thread's steps; `Inbox`: of the steps of a poll that has
  begun, and not of its beginning, since `drain` may keep the monitor for ever (section 4). The thread is never
  blocked for ever, because every call it makes has a timeout and every wait for the database ends after
  five seconds. What is not the program's to guarantee stands as a premise of the property: `QueueServed`
  assumes that blocks of accounts stop, and excuses a used quota, no usable account and a monitor that does
  not run; `ChatQueueEmptied` assumes that calls stop failing, loops are not cut and the user stops putting
  ads back; `EverySmsRead` that polls list the SMS again and again, failures being bounded.
* `Browser`: weak fairness of each installer's step; waits for hosts have timeouts.
* `Assistants`: the bot's thread as long as it is alive, and the end of each wait of the wizard for the language
  model and of Tira for the internet, which have timeouts. That the bot's thread stays alive is not assumed but the
  premise of `EveryMessageExecuted`. The user's next answer is fair too, but only as a way to say "if from some time
  on the questions are answered, one at a time": both `ConversationEnds` and `HuntEnds` have that as their premise,
  whatever was said before, and by however many requests at once.


## 4. Where the code and its documents part

Each finding quotes the sentence it contradicts in `PROJECT.json`. Where a sentence can be stated as a
property of a module, the module has it with the remark that the code does not keep it; TLC refutes it
within seconds when it takes the place of the properties of the configuration named here (those of the parts of
`Assistants` under the name of their instance, as `Wizard!ReadyAlwaysPriced`).

| Statement | Configuration | What happens |
|---|---|---|
| `PhoneQueue!IpLimitKept` (`unlock.py:79`) | `PhoneQueueConfirm.cfg` | a captcha confirmation reveals a number with the day's quota used |
| `Collector!EveryBlockTrips` (`collector.py:152`) | `CollectorQuota.cfg` | a block right after a new login is stored as an error, the breaker does not trip |
| `Outreach!HardLimits` (`monitor.py:724`) | `OutreachLimits.cfg` | negotiations are neither recorded nor counted, so nothing limits them |
| `Outreach!RoundsGoOn` (`monitor.py:1431`) | `OutreachChats.cfg` | one ad whose call always fails keeps the monitor in `drain`; no further round begins |
| `Collector!FatalEndsRun` (`collector.py:129`) | `CollectorQuota.cfg` | a run whose breaker is fatal sends the login request before it looks at the breaker |
| `Inbox!OneAdPerSms` (`inbox.py:67`) | `InboxPolls.cfg` with `SellerOf <- OneSeller`, `ChatOnly = {}` | an old answer is applied a second time, to a newer ad of the same seller |
| `Inbox!EverySmsStoredOnce` (`inbox.py:24`) | `InboxPolls.cfg` | an SMS without a date is stored, and applied, in every poll |
| `Inbox!VerdictFromItsSeller` (`inbox.py:60`) | `InboxPolls.cfg` | an ad is closed on the words of another ad's page, whose title it shares, or on our own |
| `Inbox!RepliedWasAnswered` (`monitor.py:1120`) | `InboxPolls.cfg` | our own chat messages are read as the seller's |
| `BrowserProfile!SavedLoginIsUsable` (`chromium_profile.py:138`) | `BrowserProfile.cfg` | a profile counts as logged in on one cookie, without a session that is complete |
| `HunterWizard!ReadyAlwaysPriced` (`hunter_ai_wizard.py:1100`) | `Assistants.cfg` | an "ok" while new models are being announced ends the dialogue before their prices are asked |
| `TiraAgent!SummaryIsAsked` (`tira_agent.py:941`) | `Assistants.cfg` | conditions told at a price are followed by a summary with prices nobody named |
| `TelegramBot!ThreadGoesOn` (`telegram_bot.py:440`) | `Assistants.cfg` | a locked database when the bot reads its configuration ends its thread for good |
| `HunterDeals!NoAlertAboveMedian` (`hunter.py:82`) | `Assistants.cfg` | with a threshold below 7.5 percent a new car above the median is a hunt |
| `Browser!NoSelfDeadlock` (`app_chromium.py:218`) | `Browser.cfg` | a second request for the download waits for a lock it holds itself |

The models have these as well; the first seven are findings:

* `installer/fetch_chromium.py:464`: the source that is tried next deletes the `.part` of the last one, and
  the download begins again (`Resume`); `fetch_chromium.py:435` promises the contrary.
* `chromium_profile.py:642`: the cookies of the second site are handed to a function that does not store
  them (`Found`, `WriteSession`).
* `web/server.py:302`: when every transport fails, the phone of a login is not put back and its code can no
  longer be entered (`dropped`).
* `hunter_analyzer.py:418`: the lift of the lowest tenth announces a damaged car at its fair price (`RawLevel`).
* `tira_agent.py:670`: the word for "disable" contains the word for "enable", and enables (`Disable`).
* `tira_agent.py:990`, `tira_commands.py:130`: "clean" at the price is answered with a confirmation although
  details are asked next, so the following "ok" is stored as details (`SellPrice`, `Details`); an answer that
  names all phones is taken for the command to watch them (`WatchCategory`).
* `hunter_ai_wizard.py:1141`: a correction at the confirmation becomes a new model, or changes the last one
  (`Confirm`, `CorrectLast`).
* `unlock.py:94`: a confirmation's write that meets a scan's open transaction (`monitor.py:313-334`) fails
  with "database is locked", and the ad stays `processing` until the next start; `docs/full-system-logic.md:105`
  leaves it `pending`. `NoLostLead` has it as `stranded`.
* `unlock.py:45`: an account released by the watcher or the panel keeps its count of errors, which only
  `web/server.py:518` resets; the comment at `monitor.py:1339` grants it three.
* `collector.py:97`: the comment says the blocked page is read again, the loop goes on to the next page.
* `collector.py:163`: a failed request stores `error`, a status no queue reads; `docs/full-system-logic.md:87`
  keeps the ad in the queue.
* `collector.py:76`: `reclaim_stuck_processing` is for abandoned jobs (`db.py:297`); the collector's start also
  takes back ads the panel's monitor is calling about (`PanelClaim`, then `BeginRun`).
* `accounts.py:91,96`: updates of two accounts that overlap lose one of them, a death between opening and
  filling `state.json` loses all; `accounts.py:5` says every account has a status file of its own.
  `LossNeedsOverlap` says that nothing else loses any.
* `monitor.py:1102`: `drain_chat` reads the newest rows of its queue. A failed chat stays there, so does an ad
  already `sent` to by an inquiry: with more such rows than one batch, older ads never get a turn. With
  `ChatBatch = 1` in `OutreachChats.cfg` TLC shows it; `outreach_chats` has the queue fit the batch.
* `monitor.py:503`, `monitor.py:1411`: an answered inquiry is sent again when the number is found, and a
  chat-only ad is marketed and then asked; `docs/auto-chat-sms-nlu.md:319` says one message per ad.
  `InquiredOnce` counts the answers.

Behaviour a reader of the models will meet, without a sentence that says otherwise: an SMS by hand looks neither
at the limit nor at an earlier SMS (`web/server.py:1760`); a poll's own time stands for a chat message, which is
then new in every poll (`inbox.py:24`); a window that survived the program, or the command to end it, is not in
`_LIVE` (`strays`), nor is one whose entry a second window took while requests overlapped (`displaced`); a 429
or 403 to the look at an ad is ignored (`client.py:950`) and a 404 of the old endpoint is taken for the ad's
(`v1Served`); a failed renewal leaves a license cookie in place; a percentage is read as a price by the wizard's
first number; fewer than three prices may raise an alert when no question is open; an unreadable Telegram answer
ends the bot's round (`PollGarbled`), and a restarted program executes again what Rubika still returns.
`nlu_model.py:347` has the start of `app_chromium.py:218`, with the same lock.


## 5. The proofs

Every safety invariant and action property of section 3 and both refinements are theorems, for every value of
the constants; each run shows the same on one instance. Where a property is not inductive as it stands, the
invariant that carries it is named below.

**Assumptions.** `ConstantsAssumption` and `WorkersAssumption` (PhoneQueue; finitely many monitors, monitors and
operators are different threads, `IpLimit > 0`), `AccountFileAssumption`, `OutreachAssumption` (finitely many
workers, at least one; limits above 0), `CollectorAssumption`, `InboxAssumption`, `ClientAssumption` (a chain of
at least one transport), `ProfileAssumption`, `InstallAssumption` (sources are numbered and finitely many; part
of `BrowserAssumption`, which adds that a thread that opens a profile may download), `AssistantsAssumption`
(those of bot, hunter and license; of the hunter it bounds what a flaw or a mark in a text adds to or takes from
a price, as the table of the code does; thresholds are any integers). TLC evaluates them in every run. The sets
of ads, accounts and operators may be infinite in `PhoneQueue`.

**One monitor.** Three theorems have the hypothesis `OneMonitor`: `StoredOnce` (Inbox), `MarketedForAReason`
(Outreach) and `MonitorImplementsLifecycle` (PhoneQueue, also without an operator at a captcha). It is the
case the code means, and the panel's check before a start is what should keep it; the check and the start are
not one step, so that two monitors are possible (`server.py:1464`). With two, each of the three properties is false:
both look before either writes, as TLC shows within seconds. All other theorems are for any number of monitors.

### The queue and its neighbours

* **`TypeCorrect` (PhoneQueue).** `TypeOK` is inductive; it includes that a worker past the pick has an ad
  and an account, which the later steps use.
* **`NoLeadLost`.** `NoLostLead` is inductive together with `TypeOK`: a step that ends a call writes the
  row or adds it to `stranded`; a step that sets `processing` makes a worker hold the row; a worker's
  other steps leave the rows of other workers alone.
* **`EveryContactCounted`, `LimitKeptByMonitors`.** They hold for any number of monitors: concurrent starts
  let in more than one, and `confirm` has one. The inductive invariant is `Budget`:
  `ContactsCounted` (what the quota row lacks is on its way or lost) and `ClaimsWithinLimit` (a claim
  counts as a contact from the pick on). The limit alone is not inductive: a monitor in `calling` may store
  another contact at the limit. At a pick the quota row is below the limit; the contacts it lacks belong to
  monitors in `stored`, the claims to monitors in `picked` or `calling`, both to other monitors than the
  picking one, hence at most `Cardinality(Monitors) - 1` together.
* **`FoundStays`.** A found number is overwritten only by a worker whose claim it took from under. The step
  of a scan would break it if a row it inserts could be another's: `RowsSound` says that the rows of an
  uncommitted scan belong to one monitor and exist for nobody else, and that a worker's ad has a row.
* **`MonitorImplementsLifecycle`.** With one monitor every step of `PhoneQueue` is a step of `LeadLifecycle`
  or a stutter. `Stage` hides the claim, so pick and claim stutter; that the outcome of a call starts from
  `queued` needs `Claimed`: the row of the monitor's ad is as the monitor read or wrote it.
* **`FileTypeCorrect`, `LossesNeedOverlap`.** The invariant adds what each thread holds between load and
  save: an update that overlapped none (`Alone`) has read what the accounts were last given, and the file
  is exact (`Exact`) for every account outside `blurred`.
* **`AloneImplementsRegistry`.** The same invariant says that with nothing overlapping there is at most one
  thread in an update; what it has read is what readers are shown (`Shown`), so `Write` is one atomic update
  of `AccountRegistry` and every other step a stutter.
* **`LimitKept`, `EveryAnswerCounted`, `FatalStops` (Collector).** `Budget`: what was revealed is what was counted,
  what was lost and the one in hand; and with what the run has still to do it is within the limit and the lost
  counts, since the rows were chosen once, for the rest of the day. `Counted`: the
  answers stored, and the one in hand, do not exceed those counted. `SearchesClosed`: the search phase never
  has the fatal breaker set, so no step after it asks about an ad; the login before the numbers is the one
  request left, and the statement says so.

### The sellers

* **`LimitsKept` (Outreach).** As for the phone queue, with one counter per channel, in two invariants. `Budget`: the
  automatic messages counted never exceed the quota column, and with those under way (`UnderWay`, from the moment
  a check passed) they are within the limit. `Accounted`: a message delivered today was counted, is on its way to
  be, or is in `uncounted`; so the bound of the first becomes one of what reached a seller. Steps are grouped by
  what they do to the messages under way: they ask (a check passed), keep, take away, or go on.
* **`AskedForAReason`.** For any number of workers: an ad gets one inquiry per worker, and as many again for
  each answer and each record that was overruled. `Stored` is the number of inquiries the database knows of, those
  delivered less those whose outcome was lost and those out and not yet recorded. While the row does not say
  'sent', `Stored` is within what earlier reasons allow; once it does, stored inquiries and the workers that
  may still ask (`Askers`, who read the row before) are together within one round more. A worker is not
  counted twice because the ad of its message is no longer among those it has to do (`Handed`).
* **`MarketedForAReason`.** An SMS follows the storing of a number, which happens once to an ad: `SmsOnce` says
  none was sent, or the contact is found and the phone queue does not take the ad again. All chats but one are
  excused by a lost outcome or an edit, and that one is recorded, or about to be (`ChatOnce`).
* **`StoredHasEffect`, `VerdictIsSaid`, `StoredOnce` (Inbox).** `InboxInv` says what a poll has in hand: an SMS is of
  the ad's seller, or of a stranger whose words named the ad; the damning words of a page were said on it, and it is
  the ad's own page or bears its title (`Heard`); a stored message has had its effect, has a poll about to
  apply it, or is in `unapplied`. `OnceInv`: what a poll is about to insert, if it has a date, is not stored yet.
  The batch of newest ads is a sequence sorted by a `CHOOSE`; that it exists follows from ranks (the number of newer
  ads), a bijection between ads and places, without induction.

### The site, the profiles, the download

* **`VerdictIsTrue`, `ChatArrivesOnce`, `QuietAfterLimit` (DivarClient).** One predicate per thread (`Sound`):
  at which request a call is (`AtWork`), that a verdict is true at the site (`Told`), that a message still
  under way has arrived only where an answer was lost (`Sent`), and that a 429 ends the call (`Quiet`).
* **`CodeCanBeEntered`.** `LoginInv`: unless two logins overlapped, a request was cut or the session dropped,
  one thread at most is in a login, and whoever holds `pending` can still enter the code of the last phone.
* **`WindowsKnown`, `PageIsOwn`, `LoginIsKept` (BrowserProfile).** The parts of `ProfileInv` have different
  premises. Whatever overlaps, every window is in `_LIVE`, at a thread, in `strays` or in `displaced` (`Known`), the
  lock of the profile is held by the one chat that is inside (`Locked`), and the page of an evaluation was opened by
  its thread (`Own`). While requests do not overlap, one thread is in the profile (`Apart`), between two windows
  there is none (`Closed`), and so no window takes the entry of another. Without a death in the middle of a write as
  well, what the last save found is in `session.json` (`Kept`), and what threads have read of the two files is
  current (`Fresh`).
* **`OneSource`, `InstalledIsWhole`, `ProfilesKeep` (Browser).** `BrowserParts`: every step of `Browser` is a step
  or a stutter of each component, so what is proved of one holds of both together. Of the download: while
  downloads do not overlap one installer is at work; the marker is there only with all the files, and an
  installer that fetches or unpacks found none (`Marked`): the old folder is emptied only then. The `.part` file
  is one source's, its name is in `.part.url` but for the moment in which `Resume` rewrites it, and the bytes
  counted are the bytes there (`Named`). Both hold over any number of deaths; a death in that moment is `torn`.
  That the program a window runs from is not taken away needs both components: the marker, once there, is
  never taken back (`MarkerStays`); a thread between `kill` and the new window, and every window there is,
  has the marker (`Launched`), since `GoOn` looked for it.
* **`DownloadGoesOn` (Browser).** The half of `DownloadEnds` that needs no fairness: whatever happens, an
  installer's next step takes it to a later source or further with the one it has (`Forward`: another attempt,
  another chunk, another file), ends it, or leaves it where it is (`NoWayBack`). All of these are finitely many,
  so only an installer that is kept from stepping does not end.

### What faces the operator

* **`SessionEnds`.** `GateInv`: the end in a cookie's signature is within the license it was signed for and
  within `SessionDays` of the last look into the ledger. The lemmas are about days and hours.
* **`NoMessageDropped`, `OneAnswerRepeated`.** `BotInv` follows the messages of a channel: the rest of an answer
  is its end, lies behind what the channel has dropped, and within one answer of it (`BatchIsNext`); what lies
  before `Reached` was executed, what lies behind it only by earlier programs (`InOrder`); each death adds at
  most one answer to what is executed again (`FewAgain`).
* **`ReadyHasPrices` (wizard), `SummaryHasPrices` (Tira).** `Sound` and `Settled` say, for each question a
  conversation can be at, which models have their prices: all before the index, and the sell price of the one
  at it when the profit is asked; for Tira, or were filled in. `Unfinished` and `StillAsked` say what a request that
  waits for the language model, for the internet, will find, unless a message was handled meanwhile.
* **`NoHuntAboveMarket`, `HuntIsInformed`.** For thresholds of any value, zero standing for the default: a hunt
  by its discount costs at most its worth less the lower threshold, and what a car's condition may add to the
  median of sound cars is eight percent (`AdjustmentBounded`, `FairBounded`); from 7.5 percent on that is at
  most the median. A hunt by its place in the lowest tenth costs less than the median. With fewer than three
  prices and a question open, the confidence stays below the level of a hunt. Median and percentile are taken of
  sorted sequences, whose existence needs no induction.

**Model-checked only.** Liveness: `QueueServed`, `ChatQueueEmptied`, `EverySmsRead`, `DownloadEnds`,
`ConversationEnds`, `HuntEnds` and `EveryMessageExecuted` rest on fairness and ENABLED, which the proof system
does not handle. `HunterDeals` sums over sets with a fold of the community modules; its theorems need bounds of
the terms only. No module declares a recursive operator.


## 6. Not modelled, and why

* Text: matching, categories, cities, language rules, templates, what `inspect_vehicle` and the extractors
  read in a text, the wording of notifications. The result is an input of the models.
* Network protocols, signatures, the browser's pages: external; their outcomes are inputs.
* The puzzle view (`session_view.py`): a mirror of a page for the user; of its functions only the collection
  of a site's session changes files, and that is in `BrowserProfile`.
* `nlu_model.py`: the download of the language model has the steps of Chromium's without its resumption by
  source; the model's answers are external. `nlu_memory.json` (learned rules) is rewritten without a lock
  as `state.json` is; what its rules decide is the meaning of a text.
* The resale calculator and `market_research.py`: functions of text found on the internet.
* `draft_flow` of `messaging.py`, SMS delivery status: no effect on the queues.
* Settings: single rows; they are constants of the models, so that no run changes one in the middle.
* Process start, packaging, diagnostics: no shared state.
* Delays and rate limits as times: only the points at which others may step are kept. Hence
  `next_probe_wait` and the notices of `watch_loop` are left out; what a probe does to an account is in
  `AccountFile`, that it may come at any time in `PhoneQueue`.


## 7. The plan

The modules of the plan are written and their safety properties and refinements proved. What would add most
next:

1. Proofs: what `DownloadGoesOn` is for the download, for the other liveness properties (which step brings a
   queued ad or an SMS forward, and that no other step takes it back): the part that needs no ENABLED; the
   operators of `HunterDeals` one by one (`Median` between least and greatest, `Confidence` within 0..100).
2. Models: a table of window processes as the abstraction `BrowserProfile` implements for one thread; which
   of two monitors a stop reaches; a delivery log that `Inbox` implements.
