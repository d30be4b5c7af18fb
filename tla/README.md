# A verification of telegram-sales-bot

TLA+ modules, TLC runs and machine-checked proofs about the Telegram sales bot
of this repository: a FastAPI process that runs a public challenge bot, an admin
bot, one or more user accounts that talk to customers and publish into channels,
and a set of periodic jobs, over PostgreSQL and Redis. Paths below are relative
to `src/app/`.

Every part of the program that keeps state other parts decide on has a module;
section 7 says what is left out and why.

## 1. Inventory

One process (`main.py`) runs everything as asyncio tasks: no two handlers run at
the same instant, but every `await` (database, cache, Telegram, AI) is a point
where others run. An optional second process (`workers/arq_worker.py`) takes over
the periodic jobs. All state that outlives a task is in PostgreSQL, in Redis (or
in the in-process store that replaces it), or in a handful of module globals.

Two facts about `db/session.py` shape everything: sessions are created with
`expire_on_commit=False` and `autoflush=False`. A handler therefore works on
objects it loaded once, possibly long ago, and a commit writes the absolute
values of the columns it changed. There are no row locks, no `SELECT FOR UPDATE`
and no version columns; only unique constraints stop a write.

| Component | State | Operations | Hard behaviour | What makes it correct | Module |
|---|---|---|---|---|---|
| Challenge play (`services/challenges/service.py`, `public_bot.py`) | `public_users`, `challenges`, `challenge_participants` | `/start`, `/profile`, `/referral`, accept terms, open challenge, answer | double taps, stale copies, late taps, referral chains, rows older than users | counts covered by rows, points by answers and rewards, records stay, nobody plays without accepting the terms, no referral cycles | ChallengePlay |
| Post life cycle (`channel/publisher.py`, `scheduler.py`) | `posts`, `post_count`, pause flag, the publisher's manager | create, sweep, publish now, send now, flash sale, auto-post, announce | crash between send and commit, stale counts, pause in flight, start-up order | "published" is true, counts are covered, nothing is sent twice, due posts are dealt with | PostPipeline, PostOutbox |
| Auto-poster (`channel/auto_poster.py`) | lock and cooldown keys, pause flag, posts of type rdp | cycle, post now, reset, pause, resume | lock expiry under its holder, store loss, restart between post and mark | exclusion per channel, spacing of cycles | AutoPoster |
| Challenge rounds (`service.py:354-571`) | challenges, the process's first look | due check, order by hand, announce, commit | minutes between check and commit, retries, restarts | scheduled challenges are an interval apart | ChallengeRounds |
| Force-subscription gate (`force_sub.py`) | 60 s result cache | check, verify, leave event | a check in flight stores its result after an invalidation | Verify is fresh, a handled leave sticks | MembershipGate |
| Userbot manager (`userbot/manager.py`, `client.py`, `reconnect.py`) | clients, registered handlers, failure counters, tasks | start, stop, restart, add, health round | restart keeps the set of registered accounts, taps while a loop reconnects | messages are answered once, a lost link is noticed, stopped means silent | UserbotManager |
| Sales dialogue (`userbot/handlers.py`, `sales/lead_manager.py`, `ai/memory.py`) | customer, conversations, leads, memory, cached ids | a message from its row to its reply, extraction of facts | cache written before the commit, roll-back at any step | one conversation, lead and fact row, scores only rise | SalesDialog |
| Redis client (`cache/redis_client.py`) | one client: server or in-process | get, fail over, retry | callers overlap at the ping | - | RedisFallback |
| Anti-spam (`services/anti_spam/`) | strikes, blacklist, last score | score, strike, ban | read-modify-write of strikes over a store that changes | the third strike bans, and only texts do | SpamGate |
| AI engine (`ai/engine.py`) | end of the quota cooldown | five kinds of calls | refusals come back during a cooldown | silence after a refusal, every call ends | AiEngine |
| Post wizard (`admin_bot/handlers/publishing.py`) | dialogue state, previews | write, regenerate, image, send, cancel, flash sale | buttons of old previews, presses while a handler runs | what was shown is sent, and not again, unless a call fails | PostWizard |
| Channel registry (`channel/auto_discover.py`, `api/v1/channels.py`) | `telegram_channels` | scan, add, deactivate | two scans at once | one row per channel, rows mirror the scan | ChannelRegistry |
| Proxies (`proxy/checker.py`, `handlers/proxy.py`) | `proxies`, `proxy_id` of channels | add, check, spread, remove | presses overlap, removal in two statements | no channel on a removed proxy, even spread | ProxyPool |
| Alerting (`services/monitoring/`, `workers/tasks/monitoring.py`) | alerts, cooldown keys, last status | health round, load, lost account | the store it needs is what is down | one report per condition and cooldown, a lasting load is repeated | HealthAlerts |
| Start-up (`main.py`) | task handles, order | start services with timeouts | the first sweep, a start cancelled after 30 s | inside PostPipeline, UserbotManager, ChallengeRounds | - |

`PROJECT.json` lists the same components with their files and status, and under
`hazards` the places in this code that a test would hardly reach, each at its
line, with the properties that watch over it.

## 2. Modules

In every module a step is what happens between two awaits that matter, and an
operation that the code runs as one transaction becomes visible when it commits.
History variables (named as such in the modules) exist for the properties only; no
guard of the code's behaviour reads them.

### ChallengePlay: how members of the public play

| Code | Model |
|---|---|
| row of `public_users`, by `telegram_id` | `members`, `account[u]` (terms, referrer, rewarded, points and counters) |
| row of `challenge_participants` | `joined`; the columns `public_user_id`, `answer_submitted`, `answer_correct` are the sets `linked`, `submitted`, `right` |
| `Challenge.status`, `ends_at` | `status[c]`, `closed` |
| one update in progress | `task[h]`: handler, position, user, payload |
| `public_user` object in the handler's session | `me[h]` |
| `referrer` object | `boss[h]` |
| none | `granted[u]`, a history variable: the rewards committed for u |

`Begin` is the delivery of any update the bot understands; `LoadUser` runs
`get_or_create_public_user` up to its first await (for `answer` with the checks
around it); `CreateUser` and `Enrol` are the inserts, which the unique constraint
may refuse; `LoadReferrer` and `Accept` are `accept_terms`; `Choose` and
`SendChallenge` decide what to show; `EnterChallenge`, `Join`,
`RefreshParticipant` and `Link` are `register_participant`; `Record` is
`submit_answer`; `Abort` is an exception, a cancelled task or a restart, at any
point. `Record` writes only columns whose value differs from what was loaded,
because SQLAlchemy's unit of work does; that is why a racing wrong answer does not
take a right one back.

The initial states contain any set of participant rows without `public_user_id`:
the migration `9c7d2e4f1a6b` added users later than participants.

### PostPipeline and PostOutbox: the life of a post

| Code | Model |
|---|---|
| committed row of `posts` | `status[p]`, `aim[p]`, `log[p]`, `due` |
| committed `post_count` | `count[c]` |
| `system:posting_paused`, the publisher's `_userbot_manager` | `paused`, `ready` |
| a call that publishes, in its session | `job[j]`, `mine[j]` (assigned statuses), `copy[j]` and `bumped[j]` (channel objects), `found[j]` (results) |
| Telegram | history variables `sent` and `feed` |

`CreatePost`, `StartSweep`, `PublishNow`, `SendNow`, `AutoPost` and
`AnnounceChallenge` are the callers; `Pick`, `Check`, `Send`, `Conclude` and
`Raise` are the loop of the sweep and `publish_post`; `Commit` and `CommitFails`
end a session; `Restart` drops all sessions of the web process and takes the
manager away until `SetPublisherManager`. `Send` has the three outcomes the code
can produce for a channel: nothing delivered, delivered but reported as an error,
delivered and reported.

`PostOutbox` is what the pipeline promises to whoever reads the rows, in 54 lines
without sessions or publishers: a row waits, is taken up and is settled; a settled
row never waits again and never disappears; a channel a row reports has received
the post, and a row turns "published" only when some channel has. `Outbox` in
PostPipeline maps its three variables to `status`, `log` and `sent`.

### AutoPoster: when posts go into the channels

| Code | Model |
|---|---|
| `autoposter:lock:*`, `autoposter:cooldown:*`, `autoposter:global:last_posted`, `system:posting_paused` | `locked`, `cooled`, `marked`, `paused` |
| published posts of type rdp younger than three hours | `served`, as pairs of channel and origin |
| posts the posters committed as scheduled | `leftover` |
| the loop and the post-now jobs | `poster[j]`: position, channels left, channel in hand |
| none | history variables `lapsed`, `blind`, `reset` |

Time is abstracted to its events: a lock expires (`ExpireLock`), the global key no
longer counts (`ExpireMark`), posts grow old (`PostsAge`). A publication is one
step, because its inside is PostPipeline's concern; the post-now jobs, the sweep
over what was left scheduled and the unlocked broadcast of the admin bot run
concurrently with the loop. `LoseStore` stands for a restart of Redis as well as
for `get_redis` going over to another store.

### UserbotManager: the accounts that answer

| Code | Model |
|---|---|
| `telegram_accounts` (row, `is_active`, session string) | `known`, `active`, `authed` |
| a `UserBotClient`: `_is_connected`, Telethon's link, event handlers | `object[o]`: `flag`, `link`, `wired`, with the account it is for |
| `_clients`, `_reconnect_failures`, `_handlers_registered`, `_running` | `clients`, `failures`, `registered`, `running` |
| health tasks and keeper tasks; the pair the manager can cancel | `health[l]`, `keepers`; `task` |
| start-up, taps of the admin, `POST /accounts` | `job[j]` |

A client object outlives its place in the table: it may still be linked and still
call its handlers, which is why objects and accounts are different sets.
`AddNext`/`Added`/`NotAdded` are `add_account`, with `Wire` for
`_register_handlers`; `BeginStop`, `StopOne`, `StopBroken`, `StopDone` are `stop()`
with its await inside an iteration; `CheckNext`, `AttemptFailed`, `Relinked`,
`RelinkUnseen`, `Rewired`, `GaveUp`, `HealthDies` are a health round with
`reconnect_with_backoff`; `Aborted` is the 30 s timeout of the start-up, a database
that fails or an account without a session.

### SalesDialog: messages of one customer

`customer`, `talk`, `lead` and `memory` are committed rows; `cached` are the keys
of the conversation, the lead and the memory; `run[h]` is a handler with all its
transaction has written so far. The steps follow `handle_private_message` from
`Receive` to `Answer`: customer, conversation (`ReadTalkKey`, `FindTalk`,
`NewTalk`, `KeepTalk`), lead (`ReadLeadKey` ... `KeepLead`), memory (`Upsert`,
`Forget`, `Context`, `Recall`, `Remember`), `Commit`, and `Fail` at any point.
`Extract` is the background extraction, with a transaction of its own. A score is
any of 0..`MaxScore`: how a classification makes one (`_calculate_lead_score`) is
data. `Expire`, `PatchLead` and `CloseTalk` are the cache and the REST calls.

### RedisFallback and SpamGate: the anti-spam gate over its cache

RedisFallback is `get_redis()` with its two stores: `Ping`, `Pong` and
`PingFailed` are its await, `got[k]` the client a caller works on, which may be
another than `client` by then. `SpamGate` EXTENDS it: every cache operation of
`should_block` and `add_strike` (`Listed`, `CountMessage`, `AddPrevious`,
`StoreScore`, `ReadStrikes`, `WriteStrikes`, `Blacklist`) is one step on the store
its caller holds. Scores are in hundredths, and a sum of exactly 0.80 may or may not
reach the threshold, as floating point may round it down.

### MembershipGate: who may use the public bot

One user, the channels, the stored result (`cache`), and `check[j]` for every
update under way: `Update`, `TapVerify` and `HandleDeparture` start a check,
`Answered` is Telegram's answer for one channel or an error, `Conclude` the end of
`gather` and the store of the result. An error that names the user or the chat as
not found (`not_found`) counts as not joined, any other leaves the channel
unverified; both can come for a member, and both refuse. Only channels where the bot is administrator
(`Watched`) tell of a leave.

### ChallengeRounds: when challenges are made

Hours, committed rows (`round`), and creations under way (`maker`), by the
scheduler (`LookDue`) or by hand (`Order`): `Written`, `Announce`, `Store` or
`Failed`. `boot` is what the first look after a start did, and `Reboot` the start.
A process that dies between `Announce` and `Store` leaves an announcement
without a row.

### AiEngine: calls of the AI provider

`until` is `_quota_exhausted_until`, `call[c]` a call with its attempts. `Refuse`
and `SendRequest` are the test before a request, `Answered200`, `QuotaError` and
`OtherError` what comes back, `Resume` the end of a wait. Two errors stop the calls:
one that is about the quota or key, and one whose text only looks like it.

### PostWizard, ChannelRegistry, ProxyPool: the admin bot

`PostWizard`: `fsm` and `draft` are the state and data of the chat in the
dispatcher's storage, `shown` the previews whose buttons are there, `task[t]` the
handlers under way (generation, photo, publication, flash sale). Any button of any
message can be pressed at any time. The calls that delete the waiting
message, tell of a failed preview or tell an outcome stand outside any `try` and
before `state.clear()`: each may raise, which ends the handler and leaves state and data as they are. The error is only logged
(`admin_bot/bot.py`), and since the webhook has been answered by then Telegram does
not repeat the update. `PreviewFailed`, `NotPublished` and `ReportFailed` have that
outcome, and `unheard` and `unshown` record which texts it concerned. A publication
that raises after the post is out, as a failing commit does, is a `Published` like
any other; only what is told differs. `Banner` says whether the banner's file is
deployed.

`ChannelRegistry`: `posting` are the channels where the account may post, `row` the
table, `scan[s]` a discovery between its read of the dialogs, its read of the rows
and its write; `PostRow` and `DeleteRow` are the REST calls.

`ProxyPool`: `pool[p]` and `via[c]` are the rows of proxies and the channels'
`proxy_id`; `press[h]` is a check, a spread or a removal. A removal's first
statement locks the channels it unassigns until it commits, and its second sees
what was committed in between (READ COMMITTED). `Post` is what the publisher makes
of a channel that has a proxy.

### HealthAlerts: what the admins are told

`services` and `load` are the world, `last` and `cool` the keys in the cache,
`report[w]` a task inside `send_alert`: `AskCooldown`, `CommitAlert`,
`SetCooldown`, `Tell`, each of which raises when what it needs is down. `Probe` and
`ReadLast` are the health task, `Measure` the thresholds, `Lose` the report of the
userbot's health task.

### Composition

The modules meet where one's action is another's effect: `publish_challenge` is an
`AnnounceChallenge` of PostPipeline, the `Announce`/`Store` of ChallengeRounds and
the `Publish` of ChallengePlay; `publish_post` is a `Publish` of AutoPoster and the
`AutoPost` ... `Commit` of PostPipeline; `Lose` of HealthAlerts is the alert inside
`AttemptFailed` and `GaveUp` of UserbotManager. SpamGate is composed with
RedisFallback in one state space. Each of the others contains its neighbour's
effect as an action of its own, free to happen at any time, which is more than the
neighbour does.

Parts that share no state are checked side by side in one run by a module that
EXTENDS them: `AdminPanelMC`, `BotServicesMC`, `GatesAndRoundsMC`, `MaintenanceMC`.
A variable `part` says which of them a behaviour is about and the others stay as
they start, so the states add up instead of multiplying; the parts use the same
small sets, so that one symmetry serves them all.

## 3. Runs

| Run | Instance | States | Shows |
|---|---|---|---|
| `challenge_play` | 2 users, 2 challenges, 2 updates; either one challenge without legacy rows, or one user with any legacy rows | 4.4 M | points, counters and records are covered by the rows under any interleaving; no referral cycle; nobody plays without accepting the terms |
| `auto_posts` | 2 channels, loop and 2 jobs; either one channel in use, or the loop alone | 1.3 M | the lock excludes unless a key is lost under its holder; two cycles never fall within three hours while the database answers |
| `post_rows` | 2 posts, 2 channels, sweep and one other publisher, 1 publish call; either 1 pause or 1 fault | 4.6 M | "published" is no lie; counts are covered; nothing is sent twice without a fault or the publish endpoint; the outbox is implemented |
| `maintenance` | 2 posts, 1 channel, 1 call, 1 pause, 1 fault; 1 task that reports a lost account, 1 service down at a time | 0.8 M | every due post leaves the state scheduled; no condition is reported twice in its cooldown; a lasting load is reported for ever |
| `bot_services` | 1 account, 2 client objects, start-up and 2 taps, 1 loop; 2 AI calls, cooldown of 2 in 5 ticks | 0.6 M | one handler per account; a stopped manager is silent; a lost link is dealt with; silence after a refusal; every call ends |
| `admin_panel` | 2 handlers over 2 proxies and 3 channels, over 2 texts, each sent at most twice, over 2 channels and 3 rows | 2.3 M | no channel on a removed proxy, an even spread; the text shown last is sent, and neither another nor one twice, unless a handler ended early; one row per channel, rows mirror the scan |
| `gates_and_rounds` | 2 checks of 2 channels, 1 of them watched; 2 messages and at most 3 spam texts; 2 creations of 3 challenges in 4 hours | 3.3 M | Verify answers from what it asked after the tap, a handled leave sticks; bans come from texts and from the third strike; scheduled challenges are an interval apart |
| `sales_dialog` | 2 handlers, 2 conversations, 2 leads, 1 fact, scores 0..1 | 4.1 M | messages in order leave one row of each and never lower a score, however transactions fail |

Four more runs refute what a docstring, a log line or a text of the bot says; the
findings in `PROJECT.json` quote the lines.

| Run | Refutes | What happens |
|---|---|---|
| `challenge_attempt` | "Each participant gets one attempt." | two taps load the row unanswered; the second commit replaces the first verdict |
| `post_worker` | "process every due post" | the worker's publisher has no manager; the post stays in publishing |
| `poster_overlap` | "prevent duplicate concurrent posts" | the 90 s end while the holder waits for a flood limit |
| `userbot_deaf` | "handlers_already_registered_skipping" | after a restart (`stop()` and then `start()`), with nothing overlapping it, the new client is connected and has no handlers: no message is answered any more |

**Bounds.** Two handlers are the smallest number that races, and every race found
needs just two; each module has two of whatever its handlers are. Users: a referrer
and an invitee. Challenges: two, so that taps on different challenges share the
user row. Posts and channels: two each, so that a sweep has a batch, a post can
succeed in one channel and fail in another, and counts of a channel come from
different posts. Client objects: two, the forgotten and the new one. Three
channels over two proxies make an uneven spread possible; three rows over two
channels leave room for a duplicate. The hours of `gates_and_rounds` hold an
interval of two, a challenge of three and a retry; the ticks of `bot_services` two
cooldowns. `MaxRequests`, `MaxPauses` and `MaxFaults` bound how often the publish
endpoint is called, posting is paused and a process or commit fails: one of each
separates "before", "during" and "after" for every other step. `MaxSpam` is the
number of strikes that bans. `MaxPosted` lets a text go out a second time, which is
what `SentOnce` is about. `Banner` is true, as in the repository's deployment; only
`ImageIsAttached` depends on it, and fails either way. For the properties that are proved (section 5) the
bounds do not matter.

`challenge_play`, `auto_posts` and `post_rows` use a state constraint, `Small`, that joins two
shapes of an instance whose product is too large: TLC explores all states of both.
A pause and a fault together are in `maintenance`.

**Symmetry** permutes sets whose values play equal roles, and is used only in runs
without liveness; `maintenance` and `bot_services`, which have it, use none. With
action properties it is sound because the properties quantify over all of the set.

**Deadlock** is checked where a system can always go on. `post_rows`,
`post_worker` and `maintenance` rest when the bounds are used up and nothing is due;
`sales_dialog`, `bot_services` and `userbot_deaf` when ids or client objects run out.

## 4. Fairness

Four modules have liveness.

**PostPipeline** (`DuePostSwept`): weak fairness of

- `StartSweep`: the loop of `_web_maintenance_loop` catches every exception and
  comes round every 60 s; the worker has a cron job;
- the steps of the sweep: a coroutine that is ready is resumed, and every call it
  waits for has a timeout or returns an error, which is an outcome of the step;
- `SetPublisherManager`: `_background_init` reaches line 195 whatever the earlier
  services do, because each is bounded by `_timed`;
- `ResumePosting`: the pause flag has a life of seven days.

`StartSweep` can be disabled by a pause, whose number is bounded. No fairness is
assumed for other publishers, for Telegram's success or against faults.

**HealthAlerts** (`LoadKeepsRinging`): weak fairness of the steps of a task the loop
awaits, and of the expiry of the cooldown key of the loads, which has a TTL; strong
fairness of `Measure`, because the loop comes round to it every five minutes although
other tasks and failing rounds keep it from doing so in between.

**UserbotManager** (`LossNoticed`): weak fairness of a health task's steps; strong
fairness of the end of a reconnection (`Settled`), since `reconnect_with_backoff`
counts its attempts and so cannot go from attempt to attempt for ever. Nothing is
assumed of taps, of Telegram or of the alerts.

**AiEngine** (`CallEnds`): weak fairness of every call's next step: the HTTP client
has a timeout of 60 s and the waits between attempts are bounded.

In the union runs the same fairness is stated for each part, and a step of one part
is a step of no other.

## 5. Proofs

The `...Proofs` modules hold the theorems, checked by tlapm for every value of the
constants. Every invariant and every action property that a run checks is also a
theorem; only the liveness properties are not. None of these invariants is
inductive, and each proof is about what has to be added. TLC has checked the
strengthened invariants on the instances of the runs before they were proved.

| Module | Proves about | Theorems |
|---|---|---|
| `ChallengePlayProofs` | ChallengePlay | `TypeCorrect`, `RecordsStaySafe`, `CountersSafe`, `PointsSafe`, `ParticipantsSafe`, `ReferralsSafe` |
| `AutoPosterProofs` | AutoPoster | `TypeCorrect`, `LockSafe`, `SpacingSafe` |
| `PostPipelineProofs` | PostPipeline, PostOutbox | `TypeCorrect`, `PublishedSafe`, `CountSafe`, `DeliveredOnceSafe`, `OutboxImplemented` |
| `BotServicesProofs` | UserbotManager, AiEngine | `ManagerTyped`, `AnsweredOnceSafe`, `StoppedIsSilentSafe`, `EngineTyped`, `QuietSafe`, `BotTyped` |
| `SalesDialogProofs` | SalesDialog | `DialogTyped`, `OneOfEachSafe`, `ScoreNeverFallsSafe` |
| `GatesAndRoundsProofs` | MembershipGate, SpamGate on RedisFallback, ChallengeRounds | `GateTyped`, `VerifySafe`, `RevokedSafe`, `BannedForTextSafe`, `StruckOutSafe`, `RoundsTyped`, `RoundsApartSafe`, `GatesTyped` |
| `AdminPanelProofs` | ProxyPool, PostWizard, ChannelRegistry | `RemovedSafe`, `SpreadSafe`, `SentOnceSafe`, `LatestIsSentSafe`, `OneRowSafe`, `MirrorSafe`, `PanelTyped` |
| `HealthAlertsProofs` | HealthAlerts | `AlertsTyped`, `QuietHourSafe` |

**Assumptions.** Those of the modules, which TLC evaluates in every run: a value that
stands for "none" is not a member of what it stands beside; the accounts, proxies,
channels of the proxies, handlers and callers are finite sets, as the rows of a
table and the tasks of a process are; ids, scores, hours and limits are natural
numbers; the loop, the boot and the watch are not among the manual jobs. Two
theorems have a hypothesis besides. `RoundsApartSafe` needs `Duration >=
Interval`: the scheduler counts the interval from the begin of the transaction
that makes a challenge, which starts later by the time it takes to be written, and
with a shorter duration the next one then starts less than an interval after it,
as TLC finds with a duration of 1 and an interval of 2. The defaults make the two
equal (`core/config.py:60-61`), and so does `.env.example:56-57`, but nothing in
the code keeps them so. `QuietHourSafe` needs `OneReporter`: two tasks that report
the same account both look at the cooldown before either sets it. The health task
is one, unless a start overlaps a stop (section 6).

**ChallengePlay.** Nothing in the invariants says what a
handler's stale copy may contain. `IInv` is `TypeOK`, the facts
about the tables (`Tables`: linked rows belong to members who accepted, right
answers are submitted ones, counters are covered) and, for each handler, `CopyOK`:
its copy of the user was covered when it was loaded, it is still covered because
the sets only grow, and the challenge about to be counted is not among those the
copy has counted. That last part carries the argument for double taps. The
handler's copy of the user is older than its look at the participant row: when the
row was still unanswered then, the older copy cannot have counted it, so adding one
to the copy stays within the rows after the answer is recorded, however many
others have been recorded meanwhile. An increment of the row as it is in the
database would count a double tap twice, which is what the mutant
`RecordInDatabase` shows: the stale copy is what keeps the counters from growing
too large, and also what makes them miss a tap. For referrals, `NoReferralCycle`
says that in every group of users somebody was referred from outside the group;
`Forest` adds that a row refers to rows that exist (`Rooted`), also when it is about
to be inserted (`Fostered`). A newcomer then only ever points to older rows.

**AutoPoster.** `LockInv` adds to
exclusion that whoever is inside a channel still has the key in the store, unless
a lapse was recorded; then nobody can acquire it, and releasing deletes only
one's own. `SpacingInv` says
that no young post carries the label of an earlier cycle, unless the database
failed: only `StartCycle` relabels the loop's posts, and it then has found `served`
empty.

**PostPipeline.** `Backed` says that what a session has found was sent and that
its copies of channels count no more than was received: a commit then writes
nothing that is not covered, however old the copy. `Owned` says that a job holds a
new row alone, and that nobody ever assigns "scheduled" to a row that has been
committed; with `Backed` it gives the step simulation, in which a commit is a
`Settle`, a new row an `Accept`, a sending a `Deliver`, and all else a stutter.
`Once` (as long as nothing fails or is repeated) says that a waiting post that no
sweep holds was not sent, and that what a job has still to send was not sent
either: every channel has then received as many messages as posts.

**UserbotManager.** For `AnsweredOnceSafe`, `Once` adds that whoever has handlers belongs
to a marked account. No action takes a mark back, so the client that gets
handlers is the first of its account. It is the same set that makes accounts deaf
after a restart: the marks that guarantee one handler at most also prevent the
second client from getting its own. `StoppedIsSilent` speaks only of the end of a
stop; `Orderly` says how a manager that only one job works on at a time looks in
between. Every connected client is in the table (`ClientsInTable`) or still on the
list of the stop; the loops that are awake are those of the last start, and they
touch only clients of the table (`LoopInOrder`); the client being added is not one
of those yet (`JobInOrder`). The size of the table that a stop remembers is how it
notices that the table changed under it.

**AiEngine.** `Remembered`: the cooldown that runs is at
least that of the last refusal. Time only goes forward, so a later refusal never
shortens it.

**SalesDialog.** The types need two facts: a fact has no more rows than handlers
that inserted or may still insert one (`Counted`), and a score is there only after
the lead was made (`Scored`). `Orderly` says why a message makes no second
conversation or lead: the one that is active or open has its id in the cache, so
a handler that goes on to make one has looked and found nothing (`InOrder`), and
the id of the one it makes is cached before its row is committed. The cached id of
a row that was rolled back does no harm, because a handler looks whether the row is
there. A lead is updated only with a higher score, on the row that was read.

**MembershipGate.** `Told` says that where
Telegram answered a check, and not with an error, the answer was so at some time
since the update came; `Barred` that
while the gate is settled there is a channel the user is not in and that no check
in flight counts on, so no check can end with everything joined.

**SpamGate.** `BannedForText` compares a ban with the texts that scored. `Charged`
counts: the strikes in either store, together with the messages under way that can
still get one (`Pending`), are no more than the messages whose text scored, and the
same holds for the number a message has read and will write back. The stores are
never added up, because an empty one only lowers the bound. A message is
pending because its text alone must have scored 30 or more: what it scores besides
is at most 50. `Followed` adds that a third strike comes with the ban in the same
store.

**ChallengeRounds.** A challenge is committed long after the scheduler looked.
`Clear` says that all that while every running challenge has ended before the one
in the making starts; with one maker at a time (`OneMaker`) its commit then keeps
the rows apart (`Spaced`). `RoundsApart` follows because a challenge lasts no less
than the interval.

**ProxyPool.** `Calm`: in presses that do not overlap, the proxies being spread are
active and the channels locked by a removal are those of the proxies that are dead.
`SpreadEvenly` is about the round-robin itself. `EarlierTurn` steps from a channel of one
proxy back to the last channel before it that got the other; on all channels but
the first this is an injection, so the one proxy has at most one channel more
(`RoundRobinIsEven`), for any order in which the rows are read.

**PostWizard.** `InTurn`: as long as the admin waits for the handlers there is at
most one (`OneTask`), what a handler has read is what the data still are
(`Carried`), the text in the data was sent no more often than handlers ended
without clearing the state after it (`Unsent`), and it is the one in the last
preview unless its preview is about to be sent, or was not because a call failed
(`Seen`). It does not matter which preview's button is pressed, because the text
comes from the data. A handler that ends early adds one to `unheard` in the same
step in which it gives the text up, so the next delivery is accounted for before it
is made; a restart does so for the handler it cuts off.

**ChannelRegistry.** `Orderly`: as long as discoveries
come one after the other, there is only one of them (`Single`) and what it has
read is still the table (`Current`), but for rows deactivated meanwhile.

**HealthAlerts.** A key names a condition and a recovery gets none (`Keyed`); the
loop and the userbot report different conditions (`Divided`). An alert that is about
to be stored is therefore not on cooldown (`Unheard`): the only task that could set
the key since it was looked up is the one that looked.

**Composition.** `BotTyped`, `GatesTyped`, `PanelTyped` are about the specifications
of the union runs: a step of the union is a step of one part and a stutter of the
others, so the parts' invariants carry over.

**Only model-checked.** `DuePostSwept`, `LossNoticed`, `CallEnds` and
`LoadKeepsRinging`: liveness under fairness is out of the prover's reach. So are the
four refutations. Of the statements in section 6 nothing is proved.

## 6. What the models show besides

Some modules end with statements that the sources make and that TLC refutes; they
are defined there, with the line that makes them, and belong to no run.

| Statement | Where | What happens instead |
|---|---|---|
| `LateTapTurnedAway` | ChallengePlay | no running code ends a challenge, so a tap after `ends_at` is scored |
| `ConfirmedNotPromptedAgain` | ChallengePlay | after "Registration confirmed" the challenge is sent for `message.from_user`, the bot, and the user is asked to register again |
| `ResetTakesEffect` | AutoPoster | the reset deletes keys the loop does not read |
| `RevokedAtOnce` | MembershipGate | a check in flight stores "admitted" after the leave was handled |
| `NotJoinedIsOutside` | MembershipGate | an error that names the user or the chat as not found is told to a member as "not joined" |
| `OneHealthLoop` | UserbotManager | a start while a stop is under way leaves two health loops |
| `OnlyRefusalStops` | AiEngine | an error whose text has one of the words looked for stops all calls for an hour |
| `FallsBack` | ProxyPool | the access to `channel.proxy` is a lazy load that an AsyncSession refuses: a channel with a proxy fails |
| `RemovedIsUnassigned` | ProxyPool | a spread that read the proxies before a check found one dead assigns it while, or after, it is removed |
| `MemoryIsFresh` | SalesDialog | a reader between the deletion of the key and the commit caches the old memory |
| `NeverTwice` | PostWizard | telling the outcome fails after the delivery: the wizard stays live, and Send Now under an older preview sends the text again |
| `NeverUnseen` | PostWizard | deleting the waiting message fails after the new text is in the data: Send Now under an older preview sends it unseen |
| `ImageIsAttached` | PostWizard | the publisher attaches the banner, or nothing |
| `FreshOnStart` | ChallengeRounds | the first look finds a challenge that is running and passes |
| `LostChannelsInactive` | ChannelRegistry | a discovery that read the rows earlier leaves the other's rows active |
| `RealStaysReal` | RedisFallback | a caller whose ping failed replaces the connection another has just made |

Further, without a statement of their own: rewards of two invitees can overwrite
each other, and two acceptances of one invitee are both rewarded
(`service.py:93-103`); two extractions of one fact at a time leave two rows of it, and
every later look for it raises (`memory.py:43`); two publishers that bump one channel
from copies of the same age lose a count; what a sweep delivered before a crash, or a
post given to the publish endpoint again, is sent again; a start of the userbot that
is cut off leaves connected clients that nobody watches (`main.py:189`); a row may say "failed" while its `publish_log` shows channels
that have it, after a second call of the publish endpoint; a manual post can fall
between the loop's cooldown check and its posts, minutes later; without a worker, a
sweep that runs before `main.py:195` strands due posts just as the worker does; a
challenge ordered by hand overlaps the scheduler's, and one that was announced is
lost when the process ends before its commit; two userbot health loops may report one
account twice. An outage of the database or of Redis can hardly be reported
while it lasts, because `send_alert` needs both (`alerting.py:52-65`); a
degradation that is suppressed by its cooldown is noted as known and never told;
a warning about a load suppresses the critical one of the same hour.

## 7. Not modelled

- Follow-ups (`sales/followup.py`, `workers/tasks/followup.py`): nothing sets
  `follow_up_at`. `schedule_followup` has no caller and `PATCH /leads` leaves the
  column NULL, so the task selects no row.
- Prompts, classification, language detection, summaries, content generation,
  templates, recommendations, layout: functions of their arguments.
- The server scanner: its result is an arbitrary value in AutoPoster.
- REST endpoints over customers, knowledge, conversations and metrics other than
  closing a conversation: reads, and writes of one row nothing else decides on.
- Admin views, logs, the metrics collector, the nightly learning report: they
  change nothing another part reads.
- The duplicate filter over post texts and the plans post of the auto-poster; the
  statistics, typing delays and media of the sales dialogue; the hot-lead alert.
- Shut-down and the keep-alive ping of `main.py`. (The handle of `_rdp_pool_task` is
  assigned to a local name at line 224 and never cancelled.)
- A storage of the dialogue states that fails: in the wizard every read and write of
  state and data succeeds. Calls to Telegram and to the database may fail.
- What Telegram and Telethon do beyond success, failure and a lost answer. Language
  and `is_active` filters of challenges and of the publisher's channels: they are
  fixed in every instance. Time itself, other than in ChallengeRounds and AiEngine:
  only the events that depend on it.

## 8. Running the checks

    tlc -workers 2 -config ChallengePlay_play.cfg ChallengePlayMC.tla
    tlapm ChallengePlayProofs.tla

| Run | Configuration | Module |
|---|---|---|
| `challenge_play` | `ChallengePlay_play.cfg` | `ChallengePlayMC` |
| `auto_posts` | `AutoPoster_posts.cfg` | `AutoPosterMC` |
| `post_rows` | `PostPipeline_rows.cfg` | `PostPipelineMC` |
| `maintenance` | `Maintenance.cfg` | `MaintenanceMC` |
| `bot_services` | `Bot_services.cfg` | `BotServicesMC` |
| `admin_panel` | `Admin_panel.cfg` | `AdminPanelMC` |
| `gates_and_rounds` | `Gates_rounds.cfg` | `GatesAndRoundsMC` |
| `sales_dialog` | `Sales_pass.cfg` | `SalesDialogMC` |
| `challenge_attempt` | `ChallengePlay_attempt.cfg` | `ChallengePlayMC` |
| `post_worker` | `PostPipeline_worker.cfg` | `PostPipelineMC` |
| `poster_overlap` | `AutoPoster_overlap.cfg` | `AutoPosterMC` |
| `userbot_deaf` | `Userbot_deaf.cfg` | `UserbotManagerMC` |
