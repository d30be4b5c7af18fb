----------------------------- MODULE PostPipeline -----------------------------
(***************************************************************************)
(* The life of a post: created, scheduled or sent by hand, published into  *)
(* the channels by publish_post, and settled in its row.                   *)
(*                                                                         *)
(* Five callers drive publish_post: the sweep over due posts (the web      *)
(* process's maintenance loop or, when a job queue is configured, the ARQ  *)
(* worker), the publish endpoint, the admin's "send now" and flash sale,   *)
(* the auto-poster and the challenge publisher.  Each works in a database  *)
(* session of its own: what it assigns is invisible to the others until    *)
(* its commit, and the channels it counts are copies.                      *)
(***************************************************************************)
EXTENDS Naturals, FiniteSets

CONSTANTS
    Posts,             \* rows of posts, existing or yet to come
    Channels,          \* active channels
    Sweeper,           \* the job that sweeps due posts, one sweep at a time
    Requests,          \* other jobs that may be publishing at the same time
    WorkerConfigured,  \* REDIS_QUEUE_URL is set: the worker sweeps, not the web process
    MaxRequests,       \* bound: calls of the publish endpoint
    MaxPauses,         \* bound: times the admin pauses posting
    MaxFaults          \* bound: restarts of a process and failing commits

ASSUME SweeperAssumption == Sweeper \notin Requests
ASSUME BoundsAssumption == MaxRequests \in Nat /\ MaxPauses \in Nat /\ MaxFaults \in Nat
ASSUME WorkerAssumption == WorkerConfigured \in BOOLEAN
ASSUME ChannelsAssumption == IsFiniteSet(Channels) /\ IsFiniteSet(Posts)

VARIABLES
    status,    \* status[p]: the committed Post.status, "absent" while there is no row
    aim,       \* aim[p]: Post.channel_ids
    due,       \* the posts whose scheduled_at has passed
    log,       \* log[p]: the channels the committed publish_log reports as published
    count,     \* count[c]: the committed TelegramChannel.post_count
    paused,    \* system:posting_paused is in the cache
    ready,     \* the web process has handed the userbot manager to the publisher
    job,       \* job[j]: what job j does and where it is
    mine,      \* mine[j]: the statuses j has assigned in its session, uncommitted
    found,     \* found[j]: the channels j's calls of publish_post report as published
    copy,      \* copy[j]: the post_count of the channels j has loaded, bumped by j
    bumped,    \* bumped[j]: the channels whose copy j has bumped
    sent,      \* history: the <<post, channel>> pairs Telegram has delivered
    feed,      \* history: feed[c] counts the messages delivered into channel c
    requests, pauses, faults   \* how much of the bounds is used up

rows     == <<status, aim, due, log, count>>
sessions == <<job, mine, found, copy, bumped>>
outside  == <<sent, feed>>
bounds   == <<requests, pauses, faults>>
vars     == <<rows, paused, ready, sessions, outside, bounds>>

Jobs == Requests \cup {Sweeper}
Status == {"absent", "draft", "scheduled", "publishing", "published", "failed"}
Unheld == "unheld"
NoPosts == [p \in Posts |-> Unheld]
NoCopies == [c \in {} |-> 0]

\* kind is the caller of publish_post, batch the posts a sweep still has to take, post
\* the one in hand, base its status as loaded, todo its channels still to be served.
Task == [kind: {"none", "sweep", "now", "send", "auto", "challenge"},
         at: {"idle", "pick", "check", "send", "commit"},
         batch: SUBSET Posts, post: SUBSET Posts, base: Status, todo: SUBSET Channels]

Idle == [kind |-> "none", at |-> "idle", batch |-> {}, post |-> {}, base |-> "absent", todo |-> {}]

\* Jobs other than the worker's sweep run in the web process.
InWeb(j) == j # Sweeper \/ ~WorkerConfigured

----------------------------------------------------------------------------
(* Sessions *)

\* A session opens with task t, having assigned status s to posts P and loaded counts.
Open(j, t, P, s, counts) ==
    /\ job[j].at = "idle"
    /\ job' = [job EXCEPT ![j] = t]
    /\ mine' = [mine EXCEPT ![j] = [p \in Posts |-> IF p \in P THEN s ELSE Unheld]]
    /\ copy' = [copy EXCEPT ![j] = counts]
    /\ UNCHANGED <<found, bumped>>

\* The sessions of jobs J close; what they had not committed is gone.
CloseAll(J) ==
    /\ job' = [j \in Jobs |-> IF j \in J THEN Idle ELSE job[j]]
    /\ mine' = [j \in Jobs |-> IF j \in J THEN NoPosts ELSE mine[j]]
    /\ found' = [j \in Jobs |-> IF j \in J THEN [p \in Posts |-> {}] ELSE found[j]]
    /\ copy' = [j \in Jobs |-> IF j \in J THEN NoCopies ELSE copy[j]]
    /\ bumped' = [j \in Jobs |-> IF j \in J THEN {} ELSE bumped[j]]

\* A new row: nobody has inserted it, and nobody that rolled back has sent it.
Fresh(p) ==
    /\ status[p] = "absent"
    /\ \A j \in Jobs : p \notin job[j].post
    /\ \A c \in Channels : <<p, c>> \notin sent

Working(kind, at, p, base) ==
    [Idle EXCEPT !.kind = kind, !.at = at, !.post = {p}, !.base = base]

----------------------------------------------------------------------------
(* The callers of publish_post *)

\* POST /posts: a draft, or scheduled.
CreatePost(p) ==
    /\ Fresh(p)
    /\ \E s \in {"draft", "scheduled"} : status' = [status EXCEPT ![p] = s]
    /\ \E C \in SUBSET Channels : aim' = [aim EXCEPT ![p] = C]
    /\ UNCHANGED <<due, log, count, paused, ready, sessions, outside, bounds>>

\* Time passes scheduled_at.
FallDue(p) ==
    /\ status[p] = "scheduled" /\ p \notin due
    /\ due' = due \cup {p}
    /\ UNCHANGED <<status, aim, log, count, paused, ready, sessions, outside, bounds>>

Due == {p \in due : status[p] = "scheduled"}

\* One round of the maintenance loop, or one cron job of the worker.
StartSweep ==
    /\ ~paused
    /\ Due # {}
    /\ Open(Sweeper, [Idle EXCEPT !.kind = "sweep", !.at = "pick", !.batch = Due,
                                  !.base = "scheduled"], {}, Unheld, NoCopies)
    /\ UNCHANGED <<rows, paused, ready, outside, bounds>>

\* POST /posts/{id}/publish, whatever the status of the post.
PublishNow(j, p) ==
    /\ requests < MaxRequests
    /\ status[p] # "absent"
    /\ Open(j, Working("now", "check", p, status[p]), {p}, "publishing", NoCopies)
    /\ requests' = requests + 1
    /\ UNCHANGED <<rows, paused, ready, outside, pauses, faults>>

\* send_post_now and handle_flash_sale: the row is committed before it is published, and
\* the channels have been loaded.
SendNow(j, p) ==
    /\ ready
    /\ Fresh(p)
    /\ Open(j, Working("send", "check", p, "publishing"), {p}, "publishing", count)
    /\ status' = [status EXCEPT ![p] = "publishing"]
    /\ aim' = [aim EXCEPT ![p] = Channels]
    /\ UNCHANGED <<due, log, count, paused, ready, outside, bounds>>

\* _post_rdp_result_to_channel: the row is flushed, not committed.
AutoPost(j, p) ==
    /\ ready
    /\ Fresh(p)
    /\ Open(j, Working("auto", "check", p, "absent"), {p}, "scheduled", NoCopies)
    /\ \E c \in Channels : aim' = [aim EXCEPT ![p] = {c}]
    /\ UNCHANGED <<status, due, log, count, paused, ready, outside, bounds>>

\* publish_challenge: the row is flushed, and create_challenge has loaded the channels.
AnnounceChallenge(j, p) ==
    /\ ready
    /\ Fresh(p)
    /\ Open(j, Working("challenge", "check", p, "absent"), {p}, "publishing", count)
    /\ aim' = [aim EXCEPT ![p] = Channels]
    /\ UNCHANGED <<status, due, log, count, paused, ready, outside, bounds>>

\* process_scheduled_posts takes its posts one after the other, and commits at the end.
Pick(j) ==
    /\ job[j].at = "pick"
    /\ \/ \E p \in job[j].batch :
              /\ job' = [job EXCEPT ![j].at = "check", ![j].post = {p}, ![j].batch = @ \ {p}]
              /\ mine' = [mine EXCEPT ![j][p] = "publishing"]
       \/ /\ job[j].batch = {}
          /\ job' = [job EXCEPT ![j].at = "commit"]
          /\ mine' = mine
    /\ UNCHANGED <<rows, paused, ready, found, copy, bumped, outside, bounds>>

----------------------------------------------------------------------------
(* publish_post *)

\* Where the caller goes on when publish_post is through.
After(j) == IF job[j].kind = "sweep" THEN "pick" ELSE "commit"

\* Without a userbot manager, or while posting is paused, publish_post returns {} and
\* leaves the status as the caller has set it.
Check(j) ==
    /\ job[j].at = "check"
    /\ \/ /\ InWeb(j) /\ ready /\ ~paused
          /\ \E p \in job[j].post : job' = [job EXCEPT ![j].at = "send", ![j].todo = aim[p]]
       \/ /\ ~(InWeb(j) /\ ready) \/ paused
          /\ job' = [job EXCEPT ![j].at = After(j)]
    /\ UNCHANGED <<rows, paused, ready, mine, found, copy, bumped, outside, bounds>>

\* The post_count of c as this session sees it.
Seen(j, c) == IF c \in DOMAIN copy[j] THEN copy[j][c] ELSE count[c]

\* Mutated: the media branch bumps the count, and so does the end of the loop.
BumpTwice(j, c) ==
    /\ copy' = [copy EXCEPT ![j] = [d \in DOMAIN @ \cup {c} |-> IF d = c THEN Seen(j, c) + 2 ELSE @[d]]]
    /\ bumped' = [bumped EXCEPT ![j] = @ \cup {c}]

Bump(j, c) ==
    /\ copy' = [copy EXCEPT ![j] = [d \in DOMAIN @ \cup {c} |-> IF d = c THEN Seen(j, c) + 1 ELSE @[d]]]
    /\ bumped' = [bumped EXCEPT ![j] = @ \cup {c}]

\* One channel is served: skipped or refused by Telegram; delivered but reported as an
\* error, because the answer was lost or the statistics counter failed after the
\* post_count was bumped; or delivered and reported.
Send(j) ==
    /\ job[j].at = "send"
    /\ \E c \in job[j].todo, p \in job[j].post :
           /\ job' = [job EXCEPT ![j].todo = @ \ {c}]
           /\ \/ UNCHANGED <<found, copy, bumped, outside>>
              \/ /\ sent' = sent \cup {<<p, c>>}
                 /\ feed' = [feed EXCEPT ![c] = @ + 1]
                 /\ \/ UNCHANGED <<found, copy, bumped>>
                    \/ Bump(j, c) /\ found' = found
                    \/ Bump(j, c) /\ found' = [found EXCEPT ![j][p] = @ \cup {c}]
    /\ UNCHANGED <<rows, paused, ready, mine, bounds>>

\* Mutated: a post with channels has been published, whatever the results say.
VerdictByAim(j, p) == IF aim[p] # {} THEN "published" ELSE "failed"

\* Mutated: a status of its own for posts that missed some channels.
VerdictPartial(j, p) ==
    IF found[j][p] = {} THEN "failed" ELSE IF found[j][p] = aim[p] THEN "published" ELSE "partial"

\* Mutated: what reached no channel is put in line again.
VerdictRetry(j, p) == IF found[j][p] # {} THEN "published" ELSE "scheduled"

Verdict(j, p) == IF found[j][p] # {} THEN "published" ELSE "failed"

Conclude(j) ==
    /\ job[j].at = "send" /\ job[j].todo = {}
    /\ \E p \in job[j].post :
           /\ mine' = [mine EXCEPT ![j][p] = Verdict(j, p)]
           /\ job' = [job EXCEPT ![j].at = After(j)]
    /\ UNCHANGED <<rows, paused, ready, found, copy, bumped, outside, bounds>>

\* A database or cache error leaves publish_post.  The sweep and the auto-poster settle
\* the post as failed and go on; for the others the session is over.
Raise(j) ==
    /\ job[j].at \in {"check", "send"}
    /\ \/ /\ job[j].kind \in {"sweep", "auto"}
          /\ \E p \in job[j].post :
                 /\ mine' = [mine EXCEPT ![j][p] = "failed"]
                 /\ found' = [found EXCEPT ![j][p] = {}]
          /\ job' = [job EXCEPT ![j].at = After(j), ![j].todo = {}]
          /\ UNCHANGED <<copy, bumped>>
       \/ job[j].kind \notin {"sweep", "auto"} /\ CloseAll({j})
    /\ UNCHANGED <<rows, paused, ready, outside, bounds>>

\* Mutated: process_scheduled_posts forgets its commit.
CommitNothing(j) ==
    /\ job[j].at = "commit"
    /\ CloseAll({j})
    /\ UNCHANGED <<rows, paused, ready, outside, bounds>>

\* Whether the commit writes the status of p: new rows and changed values only.
Writes(j, p) == mine[j][p] # Unheld /\ mine[j][p] # job[j].base

\* The publish_log is written when publish_post set it to something new.  A report
\* without a published channel may equal the one that was loaded, and publish_post may
\* have raised before it made one: then the column is not written.
Commit(j) ==
    /\ job[j].at = "commit"
    /\ status' = [p \in Posts |-> IF Writes(j, p) THEN mine[j][p] ELSE status[p]]
    /\ \E settled \in SUBSET {p \in Posts : mine[j][p] \in {"published", "failed"}} :
           /\ \A p \in Posts : found[j][p] # {} => p \in settled
           /\ log' = [p \in Posts |-> IF p \in settled THEN found[j][p] ELSE log[p]]
    /\ count' = [c \in Channels |-> IF c \in bumped[j] THEN copy[j][c] ELSE count[c]]
    /\ due' = IF job[j].kind = "auto" THEN due \cup job[j].post ELSE due
    /\ CloseAll({j})
    /\ UNCHANGED <<aim, paused, ready, outside, bounds>>

----------------------------------------------------------------------------
(* Faults and controls *)

\* The commit fails and the session rolls back.
CommitFails(j) ==
    /\ job[j].at = "commit"
    /\ faults < MaxFaults
    /\ faults' = faults + 1
    /\ CloseAll({j})
    /\ UNCHANGED <<rows, paused, ready, outside, requests, pauses>>

\* The web process dies and comes back.  Its maintenance loop runs at once, the manager
\* reaches the publisher only when the background initialisation gets there.
Restart ==
    /\ faults < MaxFaults
    /\ faults' = faults + 1
    /\ CloseAll({j \in Jobs : InWeb(j)})
    /\ ready' = FALSE
    /\ UNCHANGED <<rows, paused, outside, requests, pauses>>

SetPublisherManager ==
    /\ ~ready
    /\ ready' = TRUE
    /\ UNCHANGED <<rows, paused, sessions, outside, bounds>>

PausePosting ==
    /\ ~paused /\ pauses < MaxPauses
    /\ paused' = TRUE
    /\ pauses' = pauses + 1
    /\ UNCHANGED <<rows, ready, sessions, outside, requests, faults>>

\* The admin resumes, or the key expires after seven days.
ResumePosting ==
    /\ paused
    /\ paused' = FALSE
    /\ UNCHANGED <<rows, ready, sessions, outside, bounds>>

----------------------------------------------------------------------------

Init ==
    /\ status = [p \in Posts |-> "absent"]
    /\ aim = [p \in Posts |-> {}]
    /\ due = {}
    /\ log = [p \in Posts |-> {}]
    /\ count = [c \in Channels |-> 0]
    /\ paused = FALSE
    /\ ready = FALSE
    /\ job = [j \in Jobs |-> Idle]
    /\ mine = [j \in Jobs |-> NoPosts]
    /\ found = [j \in Jobs |-> [p \in Posts |-> {}]]
    /\ copy = [j \in Jobs |-> NoCopies]
    /\ bumped = [j \in Jobs |-> {}]
    /\ sent = {}
    /\ feed = [c \in Channels |-> 0]
    /\ requests = 0 /\ pauses = 0 /\ faults = 0

PublishStep(j) == Pick(j) \/ Check(j) \/ Send(j) \/ Conclude(j) \/ Raise(j) \/ Commit(j)

Next ==
    \/ \E p \in Posts : CreatePost(p) \/ FallDue(p)
    \/ StartSweep
    \/ \E j \in Requests, p \in Posts :
           PublishNow(j, p) \/ SendNow(j, p) \/ AutoPost(j, p) \/ AnnounceChallenge(j, p)
    \/ \E j \in Jobs : PublishStep(j) \/ CommitFails(j)
    \/ Restart \/ SetPublisherManager \/ PausePosting \/ ResumePosting

Spec == Init /\ [][Next]_vars

\* The sweep comes round again and again and its coroutine is resumed; background
\* initialisation reaches the publisher; a pause ends at the latest when its key expires.
Fairness ==
    /\ WF_vars(StartSweep)
    /\ WF_vars(PublishStep(Sweeper))
    /\ WF_vars(SetPublisherManager)
    /\ WF_vars(ResumePosting)

FairSpec == Spec /\ Fairness

----------------------------------------------------------------------------
(* Properties *)

\* Every variable holds what its column, cache key or object can hold, a job inside
\* publish_post works on exactly one post, and only loaded channels are bumped.
TypeOK ==
    /\ status \in [Posts -> Status]
    /\ aim \in [Posts -> SUBSET Channels]
    /\ due \subseteq Posts
    /\ log \in [Posts -> SUBSET Channels]
    /\ count \in [Channels -> Nat]
    /\ paused \in BOOLEAN /\ ready \in BOOLEAN
    /\ job \in [Jobs -> Task]
    /\ \A j \in Jobs : job[j].at \in {"check", "send"} => Cardinality(job[j].post) = 1
    /\ mine \in [Jobs -> [Posts -> Status \cup {Unheld}]]
    /\ found \in [Jobs -> [Posts -> SUBSET Channels]]
    /\ bumped \in [Jobs -> SUBSET Channels]
    /\ \A j \in Jobs : /\ DOMAIN copy[j] \subseteq Channels /\ bumped[j] \subseteq DOMAIN copy[j]
                       /\ copy[j] \in [DOMAIN copy[j] -> Nat]
    /\ sent \subseteq Posts \X Channels
    /\ feed \in [Channels -> Nat]
    /\ requests \in 0..MaxRequests /\ pauses \in 0..MaxPauses /\ faults \in 0..MaxFaults

\* A row that says "published" is no lie: Telegram delivered the post to at least one of
\* its channels, and to each one its publish_log reports, whoever else published it too.
PublishedWasSent ==
    \A p \in Posts : /\ status[p] = "published" => \E c \in Channels : <<p, c>> \in sent
                     /\ \A c \in log[p] : <<p, c>> \in sent

\* A channel's post_count never exceeds the messages it received, although concurrent
\* publishers write absolute counts from copies of different ages.
CountBacked == \A c \in Channels : count[c] <= feed[c]

\* Unless a process dies, a commit fails or the publish endpoint is called, no channel
\* receives a post twice: not when the auto-poster leaves its row behind as
\* scheduled, nor when a sweep meets a post somebody else is sending.
DeliveredOnce ==
    faults = 0 /\ requests = 0 =>
        \A c \in Channels : feed[c] <= Cardinality({p \in Posts : <<p, c>> \in sent})

\* Every due post is eventually taken up: none stays scheduled.
DuePostSwept == \A p \in Posts : p \in Due ~> p \notin Due

\* The rows, as others see them, are those of the abstract outbox: no session, crash or
\* concurrent publisher makes a post that was taken up wait again (it would be sent twice),
\* brings a row back to "absent", or reports what nobody received.
Outbox == INSTANCE PostOutbox WITH row <- status, report <- log, received <- sent

ImplementsOutbox == Outbox!Spec

----------------------------------------------------------------------------
(* What a comment promises and the code does not keep *)

\* "process every due post": a due post ends up published or failed.
DuePostProcessed == \A p \in Posts : p \in Due ~> status[p] \in {"published", "failed"}

=============================================================================
