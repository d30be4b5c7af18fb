------------------------------ MODULE AutoPoster ------------------------------
(***************************************************************************)
(* When server posts go into the channels: the auto-poster loop with its   *)
(* global three-hour cooldown, the admin's "post now" jobs, the lock that  *)
(* is to keep them apart on a channel, and the sweep over scheduled posts  *)
(* that inherits what they leave behind.                                   *)
(*                                                                         *)
(* Redis (or the in-process store that stands in for it) holds the lock,   *)
(* the cooldown keys and the pause flag; PostgreSQL holds the posts.  The  *)
(* loop asks both whether the three hours are over, then scans for minutes *)
(* before it posts.  How a post is published is PostPipeline's concern: a  *)
(* publication is one step here, the commit of its outcome.                *)
(***************************************************************************)
CONSTANTS
    Channels,   \* active channels
    Loop,       \* the task that runs run_auto_poster
    Manual      \* "post now" jobs that may be running at the same time

ASSUME LoopAssumption == Loop \notin Manual

VARIABLES
    locked,     \* the channels whose autoposter:lock key exists
    marked,     \* autoposter:global:last_posted exists and is less than 3 h old
    cooled,     \* the channels with an autoposter:cooldown key
    paused,     \* system:posting_paused exists
    served,     \* <<channel, origin>> of the published server posts younger than 3 h
    leftover,   \* the channels with a server post that was committed as scheduled
    poster,     \* poster[j]: where loop or job j is
    lapsed,     \* history: how locks were lost under their holders, see Lapses
    blind,      \* history: the database could not tell the loop when it posted last
    reset       \* history: cooldowns were reset and nothing was posted since

store    == <<locked, marked, cooled, paused>>
history  == <<lapsed, blind, reset>>
vars     == <<store, served, leftover, poster, history>>

Posters == Manual \cup {Loop}

\* Who recorded a post, seen from the loop: its cycle in progress or last, a cycle
\* before that, or anybody else.
Origins == {"cycle", "before", "other"}

\* queue holds the channels still to be served, chan the one in hand; won is set when
\* the post in hand was published, posted when any post of the round was.
Poster == [at: {"idle", "sleep", "cooling", "post", "publish", "release"},
           queue: SUBSET Channels, chan: SUBSET Channels, won: BOOLEAN, posted: BOOLEAN]

Resting(at) == [at |-> at, queue |-> {}, chan |-> {}, won |-> FALSE, posted |-> FALSE]

\* The lock of a poster that is inside a channel expired; or Redis lost or refused it.
Lapses == {"expired", "lost"}

Inside(j, c) == poster[j].at \in {"publish", "release"} /\ c \in poster[j].chan

\* Somebody believes to hold the lock of c.
Held(c) == \E j \in Posters : Inside(j, c)

----------------------------------------------------------------------------
(* The loop between two cycles *)

\* A sleep ends (60 s, 120 s, 300 s or up to 900 s): the head of the loop is next.
Wake ==
    /\ poster[Loop].at \in {"sleep", "cooling"}
    /\ poster' = [poster EXCEPT ![Loop] = Resting("idle")]
    /\ UNCHANGED <<store, served, leftover, history>>

\* Mutated: only Redis is asked.
CooldownInRedis == marked

\* _get_global_cooldown_remaining() > 0: Redis says so, or else PostgreSQL.
CooldownActive == marked \/ served # {}

\* The head of the loop: posting is paused, or the cooldown is not over.
Refused ==
    /\ poster[Loop].at = "idle"
    /\ \/ /\ paused
          /\ poster' = [poster EXCEPT ![Loop] = Resting("sleep")]
       \/ /\ ~paused /\ CooldownActive
          /\ poster' = [poster EXCEPT ![Loop] = Resting("cooling")]
    /\ UNCHANGED <<store, served, leftover, history>>

\* A cycle begins: the channels that got a scan result are queued; there may be none.
\* Redis may fail to answer, then PostgreSQL alone decides; when both fail nobody does.
StartCycle ==
    /\ poster[Loop].at = "idle"
    /\ ~paused
    /\ \/ ~CooldownActive /\ blind' = blind
       \/ served = {} /\ blind' = blind
       \/ blind' = TRUE
    /\ \E C \in SUBSET Channels :
           poster' = [poster EXCEPT ![Loop] =
                         [Resting(IF C = {} THEN "sleep" ELSE "post") EXCEPT !.queue = C]]
    /\ served' = {<<p[1], IF p[2] = "cycle" THEN "before" ELSE p[2]>> : p \in served}
    /\ UNCHANGED <<store, leftover, lapsed, reset>>

\* ctrl_post_now and /post_now ask neither the pause flag nor the cooldown.
StartPostNow(j) ==
    /\ poster[j].at = "idle"
    /\ \E C \in (SUBSET Channels) \ {{}} :
           poster' = [poster EXCEPT ![j] = [Resting("post") EXCEPT !.queue = C]]
    /\ UNCHANGED <<store, served, leftover, history>>

----------------------------------------------------------------------------
(* _post_rdp_result_to_channel *)

\* Mutated: the lock of one channel is taken for all channels of the round.
EnterAll(j, c) ==
    poster' = [poster EXCEPT ![j].at = "publish", ![j].queue = {}, ![j].chan = poster[j].queue]

Enter(j, c) ==
    poster' = [poster EXCEPT ![j].at = "publish", ![j].queue = @ \ {c}, ![j].chan = {c}]

Skip(j, c) == poster' = [poster EXCEPT ![j].queue = @ \ {c}]

\* Mutated: the lock is acquired inside the try block, whose finally releases it.
AcquireInTry(j) ==
    /\ poster[j].at = "post"
    /\ \E c \in poster[j].queue :
           \/ /\ c \notin locked
              /\ locked' = locked \cup {c}
              /\ Enter(j, c)
              /\ lapsed' = lapsed
           \/ /\ c \in locked
              /\ locked' = locked \ {c}
              /\ Skip(j, c)
              /\ lapsed' = lapsed
           \/ /\ j # Loop
              /\ Skip(j, c)
              /\ UNCHANGED <<locked, lapsed>>
           \/ /\ Enter(j, c)
              /\ lapsed' = lapsed \cup {"lost"}
              /\ locked' = locked
    /\ UNCHANGED <<marked, cooled, paused, served, leftover, blind, reset>>

\* SET NX: the lock is taken, or the channel is skipped (as it is when the manual job's
\* scan finds nothing).  When Redis fails posting goes ahead without a lock.
Acquire(j) ==
    /\ poster[j].at = "post"
    /\ \E c \in poster[j].queue :
           \/ /\ c \notin locked
              /\ locked' = locked \cup {c}
              /\ Enter(j, c)
              /\ lapsed' = lapsed
           \/ /\ c \in locked \/ j # Loop
              /\ Skip(j, c)
              /\ UNCHANGED <<locked, lapsed>>
           \/ /\ Enter(j, c)
              /\ lapsed' = lapsed \cup {"lost"}
              /\ locked' = locked
    /\ UNCHANGED <<marked, cooled, paused, served, leftover, blind, reset>>

\* The transaction around publish_post ends: the post is published; or publish_post
\* returned {} and the row stays scheduled; or it failed, with or without a row.
Publish(j) ==
    /\ poster[j].at = "publish"
    /\ \E c \in poster[j].chan :
           \/ /\ served' = served \cup {<<c, IF j = Loop THEN "cycle" ELSE "other">>}
              /\ poster' = [poster EXCEPT ![j].at = "release", ![j].won = TRUE]
              /\ leftover' = leftover
              /\ reset' = FALSE
           \/ /\ leftover' = leftover \cup {c}
              /\ poster' = [poster EXCEPT ![j].at = "release"]
              /\ UNCHANGED <<served, reset>>
           \/ /\ poster' = [poster EXCEPT ![j].at = "release"]
              /\ UNCHANGED <<served, leftover, reset>>
    /\ UNCHANGED <<store, lapsed, blind>>

\* The finally block deletes the key, whoever's it is; a failing Redis keeps it.  After
\* a success the loop (a manual job does not) marks the channel: should that fail, or
\* an exception have been on its way, the cycle is abandoned.
Release(j) ==
    LET rest == [poster[j] EXCEPT !.at = "post", !.chan = {}, !.won = FALSE,
                                  !.posted = poster[j].posted \/ poster[j].won]
    IN  /\ poster[j].at = "release"
        /\ locked' \in {locked, locked \ poster[j].chan}
        /\ \/ /\ poster' = [poster EXCEPT ![j] = rest]
              /\ cooled' = IF j = Loop /\ poster[j].won THEN cooled \cup poster[j].chan ELSE cooled
           \/ /\ poster' = [poster EXCEPT ![j] = Resting(IF j = Loop THEN "sleep" ELSE "idle")]
              /\ cooled' = cooled
        /\ UNCHANGED <<marked, paused, served, leftover, history>>

\* The round is over; the loop sets the global cooldown if anything was posted (unless
\* Redis fails) and sleeps.
EndRound(j) ==
    /\ poster[j].at = "post" /\ poster[j].queue = {}
    /\ poster' = [poster EXCEPT ![j] = Resting(IF j = Loop THEN "sleep" ELSE "idle")]
    /\ \/ marked' = marked
       \/ j = Loop /\ poster[j].posted /\ marked' = TRUE
    /\ reset' = (reset /\ ~poster[j].posted)
    /\ UNCHANGED <<locked, cooled, paused, served, leftover, lapsed, blind>>

----------------------------------------------------------------------------
(* The admin's buttons and the sweep *)

\* _bg_rdp_post_now sends to a channel without a lock and without a row.
RdpPostNow(c) ==
    /\ cooled' = cooled \cup {c}
    /\ reset' = FALSE
    /\ UNCHANGED <<locked, marked, paused, served, leftover, poster, lapsed, blind>>

\* reset_all_cooldowns.
ResetCooldowns ==
    /\ cooled' = {}
    /\ reset' = TRUE
    /\ UNCHANGED <<locked, marked, paused, served, leftover, poster, lapsed, blind>>

PausePosting ==
    /\ ~paused
    /\ paused' = TRUE
    /\ UNCHANGED <<locked, marked, cooled, served, leftover, poster, history>>

ResumePosting ==
    /\ paused
    /\ paused' = FALSE
    /\ UNCHANGED <<locked, marked, cooled, served, leftover, poster, history>>

\* process_scheduled_posts takes up the rows the posters left as scheduled.
SweepLeftovers ==
    /\ ~paused
    /\ leftover # {}
    /\ \E C \in SUBSET leftover : served' = served \cup (C \X {"other"})
    /\ leftover' = {}
    /\ reset' = FALSE
    /\ UNCHANGED <<store, poster, lapsed, blind>>

----------------------------------------------------------------------------
(* Time and faults *)

\* The 90 s of a lock are over, whether its holder is done or waits for a flood limit.
ExpireLock(c) ==
    /\ c \in locked
    /\ locked' = locked \ {c}
    /\ lapsed' = IF Held(c) THEN lapsed \cup {"expired"} ELSE lapsed
    /\ UNCHANGED <<marked, cooled, paused, served, leftover, poster, blind, reset>>

\* Three hours after a cycle its key no longer counts, whatever became of its posts.
ExpireMark ==
    /\ marked
    /\ marked' = FALSE
    /\ UNCHANGED <<locked, cooled, paused, served, leftover, poster, history>>

\* Published posts grow older than three hours.
PostsAge ==
    /\ served # {}
    /\ \E old \in (SUBSET served) \ {{}} : served' = served \ old
    /\ UNCHANGED <<store, leftover, poster, history>>

\* Redis restarts, or get_redis goes over to the other store: every key is gone.
LoseStore ==
    /\ locked' = {} /\ marked' = FALSE /\ cooled' = {} /\ paused' = FALSE
    /\ lapsed' = IF \E c \in Channels : Held(c) THEN lapsed \cup {"lost"} ELSE lapsed
    /\ UNCHANGED <<served, leftover, poster, blind, reset>>

\* The web process restarts: jobs are gone, keys and rows stay.
Restart ==
    /\ poster' = [j \in Posters |-> Resting("idle")]
    /\ UNCHANGED <<store, served, leftover, history>>

----------------------------------------------------------------------------

Init ==
    /\ locked = {} /\ marked = FALSE /\ cooled = {} /\ paused = FALSE
    /\ served = {} /\ leftover = {}
    /\ poster = [j \in Posters |-> Resting("idle")]
    /\ lapsed = {} /\ blind = FALSE /\ reset = FALSE

PostStep(j) == Acquire(j) \/ Publish(j) \/ Release(j) \/ EndRound(j)

Next ==
    \/ Wake \/ Refused \/ StartCycle
    \/ \E j \in Manual : StartPostNow(j)
    \/ \E j \in Posters : PostStep(j)
    \/ \E c \in Channels : RdpPostNow(c) \/ ExpireLock(c)
    \/ ResetCooldowns \/ PausePosting \/ ResumePosting \/ SweepLeftovers
    \/ ExpireMark \/ PostsAge \/ LoseStore \/ Restart

Spec == Init /\ [][Next]_vars

----------------------------------------------------------------------------
(* Properties *)

\* Every variable has its type, and a poster inside a channel is at exactly that one.
TypeOK ==
    /\ locked \subseteq Channels /\ cooled \subseteq Channels /\ leftover \subseteq Channels
    /\ marked \in BOOLEAN /\ paused \in BOOLEAN
    /\ served \subseteq Channels \X Origins
    /\ poster \in [Posters -> Poster]
    /\ \A j \in Posters : poster[j].at \in {"publish", "release"} <=> poster[j].chan # {}
    /\ \A j \in Posters : \A c, d \in poster[j].chan : c = d
    /\ lapsed \subseteq Lapses /\ blind \in BOOLEAN /\ reset \in BOOLEAN

\* The lock does what it is there for unless it lapses: two posters are inside a channel
\* only after a key was lost under its holder or Redis refused to answer, although
\* releasing deletes the key without asking whose it is.
ExclusiveUnlessLapsed ==
    lapsed = {} => \A i, j \in Posters, c \in Channels : Inside(i, c) /\ Inside(j, c) => i = j

\* The loop records the posts of one cycle at most within three hours, restarts, failing
\* marks and a lost store notwithstanding, as long as the database answers.
CycleSpacing ==
    ~blind => ~\E c, d \in Channels : <<c, "before">> \in served /\ <<d, "cycle">> \in served

----------------------------------------------------------------------------
(* What docstrings promise and the code does not keep *)

\* "Uses Redis SET NX (atomic) to prevent duplicate concurrent posts": while Redis works,
\* two posters are never inside the same channel.
NoConcurrentPosts ==
    "lost" \notin lapsed =>
        \A i, j \in Posters, c \in Channels : Inside(i, c) /\ Inside(j, c) => i = j

\* "Reset all auto-poster cooldowns so every channel can post immediately in the next
\* cycle": the head of the loop is not turned away by a cooldown after a reset.
ResetTakesEffect ==
    [][reset /\ poster[Loop].at = "idle" => poster'[Loop].at # "cooling"]_vars

=============================================================================
