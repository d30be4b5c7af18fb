---------------------------- MODULE ChallengePlay ----------------------------
(***************************************************************************)
(* How members of the public play a challenge through the public bot:      *)
(* registration, referrals, joining and answering.                         *)
(*                                                                         *)
(* Every update Telegram delivers runs one handler of public_bot.py as its *)
(* own task, so handlers of one user interleave at every await.  A handler *)
(* works on objects its database session loaded once (expire_on_commit and *)
(* autoflush are off) and its commit writes back the absolute values of    *)
(* the columns it changed.  A step of this module is one such load or one  *)
(* such commit; me[h] and boss[h] are the copies that handler h holds.     *)
(***************************************************************************)
EXTENDS Naturals, FiniteSets

CONSTANTS
    Users,          \* Telegram identities
    Bot,            \* the identity of the public bot itself
    NoUser,         \* NULL in a column that refers to a user
    Challenges,     \* challenge ids, numbered in the order of created_at
    Handlers,       \* the updates that may be in progress at the same time
    ReferralPoints  \* settings.CHALLENGE_REFERRAL_POINTS

ASSUME UsersAssumption == IsFiniteSet(Users) /\ Bot \notin Users /\ NoUser \notin Users
ASSUME ChallengesAssumption == Challenges \subseteq Nat \ {0} /\ IsFiniteSet(Challenges)
ASSUME PointsAssumption == ReferralPoints \in Nat

VARIABLES
    status,      \* status[c]: Challenge.status, "unborn" before its row is committed
    closed,      \* the challenges whose ends_at has passed
    members,     \* the users that have a PublicUser row
    account,     \* account[u]: that row
    joined,      \* the ChallengeParticipant rows, as pairs <<user, challenge>>
    linked,      \* ... with public_user_id set
    submitted,   \* ... with answer_submitted
    right,       \* ... with answer_correct, and therefore with 10 points
    task,        \* task[h]: the update handler h works on and where it is
    me,          \* me[h]: the PublicUser object of the tapping user
    boss,        \* boss[h]: the PublicUser object of the referrer
    granted       \* history: granted[u] counts the referral rewards committed for u

rows  == <<members, account, joined, linked, submitted, right>>
vars  == <<status, closed, rows, task, me, boss, granted>>

NoChallenge == 0
AnswerPoints == 10

Account == [terms: BOOLEAN, referredBy: Users \cup {NoUser}, rewarded: BOOLEAN,
            total: Nat, challenges: Nat, correct: Nat, refCount: Nat, refPoints: Nat]

\* The row get_or_create_public_user inserts.
NewAccount(referrer) ==
    [terms |-> FALSE, referredBy |-> referrer, rewarded |-> FALSE, total |-> 0,
     challenges |-> 0, correct |-> 0, refCount |-> 0, refPoints |-> 0]

Steps == {"idle", "load", "create", "enrol", "referrer", "accept", "choose", "send",
          "enter", "join", "refresh", "link", "record", "register"}

\* op is the handler, chal the challenge its payload names, code the owner of the
\* referral code in its payload, choice whether the tapped option is the correct one,
\* seen whether the participant row it loaded was already answered.
Task == [op: {"start", "profile", "terms", "active", "answer"}, at: Steps, user: Users \cup {NoUser},
         chal: Challenges \cup {NoChallenge}, code: Users \cup {NoUser},
         choice: BOOLEAN, seen: BOOLEAN]

Idle == [op |-> "start", at |-> "idle", user |-> NoUser, chal |-> NoChallenge,
         code |-> NoUser, choice |-> FALSE, seen |-> FALSE]

\* The participations of u in a set of <<user, challenge>> pairs.
Of(u, pairs) == {c \in Challenges : <<u, c>> \in pairs}

\* get_active_challenge: the latest challenge that is active and not past its end.
ActiveChallenge ==
    LET open == {c \in Challenges : status[c] = "active" /\ c \notin closed}
    IN  {c \in open : \A d \in open : d <= c}

----------------------------------------------------------------------------
(* Life of a handler.  A handler that ends, for whatever reason, rolls back *)
(* what it has not committed, so ending only forgets its copies.            *)

Goto(h, step) == task' = [task EXCEPT ![h].at = step]

Finish(h) ==
    /\ task' = [task EXCEPT ![h] = Idle]
    /\ me' = [me EXCEPT ![h] = NewAccount(NoUser)]
    /\ boss' = [boss EXCEPT ![h] = NewAccount(NoUser)]

\* Telegram delivers an update (again, if the webhook answered badly) and the
\* membership gate at the head of the handler lets the user through.
Requests ==
    [op: {"start"}, at: {"load"}, user: Users, chal: Challenges, code: {NoUser},
     choice: {FALSE}, seen: {FALSE}]
    \cup
    [op: {"start"}, at: {"load"}, user: Users, chal: {NoChallenge}, code: Users \cup {NoUser},
     choice: {FALSE}, seen: {FALSE}]
    \cup
    [op: {"profile", "active"}, at: {"load"}, user: Users, chal: {NoChallenge}, code: {NoUser},
     choice: {FALSE}, seen: {FALSE}]
    \cup
    [op: {"terms"}, at: {"load"}, user: Users, chal: Challenges \cup {NoChallenge},
     code: {NoUser}, choice: {FALSE}, seen: {FALSE}]
    \cup
    [op: {"answer"}, at: {"load"}, user: Users, chal: Challenges, code: {NoUser},
     choice: BOOLEAN, seen: {FALSE}]

Begin(h) ==
    /\ task[h].at = "idle"
    /\ \E request \in Requests : task' = [task EXCEPT ![h] = request]
    /\ UNCHANGED <<status, closed, rows, me, boss, granted>>

\* An exception, a cancelled task or a restart of the process ends the handler early.
Abort(h) ==
    /\ task[h].at # "idle"
    /\ Finish(h)
    /\ UNCHANGED <<status, closed, rows, granted>>

----------------------------------------------------------------------------
(* get_or_create_public_user *)

\* Mutated: the code is believed without looking its owner up.
ReferrerUnchecked(h) == task[h].code

\* The referral code counts only when the row is created, and never one's own.
ReferrerFor(h) ==
    IF task[h].code \in members \ {task[h].user} THEN task[h].code ELSE NoUser

\* Mutated: accept_terms fetches a referrer whether or not there is one.
AfterLoadUnguarded(h) ==
    CASE task[h].op = "answer" -> "enter"
      [] task[h].op # "terms"  -> "choose"
      [] me'[h].terms          -> "choose"
      [] ~me'[h].rewarded      -> "referrer"
      [] OTHER                 -> "accept"

\* Where the handler goes on with the row it has loaded.
AfterLoad(h) ==
    CASE task[h].op = "answer" -> "enter"
      [] task[h].op # "terms"  -> "choose"
      [] me'[h].terms          -> "choose"
      [] me'[h].referredBy # NoUser /\ ~me'[h].rewarded -> "referrer"
      [] OTHER                 -> "accept"

\* Mutated: a row is enough, whether or not the terms were accepted.
KnownUser(id) == id \in members

Registered(id) == id \in members /\ account[id].terms

\* answer() looks at the challenge's status first; it does not look at ends_at.
AcceptsAnswers(h) == status[task[h].chal] = "active"

LoadUser(h) ==
    /\ task[h].at = "load"
    /\ \/ /\ task[h].user \in members
          /\ task[h].op = "answer" => AcceptsAnswers(h) /\ Registered(task[h].user)
          /\ me' = [me EXCEPT ![h] = account[task[h].user]]
          /\ Goto(h, AfterLoad(h))
          /\ boss' = boss
       \/ /\ task[h].op = "answer"
          /\ ~AcceptsAnswers(h) \/ ~Registered(task[h].user)
          /\ Finish(h)
       \/ /\ task[h].op # "answer"
          /\ task[h].user \notin members
          /\ me' = [me EXCEPT ![h] = NewAccount(ReferrerFor(h))]
          /\ Goto(h, CASE task[h].op = "active" -> "choose"
                       [] task[h].op = "terms"  -> "enrol"
                       [] OTHER                 -> "create")
          /\ boss' = boss
    /\ UNCHANGED <<status, closed, rows, granted>>

\* Inserts u's row as object row, unless another handler has inserted one: then the
\* unique constraint on telegram_id raises IntegrityError and the handler dies.
Insert(h, row, next) ==
    \/ /\ task[h].user \notin members
       /\ members' = members \cup {task[h].user}
       /\ account' = [account EXCEPT ![task[h].user] = row]
       /\ me' = [me EXCEPT ![h] = row]
       /\ Goto(h, next)
       /\ boss' = boss
    \/ /\ task[h].user \in members
       /\ Finish(h)
       /\ UNCHANGED <<members, account>>

\* _load_user: the insert is committed at once.
CreateUser(h) ==
    /\ task[h].at = "create"
    /\ Insert(h, me[h], "choose")
    /\ UNCHANGED <<status, closed, joined, linked, submitted, right, granted>>

----------------------------------------------------------------------------
(* accept_terms *)

\* accept_terms_callback met no row: it is inserted with the terms accepted.
Enrol(h) ==
    /\ task[h].at = "enrol"
    /\ Insert(h, [me[h] EXCEPT !.terms = TRUE], "choose")
    /\ UNCHANGED <<status, closed, joined, linked, submitted, right, granted>>

LoadReferrer(h) ==
    /\ task[h].at = "referrer"
    /\ boss' = [boss EXCEPT ![h] = account[me[h].referredBy]]
    /\ Goto(h, "accept")
    /\ UNCHANGED <<status, closed, rows, me, granted>>

\* One commit: the terms of the user and, when a referrer was loaded, the
\* reward, added to the referrer's counters as they were loaded.
Accept(h) ==
    LET u == task[h].user
        r == me[h].referredBy
        reward == r # NoUser /\ ~me[h].rewarded
        signed == [account EXCEPT ![u] =
                      [account[u] EXCEPT !.terms = TRUE,
                                         !.rewarded = account[u].rewarded \/ reward]]
    IN  /\ task[h].at = "accept"
        /\ account' = IF ~reward THEN signed
                      ELSE [signed EXCEPT ![r] =
                              [@ EXCEPT !.refCount = boss[h].refCount + 1,
                                        !.refPoints = boss[h].refPoints + ReferralPoints,
                                        !.total = boss[h].total + ReferralPoints]]
        /\ granted' = IF reward THEN [granted EXCEPT ![r] = @ + ReferralPoints] ELSE granted
        /\ me' = [me EXCEPT ![h] = account'[u]]
        /\ Goto(h, "choose")
        /\ UNCHANGED <<status, closed, members, joined, linked, submitted, right, boss>>

----------------------------------------------------------------------------
(* Showing a challenge *)

\* The challenge a payload names, if it is active, else the latest active one: at
\* most one challenge.
Picked(h) ==
    IF task[h].chal = NoChallenge THEN ActiveChallenge
    ELSE {c \in {task[h].chal} : status[c] = "active"}

\* What start, show_profile, accept_terms_callback and active_challenge_callback
\* do once they hold the user.
Choose(h) ==
    /\ task[h].at = "choose"
    /\ \/ /\ task[h].op # "terms" /\ ~me[h].terms
          /\ Goto(h, "register")
          /\ UNCHANGED <<me, boss>>
       \/ /\ task[h].op = "terms" \/ me[h].terms
          /\ \/ task[h].op = "profile"
             \/ Picked(h) = {}
             \/ task[h].op = "start" /\ \E c \in Picked(h) : <<task[h].user, c>> \in joined
          /\ Finish(h)
       \/ /\ task[h].op = "terms" \/ me[h].terms
          /\ task[h].op # "profile"
          /\ \E c \in Picked(h) :
                 /\ task[h].op = "start" => <<task[h].user, c>> \notin joined
                 /\ task' = [task EXCEPT ![h].at = "send", ![h].chal = c]
          /\ UNCHANGED <<me, boss>>
    /\ UNCHANGED <<status, closed, rows, granted>>

\* message.from_user: the user for a command, the bot for the message under a button.
Sender(h) == IF task[h].op = "start" THEN task[h].user ELSE Bot

\* _send_challenge: a second membership gate, then the user is loaded again.
SendChallenge(h) ==
    /\ task[h].at = "send"
    /\ \/ Finish(h)
       \/ /\ ~Registered(Sender(h))
          /\ Goto(h, "register")
          /\ UNCHANGED <<me, boss>>
       \/ /\ Registered(Sender(h))
          /\ me' = [me EXCEPT ![h] = account[Sender(h)]]
          /\ Goto(h, "enter")
          /\ boss' = boss
    /\ UNCHANGED <<status, closed, rows, granted>>

\* _send_registration has asked the user to join; nothing else happens.
PromptSent(h) ==
    /\ task[h].at = "register"
    /\ Finish(h)
    /\ UNCHANGED <<status, closed, rows, granted>>

----------------------------------------------------------------------------
(* register_participant and submit_answer *)

Entry(h) == <<task[h].user, task[h].chal>>

\* The participant row is at hand, answered or not: start shows the challenge and
\* is done, answer() goes on to submit_answer unless the row was answered.
Proceed(h, answered) ==
    \/ /\ task[h].op = "answer" /\ ~answered
       /\ Goto(h, "record")
       /\ UNCHANGED <<me, boss>>
    \/ /\ task[h].op # "answer" \/ answered
       /\ Finish(h)

EnterChallenge(h) ==
    /\ task[h].at = "enter"
    /\ \/ /\ Entry(h) \notin joined
          /\ Goto(h, "join")
          /\ UNCHANGED <<me, boss>>
       \/ /\ Entry(h) \in joined \ linked
          /\ task' = [task EXCEPT ![h].at = "link", ![h].seen = Entry(h) \in submitted]
          /\ UNCHANGED <<me, boss>>
       \/ /\ Entry(h) \in joined \cap linked
          /\ Proceed(h, Entry(h) \in submitted)
    /\ UNCHANGED <<status, closed, rows, granted>>

\* One commit inserts the participant and stores the incremented challenge_count;
\* the unique constraint on (challenge_id, telegram_id) may refuse it.
Join(h) ==
    /\ task[h].at = "join"
    /\ \/ /\ Entry(h) \notin joined
          /\ joined' = joined \cup {Entry(h)}
          /\ linked' = linked \cup {Entry(h)}
          /\ account' = [account EXCEPT ![task[h].user] =
                                  [@ EXCEPT !.challenges = me[h].challenges + 1]]
          /\ Goto(h, "refresh")
          /\ UNCHANGED <<me, boss>>
       \/ /\ Entry(h) \in joined
          /\ Finish(h)
          /\ UNCHANGED <<joined, linked, account>>
    /\ UNCHANGED <<status, closed, members, submitted, right, granted>>

RefreshParticipant(h) ==
    /\ task[h].at = "refresh"
    /\ Proceed(h, Entry(h) \in submitted)
    /\ UNCHANGED <<status, closed, rows, granted>>

\* A row from before participants had a public_user_id is adopted.
Link(h) ==
    /\ task[h].at = "link"
    /\ linked' = linked \cup {Entry(h)}
    /\ Proceed(h, task[h].seen)
    /\ UNCHANGED <<status, closed, members, account, joined, submitted, right, granted>>

\* Mutated: the user's counters are incremented in the database, not on the copy.
RecordInDatabase(h) ==
    LET u == task[h].user
    IN  /\ task[h].at = "record"
        /\ submitted' = submitted \cup {Entry(h)}
        /\ IF task[h].choice
           THEN /\ right' = right \cup {Entry(h)}
                /\ account' = [account EXCEPT ![u] =
                                   [@ EXCEPT !.total = account[u].total + AnswerPoints,
                                             !.correct = account[u].correct + 1]]
           ELSE UNCHANGED <<right, account>>
        /\ Finish(h)
        /\ UNCHANGED <<status, closed, members, joined, linked, granted>>

\* Mutated: every assigned column is written, changed or not.
RecordEveryColumn(h) ==
    LET u == task[h].user
    IN  /\ task[h].at = "record"
        /\ submitted' = submitted \cup {Entry(h)}
        /\ IF task[h].choice
           THEN /\ right' = right \cup {Entry(h)}
                /\ account' = [account EXCEPT ![u] =
                                   [@ EXCEPT !.total = me[h].total + AnswerPoints,
                                             !.correct = me[h].correct + 1]]
           ELSE /\ right' = right \ {Entry(h)}
                /\ UNCHANGED account
        /\ Finish(h)
        /\ UNCHANGED <<status, closed, members, joined, linked, granted>>

\* The commit of submit_answer.  Only columns whose value changed since they were
\* loaded are written, and the row was loaded unanswered: a wrong answer therefore
\* writes neither answer_correct nor points, nor any column of the user.
Record(h) ==
    LET u == task[h].user
    IN  /\ task[h].at = "record"
        /\ submitted' = submitted \cup {Entry(h)}
        /\ IF task[h].choice
           THEN /\ right' = right \cup {Entry(h)}
                /\ account' = [account EXCEPT ![u] =
                                   [@ EXCEPT !.total = me[h].total + AnswerPoints,
                                             !.correct = me[h].correct + 1]]
           ELSE UNCHANGED <<right, account>>
        /\ Finish(h)
        /\ UNCHANGED <<status, closed, members, joined, linked, granted>>

----------------------------------------------------------------------------
(* The world around the handlers *)

\* publish_challenge commits a new challenge, as published or as failed.
Publish(c) ==
    /\ status[c] = "unborn"
    /\ \E s \in {"active", "publish_failed"} : status' = [status EXCEPT ![c] = s]
    /\ UNCHANGED <<closed, rows, task, me, boss, granted>>

\* The clock passes ends_at.  No code changes the status then.
Close(c) ==
    /\ status[c] # "unborn" /\ c \notin closed
    /\ closed' = closed \cup {c}
    /\ UNCHANGED <<status, rows, task, me, boss, granted>>

----------------------------------------------------------------------------

\* legacy: participant rows older than the public_users table, possibly answered.
InitWith(legacy, answered, correct) ==
    /\ status = [c \in Challenges |->
                    IF \E u \in Users : <<u, c>> \in legacy THEN "active" ELSE "unborn"]
    /\ closed = {}
    /\ members = {}
    /\ account = [u \in Users |-> NewAccount(NoUser)]
    /\ joined = legacy
    /\ linked = {}
    /\ submitted = answered
    /\ right = correct
    /\ task = [h \in Handlers |-> Idle]
    /\ me = [h \in Handlers |-> NewAccount(NoUser)]
    /\ boss = [h \in Handlers |-> NewAccount(NoUser)]
    /\ granted = [u \in Users |-> 0]

Init ==
    \E legacy \in SUBSET (Users \X Challenges) :
        \E answered \in SUBSET legacy : \E correct \in SUBSET answered :
            InitWith(legacy, answered, correct)

HandlerStep(h) ==
    \/ LoadUser(h) \/ CreateUser(h) \/ Enrol(h) \/ LoadReferrer(h) \/ Accept(h)
    \/ Choose(h) \/ SendChallenge(h) \/ PromptSent(h)
    \/ EnterChallenge(h) \/ Join(h) \/ RefreshParticipant(h) \/ Link(h) \/ Record(h)

Next ==
    \/ \E h \in Handlers : Begin(h) \/ HandlerStep(h) \/ Abort(h)
    \/ \E c \in Challenges : Publish(c) \/ Close(c)

Spec == Init /\ [][Next]_vars

----------------------------------------------------------------------------
(* Properties *)

\* Every variable holds what its column or object can hold.
TypeOK ==
    /\ status \in [Challenges -> {"unborn", "active", "publish_failed"}]
    /\ closed \subseteq Challenges
    /\ members \subseteq Users
    /\ account \in [Users -> Account]
    /\ joined \subseteq Users \X Challenges
    /\ linked \subseteq Users \X Challenges
    /\ submitted \subseteq Users \X Challenges
    /\ right \subseteq Users \X Challenges
    /\ task \in [Handlers -> Task]
    /\ \A h \in Handlers :
           /\ task[h].at # "idle" => task[h].user \in Users
           /\ \/ task[h].op = "answer"
              \/ task[h].at \in {"send", "enter", "join", "refresh", "link", "record"}
              => task[h].chal \in Challenges
           /\ task[h].at = "referrer" => me[h].referredBy \in Users
    /\ me \in [Handlers -> Account]
    /\ boss \in [Handlers -> Account]
    /\ granted \in [Users -> Nat]

\* However the taps of a user interleave, stale copies and all, the profile never
\* claims more correct answers than the user has correctly answered challenges, and
\* never more challenges than the user has entered (submit_answer and
\* register_participant add to a copy that was loaded before the participant row).
NeverOvercounted ==
    \A u \in Users :
        /\ account[u].correct <= Cardinality(Of(u, right))
        /\ account[u].challenges <= Cardinality(Of(u, joined))

\* Points are not minted: total_points is covered by correctly answered challenges
\* and by referral rewards that were committed for the user.
PointsBacked ==
    \A u \in Users :
        account[u].total <= AnswerPoints * Cardinality(Of(u, right)) + granted[u]

\* Whoever is linked to a participation has accepted the terms: no path around
\* the registration prompt leads to register_participant.
ParticipantsAccepted == \A p \in linked : p[1] \in members /\ account[p[1]].terms

\* Referrals form a forest: nobody is, through any chain of referrals, their own
\* referrer, because the code of a row counts only at the birth of another.
NoReferralCycle ==
    \A group \in SUBSET members :
        group # {} => \E u \in group : account[u].referredBy \notin group

\* What was recorded stays recorded: participations, answers and accepted terms are
\* never withdrawn, and of two racing taps a wrong one never takes back the right one.
RecordsStay ==
    [][/\ joined \subseteq joined' /\ linked \subseteq linked'
       /\ submitted \subseteq submitted' /\ right \subseteq right'
       /\ \A u \in members : /\ u \in members'
                             /\ account[u].terms => account'[u].terms
                             /\ account[u].rewarded => account'[u].rewarded
                             /\ account'[u].referredBy = account[u].referredBy]_vars

----------------------------------------------------------------------------
(* What the bot's texts promise and the code does not keep *)

\* "Each participant gets one attempt": the verdict on a recorded answer is final.
OneAttempt == [][\A p \in submitted : p \in right' => p \in right]_vars

\* "Closes: ...": a tap that is handled after ends_at is turned away.
LateTapTurnedAway ==
    [][\A h \in Handlers :
          task[h].at = "load" /\ task[h].op = "answer" /\ task[h].chal \in closed
              => task'[h].at \in {"load", "idle"}]_vars

\* "Registration confirmed.": the handler that confirmed it goes on to show the
\* challenge, it does not ask the same user to register again.
ConfirmedNotPromptedAgain ==
    \A h \in Handlers : task[h].op = "terms" => task[h].at # "register"

=============================================================================
