------------------------------- MODULE SpamGate -------------------------------
(***************************************************************************)
(* The anti-spam gate in front of the sales dialogue, for one customer:    *)
(* the score of a message, the strikes and the blacklist, all of them kept *)
(* in the cache, whichever store the cache is at the moment.  Every cache  *)
(* operation is an await, so two messages of the customer interleave.      *)
(* Scores are in hundredths.                                               *)
(***************************************************************************)
EXTENDS RedisFallback, Naturals, FiniteSets

CONSTANTS
    Texts,      \* scores of the text alone: patterns 30 each, length, links, capitals
    MaxSpam     \* messages whose text scores 30 or more (a bound)

Threshold  == 80
Suspicious == 50
MaxStrikes == 3

VARIABLES
    msg,        \* msg[k]: where the handling of message k is
    spam,       \* history: messages received whose text alone scored 30 or more
    cut         \* history: a message was given up between its third strike and the ban, or
                \* the cache changed over in between and the ban went to the other store

svars == <<fvars, msg, spam, cut>>

Data == [banned: BOOLEAN, strikes: 0..MaxSpam, hot: BOOLEAN]
Clean == [banned |-> FALSE, strikes |-> 0, hot |-> FALSE]

ASSUME SpamAssumption ==
    NoData = Clean /\ Texts \subseteq Nat /\ MaxSpam \in Nat /\ IsFiniteSet(Callers)

Message == [at: {"idle", "listed", "rate", "prev", "score", "strikes", "strike", "ban"},
            score: Nat, seen: 0..MaxSpam, in: Stores]
Done == [at |-> "idle", score |-> 0, seen |-> 0, in |-> "fake"]

SInit == FInit /\ msg = [k \in Callers |-> Done] /\ spam = 0 /\ cut = FALSE

----------------------------------------------------------------------------
\* A text reaches should_block.
Receive(k) ==
    /\ msg[k].at = "idle"
    /\ \E t \in Texts :
           /\ spam' = IF t >= 30 THEN spam + 1 ELSE spam
           /\ spam' <= MaxSpam
           /\ msg' = [msg EXCEPT ![k] = [Done EXCEPT !.at = "listed", !.score = t]]
    /\ UNCHANGED <<fvars, cut>>

\* Message k is at step a and does its cache operation: the entry becomes d, k goes on as m.
Operate(k, s, d, m) ==
    /\ ~(s = "real" /\ ~up)
    /\ store' = [store EXCEPT ![s] = d]
    /\ msg' = [msg EXCEPT ![k] = m]
    /\ Release(k)
    /\ cut' = (cut \/ (msg[k].at = "ban" /\ s # msg[k].in))
    /\ UNCHANGED spam

\* is_blacklisted: only the cache is asked.
Listed(k, s) ==
    /\ msg[k].at = "listed"
    /\ Operate(k, s, store[s], IF store[s].banned THEN Done ELSE [msg[k] EXCEPT !.at = "rate"])

\* check_rate_limit: the counters of the minute and of the hour are incremented.  They may
\* be over the limit or not: what they hold depends on messages long past.
CountMessage(k, s) ==
    /\ msg[k].at = "rate"
    /\ \E over \in {0, 40} :
           Operate(k, s, store[s], [msg[k] EXCEPT !.at = "prev", !.score = @ + over])

\* Mutated: what made the last message suspicious counts again in full.
Grudge == Suspicious

Repeated == 10

\* The score of the message before adds to this one.
AddPrevious(k, s) ==
    /\ msg[k].at = "prev"
    /\ Operate(k, s, store[s],
               [msg[k] EXCEPT !.at = "score", !.score = @ + IF store[s].hot THEN Repeated ELSE 0])

\* Sums of 0.1, 0.15, 0.3 and 0.4 that make 0.8 come out as 0.8 or just below it,
\* depending on the terms and their order.
Blocked(score) == IF score = Threshold THEN BOOLEAN ELSE {score > Threshold}

\* The score is stored; at the threshold the message gets a strike.
StoreScore(k, s) ==
    /\ msg[k].at = "score"
    /\ \E b \in Blocked(msg[k].score) :
           Operate(k, s, [store[s] EXCEPT !.hot = (msg[k].score >= Suspicious)],
                   IF b THEN [Done EXCEPT !.at = "strikes"] ELSE Done)

\* add_strike: the count is read, then written, then looked at.
ReadStrikes(k, s) ==
    /\ msg[k].at = "strikes"
    /\ Operate(k, s, store[s], [msg[k] EXCEPT !.at = "strike", !.seen = store[s].strikes])

\* Mutated: the limit itself does not blacklist yet.
PastLimit(n) == n > MaxStrikes

StruckOut(n) == n >= MaxStrikes

WriteStrikes(k, s) ==
    /\ msg[k].at = "strike"
    /\ Operate(k, s, [store[s] EXCEPT !.strikes = msg[k].seen + 1],
               IF StruckOut(msg[k].seen + 1) THEN [Done EXCEPT !.at = "ban", !.in = s] ELSE Done)

Blacklist(k, s) ==
    /\ msg[k].at = "ban"
    /\ Operate(k, s, [store[s] EXCEPT !.banned = TRUE], Done)

Step(k, s) ==
    \/ Listed(k, s) \/ CountMessage(k, s) \/ AddPrevious(k, s) \/ StoreScore(k, s)
    \/ ReadStrikes(k, s) \/ WriteStrikes(k, s) \/ Blacklist(k, s)

\* The server does not answer: the exception ends the handling of the message.
Dropped(k) ==
    /\ msg[k].at # "idle" /\ Unanswered(k)
    /\ msg' = [msg EXCEPT ![k] = Done]
    /\ cut' = (cut \/ msg[k].at = "ban")
    /\ Release(k)
    /\ UNCHANGED <<store, spam>>

\* Keys expire: the score first, the strikes after seven days, and the
\* blacklist entry, set with the last strike, after thirty.
Forgets(s) ==
    /\ \/ store[s].hot /\ store' = [store EXCEPT ![s].hot = FALSE]
       \/ store[s].strikes > 0 /\ store' = [store EXCEPT ![s].strikes = 0]
       \/ /\ store[s].banned /\ store[s].strikes = 0
          /\ store' = [store EXCEPT ![s].banned = FALSE]
    /\ UNCHANGED <<client, recent, up, got, msg, spam, cut>>

\* The process ends, and with it what is being handled.
ProcessEnds ==
    /\ Restart
    /\ msg' = [k \in Callers |-> Done]
    /\ cut' = (cut \/ \E k \in Callers : msg[k].at = "ban")
    /\ UNCHANGED spam

SNext ==
    \/ \E k \in Callers : \/ Receive(k) \/ Dropped(k)
                          \/ \E s \in Stores : Holds(k, s) /\ Step(k, s)
                          \/ msg[k].at # "idle" /\ FStep(k) /\ UNCHANGED <<msg, spam, cut>>
    \/ (CooldownOver \/ ServerChanges) /\ UNCHANGED <<msg, spam, cut>>
    \/ \E s \in Stores : Forgets(s)
    \/ ProcessEnds

SSpec == SInit /\ [][SNext]_svars

----------------------------------------------------------------------------
(* Properties *)

\* Every variable of the gate and of the client keeps its type.
SpamTypeOK ==
    /\ client \in {"none"} \cup Stores /\ recent \in BOOLEAN /\ up \in BOOLEAN
    /\ got \in [Callers -> {"no", "ping"} \cup Stores]
    /\ store \in [Stores -> Data]
    /\ msg \in [Callers -> Message] /\ spam \in 0..MaxSpam /\ cut \in BOOLEAN

\* Nobody is blacklisted for writing fast: however messages overlap, stores change over and
\* scores feed on earlier scores, a customer on the blacklist has sent at least three
\* messages whose own text scored 0.3 or more (detector.py:48-56, 92-121).
BannedForText == \A s \in Stores : store[s].banned => spam >= MaxStrikes

\* The third strike is never left without its consequence: a customer with three strikes in
\* a store is on its blacklist, or is about to be, unless the two writes were cut apart
\* (detector.py:52-54).
StruckOutIsBanned ==
    \A s \in Stores : store[s].strikes >= MaxStrikes =>
        store[s].banned \/ cut \/ \E k \in Callers : msg[k].at = "ban"

=============================================================================
