-------------------------------- MODULE AiEngine --------------------------------
(***************************************************************************)
(* The calls of the AI provider.  Every call of the process goes through   *)
(* generate_reply (three attempts), generate_content and the others (one   *)
(* attempt); one that the provider refuses for the quota or the key stops  *)
(* all calls for an hour.  The cooldown is one number in the process, read *)
(* before a request is sent and written when one comes back, and requests  *)
(* of many tasks are under way in between.                                 *)
(***************************************************************************)
EXTENDS Integers, FiniteSets

CONSTANTS
    Asks,      \* calls under way at the same time
    Cooldown,   \* QUOTA_COOLDOWN
    LastTick,   \* the time that is modelled (a bound)
    Never

ASSUME EngineTimes == Cooldown \in Nat \ {0} /\ LastTick \in Nat
ASSUME NeverIsNoTick == Never \notin Nat

VARIABLES
    tick,       \* time.monotonic()
    until,      \* _quota_exhausted_until
    call,       \* call[c]: where a call is
    refused     \* history: when the provider last refused a request for quota or key

evars == <<tick, until, call, refused>>

Kinds == {"reply", "facts", "content", "embedding", "health"}

\* stop_after_attempt(3) on generate_reply, which extract_facts_from_conversation calls.
Attempts(kind) == IF kind \in {"reply", "facts"} THEN 3 ELSE 1

\* What the caller gets: text, an exception, or nothing ({}, [] or False).
Outcomes == {"text", "raised", "nothing"}
Running == {"start", "sent", "wait"}
Call == [at: {"idle"} \cup Running \cup Outcomes, kind: Kinds, tries: 0..3]
NoCall == [at |-> "idle", kind |-> "reply", tries |-> 0]

EInit ==
    /\ tick = 0 /\ until = 0
    /\ call = [c \in Asks |-> NoCall]
    /\ refused = Never

----------------------------------------------------------------------------
\* _is_quota_exhausted
Exhausted == tick < until

\* generate_reply and generate_content raise; the others answer with nothing.
Failure(kind) == IF kind \in {"reply", "content"} THEN "raised" ELSE "nothing"

\* A task begins a call.
BeginCall(c, kind) ==
    /\ call[c].at \notin Running
    /\ call' = [call EXCEPT ![c] = [at |-> "start", kind |-> kind, tries |-> 0]]
    /\ UNCHANGED <<tick, until, refused>>

\* The cooldown runs: no request is sent, and none is attempted again (the text of the
\* exception has the word quota in it).
Refuse(c) ==
    /\ call[c].at = "start" /\ Exhausted
    /\ call' = [call EXCEPT ![c].at = Failure(call[c].kind)]
    /\ UNCHANGED <<tick, until, refused>>

\* A request goes out.  (tries counts to 3, the most that are ever made.)
SendRequest(c) ==
    /\ call[c].at = "start" /\ ~Exhausted
    /\ call' = [call EXCEPT ![c].at = "sent", ![c].tries = IF @ < 3 THEN @ + 1 ELSE 3]
    /\ UNCHANGED <<tick, until, refused>>

\* It comes back with text.
Answered200(c) ==
    /\ call[c].at = "sent"
    /\ call' = [call EXCEPT ![c].at = "text"]
    /\ UNCHANGED <<tick, until, refused>>

\* Mutated: a cooldown that runs is not prolonged.
MarkOnce == IF Exhausted THEN until ELSE tick + Cooldown

\* _mark_quota_exhausted
Mark == tick + Cooldown

\* It comes back with an error that _is_quota_error takes for one of the quota or the key:
\* "quota" is one, "alike" is another whose text has one of the words it looks for (such
\* as the exceeded in context_length_exceeded).  The cooldown starts anew.
QuotaError(c, error) ==
    /\ call[c].at = "sent"
    /\ until' = Mark
    /\ refused' = IF error = "quota" THEN tick ELSE refused
    /\ call' = [call EXCEPT ![c].at = Failure(call[c].kind)]
    /\ UNCHANGED tick

\* Mutated: a reply is attempted until there is one.
AnotherAlways(c) == Attempts(call[c].kind) > 1

Another(c) == call[c].tries < Attempts(call[c].kind)

\* It comes back with another error, with an empty answer, or not at all within its
\* timeout: after a while there is another attempt, if one is left.
OtherError(c) ==
    /\ call[c].at = "sent"
    /\ call' = [call EXCEPT ![c].at = IF Another(c) THEN "wait" ELSE Failure(call[c].kind)]
    /\ UNCHANGED <<tick, until, refused>>

\* The wait is over.
Resume(c) ==
    /\ call[c].at = "wait"
    /\ call' = [call EXCEPT ![c].at = "start"]
    /\ UNCHANGED <<tick, until, refused>>

TickOn ==
    /\ tick < LastTick /\ tick' = tick + 1
    /\ UNCHANGED <<until, call, refused>>

\* The process restarts: the cooldown is forgotten with everything else.
EngineRestart ==
    /\ until' = 0 /\ call' = [c \in Asks |-> NoCall] /\ refused' = Never
    /\ UNCHANGED tick

Proceed(c) ==
    \/ Refuse(c) \/ SendRequest(c) \/ Resume(c)
    \/ Answered200(c) \/ OtherError(c) \/ \E error \in {"quota", "alike"} : QuotaError(c, error)

ENext ==
    \/ TickOn \/ EngineRestart
    \/ \E c \in Asks : Proceed(c) \/ \E kind \in Kinds : BeginCall(c, kind)

ESpec == EInit /\ [][ENext]_evars

\* The client has a timeout of 60 seconds, and the loop runs what can run.
EFairSpec == ESpec /\ \A c \in Asks : WF_evars(Proceed(c))

----------------------------------------------------------------------------
(* Properties *)

\* Every variable of the engine keeps its type; a call that is attempted once never waits
\* for another attempt, and no call waits after its last one (engine.py:100-105).
EngineTypeOK ==
    /\ tick \in 0..LastTick /\ until \in 0..(LastTick + Cooldown)
    /\ refused \in Nat \cup {Never} /\ call \in [Asks -> Call]
    /\ \A c \in Asks : call[c].at = "wait" => call[c].tries < Attempts(call[c].kind)

\* For an hour after the provider has refused a request for its quota or key no request is
\* sent, although requests that were under way are refused during that hour and each
\* refusal writes the end of the cooldown (engine.py:32-48, 118-120, 149-154).
QuietAfterRefusal ==
    [][\A c \in Asks : (call[c].at = "start" /\ call'[c].at = "sent") =>
           refused = Never \/ tick >= refused + Cooldown]_evars

\* Every call comes to an end, with text or without, whatever the provider answers
\* (engine.py:100-106: the attempts are counted).
CallEnds ==
    \A c \in Asks : (call[c].at \in Running) ~> (call[c].at \notin Running)

\* "True for errors that mean the key is exhausted / invalid": the calls are stopped only
\* after the provider has refused one for its quota or its key (engine.py:84-93).
OnlyRefusalStops == Exhausted => refused # Never

================================================================================
