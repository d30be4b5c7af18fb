----------------------------- MODULE SalesDialog -----------------------------
(***************************************************************************)
(* The sales dialogue with one customer of one account: the handler of a   *)
(* private message, which works in one database transaction from the       *)
(* customer's row to the recorded reply, and the background extraction of  *)
(* facts, which has a transaction of its own.  Messages are handled        *)
(* concurrently, every database or cache operation is an await, and what a *)
(* transaction writes is seen by the others when it commits; the ids of    *)
(* the conversation and of the lead, and the memory of the customer, are   *)
(* also in the cache, which knows nothing of transactions.                 *)
(***************************************************************************)
EXTENDS Naturals, FiniteSets

CONSTANTS
    Handlers,   \* messages and extractions under way at the same time
    Talks,      \* ids of conversations (a bound)
    Leads,      \* ids of leads (a bound)
    Facts,      \* keys of the customer's memory
    MaxScore,   \* lead scores are 0..MaxScore
    Nil

ASSUME DialogAssumption ==
    /\ IsFiniteSet(Handlers) /\ MaxScore \in Nat
    /\ Nil \notin Talks \cup Leads \cup Facts /\ Nil \notin Nat

VARIABLES
    customer,   \* the customer has a committed row
    talk,       \* talk[c]: "unused", "active" or "closed": committed conversations
    lead,       \* lead[l]: status and score of committed leads
    memory,     \* memory[f]: committed rows of key f
    cached,     \* the cache: conversation id, lead id, remembered keys ({}: nothing)
    run,        \* run[h]: where handler h is, and what its transaction has written
    orderly     \* history: no two handlers overlapped, no id expired, no lead was reopened
                \* or patched under a handler

dvars == <<customer, talk, lead, memory, cached, run, orderly>>
table == <<customer, talk, lead, memory>>

\* A message scores points for its topic, its urgency and the words of a buyer.
Scores == 0..MaxScore

Statuses == {"unused", "open", "closed"}
Steps == {"idle", "customer", "talk", "findTalk", "newTalk", "keepTalk", "noted", "lead",
          "findLead", "newLead", "keepLead", "fact", "upsert", "forget", "context", "recall",
          "remember", "reply", "answer"}

Run == [at: Steps, kind: {"message", "extraction"}, new: BOOLEAN,
        talk: Talks \cup {Nil}, newTalk: Talks \cup {Nil},
        lead: Leads \cup {Nil}, newLead: Leads \cup {Nil}, score: {Nil} \cup Scores,
        fact: Facts \cup {Nil}, insert: BOOLEAN, read: SUBSET Facts]
Rest == [at |-> "idle", kind |-> "message", new |-> FALSE, talk |-> Nil, newTalk |-> Nil,
         lead |-> Nil, newLead |-> Nil, score |-> Nil, fact |-> Nil, insert |-> FALSE,
         read |-> {}]

DInit ==
    /\ customer = FALSE
    /\ talk = [c \in Talks |-> "unused"]
    /\ lead = [l \in Leads |-> [status |-> "unused", score |-> 0]]
    /\ memory = [f \in Facts |-> 0]
    /\ cached = [talk |-> Nil, lead |-> Nil, facts |-> {}]
    /\ run = [h \in Handlers |-> Rest]
    /\ orderly = TRUE

Busy == {h \in Handlers : run[h].at # "idle"}

\* Ids in use: by a committed row, by a transaction, or by the cache alone.
FreshTalks == {c \in Talks : /\ talk[c] = "unused" /\ cached.talk # c
                             /\ \A h \in Handlers : run[h].newTalk # c}
FreshLeads == {l \in Leads : /\ lead[l].status = "unused" /\ cached.lead # l
                             /\ \A h \in Handlers : run[h].newLead # l}

\* Handler h goes on as r; a step of its own transaction leaves the committed rows alone.
Go(h, r) == run' = [run EXCEPT ![h] = r]
Quiet == UNCHANGED <<table, orderly>>

----------------------------------------------------------------------------
(* The customer and the conversation *)

\* A message passed the spam gate; get_or_create_customer selects the row.
Receive(h) ==
    /\ run[h].at = "idle"
    /\ Go(h, [Rest EXCEPT !.at = "customer", !.new = ~customer])
    /\ orderly' = (orderly /\ Busy = {})
    /\ UNCHANGED <<table, cached>>

\* Another transaction has inserted the customer and has not ended.
Inserting(h) == \E g \in Handlers \ {h} : run[g].new /\ run[g].at \notin {"customer", "answer"}

\* The row is flushed, after waiting for such a transaction; telegram_id is unique, so the
\* insert fails when the row has been committed meanwhile.  Then the cached id is read.
FlushCustomer(h) ==
    /\ run[h].at = "customer"
    /\ ~run[h].new \/ (~Inserting(h) /\ ~customer)
    /\ Go(h, [run[h] EXCEPT !.at = "talk"])
    /\ UNCHANGED cached /\ Quiet

ReadTalkKey(h) ==
    /\ run[h].at = "talk"
    /\ Go(h, IF cached.talk = Nil THEN [run[h] EXCEPT !.at = "newTalk"]
             ELSE [run[h] EXCEPT !.at = "findTalk", !.talk = cached.talk])
    /\ UNCHANGED cached /\ Quiet

\* The cached id is used when its row is visible and active.
FindTalk(h) ==
    /\ run[h].at = "findTalk"
    /\ Go(h, IF talk[run[h].talk] = "active" THEN [run[h] EXCEPT !.at = "noted", !.talk = Nil]
             ELSE [run[h] EXCEPT !.at = "newTalk", !.talk = Nil])
    /\ UNCHANGED cached /\ Quiet

NewTalk(h) ==
    /\ run[h].at = "newTalk"
    /\ \E c \in FreshTalks : Go(h, [run[h] EXCEPT !.at = "keepTalk", !.newTalk = c])
    /\ UNCHANGED cached /\ Quiet

\* Mutated: the new id is left out of the cache.
TalkKeyMissing(h) == UNCHANGED cached

TalkKey(h) == cached' = [cached EXCEPT !.talk = run[h].newTalk]

\* The id enters the cache before the row is committed.
KeepTalk(h) ==
    /\ run[h].at = "keepTalk"
    /\ TalkKey(h)
    /\ Go(h, [run[h] EXCEPT !.at = "noted"])
    /\ Quiet

\* The message is flushed.  A greeting is answered at once, any other message is classified:
\* it may be about a sale, and it may carry a fact.
Noted(h) ==
    /\ run[h].at = "noted"
    /\ \E next \in {"reply", "lead", "fact", "context"} : Go(h, [run[h] EXCEPT !.at = next])
    /\ UNCHANGED cached /\ Quiet

----------------------------------------------------------------------------
(* The lead *)

AfterLead == {"fact", "context"}

ReadLeadKey(h) ==
    /\ run[h].at = "lead"
    /\ Go(h, IF cached.lead = Nil THEN [run[h] EXCEPT !.at = "newLead"]
             ELSE [run[h] EXCEPT !.at = "findLead", !.lead = cached.lead])
    /\ UNCHANGED cached /\ Quiet

\* Mutated: the score of the last message replaces the score of the lead.
Latest(new, old) == new

\* Mutated: scores add up.
Summed(new, old) == new + old

\* A score lower than the stored one changes nothing.
Higher(new, old) == IF new > old THEN new ELSE Nil

\* A visible open lead is updated when the score rises; otherwise a new one is made.
FindLead(h) ==
    /\ run[h].at = "findLead"
    /\ LET l == lead[run[h].lead]
       IN  IF l.status = "open"
           THEN \E s \in Scores, next \in AfterLead :
                    Go(h, [run[h] EXCEPT !.at = next, !.score = Higher(s, l.score),
                                         !.lead = IF Higher(s, l.score) = Nil THEN Nil ELSE @])
           ELSE Go(h, [run[h] EXCEPT !.at = "newLead", !.lead = Nil])
    /\ UNCHANGED cached /\ Quiet

NewLead(h) ==
    /\ run[h].at = "newLead"
    /\ \E l \in FreshLeads, s \in Scores :
           Go(h, [run[h] EXCEPT !.at = "keepLead", !.newLead = l, !.score = s])
    /\ UNCHANGED cached /\ Quiet

KeepLead(h) ==
    /\ run[h].at = "keepLead"
    /\ cached' = [cached EXCEPT !.lead = run[h].newLead]
    /\ \E next \in AfterLead : Go(h, [run[h] EXCEPT !.at = next])
    /\ Quiet

----------------------------------------------------------------------------
(* The memory of the customer *)

\* The background extraction found a fact in a conversation.
Extract(h) ==
    /\ run[h].at = "idle" /\ customer
    /\ Go(h, [Rest EXCEPT !.at = "fact", !.kind = "extraction"])
    /\ orderly' = (orderly /\ Busy = {})
    /\ UNCHANGED <<table, cached>>

\* upsert_memory looks for the row; to find two rows of the key is an error (see Fail).
Upsert(h) ==
    /\ run[h].at = "fact"
    /\ \E f \in Facts :
           /\ memory[f] <= 1
           /\ Go(h, [run[h] EXCEPT !.at = "forget", !.fact = f, !.insert = (memory[f] = 0)])
    /\ UNCHANGED cached /\ Quiet

\* The cached memory is deleted; the row itself is written when the transaction commits.
Forget(h) ==
    /\ run[h].at = "forget"
    /\ cached' = [cached EXCEPT !.facts = {}]
    /\ Go(h, [run[h] EXCEPT !.at = IF run[h].kind = "message" THEN "context" ELSE "reply"])
    /\ Quiet

\* build_context_prompt: the cached memory, or else the rows.  A row the handler itself
\* has only added is not among them.
Context(h) ==
    /\ run[h].at = "context"
    /\ Go(h, [run[h] EXCEPT !.at = IF cached.facts = {} THEN "recall" ELSE "reply"])
    /\ UNCHANGED cached /\ Quiet

Stored == {f \in Facts : memory[f] > 0}

Recall(h) ==
    /\ run[h].at = "recall"
    /\ Go(h, [run[h] EXCEPT !.at = "remember", !.read = Stored])
    /\ UNCHANGED cached /\ Quiet

Remember(h) ==
    /\ run[h].at = "remember"
    /\ cached' = [cached EXCEPT !.facts = run[h].read]
    /\ Go(h, [run[h] EXCEPT !.at = "reply", !.read = {}])
    /\ Quiet

----------------------------------------------------------------------------
(* The end of a handler *)

\* The reply is recorded and everything the transaction wrote becomes visible at once.
Commit(h) ==
    LET r == run[h]
    IN  /\ r.at = "reply"
        /\ customer' = (customer \/ r.new)
        /\ talk' = IF r.newTalk = Nil THEN talk ELSE [talk EXCEPT ![r.newTalk] = "active"]
        /\ lead' = IF r.newLead # Nil
                   THEN [lead EXCEPT ![r.newLead] = [status |-> "open", score |-> r.score]]
                   ELSE IF r.score # Nil THEN [lead EXCEPT ![r.lead].score = r.score] ELSE lead
        /\ memory' = IF r.insert THEN [memory EXCEPT ![r.fact] = @ + 1] ELSE memory
        /\ Go(h, IF r.kind = "message" THEN [Rest EXCEPT !.at = "answer"] ELSE Rest)
        /\ UNCHANGED <<cached, orderly>>

\* The reply is sent, or the sending fails and the failure is only logged.
Answer(h) ==
    /\ run[h].at = "answer"
    /\ Go(h, Rest)
    /\ UNCHANGED cached /\ Quiet

\* An operation fails, or two rows of the memory key are found: the transaction is rolled
\* back, the message stays without an answer, and the cache keeps what it was given.
Fail(h) ==
    /\ run[h].at \notin {"idle", "answer"}
    /\ Go(h, Rest)
    /\ UNCHANGED cached /\ Quiet

Handle(h) ==
    \/ FlushCustomer(h) \/ ReadTalkKey(h) \/ FindTalk(h) \/ NewTalk(h) \/ KeepTalk(h) \/ Noted(h)
    \/ ReadLeadKey(h) \/ FindLead(h) \/ NewLead(h) \/ KeepLead(h)
    \/ Upsert(h) \/ Forget(h) \/ Context(h) \/ Recall(h) \/ Remember(h)
    \/ Commit(h) \/ Answer(h)

----------------------------------------------------------------------------
(* The cache and the REST API *)

\* A key expires: the memory after an hour, the conversation after a day, the lead after
\* seven.
Expire ==
    /\ \E key \in DOMAIN cached :
           /\ cached[key] \notin {Nil, {}}
           /\ cached' = [cached EXCEPT ![key] = IF key = "facts" THEN {} ELSE Nil]
           /\ orderly' = (orderly /\ key = "facts")
    /\ UNCHANGED <<table, run>>

\* PATCH /leads/{id}: any status and any score.
PatchLead(l) ==
    /\ lead[l].status # "unused"
    /\ \E status \in {"open", "closed"}, s \in Scores :
           /\ lead' = [lead EXCEPT ![l] = [status |-> status, score |-> s]]
           /\ orderly' = (orderly /\ Busy = {} /\ (status = "open" => lead[l].status = "open"))
    /\ UNCHANGED <<customer, talk, memory, cached, run>>

CloseTalk(c) ==
    /\ talk[c] = "active"
    /\ talk' = [talk EXCEPT ![c] = "closed"]
    /\ UNCHANGED <<customer, lead, memory, cached, run, orderly>>

DNext ==
    \/ \E h \in Handlers : Receive(h) \/ Extract(h) \/ Handle(h) \/ Fail(h)
    \/ Expire
    \/ \E l \in Leads : PatchLead(l)
    \/ \E c \in Talks : CloseTalk(c)

DSpec == DInit /\ [][DNext]_dvars

----------------------------------------------------------------------------
(* Properties *)

\* Every variable of the dialogue keeps its type.
DialogTypeOK ==
    /\ customer \in BOOLEAN
    /\ talk \in [Talks -> {"unused", "active", "closed"}]
    /\ lead \in [Leads -> [status: Statuses, score: Scores]]
    /\ memory \in [Facts -> 0..Cardinality(Handlers)]
    /\ cached \in [talk: Talks \cup {Nil}, lead: Leads \cup {Nil}, facts: SUBSET Facts]
    /\ run \in [Handlers -> Run] /\ orderly \in BOOLEAN

Active == {c \in Talks : talk[c] = "active"}
Open == {l \in Leads : lead[l].status = "open"}

\* Messages handled one after the other, even when some of them fail halfway and are rolled
\* back, keep the customer in one active conversation, with one open lead and one row for a
\* fact, until a cached id expires or a lead is reopened (handlers.py:288-312,
\* lead_manager.py:19-52, memory.py:37-56).
OneOfEach ==
    orderly => /\ Cardinality(Active) <= 1 /\ Cardinality(Open) <= 1
               /\ \A f \in Facts : memory[f] <= 1

\* Messages only ever raise the score of a lead, as long as they come one after the other
\* and nobody patches the lead under them (lead_manager.py:26-28).
ScoreNeverFalls ==
    [][(orderly /\ Busy # {}) =>
           \A l \in Leads : lead'[l].score >= lead[l].score \/ ~orderly']_dvars

\* AUDIT.md item 2: upserting invalidates the cached memory immediately and atomically.  So
\* when no handler is at work, what is remembered is what is stored (memory.py:58-59).
MemoryIsFresh == (Busy = {} /\ cached.facts # {}) => cached.facts = Stored

=============================================================================
