--------------------------- MODULE SalesDialogProofs ---------------------------
(***************************************************************************)
(* One conversation, one lead and one row for a fact, and scores that only *)
(* rise, for any number of messages, extractions, conversations, leads and *)
(* keys of the memory, and any scores.                                     *)
(***************************************************************************)
EXTENDS SalesDialog, FiniteSetTheorems, TLAPS

Cached == [talk: Talks \cup {Nil}, lead: Leads \cup {Nil}, facts: SUBSET Facts]

\* DialogTypeOK is not inductive: there are not more rows of a key than handlers because every
\* row was inserted by a handler that had found none, and before it found any.
Inserters(f) == {h \in Handlers : run[h].insert /\ run[h].fact = f}

Counted == \A f \in Facts : memory[f] + Cardinality(Inserters(f)) <= Cardinality(Handlers)

\* A lead that is being made has its score.
LeadMade == {"keepLead", "fact", "forget", "context", "recall", "remember", "reply"}

Scored == \A h \in Handlers : run[h].newLead # Nil => run[h].score \in Scores /\ run[h].at \in LeadMade

Typing == DialogTypeOK /\ Counted /\ Scored

LEMMA HandlersCounted ==
    /\ IsFiniteSet(Handlers) /\ Cardinality(Handlers) \in Nat
    /\ \A S \in SUBSET Handlers : /\ IsFiniteSet(S) /\ Cardinality(S) \in Nat
                                  /\ Cardinality(S) <= Cardinality(Handlers)
  <1>1. IsFiniteSet(Handlers) /\ Cardinality(Handlers) \in Nat
    BY DialogAssumption, FS_CardinalityType
  <1>2. ASSUME NEW S \in SUBSET Handlers
        PROVE  IsFiniteSet(S) /\ Cardinality(S) \in Nat /\ Cardinality(S) <= Cardinality(Handlers)
    BY <1>1, FS_Subset, FS_CardinalityType
  <1>3. QED
    BY <1>1, <1>2

\* A handler goes on and is about to insert nothing it was not about to insert before.
LEMMA GoTyped ==
    ASSUME Typing, NEW h \in Handlers, NEW r \in Run, Go(h, r),
           r.newLead # Nil => r.score \in Scores /\ r.at \in LeadMade,
           r.insert => run[h].insert /\ r.fact = run[h].fact,
           UNCHANGED table, cached' \in Cached, orderly' \in BOOLEAN
    PROVE  Typing'
  <1> USE DEF Typing, DialogTypeOK, Go
  <1>1. ASSUME NEW f \in Facts
        PROVE  memory[f] + Cardinality(Inserters(f)') <= Cardinality(Handlers)
    <2>1. Inserters(f)' \subseteq Inserters(f) /\ Inserters(f) \in SUBSET Handlers
      BY DEF Inserters
    <2>2. Cardinality(Inserters(f)') <= Cardinality(Inserters(f))
      BY <2>1, HandlersCounted, FS_Subset
    <2>3. Cardinality(Inserters(f)') \in Nat /\ Cardinality(Inserters(f)) \in Nat
      BY <2>1, HandlersCounted
    <2>4. memory[f] \in Nat /\ memory[f] + Cardinality(Inserters(f)) <= Cardinality(Handlers)
      BY HandlersCounted DEF Counted
    <2>5. QED
      BY <2>2, <2>3, <2>4, HandlersCounted
  <1>2. Counted'
    BY <1>1 DEF Counted, table
  <1>3. Scored'
    BY DEF Scored
  <1>4. QED
    BY <1>2, <1>3 DEF table, Cached

\* What the handlers write into what is known of a handler.
LEMMA RunUpdates ==
    ASSUME NEW r \in Run, NEW s \in Steps
    PROVE  /\ [r EXCEPT !.at = s] \in Run
           /\ \A c \in Talks \cup {Nil} : /\ [r EXCEPT !.at = s, !.talk = c] \in Run
                                          /\ [r EXCEPT !.at = s, !.newTalk = c] \in Run
           /\ \A l \in Leads \cup {Nil} : [r EXCEPT !.at = s, !.lead = l] \in Run
           /\ \A l \in Leads \cup {Nil}, n \in {Nil} \cup Scores :
                  /\ [r EXCEPT !.at = s, !.newLead = l, !.score = n] \in Run
                  /\ [r EXCEPT !.at = s, !.score = n, !.lead = l] \in Run
           /\ \A f \in Facts \cup {Nil}, i \in BOOLEAN : [r EXCEPT !.at = s, !.fact = f, !.insert = i] \in Run
           /\ \A read \in SUBSET Facts : [r EXCEPT !.at = s, !.read = read] \in Run
  <1>1. [r EXCEPT !.at = s] \in Run
    BY DEF Run
  <1>2. ASSUME NEW c \in Talks \cup {Nil}
        PROVE  [r EXCEPT !.at = s, !.talk = c] \in Run
    BY Zenon DEF Run
  <1>3. ASSUME NEW c \in Talks \cup {Nil}
        PROVE  [r EXCEPT !.at = s, !.newTalk = c] \in Run
    BY Zenon DEF Run
  <1>4. ASSUME NEW l \in Leads \cup {Nil}, NEW n \in {Nil} \cup Scores
        PROVE  [r EXCEPT !.at = s, !.newLead = l, !.score = n] \in Run
    BY Zenon DEF Run
  <1>5. ASSUME NEW l \in Leads \cup {Nil}, NEW n \in {Nil} \cup Scores
        PROVE  [r EXCEPT !.at = s, !.score = n, !.lead = l] \in Run
    BY Zenon DEF Run
  <1>6. ASSUME NEW l \in Leads \cup {Nil}
        PROVE  [r EXCEPT !.at = s, !.lead = l] \in Run
    BY Zenon DEF Run
  <1>7. ASSUME NEW f \in Facts \cup {Nil}, NEW i \in BOOLEAN
        PROVE  [r EXCEPT !.at = s, !.fact = f, !.insert = i] \in Run
    BY Zenon DEF Run
  <1>8. ASSUME NEW read \in SUBSET Facts
        PROVE  [r EXCEPT !.at = s, !.read = read] \in Run
    BY Zenon DEF Run
  <1>9. QED
    BY <1>1, <1>2, <1>3, <1>4, <1>5, <1>6, <1>7, <1>8

LEMMA TypingInit == DInit => Typing
  <1> SUFFICES ASSUME DInit
               PROVE  Typing
    OBVIOUS
  <1> USE DEF DInit
  <1>1. Rest \in Run
    BY DEF Rest, Run, Steps
  <1>2. \A f \in Facts : Inserters(f) = {}
    BY DEF Inserters, Rest
  <1>3. Counted
    BY <1>2, HandlersCounted, FS_EmptySet DEF Counted
  <1>4. 0 \in 0..Cardinality(Handlers) /\ 0 \in Scores
    BY HandlersCounted, DialogAssumption DEF Scores
  <1>5. Scored
    BY DEF Scored, Rest
  <1>6. DialogTypeOK
    BY <1>1, <1>4 DEF DialogTypeOK, Statuses
  <1>7. QED
    BY <1>3, <1>5, <1>6 DEF Typing

LEMMA TypingStep ==
    ASSUME Typing, [DNext]_dvars
    PROVE  Typing'
  <1> USE DEF Typing, DialogTypeOK
  <1>0. /\ run \in [Handlers -> Run] /\ cached \in Cached /\ orderly \in BOOLEAN
        /\ Rest \in Run /\ Rest.newLead = Nil /\ Rest.insert = FALSE
        /\ \A h \in Handlers : run[h].newLead # Nil => run[h].score \in Scores /\ run[h].at \in LeadMade
    BY DEF Cached, Rest, Run, Steps, Scored
  \* A step that neither finds a fact nor touches a lead.
  <1>a. ASSUME NEW h \in Handlers, NEW r \in Run, Go(h, r),
               r.newLead = run[h].newLead /\ r.score = run[h].score,
               r.insert = run[h].insert /\ r.fact = run[h].fact,
               run[h].at \in LeadMade => r.at \in LeadMade,
               cached' \in Cached, Quiet
        PROVE  Typing'
    BY <1>0, <1>a, GoTyped DEF Quiet
  \* A handler begins, or starts over.
  <1>b. ASSUME NEW h \in Handlers, NEW r \in Run, Go(h, r), r.newLead = Nil, ~r.insert,
               UNCHANGED <<table, cached>>, orderly' \in BOOLEAN
        PROVE  Typing'
    BY <1>0, <1>b, GoTyped
  <1>1. ASSUME NEW h \in Handlers, Receive(h)
        PROVE  Typing'
    <2> DEFINE r == [Rest EXCEPT !.at = "customer", !.new = ~customer]
    <2>1. r \in Run /\ r.newLead = Nil /\ ~r.insert
      BY <1>0 DEF Rest, Run, Steps
    <2>2. Go(h, r) /\ UNCHANGED <<table, cached>> /\ orderly' \in BOOLEAN
      BY <1>0, <1>1 DEF Receive, Quiet
    <2> HIDE DEF r
    <2>3. QED
      BY <1>b, <2>1, <2>2
  <1>2. ASSUME NEW h \in Handlers, Extract(h)
        PROVE  Typing'
    <2> DEFINE r == [Rest EXCEPT !.at = "fact", !.kind = "extraction"]
    <2>1. r \in Run /\ r.newLead = Nil /\ ~r.insert
      BY <1>0 DEF Rest, Run, Steps
    <2>2. Go(h, r) /\ UNCHANGED <<table, cached>> /\ orderly' \in BOOLEAN
      BY <1>0, <1>2 DEF Extract, Quiet
    <2> HIDE DEF r
    <2>3. QED
      BY <1>b, <2>1, <2>2
  <1>3. ASSUME NEW h \in Handlers, Answer(h) \/ Fail(h)
        PROVE  Typing'
    BY <1>0, <1>3, <1>b DEF Answer, Fail, Quiet
  <1>4. ASSUME NEW h \in Handlers, FlushCustomer(h)
        PROVE  Typing'
    <2> DEFINE r == [run[h] EXCEPT !.at = "talk"]
    <2>1. /\ r.newLead = run[h].newLead /\ r.score = run[h].score
          /\ r.insert = run[h].insert /\ r.fact = run[h].fact
      BY <1>0 DEF Run
    <2>r. r \in Run
      BY <1>0, RunUpdates DEF Steps
    <2>2. Go(h, r) /\ cached' \in Cached /\ Quiet
      BY <1>0, <1>4 DEF FlushCustomer
    <2>m. run[h].at \in LeadMade => r.at \in LeadMade
      BY <1>0, <1>4 DEF FlushCustomer, LeadMade, Run
    <2> HIDE DEF r
    <2>3. QED
      BY <1>a, <2>1, <2>r, <2>m, <2>2
  <1>5. ASSUME NEW h \in Handlers, ReadTalkKey(h)
        PROVE  Typing'
    <2> DEFINE r == IF cached.talk = Nil THEN [run[h] EXCEPT !.at = "newTalk"]
                    ELSE [run[h] EXCEPT !.at = "findTalk", !.talk = cached.talk]
    <2>1. /\ r.newLead = run[h].newLead /\ r.score = run[h].score
          /\ r.insert = run[h].insert /\ r.fact = run[h].fact
      BY <1>0 DEF Run
    <2>r. r \in Run
      BY <1>0, RunUpdates DEF Steps, Cached
    <2>2. Go(h, r) /\ cached' \in Cached /\ Quiet
      BY <1>0, <1>5 DEF ReadTalkKey
    <2>m. run[h].at \in LeadMade => r.at \in LeadMade
      BY <1>0, <1>5 DEF ReadTalkKey, LeadMade, Run
    <2> HIDE DEF r
    <2>3. QED
      BY <1>a, <2>1, <2>r, <2>m, <2>2
  <1>6. ASSUME NEW h \in Handlers, FindTalk(h)
        PROVE  Typing'
    <2> DEFINE r == IF talk[run[h].talk] = "active" THEN [run[h] EXCEPT !.at = "noted", !.talk = Nil]
                    ELSE [run[h] EXCEPT !.at = "newTalk", !.talk = Nil]
    <2>1. /\ r.newLead = run[h].newLead /\ r.score = run[h].score
          /\ r.insert = run[h].insert /\ r.fact = run[h].fact
      BY <1>0 DEF Run
    <2>r. r \in Run
      <3>1. run[h] \in Run /\ Nil \in Talks \cup {Nil} /\ "noted" \in Steps /\ "newTalk" \in Steps
        BY <1>0 DEF Steps
      <3>2. /\ [run[h] EXCEPT !.at = "noted", !.talk = Nil] \in Run
            /\ [run[h] EXCEPT !.at = "newTalk", !.talk = Nil] \in Run
        BY <3>1, RunUpdates
      <3>3. QED
        BY <3>2
    <2>2. Go(h, r) /\ cached' \in Cached /\ Quiet
      BY <1>0, <1>6 DEF FindTalk
    <2>m. run[h].at \in LeadMade => r.at \in LeadMade
      BY <1>0, <1>6 DEF FindTalk, LeadMade, Run
    <2> HIDE DEF r
    <2>3. QED
      BY <1>a, <2>1, <2>r, <2>m, <2>2
  <1>7. ASSUME NEW h \in Handlers, NewTalk(h)
        PROVE  Typing'
    <2>0. PICK c \in FreshTalks : Go(h, [run[h] EXCEPT !.at = "keepTalk", !.newTalk = c])
      BY <1>7 DEF NewTalk
    <2> DEFINE r == [run[h] EXCEPT !.at = "keepTalk", !.newTalk = c]
    <2>1. /\ r.newLead = run[h].newLead /\ r.score = run[h].score
          /\ r.insert = run[h].insert /\ r.fact = run[h].fact
      BY <1>0 DEF Run
    <2>r. r \in Run
      BY <1>0, RunUpdates DEF Steps, FreshTalks
    <2>2. Go(h, r) /\ cached' \in Cached /\ Quiet
      BY <1>0, <1>7, <2>0 DEF NewTalk
    <2>m. run[h].at \in LeadMade => r.at \in LeadMade
      BY <1>0, <1>7, <2>0 DEF NewTalk, LeadMade, Run
    <2> HIDE DEF r
    <2>3. QED
      BY <1>a, <2>1, <2>r, <2>m, <2>2
  <1>8. ASSUME NEW h \in Handlers, KeepTalk(h)
        PROVE  Typing'
    <2> DEFINE r == [run[h] EXCEPT !.at = "noted"]
    <2>1. /\ r.newLead = run[h].newLead /\ r.score = run[h].score
          /\ r.insert = run[h].insert /\ r.fact = run[h].fact
      BY <1>0 DEF Run
    <2>r. r \in Run
      BY <1>0, RunUpdates DEF Steps
    <2>2. Go(h, r) /\ cached' \in Cached /\ Quiet
      BY <1>0, <1>8 DEF KeepTalk, TalkKey, Cached, Run
    <2>m. run[h].at \in LeadMade => r.at \in LeadMade
      BY <1>0, <1>8 DEF KeepTalk, LeadMade, Run
    <2> HIDE DEF r
    <2>3. QED
      BY <1>a, <2>1, <2>r, <2>m, <2>2
  <1>9. ASSUME NEW h \in Handlers, Noted(h)
        PROVE  Typing'
    <2>0. PICK next \in {"reply", "lead", "fact", "context"} : Go(h, [run[h] EXCEPT !.at = next])
      BY <1>9 DEF Noted
    <2> DEFINE r == [run[h] EXCEPT !.at = next]
    <2>1. /\ r.newLead = run[h].newLead /\ r.score = run[h].score
          /\ r.insert = run[h].insert /\ r.fact = run[h].fact
      BY <1>0 DEF Run
    <2>r. r \in Run
      BY <1>0, RunUpdates DEF Steps
    <2>2. Go(h, r) /\ cached' \in Cached /\ Quiet
      BY <1>0, <1>9, <2>0 DEF Noted
    <2>m. run[h].at \in LeadMade => r.at \in LeadMade
      BY <1>0, <1>9, <2>0 DEF Noted, LeadMade, Run
    <2> HIDE DEF r
    <2>3. QED
      BY <1>a, <2>1, <2>r, <2>m, <2>2
  <1>10. ASSUME NEW h \in Handlers, ReadLeadKey(h)
         PROVE  Typing'
    <2> DEFINE r == IF cached.lead = Nil THEN [run[h] EXCEPT !.at = "newLead"]
                    ELSE [run[h] EXCEPT !.at = "findLead", !.lead = cached.lead]
    <2>1. /\ r.newLead = run[h].newLead /\ r.score = run[h].score
          /\ r.insert = run[h].insert /\ r.fact = run[h].fact
      BY <1>0 DEF Run
    <2>r. r \in Run
      BY <1>0, RunUpdates DEF Steps, Cached
    <2>2. Go(h, r) /\ cached' \in Cached /\ Quiet
      BY <1>0, <1>10 DEF ReadLeadKey
    <2>m. run[h].at \in LeadMade => r.at \in LeadMade
      BY <1>0, <1>10 DEF ReadLeadKey, LeadMade, Run
    <2> HIDE DEF r
    <2>3. QED
      BY <1>a, <2>1, <2>r, <2>m, <2>2
  <1>11. ASSUME NEW h \in Handlers, KeepLead(h)
         PROVE  Typing'
    <2>0. PICK next \in AfterLead : Go(h, [run[h] EXCEPT !.at = next])
      BY <1>11 DEF KeepLead
    <2> DEFINE r == [run[h] EXCEPT !.at = next]
    <2>1. /\ r.newLead = run[h].newLead /\ r.score = run[h].score
          /\ r.insert = run[h].insert /\ r.fact = run[h].fact
      BY <1>0 DEF Run
    <2>r. r \in Run
      BY <1>0, RunUpdates DEF Steps, AfterLead
    <2>2. Go(h, r) /\ cached' \in Cached /\ Quiet
      BY <1>0, <1>11, <2>0 DEF KeepLead, Cached, Run
    <2>m. run[h].at \in LeadMade => r.at \in LeadMade
      BY <1>0, <1>11, <2>0 DEF KeepLead, LeadMade, Run, AfterLead
    <2> HIDE DEF r
    <2>3. QED
      BY <1>a, <2>1, <2>r, <2>m, <2>2
  <1>12. ASSUME NEW h \in Handlers, Forget(h)
         PROVE  Typing'
    <2> DEFINE r == [run[h] EXCEPT !.at = IF run[h].kind = "message" THEN "context" ELSE "reply"]
    <2>1. /\ r.newLead = run[h].newLead /\ r.score = run[h].score
          /\ r.insert = run[h].insert /\ r.fact = run[h].fact
      BY <1>0 DEF Run
    <2>r. r \in Run
      BY <1>0, RunUpdates DEF Steps
    <2>2. Go(h, r) /\ cached' \in Cached /\ Quiet
      BY <1>0, <1>12 DEF Forget, Cached
    <2>m. run[h].at \in LeadMade => r.at \in LeadMade
      BY <1>0, <1>12 DEF Forget, LeadMade, Run
    <2> HIDE DEF r
    <2>3. QED
      BY <1>a, <2>1, <2>r, <2>m, <2>2
  <1>13. ASSUME NEW h \in Handlers, Context(h)
         PROVE  Typing'
    <2> DEFINE r == [run[h] EXCEPT !.at = IF cached.facts = {} THEN "recall" ELSE "reply"]
    <2>1. /\ r.newLead = run[h].newLead /\ r.score = run[h].score
          /\ r.insert = run[h].insert /\ r.fact = run[h].fact
      BY <1>0 DEF Run
    <2>r. r \in Run
      BY <1>0, RunUpdates DEF Steps
    <2>2. Go(h, r) /\ cached' \in Cached /\ Quiet
      BY <1>0, <1>13 DEF Context
    <2>m. run[h].at \in LeadMade => r.at \in LeadMade
      BY <1>0, <1>13 DEF Context, LeadMade, Run
    <2> HIDE DEF r
    <2>3. QED
      BY <1>a, <2>1, <2>r, <2>m, <2>2
  <1>14. ASSUME NEW h \in Handlers, Recall(h)
         PROVE  Typing'
    <2> DEFINE r == [run[h] EXCEPT !.at = "remember", !.read = Stored]
    <2>1. /\ r.newLead = run[h].newLead /\ r.score = run[h].score
          /\ r.insert = run[h].insert /\ r.fact = run[h].fact
      BY <1>0 DEF Run
    <2>r. r \in Run
      BY <1>0, RunUpdates DEF Steps, Stored
    <2>2. Go(h, r) /\ cached' \in Cached /\ Quiet
      BY <1>0, <1>14 DEF Recall
    <2>m. run[h].at \in LeadMade => r.at \in LeadMade
      BY <1>0, <1>14 DEF Recall, LeadMade, Run
    <2> HIDE DEF r
    <2>3. QED
      BY <1>a, <2>1, <2>r, <2>m, <2>2
  <1>15. ASSUME NEW h \in Handlers, Remember(h)
         PROVE  Typing'
    <2> DEFINE r == [run[h] EXCEPT !.at = "reply", !.read = {}]
    <2>1. /\ r.newLead = run[h].newLead /\ r.score = run[h].score
          /\ r.insert = run[h].insert /\ r.fact = run[h].fact
      BY <1>0 DEF Run
    <2>r. r \in Run
      BY <1>0, RunUpdates DEF Steps
    <2>2. Go(h, r) /\ cached' \in Cached /\ Quiet
      BY <1>0, <1>15 DEF Remember, Cached, Run
    <2>m. run[h].at \in LeadMade => r.at \in LeadMade
      BY <1>0, <1>15 DEF Remember, LeadMade, Run
    <2> HIDE DEF r
    <2>3. QED
      BY <1>a, <2>1, <2>r, <2>m, <2>2
  <1>16. ASSUME NEW h \in Handlers, FindLead(h)
         PROVE  Typing'
    <2> DEFINE l == lead[run[h].lead]
    <2>1. CASE l.status = "open"
      <3>1. PICK s \in Scores, next \in AfterLead :
                    Go(h, [run[h] EXCEPT !.at = next, !.score = Higher(s, l.score),
                                         !.lead = IF Higher(s, l.score) = Nil THEN Nil ELSE @])
        BY <1>16, <2>1 DEF FindLead
      <3> DEFINE r == [run[h] EXCEPT !.at = next, !.score = Higher(s, l.score),
                                     !.lead = IF Higher(s, l.score) = Nil THEN Nil ELSE @]
      <3>2. Higher(s, l.score) \in {Nil} \cup Scores
        BY DEF Higher
      <3>r. r \in Run
        <4> DEFINE n == Higher(s, l.score)
                   k == IF n = Nil THEN Nil ELSE run[h].lead
        <4>1. run[h] \in Run /\ next \in Steps /\ n \in {Nil} \cup Scores
          BY <1>0, <3>2 DEF Steps, AfterLead
        <4>2. k \in Leads \cup {Nil}
          BY <4>1 DEF Run
        <4> HIDE DEF n, k
        <4>3. [run[h] EXCEPT !.at = next, !.score = n, !.lead = k] \in Run
          BY <4>1, <4>2, RunUpdates
        <4>4. QED
          BY <4>3 DEF n, k
      <3>3. r.newLead = run[h].newLead /\ r.insert = run[h].insert /\ r.fact = run[h].fact
        BY <1>0 DEF Run
      <3>4. r.newLead = Nil
        BY <1>0, <1>16, <3>3 DEF FindLead, LeadMade
      <3>5. Go(h, r) /\ cached' \in Cached /\ Quiet
        BY <1>0, <1>16, <3>1 DEF FindLead
      <3> HIDE DEF r
      <3>6. QED
        BY <1>0, <3>r, <3>3, <3>4, <3>5, GoTyped DEF Quiet
    <2>2. CASE l.status # "open"
      <3> DEFINE r == [run[h] EXCEPT !.at = "newLead", !.lead = Nil]
      <3>r. r \in Run
        <4>1. run[h] \in Run /\ Nil \in Leads \cup {Nil} /\ "newLead" \in Steps
          BY <1>0 DEF Steps
        <4>2. QED
          BY <4>1, RunUpdates
      <3>1. /\ r.newLead = run[h].newLead /\ r.score = run[h].score
            /\ r.insert = run[h].insert /\ r.fact = run[h].fact
        BY <1>0 DEF Run
      <3>2. Go(h, r) /\ cached' \in Cached /\ Quiet
        BY <1>0, <1>16, <2>2 DEF FindLead
      <3>m. run[h].at \notin LeadMade
        BY <1>16 DEF FindLead, LeadMade
      <3> HIDE DEF r
      <3>3. QED
        BY <1>a, <3>r, <3>m, <3>1, <3>2
    <2>3. QED
      BY <2>1, <2>2
  <1>17. ASSUME NEW h \in Handlers, NewLead(h)
         PROVE  Typing'
    <2>1. PICK l \in FreshLeads, s \in Scores :
              Go(h, [run[h] EXCEPT !.at = "keepLead", !.newLead = l, !.score = s])
      BY <1>17 DEF NewLead
    <2> DEFINE r == [run[h] EXCEPT !.at = "keepLead", !.newLead = l, !.score = s]
    <2>r. r \in Run
      BY <1>0, RunUpdates DEF Steps, FreshLeads
    <2>2. /\ r.score \in Scores /\ r.at \in LeadMade
          /\ r.insert = run[h].insert /\ r.fact = run[h].fact
      BY <1>0 DEF Run, LeadMade
    <2>3. Go(h, r) /\ cached' \in Cached /\ Quiet
      BY <1>0, <1>17, <2>1 DEF NewLead
    <2> HIDE DEF r
    <2>4. QED
      BY <1>0, <2>r, <2>2, <2>3, GoTyped DEF Quiet
  <1>18. ASSUME NEW h \in Handlers, Upsert(h)
         PROVE  Typing'
    <2>1. PICK f \in Facts :
              /\ memory[f] <= 1
              /\ Go(h, [run[h] EXCEPT !.at = "forget", !.fact = f, !.insert = (memory[f] = 0)])
      BY <1>18 DEF Upsert
    <2> DEFINE r == [run[h] EXCEPT !.at = "forget", !.fact = f, !.insert = (memory[f] = 0)]
    <2>r. r \in Run
      <3> DEFINE i == memory[f] = 0
      <3>1. run[h] \in Run /\ f \in Facts \cup {Nil} /\ "forget" \in Steps /\ i \in BOOLEAN
        BY <1>0 DEF Steps
      <3> HIDE DEF i
      <3>2. [run[h] EXCEPT !.at = "forget", !.fact = f, !.insert = i] \in Run
        BY <3>1, RunUpdates, Zenon
      <3>3. QED
        BY <3>2 DEF i
    <2>2. /\ r.newLead = run[h].newLead /\ r.score = run[h].score
          /\ r.insert = (memory[f] = 0) /\ r.fact = f /\ r.at \in LeadMade
      BY <1>0 DEF Run, LeadMade
    <2>3. Go(h, r) /\ cached' \in Cached /\ Quiet
      BY <1>0, <1>18, <2>1 DEF Upsert
    <2> HIDE DEF r
    <2>4. run' = [run EXCEPT ![h] = r] /\ UNCHANGED <<table, orderly>>
      BY <2>3 DEF Go, Quiet
    <2>5. ASSUME NEW g \in Facts
          PROVE  memory[g] + Cardinality(Inserters(g)') <= Cardinality(Handlers)
      <3>1. memory[g] \in Nat /\ Inserters(g)' \in SUBSET Handlers /\ Inserters(g) \in SUBSET Handlers
        BY HandlersCounted DEF Inserters
      <3>2. CASE memory[g] = 0
        BY <3>1, <3>2, HandlersCounted
      <3>3. CASE memory[g] # 0
        <4>1. Inserters(g)' \subseteq Inserters(g)
          BY <1>0, <2>r, <2>2, <2>4, <3>3 DEF Inserters
        <4>2. Cardinality(Inserters(g)') <= Cardinality(Inserters(g))
          BY <3>1, <4>1, HandlersCounted, FS_Subset
        <4>3. Cardinality(Inserters(g)') \in Nat /\ Cardinality(Inserters(g)) \in Nat
          BY <3>1, HandlersCounted
        <4>4. memory[g] + Cardinality(Inserters(g)) <= Cardinality(Handlers)
          BY DEF Counted
        <4>5. QED
          BY <3>1, <4>2, <4>3, <4>4, HandlersCounted
      <3>4. QED
        BY <3>2, <3>3
    <2>6. Counted' /\ Scored'
      BY <1>0, <2>r, <2>2, <2>4, <2>5 DEF Counted, Scored, table
    <2>7. QED
      BY <1>0, <2>r, <2>2, <2>3, <2>4, <2>6 DEF table, Cached
  <1>19. ASSUME NEW h \in Handlers, Commit(h)
         PROVE  Typing'
    <2>1. PICK r \in Run : run' = [run EXCEPT ![h] = r] /\ r.newLead = Nil /\ ~r.insert
      <3>1. /\ [Rest EXCEPT !.at = "answer"] \in Run /\ [Rest EXCEPT !.at = "answer"].newLead = Nil
            /\ ~[Rest EXCEPT !.at = "answer"].insert
        BY <1>0 DEF Rest, Run, Steps
      <3>2. \/ run' = [run EXCEPT ![h] = [Rest EXCEPT !.at = "answer"]]
            \/ run' = [run EXCEPT ![h] = Rest]
        BY <1>19 DEF Commit, Go
      <3>3. QED
        BY <1>0, <3>1, <3>2
    <2>2. UNCHANGED <<cached, orderly>> /\ customer' \in BOOLEAN
      BY <1>0, <1>19 DEF Commit, Run
    <2>3. talk' \in [Talks -> {"unused", "active", "closed"}]
      BY <1>0, <1>19 DEF Commit, Run
    <2>4. lead' \in [Leads -> [status: Statuses, score: Scores]]
      <3>1. CASE run[h].newLead # Nil
        <4>1. [status |-> "open", score |-> run[h].score] \in [status: Statuses, score: Scores]
          BY <1>0, <3>1 DEF Statuses
        <4>2. QED
          BY <1>19, <3>1, <4>1 DEF Commit
      <3>2. CASE run[h].newLead = Nil /\ run[h].score # Nil
        <4> DEFINE l == run[h].lead
        <4>1. lead' = [lead EXCEPT ![l].score = run[h].score] /\ run[h].score \in Scores
          BY <1>0, <1>19, <3>2 DEF Commit, Run
        <4>2. CASE l \in Leads
          <5>1. [lead[l] EXCEPT !.score = run[h].score] \in [status: Statuses, score: Scores]
            BY <4>1, <4>2
          <5>2. QED
            BY <4>1, <5>1
        <4>3. CASE l \notin Leads
          BY <4>1, <4>3
        <4>4. QED
          BY <4>2, <4>3
      <3>3. CASE run[h].newLead = Nil /\ run[h].score = Nil
        BY <1>19, <3>3 DEF Commit
      <3>4. QED
        BY <3>1, <3>2, <3>3
    <2>5. ASSUME NEW g \in Facts
          PROVE  memory'[g] \in Nat /\ memory'[g] + Cardinality(Inserters(g)') <= Cardinality(Handlers)
      <3>1. /\ memory[g] \in Nat /\ Inserters(g)' \in SUBSET Handlers /\ Inserters(g) \in SUBSET Handlers
            /\ memory[g] + Cardinality(Inserters(g)) <= Cardinality(Handlers)
        BY HandlersCounted DEF Inserters, Counted
      <3>2. Inserters(g)' = Inserters(g) \ {h}
        BY <1>0, <2>1 DEF Inserters
      <3>3. CASE h \in Inserters(g)
        <4>1. memory'[g] = memory[g] + 1
          BY <1>19, <3>3 DEF Commit, Inserters
        <4>2. Cardinality(Inserters(g)') = Cardinality(Inserters(g)) - 1
          BY <3>1, <3>2, <3>3, HandlersCounted, FS_RemoveElement
        <4>3. Cardinality(Inserters(g)) \in Nat
          BY <3>1, HandlersCounted
        <4>4. QED
          BY <3>1, <4>1, <4>2, <4>3, HandlersCounted
      <3>4. CASE h \notin Inserters(g)
        <4>1. Inserters(g)' = Inserters(g)
          BY <3>2, <3>4
        <4>2. memory'[g] = memory[g]
          BY <1>19, <3>4 DEF Commit, Inserters
        <4>3. QED
          BY <3>1, <4>1, <4>2
      <3>5. QED
        BY <3>3, <3>4
    <2>6. memory' \in [Facts -> 0..Cardinality(Handlers)]
      <3>1. memory' = [g \in Facts |-> memory'[g]]
        BY <1>19 DEF Commit
      <3>2. \A g \in Facts : memory'[g] \in 0..Cardinality(Handlers)
        <4> TAKE g \in Facts
        <4>1. Inserters(g)' \in SUBSET Handlers
          BY DEF Inserters
        <4>2. Cardinality(Inserters(g)') \in Nat
          BY <4>1, HandlersCounted
        <4>3. QED
          BY <2>5, <4>2, HandlersCounted
      <3>3. QED
        BY <3>1, <3>2
    <2>7. Counted' /\ Scored'
      BY <1>0, <2>1, <2>5 DEF Counted, Scored
    <2>8. QED
      BY <1>0, <2>1, <2>2, <2>3, <2>4, <2>6, <2>7
  <1>20. CASE Expire
    <2>1. PICK key \in {"talk", "lead", "facts"} :
              cached' = [cached EXCEPT ![key] = IF key = "facts" THEN {} ELSE Nil]
      BY <1>0, <1>20 DEF Expire, Cached
    <2>2. cached' \in Cached
      BY <1>0, <2>1 DEF Cached
    <2>3. UNCHANGED <<table, run>> /\ orderly' \in BOOLEAN
      BY <1>20 DEF Expire
    <2>4. QED
      BY <2>2, <2>3 DEF Counted, Scored, Inserters, table, Cached
  <1>21. ASSUME NEW l \in Leads, PatchLead(l)
         PROVE  Typing'
    <2>1. lead' \in [Leads -> [status: Statuses, score: Scores]]
      BY <1>21 DEF PatchLead, Statuses
    <2>2. UNCHANGED <<customer, talk, memory, cached, run>> /\ orderly' \in BOOLEAN
      BY <1>21 DEF PatchLead
    <2>3. QED
      BY <2>1, <2>2 DEF Counted, Scored, Inserters
  <1>22. ASSUME NEW c \in Talks, CloseTalk(c)
         PROVE  Typing'
    BY <1>22 DEF CloseTalk, Counted, Scored, Inserters
  <1>23. CASE UNCHANGED dvars
    BY <1>23 DEF dvars, Counted, Scored, Inserters
  <1>24. QED
    BY <1>1, <1>2, <1>3, <1>4, <1>5, <1>6, <1>7, <1>8, <1>9, <1>10, <1>11, <1>12, <1>13, <1>14,
       <1>15, <1>16, <1>17, <1>18, <1>19, <1>20, <1>21, <1>22, <1>23 DEF DNext, Handle

\* Every variable of the dialogue keeps its type; in particular no key of the memory has more
\* rows than handlers that are under way at the same time.
THEOREM DialogTyped == DSpec => []DialogTypeOK
  <1>1. Typing => DialogTypeOK
    BY DEF Typing
  <1>2. QED
    BY <1>1, TypingInit, TypingStep, PTL DEF DSpec

----------------------------------------------------------------------------
(* One of each *)

\* OneOfEach is not inductive: it does not say why a message makes no second conversation or
\* lead.  It is because the one that is active or open has its id in the cache, so a handler
\* that goes on to make one has looked, and because the id of the one it makes is in the cache
\* before its row is committed.  Likewise it inserts a fact only when it found no row, and it
\* updates a lead only with a higher score.
InOrder(r, keys) ==
    /\ r.at = "findTalk" => r.talk = keys.talk
    /\ r.at \in {"newTalk", "keepTalk"} => Active = {}
    /\ r.newTalk # Nil => Active = {} /\ (r.at # "keepTalk" => r.newTalk = keys.talk)
    /\ r.at = "findLead" => r.lead = keys.lead
    /\ r.at \in {"newLead", "keepLead"} => Open = {}
    /\ r.newLead # Nil =>
          Open = {} /\ lead[r.newLead].score = 0 /\ (r.at # "keepLead" => r.newLead = keys.lead)
    /\ (r.newLead = Nil /\ r.score # Nil) =>
          lead[r.lead].status = "open" /\ r.score > lead[r.lead].score
    /\ r.score # Nil => r.at \in LeadMade
    /\ r.insert => memory[r.fact] = 0

Orderly ==
    /\ \A g, h \in Busy : g = h
    /\ \A h \in Busy : InOrder(run[h], cached)
    /\ Active \subseteq {cached.talk} /\ Open \subseteq {cached.lead}
    /\ \A l \in Leads : lead[l].status = "unused" => lead[l].score = 0
    /\ \A f \in Facts : memory[f] <= 1

\* The one handler that is at work goes on, and the committed rows stay as they are.
LEMMA GoInOrder ==
    ASSUME Typing, Orderly, NEW h \in Handlers, \A g \in Busy : g = h, NEW r \in Run, Go(h, r),
           UNCHANGED table, InOrder(r, cached'),
           Active \subseteq {cached'.talk}, Open \subseteq {cached'.lead}
    PROVE  Orderly'
  <1>1. UNCHANGED <<talk, lead, memory>> /\ run' = [run EXCEPT ![h] = r] /\ run \in [Handlers -> Run]
    BY DEF table, Go, Typing, DialogTypeOK
  <1>2. Active' = Active /\ Open' = Open
    BY <1>1 DEF Active, Open
  <1>3. \A g \in Busy' : g = h
    BY <1>1 DEF Busy
  <1>4. InOrder(run[h], cached)'
    BY <1>1, <1>2 DEF InOrder
  <1>5. QED
    BY <1>1, <1>2, <1>3, <1>4 DEF Orderly

\* What a handler finds when it looks for the cached conversation or lead.
LEMMA LookedUp ==
    ASSUME Typing, Orderly
    PROVE  /\ cached.talk = Nil => Active = {}
           /\ talk[cached.talk] # "active" => Active = {}
           /\ cached.lead = Nil => Open = {}
           /\ lead[cached.lead].status # "open" => Open = {}
  BY DialogAssumption DEF Orderly, Active, Open

LEMMA HandledInOrder ==
    ASSUME Typing, Orderly, NEW h \in Handlers, Handle(h) \/ Fail(h)
    PROVE  Orderly'
  <1>0. /\ run \in [Handlers -> Run] /\ run[h] \in Run /\ cached \in Cached
        /\ Rest \in Run
    BY DEF Typing, DialogTypeOK, Cached, Rest, Run, Steps
  <1>1. h \in Busy
    BY DEF Busy, Handle, Fail, FlushCustomer, ReadTalkKey, FindTalk, NewTalk, KeepTalk, Noted, ReadLeadKey,
           FindLead, NewLead, KeepLead, Upsert, Forget, Context, Recall, Remember, Commit, Answer
  <1>2. (\A g \in Busy : g = h) /\ InOrder(run[h], cached)
    BY <1>1 DEF Orderly
  <1>3. Active \subseteq {cached.talk} /\ Open \subseteq {cached.lead}
    BY DEF Orderly
  <1>4. Nil \in Talks \cup {Nil} /\ Nil \in Leads \cup {Nil} /\ Nil \in {Nil} \cup Scores
    OBVIOUS
  \* The cache keeps the ids.
  <1>a. ASSUME NEW r \in Run, Go(h, r), InOrder(r, cached), UNCHANGED table,
               cached'.talk = cached.talk, cached'.lead = cached.lead
        PROVE  Orderly'
    <2>1. InOrder(r, cached')
      BY <1>a DEF InOrder
    <2>2. QED
      BY <1>2, <1>3, <1>a, <2>1, GoInOrder
  <1>5. CASE Fail(h) \/ Answer(h)
    <2>1. InOrder(Rest, cached)
      BY DEF InOrder, Rest
    <2>2. QED
      BY <1>0, <1>5, <1>a, <2>1 DEF Fail, Answer, Quiet
  <1>6. CASE FlushCustomer(h)
    <2> DEFINE r == [run[h] EXCEPT !.at = "talk"]
    <2>1. r \in Run
      BY <1>0, <1>4, RunUpdates DEF Steps
    <2>2. InOrder(r, cached)
      BY <1>0, <1>2, <1>6 DEF InOrder, FlushCustomer, Run, LeadMade
    <2>3. Go(h, r) /\ UNCHANGED table /\ cached'.talk = cached.talk /\ cached'.lead = cached.lead
      BY <1>0, <1>6 DEF FlushCustomer, Quiet, Cached
    <2> HIDE DEF r
    <2>4. QED
      BY <1>a, <2>1, <2>2, <2>3
  <1>7. CASE ReadTalkKey(h)
    <2> DEFINE r == IF cached.talk = Nil THEN [run[h] EXCEPT !.at = "newTalk"]
                    ELSE [run[h] EXCEPT !.at = "findTalk", !.talk = cached.talk]
    <2>1. r \in Run
      BY <1>0, <1>4, RunUpdates DEF Steps, Cached
    <2>2. InOrder(r, cached)
      BY <1>0, <1>2, <1>7, LookedUp DEF InOrder, ReadTalkKey, Run, LeadMade
    <2>3. Go(h, r) /\ UNCHANGED table /\ cached'.talk = cached.talk /\ cached'.lead = cached.lead
      BY <1>0, <1>7 DEF ReadTalkKey, Quiet, Cached
    <2> HIDE DEF r
    <2>4. QED
      BY <1>a, <2>1, <2>2, <2>3
  <1>8. CASE FindTalk(h)
    <2> DEFINE r == IF talk[run[h].talk] = "active" THEN [run[h] EXCEPT !.at = "noted", !.talk = Nil]
                    ELSE [run[h] EXCEPT !.at = "newTalk", !.talk = Nil]
    <2>1. r \in Run
      BY <1>0, <1>4, RunUpdates DEF Steps
    <2>2. InOrder(r, cached)
      BY <1>0, <1>2, <1>8, LookedUp DEF InOrder, FindTalk, Run, LeadMade
    <2>3. Go(h, r) /\ UNCHANGED table /\ cached'.talk = cached.talk /\ cached'.lead = cached.lead
      BY <1>0, <1>8 DEF FindTalk, Quiet, Cached
    <2> HIDE DEF r
    <2>4. QED
      BY <1>a, <2>1, <2>2, <2>3
  <1>9. CASE NewTalk(h)
    <2>0. PICK c \in FreshTalks : Go(h, [run[h] EXCEPT !.at = "keepTalk", !.newTalk = c])
      BY <1>9 DEF NewTalk
    <2> DEFINE r == [run[h] EXCEPT !.at = "keepTalk", !.newTalk = c]
    <2>1. r \in Run
      BY <1>0, <1>4, RunUpdates DEF Steps, FreshTalks
    <2>2. InOrder(r, cached)
      BY <1>0, <1>2, <1>9, <2>0 DEF InOrder, NewTalk, Run, LeadMade
    <2>3. Go(h, r) /\ UNCHANGED table /\ cached'.talk = cached.talk /\ cached'.lead = cached.lead
      BY <1>0, <1>9, <2>0 DEF NewTalk, Quiet, Cached
    <2> HIDE DEF r
    <2>4. QED
      BY <1>a, <2>1, <2>2, <2>3
  <1>10. CASE Noted(h)
    <2>0. PICK next \in {"reply", "lead", "fact", "context"} : Go(h, [run[h] EXCEPT !.at = next])
      BY <1>10 DEF Noted
    <2> DEFINE r == [run[h] EXCEPT !.at = next]
    <2>1. r \in Run
      BY <1>0, <1>4, RunUpdates DEF Steps
    <2>2. InOrder(r, cached)
      BY <1>0, <1>2, <1>10, <2>0 DEF InOrder, Noted, Run, LeadMade
    <2>3. Go(h, r) /\ UNCHANGED table /\ cached'.talk = cached.talk /\ cached'.lead = cached.lead
      BY <1>0, <1>10, <2>0 DEF Noted, Quiet, Cached
    <2> HIDE DEF r
    <2>4. QED
      BY <1>a, <2>1, <2>2, <2>3
  <1>11. CASE ReadLeadKey(h)
    <2> DEFINE r == IF cached.lead = Nil THEN [run[h] EXCEPT !.at = "newLead"]
                    ELSE [run[h] EXCEPT !.at = "findLead", !.lead = cached.lead]
    <2>1. r \in Run
      BY <1>0, <1>4, RunUpdates DEF Steps, Cached
    <2>2. InOrder(r, cached)
      <3>1. run[h].at = "lead" /\ run[h].newLead = Nil /\ run[h].score = Nil
        BY <1>0, <1>2, <1>11 DEF InOrder, ReadLeadKey, Run, LeadMade, Typing, Scored
      <3>2. CASE cached.lead = Nil
        BY <1>0, <1>2, <3>1, <3>2, LookedUp DEF InOrder, Run
      <3>3. CASE cached.lead # Nil
        BY <1>0, <1>2, <3>1, <3>3 DEF InOrder, Run
      <3>4. QED
        BY <3>2, <3>3
    <2>3. Go(h, r) /\ UNCHANGED table /\ cached'.talk = cached.talk /\ cached'.lead = cached.lead
      BY <1>0, <1>11 DEF ReadLeadKey, Quiet, Cached
    <2> HIDE DEF r
    <2>4. QED
      BY <1>a, <2>1, <2>2, <2>3
  <1>12. CASE Forget(h)
    <2> DEFINE r == [run[h] EXCEPT !.at = IF run[h].kind = "message" THEN "context" ELSE "reply"]
    <2>1. r \in Run
      BY <1>0, <1>4, RunUpdates DEF Steps
    <2>2. InOrder(r, cached)
      BY <1>0, <1>2, <1>12 DEF InOrder, Forget, Run, LeadMade
    <2>3. Go(h, r) /\ UNCHANGED table /\ cached'.talk = cached.talk /\ cached'.lead = cached.lead
      BY <1>0, <1>12 DEF Forget, Quiet, Cached
    <2> HIDE DEF r
    <2>4. QED
      BY <1>a, <2>1, <2>2, <2>3
  <1>13. CASE Context(h)
    <2> DEFINE r == [run[h] EXCEPT !.at = IF cached.facts = {} THEN "recall" ELSE "reply"]
    <2>1. r \in Run
      BY <1>0, <1>4, RunUpdates DEF Steps
    <2>2. InOrder(r, cached)
      BY <1>0, <1>2, <1>13 DEF InOrder, Context, Run, LeadMade
    <2>3. Go(h, r) /\ UNCHANGED table /\ cached'.talk = cached.talk /\ cached'.lead = cached.lead
      BY <1>0, <1>13 DEF Context, Quiet, Cached
    <2> HIDE DEF r
    <2>4. QED
      BY <1>a, <2>1, <2>2, <2>3
  <1>14. CASE Recall(h)
    <2> DEFINE r == [run[h] EXCEPT !.at = "remember", !.read = Stored]
    <2>1. r \in Run
      BY <1>0, <1>4, RunUpdates DEF Steps, Stored
    <2>2. InOrder(r, cached)
      BY <1>0, <1>2, <1>14 DEF InOrder, Recall, Run, LeadMade
    <2>3. Go(h, r) /\ UNCHANGED table /\ cached'.talk = cached.talk /\ cached'.lead = cached.lead
      BY <1>0, <1>14 DEF Recall, Quiet, Cached
    <2> HIDE DEF r
    <2>4. QED
      BY <1>a, <2>1, <2>2, <2>3
  <1>15. CASE Remember(h)
    <2> DEFINE r == [run[h] EXCEPT !.at = "reply", !.read = {}]
    <2>1. r \in Run
      BY <1>0, <1>4, RunUpdates DEF Steps
    <2>2. InOrder(r, cached)
      BY <1>0, <1>2, <1>15 DEF InOrder, Remember, Run, LeadMade
    <2>3. Go(h, r) /\ UNCHANGED table /\ cached'.talk = cached.talk /\ cached'.lead = cached.lead
      BY <1>0, <1>15 DEF Remember, Quiet, Cached
    <2> HIDE DEF r
    <2>4. QED
      BY <1>a, <2>1, <2>2, <2>3
  <1>16. CASE KeepTalk(h)
    <2> DEFINE r == [run[h] EXCEPT !.at = "noted"]
    <2>1. r \in Run
      BY <1>0, RunUpdates DEF Steps
    <2>2. /\ Go(h, r) /\ UNCHANGED table
          /\ cached'.talk = run[h].newTalk /\ cached'.lead = cached.lead
      BY <1>0, <1>16 DEF KeepTalk, TalkKey, Quiet, Cached
    <2>3. Active = {}
      BY <1>2, <1>16 DEF InOrder, KeepTalk
    <2>4. InOrder(r, cached')
      <3>1. /\ r.at = "noted" /\ r.newTalk = run[h].newTalk /\ r.newLead = run[h].newLead
            /\ r.score = run[h].score /\ r.lead = run[h].lead /\ r.insert = run[h].insert
            /\ r.fact = run[h].fact
        BY <1>0 DEF Run
      <3>2. run[h].newLead = Nil /\ run[h].score = Nil
        BY <1>0, <1>2, <1>16 DEF InOrder, KeepTalk, Run, LeadMade, Typing, Scored
      <3> HIDE DEF r
      <3>3. QED
        BY <1>2, <2>2, <2>3, <3>1, <3>2 DEF InOrder
    <2> HIDE DEF r
    <2>5. QED
      BY <1>2, <1>3, <2>1, <2>2, <2>3, <2>4, GoInOrder
  <1>17. CASE KeepLead(h)
    <2>0. PICK next \in AfterLead : Go(h, [run[h] EXCEPT !.at = next])
      BY <1>17 DEF KeepLead
    <2> DEFINE r == [run[h] EXCEPT !.at = next]
    <2>1. r \in Run
      BY <1>0, RunUpdates DEF Steps, AfterLead
    <2>2. /\ Go(h, r) /\ UNCHANGED table
          /\ cached'.lead = run[h].newLead /\ cached'.talk = cached.talk
      BY <1>0, <1>17, <2>0 DEF KeepLead, Quiet, Cached
    <2>3. Open = {} /\ run[h].at = "keepLead"
      BY <1>2, <1>17 DEF InOrder, KeepLead
    <2>4. InOrder(r, cached')
      BY <1>0, <1>2, <2>2, <2>3 DEF InOrder, Run, AfterLead, LeadMade
    <2> HIDE DEF r
    <2>5. QED
      BY <1>2, <1>3, <2>1, <2>2, <2>3, <2>4, GoInOrder
  <1>18. CASE FindLead(h)
    <2> DEFINE l == lead[run[h].lead]
    <2>0. UNCHANGED <<table, cached>> /\ run[h].at = "findLead"
      BY <1>18 DEF FindLead, Quiet
    <2>1. CASE l.status = "open"
      <3>1. PICK s \in Scores, next \in AfterLead :
                    Go(h, [run[h] EXCEPT !.at = next, !.score = Higher(s, l.score),
                                         !.lead = IF Higher(s, l.score) = Nil THEN Nil ELSE @])
        BY <1>18, <2>1 DEF FindLead
      <3> DEFINE n == Higher(s, l.score)
                 k == IF n = Nil THEN Nil ELSE run[h].lead
                 r == [run[h] EXCEPT !.at = next, !.score = n, !.lead = k]
      <3>2. run[h] \in Run /\ next \in Steps /\ n \in {Nil} \cup Scores
        BY <1>0 DEF Steps, AfterLead, Higher
      <3>3. k \in Leads \cup {Nil}
        BY <3>2 DEF Run
      <3>4. n # Nil => n > lead[k].score /\ lead[k].status = "open"
        BY <2>1 DEF Higher
      <3>5. Go(h, r)
        BY <3>1
      <3> HIDE DEF n, k
      <3>6. r \in Run
        BY <3>2, <3>3, RunUpdates
      <3>7. InOrder(r, cached)
        BY <1>0, <1>2, <2>0, <3>4 DEF InOrder, Run, AfterLead, LeadMade, Typing, Scored
      <3> HIDE DEF r
      <3>8. QED
        BY <1>a, <2>0, <3>5, <3>6, <3>7
    <2>2. CASE l.status # "open"
      <3> DEFINE r == [run[h] EXCEPT !.at = "newLead", !.lead = Nil]
      <3>1. "newLead" \in Steps
        BY DEF Steps
      <3>2. r \in Run
        BY <1>0, <1>4, <3>1, RunUpdates
      <3>3. Open = {}
        BY <1>2, <2>0, <2>2, LookedUp DEF InOrder
      <3>4. InOrder(r, cached)
        <4>1. run[h].newLead = Nil /\ run[h].score = Nil
          BY <1>0, <1>2, <2>0 DEF InOrder, Run, LeadMade, Typing, Scored
        <4>2. QED
          BY <1>0, <1>2, <2>0, <3>3, <4>1 DEF InOrder, Run
      <3>5. Go(h, r)
        BY <1>18, <2>2 DEF FindLead
      <3> HIDE DEF r
      <3>6. QED
        BY <1>a, <2>0, <3>2, <3>4, <3>5
    <2>3. QED
      BY <2>1, <2>2
  <1>19. CASE NewLead(h)
    <2>1. PICK l \in FreshLeads, s \in Scores :
              Go(h, [run[h] EXCEPT !.at = "keepLead", !.newLead = l, !.score = s])
      BY <1>19 DEF NewLead
    <2> DEFINE r == [run[h] EXCEPT !.at = "keepLead", !.newLead = l, !.score = s]
    <2>2. r \in Run
      BY <1>0, RunUpdates DEF Steps, FreshLeads
    <2>3. UNCHANGED <<table, cached>> /\ run[h].at = "newLead" /\ l \in Leads /\ lead[l].status = "unused"
      BY <1>19 DEF NewLead, Quiet, FreshLeads
    <2>4. lead[l].score = 0 /\ l # Nil
      BY <2>3, DialogAssumption DEF Orderly
    <2>5. InOrder(r, cached)
      BY <1>0, <1>2, <2>3, <2>4 DEF InOrder, Run, LeadMade
    <2> HIDE DEF r
    <2>6. QED
      BY <1>a, <2>1, <2>2, <2>3, <2>5 DEF r
  <1>20. CASE Upsert(h)
    <2>1. PICK f \in Facts :
              /\ memory[f] <= 1
              /\ Go(h, [run[h] EXCEPT !.at = "forget", !.fact = f, !.insert = (memory[f] = 0)])
      BY <1>20 DEF Upsert
    <2> DEFINE i == memory[f] = 0
               r == [run[h] EXCEPT !.at = "forget", !.fact = f, !.insert = i]
    <2>2. f \in Facts \cup {Nil} /\ "forget" \in Steps /\ i \in BOOLEAN
      BY DEF Steps
    <2>3. UNCHANGED <<table, cached>> /\ run[h].at = "fact" /\ Go(h, r)
      BY <1>20, <2>1 DEF Upsert, Quiet
    <2>4. InOrder(r, cached)
      BY <1>0, <1>2, <2>3 DEF InOrder, Run, LeadMade
    <2> HIDE DEF i
    <2>5. r \in Run
      BY <1>0, <2>2, RunUpdates, Zenon
    <2> HIDE DEF r
    <2>6. QED
      BY <1>a, <2>3, <2>4, <2>5
  <1>21. CASE Commit(h)
    <2> DEFINE r == run[h]
    <2>1. PICK q \in Run : run' = [run EXCEPT ![h] = q] /\ q \in {[Rest EXCEPT !.at = "answer"], Rest}
      <3>1. [Rest EXCEPT !.at = "answer"] \in Run
        BY <1>0, RunUpdates DEF Steps
      <3>2. QED
        BY <1>0, <1>21, <3>1 DEF Commit, Go
    <2>2. /\ q.newTalk = Nil /\ q.newLead = Nil /\ q.score = Nil /\ ~q.insert
          /\ q.at \in {"answer", "idle"}
      BY <2>1 DEF Rest
    <2>3. \A keys : InOrder(run[h], keys)'
      BY <1>0, <2>1, <2>2 DEF InOrder
    <2>4. \A g \in Busy' : g = h
      BY <1>0, <1>2, <2>1 DEF Busy
    <2>5. Active' \subseteq {cached'.talk}
      <3>1. CASE r.newTalk = Nil
        BY <1>3, <1>21, <3>1 DEF Commit, Active
      <3>2. CASE r.newTalk # Nil
        BY <1>2, <1>21, <3>2 DEF Commit, Active, InOrder
      <3>3. QED
        BY <3>1, <3>2
    <2>6. Open' \subseteq {cached'.lead} /\ \A l \in Leads : lead'[l].status = "unused" => lead'[l].score = 0
      <3>1. CASE r.newLead # Nil
        <4>1. Open = {} /\ r.newLead = cached.lead
          BY <1>2, <1>21, <3>1 DEF Commit, InOrder
        <4>2. lead' = [lead EXCEPT ![r.newLead] = [status |-> "open", score |-> r.score]] /\ cached' = cached
          BY <1>21, <3>1 DEF Commit
        <4>3. \A l \in Leads : l # r.newLead => lead'[l] = lead[l]
          BY <4>2 DEF Typing, DialogTypeOK
        <4>4. r.newLead \in Leads => lead'[r.newLead].status = "open"
          BY <4>2 DEF Typing, DialogTypeOK
        <4>5. QED
          BY <4>1, <4>2, <4>3, <4>4 DEF Open, Orderly
      <3>2. CASE r.newLead = Nil /\ r.score # Nil
        <4>1. lead' = [lead EXCEPT ![r.lead].score = r.score] /\ cached' = cached
          BY <1>21, <3>2 DEF Commit
        <4>2. lead[r.lead].status = "open"
          BY <1>2, <3>2 DEF InOrder
        <4>3. \A l \in Leads : lead'[l].status = lead[l].status /\ (l # r.lead => lead'[l] = lead[l])
          BY <4>1 DEF Typing, DialogTypeOK
        <4>4. QED
          BY <1>3, <4>1, <4>2, <4>3 DEF Open, Orderly
      <3>3. CASE r.newLead = Nil /\ r.score = Nil
        BY <1>3, <1>21, <3>3 DEF Commit, Open, Orderly
      <3>4. QED
        BY <3>1, <3>2, <3>3
    <2>7. \A f \in Facts : memory'[f] <= 1
      <3>1. CASE r.insert
        <4>1. memory' = [memory EXCEPT ![r.fact] = @ + 1] /\ memory[r.fact] = 0
          BY <1>2, <1>21, <3>1 DEF Commit, InOrder
        <4>2. QED
          BY <4>1 DEF Typing, DialogTypeOK, Orderly
      <3>2. CASE ~r.insert
        BY <1>21, <3>2 DEF Commit, Orderly
      <3>3. QED
        BY <3>1, <3>2
    <2>8. QED
      BY <2>3, <2>4, <2>5, <2>6, <2>7 DEF Orderly
  <1>22. QED
    BY <1>5, <1>6, <1>7, <1>8, <1>9, <1>10, <1>11, <1>12, <1>13, <1>14, <1>15, <1>16, <1>17, <1>18,
       <1>19, <1>20, <1>21 DEF Handle

\* A handler starts while no other is at work.
LEMMA StartInOrder ==
    ASSUME Typing, Orderly, Busy = {}, NEW h \in Handlers, NEW r \in Run, Go(h, r),
           UNCHANGED <<table, cached>>, r.at \in {"customer", "fact"},
           r.newTalk = Nil, r.newLead = Nil, r.score = Nil, ~r.insert
    PROVE  Orderly'
  <1>1. UNCHANGED <<talk, lead, memory, cached>> /\ run' = [run EXCEPT ![h] = r] /\ run \in [Handlers -> Run]
    BY DEF table, Go, Typing, DialogTypeOK
  <1>2. Active' = Active /\ Open' = Open
    BY <1>1 DEF Active, Open
  <1>3. \A g \in Busy' : g = h
    BY <1>1 DEF Busy
  <1>4. InOrder(run[h], cached)'
    BY <1>1, <1>2 DEF InOrder
  <1>5. QED
    BY <1>1, <1>2, <1>3, <1>4 DEF Orderly

\* Steps of the cache and of the REST API.
LEMMA OthersInOrder ==
    ASSUME Typing, Orderly, orderly',
           Expire \/ (\E l \in Leads : PatchLead(l)) \/ (\E c \in Talks : CloseTalk(c))
    PROVE  Orderly'
  <1>1. CASE Expire
    <2>1. cached'.talk = cached.talk /\ cached'.lead = cached.lead
      BY <1>1 DEF Expire, Typing, DialogTypeOK
    <2>2. UNCHANGED <<talk, lead, memory, run>>
      BY <1>1 DEF Expire, table
    <2>3. Active' = Active /\ Open' = Open /\ Busy' = Busy
      BY <2>2 DEF Active, Open, Busy
    <2>4. ASSUME NEW h \in Busy
          PROVE  InOrder(run[h], cached)'
      <3>1. InOrder(run[h], cached)
        BY DEF Orderly
      <3>2. QED
        BY <2>1, <2>2, <2>3, <3>1 DEF InOrder
    <2>5. QED
      BY <2>1, <2>2, <2>3, <2>4 DEF Orderly
  <1>2. ASSUME NEW l \in Leads, PatchLead(l)
        PROVE  Orderly'
    <2>1. PICK status \in {"open", "closed"}, s \in Scores :
              /\ lead' = [lead EXCEPT ![l] = [status |-> status, score |-> s]]
              /\ Busy = {} /\ (status = "open" => lead[l].status = "open")
      BY <1>2 DEF PatchLead
    <2>2. UNCHANGED <<talk, memory, cached, run>>
      BY <1>2 DEF PatchLead
    <2>3. /\ \A k \in Leads : k # l => lead'[k] = lead[k]
          /\ lead'[l].status = status
      BY <2>1 DEF Typing, DialogTypeOK
    <2>4. Open' \subseteq Open /\ Active' = Active /\ Busy' = {}
      BY <2>1, <2>2, <2>3 DEF Open, Active, Busy
    <2>5. \A k \in Leads : lead'[k].status = "unused" => lead'[k].score = 0
      BY <2>3 DEF Orderly
    <2>6. QED
      BY <2>2, <2>4, <2>5 DEF Orderly
  <1>3. ASSUME NEW c \in Talks, CloseTalk(c)
        PROVE  Orderly'
    <2>1. UNCHANGED <<lead, memory, cached, run>> /\ talk' = [talk EXCEPT ![c] = "closed"]
      BY <1>3 DEF CloseTalk
    <2>2. Active' \subseteq Active /\ Open' = Open /\ Busy' = Busy
      BY <2>1 DEF Active, Open, Busy, Typing, DialogTypeOK
    <2>3. ASSUME NEW h \in Busy
          PROVE  InOrder(run[h], cached)'
      <3>1. InOrder(run[h], cached)
        BY DEF Orderly
      <3>2. QED
        BY <2>1, <2>2, <3>1 DEF InOrder
    <2>4. QED
      BY <2>1, <2>2, <2>3 DEF Orderly
  <1>4. QED
    BY <1>1, <1>2, <1>3

InOrderly == Typing /\ (orderly => Orderly)

LEMMA InOrderlyInit == DInit => InOrderly
  <1>1. DInit => Typing
    BY TypingInit
  <1>2. DInit => Busy = {} /\ Active = {} /\ Open = {}
    BY DEF DInit, Busy, Active, Open, Rest
  <1>3. DInit => Orderly
    BY <1>2 DEF DInit, Orderly
  <1>4. QED
    BY <1>1, <1>3 DEF InOrderly

LEMMA InOrderlyStep == InOrderly /\ [DNext]_dvars => InOrderly'
  <1> SUFFICES ASSUME InOrderly, [DNext]_dvars, orderly'
               PROVE  Orderly'
    BY TypingStep DEF InOrderly
  <1>1. Typing /\ orderly \in BOOLEAN
    BY DEF InOrderly, Typing, DialogTypeOK
  <1>2. ASSUME NEW h \in Handlers, Receive(h)
        PROVE  Orderly'
    <2> DEFINE r == [Rest EXCEPT !.at = "customer", !.new = ~customer]
    <2>1. r \in Run
      BY <1>1 DEF Rest, Run, Steps, Typing, DialogTypeOK
    <2>2. Go(h, r) /\ orderly /\ Busy = {} /\ UNCHANGED <<table, cached>>
      BY <1>2 DEF Receive
    <2>3. /\ r.at = "customer" /\ r.newTalk = Nil /\ r.newLead = Nil /\ r.score = Nil /\ ~r.insert
      BY DEF Rest
    <2> HIDE DEF r
    <2>4. QED
      BY <1>1, <2>1, <2>2, <2>3, StartInOrder DEF InOrderly
  <1>3. ASSUME NEW h \in Handlers, Extract(h)
        PROVE  Orderly'
    <2> DEFINE r == [Rest EXCEPT !.at = "fact", !.kind = "extraction"]
    <2>1. r \in Run
      BY DEF Rest, Run, Steps
    <2>2. Go(h, r) /\ orderly /\ Busy = {} /\ UNCHANGED <<table, cached>>
      BY <1>3 DEF Extract
    <2>3. /\ r.at = "fact" /\ r.newTalk = Nil /\ r.newLead = Nil /\ r.score = Nil /\ ~r.insert
      BY DEF Rest
    <2> HIDE DEF r
    <2>4. QED
      BY <1>1, <2>1, <2>2, <2>3, StartInOrder DEF InOrderly
  <1>4. ASSUME NEW h \in Handlers, Handle(h) \/ Fail(h)
        PROVE  Orderly'
    <2>1. orderly' = orderly
      BY <1>4 DEF Handle, Fail, FlushCustomer, ReadTalkKey, FindTalk, NewTalk, KeepTalk, Noted, ReadLeadKey,
           FindLead, NewLead, KeepLead, Upsert, Forget, Context, Recall, Remember, Commit, Answer, Quiet
    <2>2. QED
      BY <1>1, <1>4, <2>1, HandledInOrder DEF InOrderly
  <1>5. CASE Expire \/ (\E l \in Leads : PatchLead(l)) \/ (\E c \in Talks : CloseTalk(c))
    <2>1. orderly
      BY <1>1, <1>5 DEF Expire, PatchLead, CloseTalk
    <2>2. QED
      BY <1>1, <1>5, <2>1, OthersInOrder DEF InOrderly
  <1>6. CASE UNCHANGED dvars
    <2>1. Orderly /\ UNCHANGED <<talk, lead, memory, cached, run>>
      BY <1>6 DEF dvars, InOrderly
    <2>2. Active' = Active /\ Open' = Open /\ Busy' = Busy
      BY <2>1 DEF Active, Open, Busy
    <2>3. ASSUME NEW h \in Busy
          PROVE  InOrder(run[h], cached)'
      <3>1. InOrder(run[h], cached)
        BY <2>1 DEF Orderly
      <3>2. QED
        BY <2>1, <2>2, <3>1 DEF InOrder
    <2>4. QED
      BY <2>1, <2>2, <2>3 DEF Orderly
  <1>7. QED
    BY <1>2, <1>3, <1>4, <1>5, <1>6 DEF DNext

LEMMA AtMostOne ==
    ASSUME NEW S, NEW x, S \subseteq {x}
    PROVE  Cardinality(S) <= 1
  <1>1. IsFiniteSet({x}) /\ Cardinality({x}) = 1
    BY FS_Singleton
  <1>2. QED
    BY <1>1, FS_Subset

\* While no two handlers overlap and no id expires, a customer has one active conversation, one
\* open lead and one row for a fact, even when handlers fail halfway.
THEOREM OneOfEachSafe == DSpec => []OneOfEach
  <1>1. ASSUME InOrderly PROVE OneOfEach
    <2>1. ASSUME orderly
          PROVE  Active \subseteq {cached.talk} /\ Open \subseteq {cached.lead} /\ \A f \in Facts : memory[f] <= 1
      BY <1>1, <2>1 DEF InOrderly, Orderly
    <2>2. QED
      BY <2>1, AtMostOne DEF OneOfEach
  <1>2. QED
    BY <1>1, InOrderlyInit, InOrderlyStep, PTL DEF DSpec

\* While handlers come one after the other, a commit raises the score of a lead or leaves it,
\* and a patch under a handler ends the order.
LEMMA ScoreRises ==
    ASSUME InOrderly, [DNext]_dvars, orderly, Busy # {}, NEW l \in Leads
    PROVE  lead'[l].score >= lead[l].score \/ ~orderly'
  <1>0. Typing /\ Orderly /\ run \in [Handlers -> Run] /\ lead[l].score \in Nat
    BY DialogAssumption DEF InOrderly, Typing, DialogTypeOK, Scores
  <1>1. ASSUME NEW h \in Handlers, Commit(h)
        PROVE  lead'[l].score >= lead[l].score
    <2> DEFINE r == run[h]
    <2>1. InOrder(r, cached)
      BY <1>0, <1>1 DEF Orderly, Busy, Commit
    <2>2. CASE r.newLead # Nil
      <3>1. lead' = [lead EXCEPT ![r.newLead] = [status |-> "open", score |-> r.score]] /\ r.score \in Nat
        BY <1>0, <1>1, <2>2, DialogAssumption DEF Commit, Typing, Scored, Scores
      <3>2. CASE r.newLead = l
        <4>1. lead[l].score = 0
          BY <2>1, <2>2, <3>2 DEF InOrder
        <4>2. lead'[l].score = r.score
          BY <1>0, <3>1, <3>2 DEF Typing, DialogTypeOK
        <4>3. QED
          BY <3>1, <4>1, <4>2
      <3>3. CASE r.newLead # l
        BY <1>0, <3>1, <3>3 DEF Typing, DialogTypeOK
      <3>4. QED
        BY <3>2, <3>3
    <2>3. CASE r.newLead = Nil /\ r.score # Nil
      <3>1. lead' = [lead EXCEPT ![r.lead].score = r.score] /\ r.score > lead[r.lead].score /\ r.score \in Nat
        BY <1>0, <1>1, <2>1, <2>3, DialogAssumption DEF Commit, InOrder, Run, Scores
      <3>2. CASE r.lead = l
        <4>1. lead'[l].score = r.score
          BY <1>0, <3>1, <3>2 DEF Typing, DialogTypeOK
        <4>2. QED
          BY <1>0, <3>1, <3>2, <4>1
      <3>3. CASE r.lead # l
        BY <1>0, <3>1, <3>3 DEF Typing, DialogTypeOK
      <3>4. QED
        BY <3>2, <3>3
    <2>4. CASE r.newLead = Nil /\ r.score = Nil
      BY <1>0, <1>1, <2>4 DEF Commit
    <2>5. QED
      BY <2>2, <2>3, <2>4
  <1>2. ASSUME NEW k \in Leads, PatchLead(k)
        PROVE  ~orderly'
    BY <1>2 DEF PatchLead
  <1>3. CASE lead' = lead
    BY <1>0, <1>3
  <1>4. QED
    BY <1>1, <1>2, <1>3
       DEF DNext, dvars, Handle, Fail, Receive, Extract, FlushCustomer, ReadTalkKey, FindTalk, NewTalk,
           KeepTalk, Noted, ReadLeadKey, FindLead, NewLead, KeepLead, Upsert, Forget, Context, Recall,
           Remember, Answer, Quiet, table, Expire, CloseTalk

\* Messages only raise the score of a lead as long as they come one after the other and nobody
\* patches it under them.
THEOREM ScoreNeverFallsSafe == DSpec => ScoreNeverFalls
  <1>1. ASSUME InOrderly, [DNext]_dvars, orderly, Busy # {}
        PROVE  \A l \in Leads : lead'[l].score >= lead[l].score \/ ~orderly'
    BY <1>1, ScoreRises
  <1>2. QED
    BY <1>1, InOrderlyInit, InOrderlyStep, PTL DEF DSpec, ScoreNeverFalls

================================================================================
