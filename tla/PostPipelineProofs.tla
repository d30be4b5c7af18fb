-------------------------- MODULE PostPipelineProofs --------------------------
(* What rows and counts say is covered by what was delivered, for any posts, *)
(* channels and jobs, and the pipeline implements the outbox.                *)
EXTENDS PostPipeline, FiniteSetTheorems, TLAPS

\* What a job's record may say, and the copies of its session.
Sessions ==
    /\ job \in [Jobs -> Task]
    /\ \A j \in Jobs : job[j].at \in {"check", "send"} => \E p \in Posts : job[j].post = {p}
    /\ mine \in [Jobs -> [Posts -> Status \cup {Unheld}]]
    /\ found \in [Jobs -> [Posts -> SUBSET Channels]]
    /\ bumped \in [Jobs -> SUBSET Channels]
    /\ \A j \in Jobs : /\ DOMAIN copy[j] \subseteq Channels /\ bumped[j] \subseteq DOMAIN copy[j]
                       /\ copy[j] \in [DOMAIN copy[j] -> Nat]
    /\ \A j \in Jobs : job[j].at = "idle" => bumped[j] = {}
    /\ DOMAIN copy = Jobs /\ copy = [j \in Jobs |-> copy[j]]

Tables ==
    /\ status \in [Posts -> Status]
    /\ aim \in [Posts -> SUBSET Channels]
    /\ due \subseteq Posts
    /\ log \in [Posts -> SUBSET Channels]
    /\ count \in [Channels -> Nat]
    /\ paused \in BOOLEAN /\ ready \in BOOLEAN
    /\ sent \subseteq Posts \X Channels
    /\ feed \in [Channels -> Nat]
    /\ requests \in 0..MaxRequests /\ pauses \in 0..MaxPauses /\ faults \in 0..MaxFaults

Typed == Sessions /\ Tables

LEMMA TypedIsTypeOK == Typed => TypeOK
  <1> SUFFICES ASSUME Typed
               PROVE  TypeOK
    OBVIOUS
  <1>1. \A j \in Jobs : job[j].at \in {"check", "send"} => Cardinality(job[j].post) = 1
    <2>1. \A p : Cardinality({p}) = 1
      BY FS_Singleton
    <2>2. QED
      BY <2>1, Zenon DEF Typed, Sessions
  <1>2. QED
    BY <1>1 DEF Typed, Sessions, Tables, TypeOK

\* A job at rest is well-formed.
LEMMA IdleType == Idle \in Task /\ Idle.at = "idle"
  BY DEF Idle, Task, Status

\* Closing sessions keeps the sessions well-formed.
LEMMA CloseType ==
    ASSUME Sessions, NEW J, CloseAll(J)
    PROVE  Sessions'
  BY IdleType DEF Sessions, CloseAll, NoPosts, NoCopies, Status

\* So does opening one for a post, or for a batch.
LEMMA OpenType ==
    ASSUME Sessions, NEW j \in Jobs, NEW t \in Task, NEW P, NEW s \in Status \cup {Unheld},
           NEW counts, DOMAIN counts \subseteq Channels, counts \in [DOMAIN counts -> Nat],
           Open(j, t, P, s, counts), t.at # "idle",
           t.at \in {"check", "send"} => \E p \in Posts : t.post = {p}
    PROVE  Sessions'
  BY DEF Sessions, Open

\* A step that leaves the sessions alone keeps them well-formed.
LEMMA SessionsStay == Sessions /\ UNCHANGED sessions => Sessions'
  BY DEF Sessions, sessions

\* So does one in which a job moves on and its copies of channels stay.
LEMMA MoveType ==
    ASSUME Sessions, NEW j \in Jobs, NEW r \in Task, r.at # "idle", job[j].at # "idle",
           r.at \in {"check", "send"} => \E p \in Posts : r.post = {p},
           job' = [job EXCEPT ![j] = r],
           mine' \in [Jobs -> [Posts -> Status \cup {Unheld}]],
           found' \in [Jobs -> [Posts -> SUBSET Channels]],
           UNCHANGED <<copy, bumped>>
    PROVE  Sessions'
  BY DEF Sessions

\* A job that only moves to another place.
LEMMA Goes ==
    ASSUME Sessions, NEW j \in Jobs, job[j].at # "idle",
           NEW at \in {"pick", "send", "commit"}, NEW C \in SUBSET Channels,
           at = "send" => job[j].at \in {"check", "send"},
           \/ job' = [job EXCEPT ![j].at = at]
           \/ job' = [job EXCEPT ![j].at = at, ![j].todo = C],
           mine' \in [Jobs -> [Posts -> Status \cup {Unheld}]],
           found' \in [Jobs -> [Posts -> SUBSET Channels]],
           UNCHANGED <<copy, bumped>>
    PROVE  Sessions'
  <1> DEFINE r1 == [job[j] EXCEPT !.at = at]
             r2 == [job[j] EXCEPT !.at = at, !.todo = C]
  <1>1. job[j] \in Task
    BY DEF Sessions
  <1>2. /\ r1 \in Task /\ r1.at = at /\ r1.post = job[j].post
        /\ r2 \in Task /\ r2.at = at /\ r2.post = job[j].post
    BY <1>1 DEF Task
  <1>3. job' = [job EXCEPT ![j] = r1] \/ job' = [job EXCEPT ![j] = r2]
    OBVIOUS
  <1>4. at = "send" => \E p \in Posts : job[j].post = {p}
    BY DEF Sessions
  <1> HIDE DEF r1, r2
  <1>5. /\ r1.at # "idle" /\ (r1.at \in {"check", "send"} => \E p \in Posts : r1.post = {p})
        /\ r2.at # "idle" /\ (r2.at \in {"check", "send"} => \E p \in Posts : r2.post = {p})
    BY <1>2, <1>4
  <1>6. CASE job' = [job EXCEPT ![j] = r1]
    BY <1>2, <1>5, <1>6, MoveType
  <1>7. CASE job' = [job EXCEPT ![j] = r2]
    BY <1>2, <1>5, <1>7, MoveType
  <1>8. QED
    BY <1>3, <1>6, <1>7

----------------------------------------------------------------------------
(* Types *)

\* Each action keeps the types.
LEMMA TypeStep == Typed /\ [Next]_vars => Typed'
  <1> SUFFICES ASSUME Typed, [Next]_vars
               PROVE  Typed'
    OBVIOUS
  <1> USE DEF Typed, Tables
  <1>1. CASE \E p \in Posts : CreatePost(p) \/ FallDue(p)
    <2>1. UNCHANGED sessions /\ Tables'
      BY <1>1 DEF CreatePost, FallDue, Status, outside, bounds
    <2>2. QED
      BY <2>1, SessionsStay
  <1>2. CASE StartSweep
    <2>1. Sweeper \in Jobs
      BY DEF Jobs
    <2>2. Due \subseteq Posts
      BY DEF Due
    <2> DEFINE t == [Idle EXCEPT !.kind = "sweep", !.at = "pick", !.batch = Due, !.base = "scheduled"]
    <2>3. t \in Task /\ t.at = "pick"
      BY <2>2, IdleType DEF Task, Idle, Status
    <2>4. DOMAIN NoCopies = {} /\ NoCopies \in [DOMAIN NoCopies -> Nat]
      BY DEF NoCopies
    <2>5. Open(Sweeper, t, {}, Unheld, NoCopies)
      BY <1>2 DEF StartSweep
    <2> HIDE DEF t
    <2>6. Sessions'
      BY <2>1, <2>3, <2>4, <2>5, OpenType
    <2>7. QED
      BY <1>2, <2>6 DEF StartSweep, rows, outside, bounds
  <1>3. ASSUME NEW j \in Requests, NEW p \in Posts,
               PublishNow(j, p) \/ SendNow(j, p) \/ AutoPost(j, p) \/ AnnounceChallenge(j, p)
        PROVE  Typed'
    <2>1. j \in Jobs
      BY DEF Jobs
    <2>2. PICK kind \in {"now", "send", "auto", "challenge"}, base \in Status,
               s \in {"publishing", "scheduled"}, counts \in {NoCopies, count} :
              Open(j, Working(kind, "check", p, base), {p}, s, counts)
      BY <1>3 DEF PublishNow, SendNow, AutoPost, AnnounceChallenge, Status
    <2>3. /\ Working(kind, "check", p, base) \in Task
          /\ Working(kind, "check", p, base).at = "check"
          /\ Working(kind, "check", p, base).post = {p}
      BY DEF Working, Idle, Task, Status
    <2>4. DOMAIN counts \subseteq Channels /\ counts \in [DOMAIN counts -> Nat]
      BY DEF NoCopies
    <2>5. s \in Status
      BY DEF Status
    <2>6. Sessions'
      BY <2>1, <2>2, <2>3, <2>4, <2>5, OpenType
    <2>7. Tables'
      <3>1. CASE PublishNow(j, p)
        BY <3>1, BoundsAssumption DEF PublishNow, rows, outside
      <3>2. CASE SendNow(j, p)
        BY <3>2 DEF SendNow, outside, bounds, Status
      <3>3. CASE AutoPost(j, p)
        BY <3>3 DEF AutoPost, outside, bounds
      <3>4. CASE AnnounceChallenge(j, p)
        BY <3>4 DEF AnnounceChallenge, outside, bounds
      <3>5. QED
        BY <1>3, <3>1, <3>2, <3>3, <3>4
    <2>8. QED
      BY <2>6, <2>7
  <1>4. ASSUME NEW j \in Jobs, Pick(j)
        PROVE  Typed'
    <2>1. Sessions'
      <3>1. CASE \E p \in job[j].batch :
                    /\ job' = [job EXCEPT ![j].at = "check", ![j].post = {p}, ![j].batch = @ \ {p}]
                    /\ mine' = [mine EXCEPT ![j][p] = "publishing"]
        <4>1. PICK p \in job[j].batch :
                    /\ job' = [job EXCEPT ![j].at = "check", ![j].post = {p}, ![j].batch = @ \ {p}]
                    /\ mine' = [mine EXCEPT ![j][p] = "publishing"]
          BY <3>1
        <4> DEFINE r == [job[j] EXCEPT !.at = "check", !.post = {p}, !.batch = @ \ {p}]
        <4>2. job[j] \in Task /\ p \in Posts
          BY <4>1 DEF Sessions, Task
        <4>3. r \in Task /\ r.at = "check" /\ r.post = {p}
          BY <4>2 DEF Task
        <4>4. job' = [job EXCEPT ![j] = r]
          BY <4>1
        <4>5. mine' \in [Jobs -> [Posts -> Status \cup {Unheld}]]
          BY <4>1, <4>2 DEF Sessions, Status
        <4>6. found' \in [Jobs -> [Posts -> SUBSET Channels]]
          BY <1>4 DEF Pick, Sessions
        <4> HIDE DEF r
        <4>7. QED
          BY <1>4, <4>2, <4>3, <4>4, <4>5, <4>6, MoveType DEF Pick
      <3>2. CASE job' = [job EXCEPT ![j].at = "commit"] /\ mine' = mine
        BY <1>4, <3>2, Goes DEF Pick, Sessions
      <3>3. QED
        BY <1>4, <3>1, <3>2 DEF Pick
    <2>2. QED
      BY <1>4, <2>1 DEF Pick, rows, outside, bounds
  <1>5. ASSUME NEW j \in Jobs, Check(j)
        PROVE  Typed'
    <2>1. Sessions'
      <3>1. CASE \E p \in job[j].post : job' = [job EXCEPT ![j].at = "send", ![j].todo = aim[p]]
        <4>1. PICK p \in job[j].post : job' = [job EXCEPT ![j].at = "send", ![j].todo = aim[p]]
          BY <3>1
        <4>2. p \in Posts
          BY <4>1 DEF Sessions, Task
        <4>3. QED
          <5>1. aim[p] \in SUBSET Channels /\ job[j].at = "check"
            BY <1>5, <4>2 DEF Check
          <5>2. UNCHANGED <<mine, found, copy, bumped>>
            BY <1>5 DEF Check
          <5>3. /\ mine' \in [Jobs -> [Posts -> Status \cup {Unheld}]]
                /\ found' \in [Jobs -> [Posts -> SUBSET Channels]]
            BY <5>2 DEF Sessions
          <5>4. QED
            BY <4>1, <5>1, <5>2, <5>3, Goes
      <3>2. CASE job' = [job EXCEPT ![j].at = After(j)]
        BY <1>5, <3>2, Goes DEF Check, Sessions, After
      <3>3. QED
        BY <1>5, <3>1, <3>2 DEF Check
    <2>2. QED
      BY <1>5, <2>1 DEF Check, rows, outside, bounds
  <1>6. ASSUME NEW j \in Jobs, Send(j)
        PROVE  Typed'
    <2>1. PICK c \in job[j].todo, p \in job[j].post :
              /\ job' = [job EXCEPT ![j].todo = @ \ {c}]
              /\ \/ UNCHANGED <<found, copy, bumped, outside>>
                 \/ /\ sent' = sent \cup {<<p, c>>}
                    /\ feed' = [feed EXCEPT ![c] = @ + 1]
                    /\ \/ UNCHANGED <<found, copy, bumped>>
                       \/ Bump(j, c) /\ found' = found
                       \/ Bump(j, c) /\ found' = [found EXCEPT ![j][p] = @ \cup {c}]
      BY <1>6 DEF Send
    <2>2. c \in Channels /\ p \in Posts
      BY <2>1 DEF Sessions, Task
    <2>3. /\ job' \in [Jobs -> Task]
          /\ \A k \in Jobs : job'[k].at = job[k].at /\ job'[k].post = job[k].post
      <3> DEFINE r == [job[j] EXCEPT !.todo = @ \ {c}]
      <3>1. job[j] \in Task /\ job' = [job EXCEPT ![j] = r]
        BY <2>1 DEF Sessions
      <3>2. r \in Task /\ r.at = job[j].at /\ r.post = job[j].post
        BY <3>1 DEF Task
      <3> HIDE DEF r
      <3>3. QED
        BY <3>1, <3>2 DEF Sessions
    <2>4. found' \in [Jobs -> [Posts -> SUBSET Channels]]
      <3>1. CASE found' = [found EXCEPT ![j][p] = @ \cup {c}]
        BY <2>2, <3>1 DEF Sessions
      <3>2. CASE found' = found
        BY <3>2 DEF Sessions
      <3>3. QED
        BY <2>1, <3>1, <3>2
    <2>5. Seen(j, c) \in Nat
      BY <2>2 DEF Seen, Sessions
    <2>6. /\ bumped' \in [Jobs -> SUBSET Channels]
          /\ \A k \in Jobs : /\ DOMAIN copy'[k] \subseteq Channels /\ bumped'[k] \subseteq DOMAIN copy'[k]
                             /\ copy'[k] \in [DOMAIN copy'[k] -> Nat]
          /\ \A k \in Jobs : job[k].at = "idle" => bumped'[k] = {}
          /\ DOMAIN copy' = Jobs /\ copy' = [k \in Jobs |-> copy'[k]]
      <3>1. CASE UNCHANGED <<copy, bumped>>
        BY <3>1 DEF Sessions
      <3>2. CASE Bump(j, c)
        <4> DEFINE f == [d \in DOMAIN copy[j] \cup {c} |-> IF d = c THEN Seen(j, c) + 1 ELSE copy[j][d]]
        <4>1. copy' = [copy EXCEPT ![j] = f] /\ bumped' = [bumped EXCEPT ![j] = @ \cup {c}]
          BY <3>2 DEF Bump
        <4>2. DOMAIN f = DOMAIN copy[j] \cup {c} /\ f \in [DOMAIN f -> Nat]
          BY <2>5 DEF Sessions
        <4> HIDE DEF f
        <4>3. \A k \in Jobs : copy'[k] = IF k = j THEN f ELSE copy[k]
          BY <4>1 DEF Sessions
        <4>4. \A k \in Jobs : bumped'[k] = IF k = j THEN bumped[j] \cup {c} ELSE bumped[k]
          BY <4>1 DEF Sessions
        <4>5. DOMAIN copy' = Jobs /\ copy' = [k \in Jobs |-> copy'[k]]
          BY <4>1 DEF Sessions
        <4>6. bumped' \in [Jobs -> SUBSET Channels]
          BY <4>1, <2>2 DEF Sessions
        <4>7. job[j].at # "idle"
          BY <1>6 DEF Send
        <4>8. QED
          BY <2>2, <4>2, <4>3, <4>4, <4>5, <4>6, <4>7 DEF Sessions
      <3>3. QED
        BY <2>1, <3>1, <3>2
    <2>7. Sessions'
      <3>1. mine' \in [Jobs -> [Posts -> Status \cup {Unheld}]]
        BY <1>6 DEF Send, Sessions
      <3>2. \A k \in Jobs : job'[k].at \in {"check", "send"} => \E q \in Posts : job'[k].post = {q}
        <4>1. \A k \in Jobs : job[k].at \in {"check", "send"} => \E q \in Posts : job[k].post = {q}
          BY DEF Sessions
        <4>2. QED
          BY <2>3, <4>1, Zenon
      <3>3. QED
        BY <2>3, <2>4, <2>6, <3>1, <3>2 DEF Sessions
    <2>8. sent' \subseteq Posts \X Channels /\ feed' \in [Channels -> Nat]
      BY <2>1, <2>2 DEF outside
    <2>9. QED
      BY <1>6, <2>7, <2>8 DEF Send, rows, bounds
  <1>7. ASSUME NEW j \in Jobs, Conclude(j)
        PROVE  Typed'
    <2>1. PICK p \in job[j].post :
              mine' = [mine EXCEPT ![j][p] = Verdict(j, p)] /\ job' = [job EXCEPT ![j].at = After(j)]
      BY <1>7 DEF Conclude
    <2>2. p \in Posts /\ Verdict(j, p) \in Status
      BY <2>1 DEF Sessions, Task, Verdict, Status
    <2>3. mine' \in [Jobs -> [Posts -> Status \cup {Unheld}]]
      BY <2>1, <2>2 DEF Sessions
    <2>4. Sessions'
      BY <1>7, <2>1, <2>3, Goes DEF Conclude, Sessions, After
    <2>5. QED
      BY <1>7, <2>4 DEF Conclude, rows, outside, bounds
  <1>8. ASSUME NEW j \in Jobs, Raise(j)
        PROVE  Typed'
    <2>1. Sessions'
      <3>1. CASE CloseAll({j})
        BY <3>1, CloseType
      <3>2. CASE /\ \E p \in job[j].post : /\ mine' = [mine EXCEPT ![j][p] = "failed"]
                                           /\ found' = [found EXCEPT ![j][p] = {}]
                 /\ job' = [job EXCEPT ![j].at = After(j), ![j].todo = {}]
                 /\ UNCHANGED <<copy, bumped>>
        <4>1. PICK p \in job[j].post : /\ mine' = [mine EXCEPT ![j][p] = "failed"]
                                       /\ found' = [found EXCEPT ![j][p] = {}]
          BY <3>2
        <4>2. p \in Posts
          BY <4>1 DEF Sessions, Task
        <4>3. mine' \in [Jobs -> [Posts -> Status \cup {Unheld}]] /\ found' \in [Jobs -> [Posts -> SUBSET Channels]]
          BY <4>1, <4>2 DEF Sessions, Status
        <4>4. QED
          <5>1. job[j].at \in {"check", "send"}
            BY <1>8 DEF Raise
          <5>2. PICK at \in {"pick", "commit"} : job' = [job EXCEPT ![j].at = at, ![j].todo = {}]
            BY <3>2 DEF After
          <5>3. UNCHANGED <<copy, bumped>> /\ {} \in SUBSET Channels
            BY <3>2
          <5>4. QED
            BY <4>3, <5>1, <5>2, <5>3, Goes
      <3>3. QED
        BY <1>8, <3>1, <3>2 DEF Raise
    <2>2. QED
      BY <1>8, <2>1 DEF Raise, rows, outside, bounds
  <1>9. ASSUME NEW j \in Jobs, Commit(j)
        PROVE  Typed'
    <2>1. Sessions'
      BY <1>9, CloseType DEF Commit
    <2>2. status' \in [Posts -> Status]
      BY <1>9 DEF Commit, Writes, Sessions, Unheld
    <2>3. log' \in [Posts -> SUBSET Channels]
      BY <1>9 DEF Commit, Sessions
    <2>4. count' \in [Channels -> Nat]
      BY <1>9 DEF Commit, Sessions
    <2>5. due' \subseteq Posts
      BY <1>9 DEF Commit, Sessions, Task
    <2>6. QED
      BY <1>9, <2>1, <2>2, <2>3, <2>4, <2>5 DEF Commit, outside, bounds
  <1>10. ASSUME NEW j \in Jobs, CommitFails(j)
         PROVE  Typed'
    BY <1>10, CloseType, BoundsAssumption DEF CommitFails, rows, outside
  <1>11. CASE Restart
    <2>1. Sessions'
      BY <1>11, CloseType DEF Restart
    <2>2. QED
      <3>1. ready' \in BOOLEAN /\ UNCHANGED <<rows, paused, outside, requests, pauses>>
        BY <1>11 DEF Restart
      <3>2. faults' \in 0..MaxFaults
        BY <1>11, BoundsAssumption DEF Restart
      <3>3. QED
        BY <2>1, <3>1, <3>2 DEF rows, outside
  <1>12. CASE SetPublisherManager \/ PausePosting \/ ResumePosting
    <2>1. UNCHANGED sessions
      BY <1>12 DEF SetPublisherManager, PausePosting, ResumePosting
    <2>2. QED
      <3>1. ready' \in BOOLEAN /\ paused' \in BOOLEAN /\ UNCHANGED <<rows, outside, requests, faults>>
        BY <1>12 DEF SetPublisherManager, PausePosting, ResumePosting, bounds
      <3>2. pauses' \in 0..MaxPauses
        BY <1>12, BoundsAssumption DEF SetPublisherManager, PausePosting, ResumePosting, bounds
      <3>3. QED
        BY <2>1, <3>1, <3>2, SessionsStay DEF rows, outside
  <1>13. CASE UNCHANGED vars
    BY <1>13, SessionsStay DEF vars, rows, outside, bounds
  <1>14. QED
    BY <1>1, <1>2, <1>3, <1>4, <1>5, <1>6, <1>7, <1>8, <1>9, <1>10, <1>11, <1>12, <1>13
       DEF Next, PublishStep

\* Nothing is posted at the start.
LEMMA TypeInit == Init => Typed
  <1> SUFFICES ASSUME Init
               PROVE  Typed
    OBVIOUS
  <1>1. DOMAIN NoCopies = {} /\ NoCopies \in [{} -> Nat]
    BY DEF NoCopies
  <1>2. /\ job \in [Jobs -> Task] /\ \A j \in Jobs : job[j].at = "idle"
        /\ mine \in [Jobs -> [Posts -> Status \cup {Unheld}]]
        /\ found \in [Jobs -> [Posts -> SUBSET Channels]]
        /\ bumped \in [Jobs -> SUBSET Channels] /\ \A j \in Jobs : bumped[j] = {}
    BY IdleType DEF Init, NoPosts
  <1>3. DOMAIN copy = Jobs /\ \A j \in Jobs : copy[j] = NoCopies
    BY DEF Init
  <1>4. copy = [j \in Jobs |-> copy[j]]
    BY <1>3 DEF Init
  <1>5. Sessions
    BY <1>1, <1>2, <1>3, <1>4 DEF Sessions
  <1>6. Tables
    <2>1. paused \in BOOLEAN /\ ready \in BOOLEAN
      BY DEF Init
    <2>2. requests \in 0..MaxRequests /\ pauses \in 0..MaxPauses /\ faults \in 0..MaxFaults
      BY BoundsAssumption DEF Init
    <2>3. QED
      BY <2>1, <2>2 DEF Init, Tables, Status
  <1>7. QED
    BY <1>5, <1>6 DEF Typed

\* Every variable of the pipeline keeps its type.
THEOREM TypeCorrect == Spec => []TypeOK
  BY TypeInit, TypeStep, TypedIsTypeOK, PTL DEF Spec

----------------------------------------------------------------------------
(* What was delivered *)

\* A session reports only what was delivered, and calls a post published only if it
\* reports some channel.
Honest == \A j \in Jobs, p \in Posts : /\ \A c \in found[j][p] : <<p, c>> \in sent
                                       /\ mine[j][p] = "published" => found[j][p] # {}

\* A session's copy of a channel counts no more than the channel received.
CopiesBacked == \A j \in Jobs : \A c \in DOMAIN copy[j] : copy[j][c] <= feed[c]

Backed == Honest /\ CopiesBacked /\ PublishedWasSent /\ CountBacked

\* A session that closes reports and counts nothing.
LEMMA CloseBacked ==
    ASSUME Typed, Honest, CopiesBacked, NEW J, CloseAll(J), UNCHANGED outside
    PROVE  Honest' /\ CopiesBacked'
  BY DEF Honest, CopiesBacked, CloseAll, NoPosts, NoCopies, Unheld, outside

\* So does one that opens, as long as it has loaded the committed counts.
LEMMA OpenBacked ==
    ASSUME Typed, Backed, NEW j \in Jobs, NEW t, NEW P, NEW s \in {Unheld, "publishing", "scheduled"},
           NEW counts \in {NoCopies, count}, Open(j, t, P, s, counts), UNCHANGED outside
    PROVE  Honest' /\ CopiesBacked'
  <1>1. \A c \in DOMAIN counts : counts[c] <= feed[c]
    BY DEF NoCopies, Backed, CountBacked, Typed, Tables
  <1>2. CopiesBacked'
    BY <1>1 DEF Open, Backed, CopiesBacked, outside, Typed, Sessions
  <1>3. \A p \in Posts : mine'[j][p] # "published"
    BY DEF Open, Typed, Sessions, Unheld
  <1>4. \A k \in Jobs \ {j} : mine'[k] = mine[k]
    BY DEF Open, Typed, Sessions
  <1>5. Honest'
    BY <1>3, <1>4 DEF Open, Backed, Honest, outside
  <1>6. QED
    BY <1>2, <1>5

\* Committed rows and counts stay backed while they are not written.
LEMMA RowsStay ==
    ASSUME Typed, Backed, UNCHANGED <<log, count, outside>>,
           \A p \in Posts : status'[p] = "published" => status[p] = "published"
    PROVE  PublishedWasSent' /\ CountBacked'
  BY DEF Backed, PublishedWasSent, CountBacked, outside

\* Each action keeps what is said backed by what was delivered.
LEMMA BackedStep == Typed /\ Backed /\ [Next]_vars => Backed'
  <1> SUFFICES ASSUME Typed, Backed, [Next]_vars
               PROVE  Backed'
    OBVIOUS
  <1>1. CASE \E p \in Posts : CreatePost(p) \/ FallDue(p)
    <2>1. UNCHANGED <<log, count, sessions, outside>>
      BY <1>1 DEF CreatePost, FallDue
    <2>2. \A p \in Posts : status'[p] = "published" => status[p] = "published"
      BY <1>1 DEF CreatePost, FallDue, Typed, Tables
    <2>3. QED
      BY <2>1, <2>2, RowsStay DEF Backed, Honest, CopiesBacked, sessions, outside
  <1>2. CASE StartSweep
    <2>1. Sweeper \in Jobs
      BY DEF Jobs
    <2>2. PICK t : Open(Sweeper, t, {}, Unheld, NoCopies)
      BY <1>2 DEF StartSweep
    <2>3. UNCHANGED <<rows, outside>>
      BY <1>2 DEF StartSweep
    <2>4. Honest' /\ CopiesBacked'
      BY <2>1, <2>2, <2>3, OpenBacked
    <2>5. QED
      BY <2>3, <2>4, RowsStay DEF Backed, rows
  <1>3. ASSUME NEW j \in Requests, NEW p \in Posts,
               PublishNow(j, p) \/ SendNow(j, p) \/ AutoPost(j, p) \/ AnnounceChallenge(j, p)
        PROVE  Backed'
    <2>1. j \in Jobs
      BY DEF Jobs
    <2>2. PICK s \in {"publishing", "scheduled"}, counts \in {NoCopies, count} :
              \E t : Open(j, t, {p}, s, counts)
      <3>1. CASE PublishNow(j, p)
        BY <3>1 DEF PublishNow
      <3>2. CASE SendNow(j, p)
        BY <3>2 DEF SendNow
      <3>3. CASE AutoPost(j, p)
        BY <3>3 DEF AutoPost
      <3>4. CASE AnnounceChallenge(j, p)
        BY <3>4 DEF AnnounceChallenge
      <3>5. QED
        BY <1>3, <3>1, <3>2, <3>3, <3>4
    <2>3. UNCHANGED <<log, count, outside>>
      BY <1>3 DEF PublishNow, SendNow, AutoPost, AnnounceChallenge, rows
    <2>4. \A q \in Posts : status'[q] = "published" => status[q] = "published"
      BY <1>3 DEF PublishNow, SendNow, AutoPost, AnnounceChallenge, rows, Typed, Tables
    <2>5. Honest' /\ CopiesBacked'
      BY <2>1, <2>2, <2>3, OpenBacked
    <2>6. QED
      BY <2>3, <2>4, <2>5, RowsStay DEF Backed
  <1>4. ASSUME NEW j \in Jobs, Pick(j) \/ Check(j)
        PROVE  Backed'
    <2>1. UNCHANGED <<rows, found, copy, outside>>
      BY <1>4 DEF Pick, Check
    <2>2. \A k \in Jobs, p \in Posts : mine'[k][p] = "published" => mine[k][p] = "published"
      <3>1. CASE mine' = mine
        BY <3>1
      <3>2. CASE \E q \in job[j].batch : mine' = [mine EXCEPT ![j][q] = "publishing"]
        BY <3>2 DEF Typed, Sessions
      <3>3. QED
        BY <1>4, <3>1, <3>2 DEF Pick, Check
    <2>3. Honest' /\ CopiesBacked'
      BY <2>1, <2>2 DEF Backed, Honest, CopiesBacked, outside
    <2>4. QED
      BY <2>1, <2>3, RowsStay DEF Backed, rows
  <1>5. ASSUME NEW j \in Jobs, Send(j)
        PROVE  Backed'
    <2>1. PICK c \in job[j].todo, p \in job[j].post :
              \/ UNCHANGED <<found, copy, bumped, outside>>
              \/ /\ sent' = sent \cup {<<p, c>>}
                 /\ feed' = [feed EXCEPT ![c] = @ + 1]
                 /\ \/ UNCHANGED <<found, copy, bumped>>
                    \/ Bump(j, c) /\ found' = found
                    \/ Bump(j, c) /\ found' = [found EXCEPT ![j][p] = @ \cup {c}]
      BY <1>5 DEF Send
    <2>2. c \in Channels /\ p \in Posts
      BY <2>1 DEF Typed, Sessions, Task
    <2>3. UNCHANGED <<rows, mine>>
      BY <1>5 DEF Send
    <2>4. sent \subseteq sent' /\ \A d \in Channels : feed'[d] \in Nat /\ feed[d] <= feed'[d]
      BY <2>1, <2>2 DEF outside, Typed, Tables
    <2>5. Honest'
      <3>1. CASE UNCHANGED found
        BY <2>3, <2>4, <3>1 DEF Backed, Honest
      <3>2. CASE found' = [found EXCEPT ![j][p] = @ \cup {c}] /\ sent' = sent \cup {<<p, c>>}
        <4>1. \A k \in Jobs, q \in Posts :
                  found'[k][q] = IF k = j /\ q = p THEN found[k][q] \cup {c} ELSE found[k][q]
          BY <2>2, <3>2 DEF Typed, Sessions
        <4>2. QED
          BY <2>3, <3>2, <4>1 DEF Backed, Honest
      <3>3. QED
        BY <2>1, <3>1, <3>2
    <2>6. CopiesBacked'
      <3>1. CASE UNCHANGED copy
        <4>1. \A k \in Jobs : \A d \in DOMAIN copy[k] : d \in Channels /\ copy[k][d] \in Nat /\ feed[d] \in Nat
          BY DEF Typed, Sessions, Tables
        <4>2. QED
          BY <2>4, <3>1, <4>1 DEF Backed, CopiesBacked
      <3>2. CASE Bump(j, c) /\ feed' = [feed EXCEPT ![c] = @ + 1]
        <4> DEFINE f == [d \in DOMAIN copy[j] \cup {c} |-> IF d = c THEN Seen(j, c) + 1 ELSE copy[j][d]]
        <4>1. copy' = [copy EXCEPT ![j] = f]
          BY <3>2 DEF Bump
        <4>2. Seen(j, c) \in Nat /\ feed[c] \in Nat /\ Seen(j, c) <= feed[c]
          BY <2>2 DEF Seen, Typed, Sessions, Tables, Backed, CopiesBacked, CountBacked
        <4>3. \A d \in DOMAIN f : f[d] <= feed'[d]
          BY <2>2, <2>4, <3>2, <4>2 DEF Typed, Sessions, Tables, Backed, CopiesBacked
        <4> HIDE DEF f
        <4>4. \A k \in Jobs : copy'[k] = IF k = j THEN f ELSE copy[k]
          BY <4>1 DEF Typed, Sessions
        <4>5. \A k \in Jobs : \A d \in DOMAIN copy[k] : d \in Channels /\ copy[k][d] \in Nat /\ feed[d] \in Nat
          BY DEF Typed, Sessions, Tables
        <4>6. QED
          BY <2>4, <4>3, <4>4, <4>5 DEF Backed, CopiesBacked
      <3>3. QED
        BY <2>1, <3>1, <3>2
    <2>7. PublishedWasSent'
      BY <2>3, <2>4 DEF Backed, PublishedWasSent, rows
    <2>8. CountBacked'
      BY <2>3, <2>4 DEF Backed, CountBacked, rows, Typed, Tables
    <2>9. QED
      BY <2>5, <2>6, <2>7, <2>8 DEF Backed
  <1>6. ASSUME NEW j \in Jobs, Conclude(j)
        PROVE  Backed'
    <2>1. PICK p \in job[j].post : mine' = [mine EXCEPT ![j][p] = Verdict(j, p)]
      BY <1>6 DEF Conclude
    <2>2. UNCHANGED <<rows, found, copy, outside>>
      BY <1>6 DEF Conclude
    <2>3. p \in Posts
      BY <2>1 DEF Typed, Sessions, Task
    <2>4. \A k \in Jobs, q \in Posts : mine'[k][q] = IF k = j /\ q = p THEN Verdict(j, p) ELSE mine[k][q]
      BY <2>1, <2>3 DEF Typed, Sessions
    <2>5. Honest' /\ CopiesBacked'
      BY <2>2, <2>4 DEF Backed, Honest, CopiesBacked, Verdict, outside
    <2>6. QED
      BY <2>2, <2>5, RowsStay DEF Backed, rows
  <1>7. ASSUME NEW j \in Jobs, Raise(j)
        PROVE  Backed'
    <2>1. UNCHANGED <<rows, outside>>
      BY <1>7 DEF Raise
    <2>2. Honest' /\ CopiesBacked'
      <3>1. CASE CloseAll({j})
        BY <2>1, <3>1, CloseBacked DEF Backed
      <3>2. CASE /\ \E p \in job[j].post : /\ mine' = [mine EXCEPT ![j][p] = "failed"]
                                           /\ found' = [found EXCEPT ![j][p] = {}]
                 /\ UNCHANGED <<copy, bumped>>
        <4>1. PICK p \in job[j].post : /\ mine' = [mine EXCEPT ![j][p] = "failed"]
                                       /\ found' = [found EXCEPT ![j][p] = {}]
          BY <3>2
        <4>2. p \in Posts
          BY <4>1 DEF Typed, Sessions, Task
        <4>3. \A k \in Jobs, q \in Posts :
                  /\ mine'[k][q] = IF k = j /\ q = p THEN "failed" ELSE mine[k][q]
                  /\ found'[k][q] = IF k = j /\ q = p THEN {} ELSE found[k][q]
          BY <4>1, <4>2 DEF Typed, Sessions
        <4>4. QED
          BY <2>1, <3>2, <4>3 DEF Backed, Honest, CopiesBacked, outside
      <3>3. QED
        BY <1>7, <3>1, <3>2 DEF Raise
    <2>3. QED
      BY <2>1, <2>2, RowsStay DEF Backed, rows
  <1>8. ASSUME NEW j \in Jobs, Commit(j)
        PROVE  Backed'
    <2>1. Honest' /\ CopiesBacked'
      BY <1>8, CloseBacked DEF Backed, Commit
    <2>2. \A p \in Posts : status'[p] = "published" => status[p] = "published" \/ found[j][p] # {}
      <3>1. status' = [p \in Posts |-> IF Writes(j, p) THEN mine[j][p] ELSE status[p]]
        BY <1>8 DEF Commit
      <3>2. \A p \in Posts : status'[p] = mine[j][p] \/ status'[p] = status[p]
        BY <3>1
      <3>3. QED
        BY <1>8, <3>2 DEF Backed, Honest
    <2>3. \A p \in Posts : log'[p] = log[p] \/ log'[p] = found[j][p]
      BY <1>8 DEF Commit
    <2>4. \A p \in Posts : found[j][p] # {} => \E c \in Channels : <<p, c>> \in sent
      <3>1. \A p \in Posts : found[j][p] \in SUBSET Channels
        BY <1>8 DEF Typed, Sessions
      <3>2. \A p \in Posts : \A c \in found[j][p] : <<p, c>> \in sent
        BY <1>8 DEF Backed, Honest
      <3>3. QED
        BY <3>1, <3>2
    <2>5. PublishedWasSent'
      <3>1. sent' = sent
        BY <1>8 DEF Commit, outside
      <3>2. \A p \in Posts : \A c \in found[j][p] : <<p, c>> \in sent
        BY <1>8 DEF Backed, Honest
      <3>3. QED
        BY <2>2, <2>3, <2>4, <3>1, <3>2 DEF Backed, PublishedWasSent
    <2>6. CountBacked'
      BY <1>8 DEF Commit, Backed, CountBacked, CopiesBacked, Typed, Sessions, outside
    <2>7. QED
      BY <2>1, <2>5, <2>6 DEF Backed
  <1>9. CASE Restart \/ \E j \in Jobs : CommitFails(j)
    <2>1. PICK J : CloseAll(J)
      BY <1>9 DEF Restart, CommitFails
    <2>2. UNCHANGED <<rows, outside>>
      BY <1>9 DEF Restart, CommitFails
    <2>3. QED
      BY <2>1, <2>2, CloseBacked, RowsStay DEF Backed, rows
  <1>10. CASE SetPublisherManager \/ PausePosting \/ ResumePosting \/ UNCHANGED vars
    <2>1. UNCHANGED <<rows, sessions, outside>>
      BY <1>10 DEF SetPublisherManager, PausePosting, ResumePosting, vars
    <2>2. QED
      BY <2>1, RowsStay DEF Backed, Honest, CopiesBacked, rows, sessions, outside
  <1>11. QED
    BY <1>1, <1>2, <1>3, <1>4, <1>5, <1>6, <1>7, <1>8, <1>9, <1>10 DEF Next, PublishStep

LEMMA BackedInit == Init => Backed
  BY DEF Init, Backed, Honest, CopiesBacked, PublishedWasSent, CountBacked, NoPosts, NoCopies, Unheld

\* What a row says was published was delivered, however many publishers, restarts and
\* failing commits come together.
THEOREM PublishedSafe == Spec => []PublishedWasSent
  <1>1. Typed /\ Backed => PublishedWasSent
    BY DEF Backed
  <1>2. QED
    BY <1>1, TypeInit, TypeStep, BackedInit, BackedStep, PTL DEF Spec

\* No channel is credited with more posts than it received.
THEOREM CountSafe == Spec => []CountBacked
  <1>1. Typed /\ Backed => CountBacked
    BY DEF Backed
  <1>2. QED
    BY <1>1, TypeInit, TypeStep, BackedInit, BackedStep, PTL DEF Spec

----------------------------------------------------------------------------
(* Whose posts are whose *)

\* Job j works on a row it has flushed and nobody else can see.
New(j) == job[j].at # "idle" /\ job[j].base = "absent"

\* A new row is held by the job that flushed it alone, and is the only one it holds.  Any
\* other post in a session has a row, and none but a new one waits to be put in line.
OwnedBy(j) ==
    /\ job[j].at = "idle" => /\ job[j].post = {} /\ job[j].batch = {}
                             /\ \A p \in Posts : mine[j][p] = Unheld
    /\ job[j].at = "pick" => job[j].kind = "sweep"
    /\ job[j].kind = "sweep" => ~New(j)
    /\ New(j) => /\ job[j].batch = {}
                 /\ \A p \in Posts : mine[j][p] # Unheld => p \in job[j].post
                 /\ \A p \in job[j].post : /\ status[p] = "absent"
                                           /\ \A k \in Jobs \ {j} : p \notin job[k].post
    /\ ~New(j) => \A p \in Posts : (\/ mine[j][p] # Unheld
                                    \/ p \in job[j].post
                                    \/ p \in job[j].batch) => status[p] # "absent"
    /\ \A p \in Posts : /\ mine[j][p] = "scheduled" => New(j)
                        /\ mine[j][p] \notin {"absent", "draft"}

Owned == \A j \in Jobs : OwnedBy(j)

\* A job whose session and posts stay is still the owner of what it holds, as long as
\* nobody else takes its new row up or commits it, and no row goes away.
LEMMA OwnerStays ==
    ASSUME Typed, Owned, NEW k \in Jobs, job'[k] = job[k], mine'[k] = mine[k],
           \A p \in Posts : status'[p] = "absent" => status[p] = "absent",
           \A p \in Posts : status[p] # "absent" => status'[p] # "absent",
           New(k) => \A p \in job[k].post : /\ status'[p] = "absent"
                                            /\ \A i \in Jobs \ {k} : p \notin job'[i].post
    PROVE  OwnedBy(k)'
  BY DEF Owned, OwnedBy, New

\* A job that has closed its session owns nothing.
LEMMA ClosedOwner ==
    ASSUME NEW k \in Jobs, job'[k] = Idle, mine'[k] = NoPosts
    PROVE  OwnedBy(k)'
  BY DEF OwnedBy, New, Idle, NoPosts, Unheld

\* Sessions that close leave the others the owners of what they hold, when no row changes.
LEMMA CloseOwned ==
    ASSUME Typed, Owned, NEW J, CloseAll(J), UNCHANGED status
    PROVE  Owned'
  <1>1. \A k \in Jobs : /\ k \in J => job'[k] = Idle /\ mine'[k] = NoPosts
                        /\ k \notin J => job'[k] = job[k] /\ mine'[k] = mine[k]
    BY DEF CloseAll
  <1>2. \A k \in Jobs : job'[k].post \subseteq job[k].post
    BY <1>1 DEF Idle
  <1>3. ASSUME NEW k \in Jobs, k \notin J
        PROVE  OwnedBy(k)'
    <2>1. New(k) => \A p \in job[k].post : /\ status'[p] = "absent"
                                           /\ \A i \in Jobs \ {k} : p \notin job'[i].post
      BY <1>2 DEF Owned, OwnedBy
    <2>2. QED
      BY <1>1, <1>3, <2>1, OwnerStays
  <1>4. QED
    BY <1>1, <1>3, ClosedOwner DEF Owned

\* So do steps in which job j moves on with the same post, and holds no other.
LEMMA MoveOwned ==
    ASSUME Typed, Owned, NEW j \in Jobs, UNCHANGED status, job[j].at # "idle",
           \A k \in Jobs \ {j} : job'[k] = job[k] /\ mine'[k] = mine[k],
           job'[j].at # "idle", job'[j].kind = job[j].kind, job'[j].base = job[j].base,
           job'[j].post = job[j].post, job'[j].batch = job[j].batch,
           job'[j].at = "pick" => job[j].kind = "sweep",
           \A p \in Posts : \/ mine'[j][p] = mine[j][p]
                            \/ p \in job[j].post /\ mine'[j][p] \in {"publishing", "published", "failed"}
    PROVE  Owned'
  <1>1. \A k \in Jobs : job'[k].post = job[k].post
    OBVIOUS
  <1>2. ASSUME NEW k \in Jobs \ {j}
        PROVE  OwnedBy(k)'
    <2>1. New(k) => \A p \in job[k].post : /\ status'[p] = "absent"
                                           /\ \A i \in Jobs \ {k} : p \notin job'[i].post
      BY <1>1 DEF Owned, OwnedBy
    <2>2. QED
      BY <2>1, OwnerStays
  <1>3. New(j)' <=> New(j)
    BY DEF New
  <1>4. OwnedBy(j)'
    BY <1>1, <1>3 DEF Owned, OwnedBy, Unheld
  <1>5. QED
    BY <1>2, <1>4 DEF Owned

\* Each action keeps the ownership.
LEMMA OwnedStep == Typed /\ Owned /\ [Next]_vars => Owned'
  <1> SUFFICES ASSUME Typed, Owned, [Next]_vars
               PROVE  Owned'
    OBVIOUS
  <1>1. CASE \E p \in Posts : CreatePost(p) \/ FallDue(p)
    <2>1. UNCHANGED <<job, mine>>
      BY <1>1 DEF CreatePost, FallDue, sessions
    <2>2. \A p \in Posts : /\ status[p] # "absent" => status'[p] = status[p]
                           /\ status'[p] = status[p] \/ \A j \in Jobs : p \notin job[j].post
      BY <1>1 DEF CreatePost, FallDue, Fresh, Typed, Tables
    <2>3. \A p \in Posts : status'[p] = "absent" => status[p] = "absent"
      BY <2>2
    <2>4. ASSUME NEW k \in Jobs
          PROVE  OwnedBy(k)'
      <3>1. job[k].post \subseteq Posts
        BY DEF Typed, Sessions, Task
      <3>2. New(k) => \A p \in job[k].post : /\ status'[p] = "absent"
                                             /\ \A i \in Jobs \ {k} : p \notin job'[i].post
        BY <2>1, <2>2, <3>1 DEF Owned, OwnedBy
      <3>3. QED
        BY <2>1, <2>2, <2>3, <3>2, OwnerStays
    <2>5. QED
      BY <2>4 DEF Owned
  <1>2. CASE StartSweep
    <2> DEFINE t == [Idle EXCEPT !.kind = "sweep", !.at = "pick", !.batch = Due, !.base = "scheduled"]
    <2>1. Sweeper \in Jobs /\ t.kind = "sweep" /\ t.at = "pick" /\ t.base = "scheduled"
          /\ t.post = {} /\ t.batch = Due
      BY DEF Jobs, Idle
    <2>2. Open(Sweeper, t, {}, Unheld, NoCopies) /\ UNCHANGED status
      BY <1>2 DEF StartSweep, rows
    <2> HIDE DEF t
    <2>3. /\ job'[Sweeper] = t /\ \A p \in Posts : mine'[Sweeper][p] = Unheld
          /\ \A k \in Jobs \ {Sweeper} : job'[k] = job[k] /\ mine'[k] = mine[k]
      BY <2>1, <2>2 DEF Open, Typed, Sessions
    <2>4. \A p \in Due : status[p] # "absent"
      BY DEF Due
    <2>5. OwnedBy(Sweeper)'
      BY <2>1, <2>2, <2>3, <2>4 DEF OwnedBy, New, Unheld
    <2>6. ASSUME NEW k \in Jobs \ {Sweeper}
          PROVE  OwnedBy(k)'
      <3>1. New(k) => \A p \in job[k].post : /\ status'[p] = "absent"
                                             /\ \A i \in Jobs \ {k} : p \notin job'[i].post
        BY <2>1, <2>2, <2>3 DEF Owned, OwnedBy
      <3>2. QED
        BY <2>2, <2>3, <3>1, OwnerStays
    <2>7. QED
      BY <2>5, <2>6 DEF Owned
  <1>3. ASSUME NEW j \in Requests, NEW p \in Posts,
               PublishNow(j, p) \/ SendNow(j, p) \/ AutoPost(j, p) \/ AnnounceChallenge(j, p)
        PROVE  Owned'
    <2>1. j \in Jobs
      BY DEF Jobs
    <2>2. PICK kind \in {"now", "send", "auto", "challenge"}, base \in Status,
               s \in {"publishing", "scheduled"}, counts \in {NoCopies, count} :
              /\ Open(j, Working(kind, "check", p, base), {p}, s, counts)
              /\ base = "absent" => Fresh(p) /\ status' = status
              /\ base # "absent" => status'[p] # "absent" /\ s = "publishing"
              /\ status' = status \/ Fresh(p)
              /\ base # "absent" => Fresh(p) \/ status[p] # "absent"
      <3>1. CASE PublishNow(j, p)
        BY <3>1 DEF PublishNow, rows, Typed, Tables
      <3>2. CASE SendNow(j, p)
        BY <3>2 DEF SendNow, Status, Typed, Tables
      <3>3. CASE AutoPost(j, p)
        BY <3>3 DEF AutoPost, Status
      <3>4. CASE AnnounceChallenge(j, p)
        BY <3>4 DEF AnnounceChallenge, Status
      <3>5. QED
        BY <1>3, <3>1, <3>2, <3>3, <3>4
    <2> DEFINE t == Working(kind, "check", p, base)
    <2>3. t.kind = kind /\ t.at = "check" /\ t.base = base /\ t.post = {p} /\ t.batch = {}
      BY DEF Working, Idle
    <2>4. /\ job'[j] = t /\ \A q \in Posts : mine'[j][q] = IF q = p THEN s ELSE Unheld
          /\ \A k \in Jobs \ {j} : job'[k] = job[k] /\ mine'[k] = mine[k]
      BY <2>1, <2>2 DEF Open, Typed, Sessions
    <2> HIDE DEF t
    <2>5. \A q \in Posts \ {p} : status'[q] = status[q]
      BY <1>3 DEF PublishNow, SendNow, AutoPost, AnnounceChallenge, rows, Typed, Tables
    <2>6. \A k \in Jobs \ {j} : New(k) => p \notin job[k].post
      BY <2>2 DEF Fresh, Owned, OwnedBy
    <2>7. \A q \in Posts : status[q] # "absent" => status'[q] = status[q]
      BY <2>2, <2>5 DEF Fresh
    <2>8. OwnedBy(j)'
      <3>1. CASE base = "absent"
        <4>1. \A k \in Jobs \ {j} : p \notin job'[k].post
          BY <2>2, <2>4, <3>1 DEF Fresh
        <4>2. status'[p] = "absent"
          BY <2>2, <3>1 DEF Fresh
        <4>3. New(j)' /\ kind # "sweep"
          BY <2>3, <2>4, <3>1 DEF New
        <4>4. QED
          BY <2>3, <2>4, <4>1, <4>2, <4>3 DEF OwnedBy, Unheld
      <3>2. CASE base # "absent"
        <4>1. ~New(j)'
          BY <2>3, <2>4, <3>2 DEF New
        <4>2. status'[p] # "absent" /\ s = "publishing"
          BY <2>2, <3>2
        <4>3. QED
          BY <2>3, <2>4, <4>1, <4>2 DEF OwnedBy, Unheld
      <3>3. QED
        BY <3>1, <3>2
    <2>9. ASSUME NEW k \in Jobs \ {j}
          PROVE  OwnedBy(k)'
      <3>1. job[k].post \subseteq Posts
        BY DEF Typed, Sessions, Task
      <3>2. New(k) => \A q \in job[k].post : /\ status'[q] = "absent"
                                             /\ \A i \in Jobs \ {k} : q \notin job'[i].post
        BY <2>1, <2>3, <2>4, <2>5, <2>6, <3>1 DEF Owned, OwnedBy
      <3>3. \A q \in Posts : status'[q] = "absent" => status[q] = "absent"
        BY <2>7
      <3>4. QED
        BY <2>4, <2>7, <3>2, <3>3, OwnerStays
    <2>10. QED
      BY <2>8, <2>9 DEF Owned
  <1>4. ASSUME NEW j \in Jobs, Pick(j)
        PROVE  Owned'
    <2>1. UNCHANGED status /\ job[j].kind = "sweep" /\ ~New(j) /\ job[j].at = "pick"
      BY <1>4 DEF Pick, rows, Owned, OwnedBy
    <2>2. CASE \E p \in job[j].batch :
                  /\ job' = [job EXCEPT ![j].at = "check", ![j].post = {p}, ![j].batch = @ \ {p}]
                  /\ mine' = [mine EXCEPT ![j][p] = "publishing"]
      <3>1. PICK p \in job[j].batch :
                  /\ job' = [job EXCEPT ![j].at = "check", ![j].post = {p}, ![j].batch = @ \ {p}]
                  /\ mine' = [mine EXCEPT ![j][p] = "publishing"]
        BY <2>2
      <3>2. p \in Posts /\ job[j] \in Task
        BY <3>1 DEF Typed, Sessions, Task
      <3>3. /\ job'[j].at = "check" /\ job'[j].post = {p} /\ job'[j].batch = job[j].batch \ {p}
            /\ job'[j].kind = job[j].kind /\ job'[j].base = job[j].base
        BY <3>1, <3>2 DEF Typed, Sessions, Task
      <3>4. /\ \A q \in Posts : mine'[j][q] = IF q = p THEN "publishing" ELSE mine[j][q]
            /\ \A k \in Jobs \ {j} : job'[k] = job[k] /\ mine'[k] = mine[k]
        BY <3>1, <3>2 DEF Typed, Sessions
      <3>5. status[p] # "absent"
        BY <2>1, <3>1, <3>2 DEF Owned, OwnedBy
      <3>6. ~New(j)'
        BY <2>1, <3>3 DEF New
      <3>7. OwnedBy(j)'
        BY <2>1, <3>2, <3>3, <3>4, <3>5, <3>6 DEF Owned, OwnedBy, Unheld
      <3>8. ASSUME NEW k \in Jobs \ {j}
            PROVE  OwnedBy(k)'
        <4>1. New(k) => \A q \in job[k].post : /\ status'[q] = "absent"
                                               /\ \A i \in Jobs \ {k} : q \notin job'[i].post
          BY <2>1, <3>3, <3>4, <3>5 DEF Owned, OwnedBy
        <4>2. QED
          BY <2>1, <3>4, <4>1, OwnerStays
      <3>9. QED
        BY <3>7, <3>8 DEF Owned
    <2>3. CASE job' = [job EXCEPT ![j].at = "commit"] /\ mine' = mine
      <3>1. job[j] \in Task
        BY DEF Typed, Sessions
      <3>2. /\ job'[j].at = "commit" /\ job'[j].post = job[j].post /\ job'[j].batch = job[j].batch
            /\ job'[j].kind = job[j].kind /\ job'[j].base = job[j].base
        BY <2>3, <3>1 DEF Typed, Sessions, Task
      <3>3. \A k \in Jobs \ {j} : job'[k] = job[k]
        BY <2>3 DEF Typed, Sessions
      <3>4. QED
        BY <2>1, <2>3, <3>2, <3>3, MoveOwned
    <2>4. QED
      BY <1>4, <2>2, <2>3 DEF Pick
  <1>5. ASSUME NEW j \in Jobs, Check(j) \/ Send(j) \/ Conclude(j)
        PROVE  Owned'
    <2>1. UNCHANGED status /\ job[j].at \in {"check", "send"} /\ job[j] \in Task
      BY <1>5 DEF Check, Send, Conclude, rows, Typed, Sessions
    <2>2. /\ \A k \in Jobs \ {j} : job'[k] = job[k]
          /\ job'[j].at \in {"send", After(j)} /\ job'[j].post = job[j].post
          /\ job'[j].batch = job[j].batch /\ job'[j].kind = job[j].kind /\ job'[j].base = job[j].base
      <3>1. CASE Check(j)
        BY <2>1, <3>1 DEF Check, Typed, Sessions, Task
      <3>2. CASE Send(j)
        BY <2>1, <3>2 DEF Send, Typed, Sessions, Task
      <3>3. CASE Conclude(j)
        BY <2>1, <3>3 DEF Conclude, Typed, Sessions, Task
      <3>4. QED
        BY <1>5, <3>1, <3>2, <3>3
    <2>3. /\ \A k \in Jobs \ {j} : mine'[k] = mine[k]
          /\ \A p \in Posts : \/ mine'[j][p] = mine[j][p]
                              \/ p \in job[j].post /\ mine'[j][p] \in {"publishing", "published", "failed"}
      <3>1. CASE UNCHANGED mine
        BY <3>1
      <3>2. CASE \E p \in job[j].post : mine' = [mine EXCEPT ![j][p] = Verdict(j, p)]
        BY <3>2 DEF Typed, Sessions, Verdict
      <3>3. QED
        BY <1>5, <3>1, <3>2 DEF Check, Send, Conclude
    <2>4. job'[j].at # "idle" /\ (job'[j].at = "pick" => job[j].kind = "sweep")
      BY <2>2 DEF After
    <2>5. QED
      BY <2>1, <2>2, <2>3, <2>4, MoveOwned
  <1>6. ASSUME NEW j \in Jobs, Raise(j)
        PROVE  Owned'
    <2>1. UNCHANGED status /\ job[j].at \in {"check", "send"} /\ job[j] \in Task
      BY <1>6 DEF Raise, rows, Typed, Sessions
    <2>2. CASE CloseAll({j})
      BY <2>1, <2>2, CloseOwned
    <2>3. CASE /\ \E p \in job[j].post : mine' = [mine EXCEPT ![j][p] = "failed"]
               /\ job' = [job EXCEPT ![j].at = After(j), ![j].todo = {}]
      <3>1. /\ \A k \in Jobs \ {j} : job'[k] = job[k]
            /\ job'[j].at = After(j) /\ job'[j].post = job[j].post
            /\ job'[j].batch = job[j].batch /\ job'[j].kind = job[j].kind /\ job'[j].base = job[j].base
        BY <2>1, <2>3 DEF Typed, Sessions, Task
      <3>2. /\ \A k \in Jobs \ {j} : mine'[k] = mine[k]
            /\ \A p \in Posts : \/ mine'[j][p] = mine[j][p]
                                \/ p \in job[j].post /\ mine'[j][p] \in {"publishing", "published", "failed"}
        BY <2>3 DEF Typed, Sessions
      <3>3. job'[j].at # "idle" /\ (job'[j].at = "pick" => job[j].kind = "sweep")
        BY <3>1 DEF After
      <3>4. QED
        BY <2>1, <3>1, <3>2, <3>3, MoveOwned
    <2>4. QED
      BY <1>6, <2>2, <2>3 DEF Raise
  <1>7. ASSUME NEW j \in Jobs, Commit(j)
        PROVE  Owned'
    <2>1. CloseAll({j}) /\ status' = [p \in Posts |-> IF Writes(j, p) THEN mine[j][p] ELSE status[p]]
      BY <1>7 DEF Commit
    <2>2. /\ job'[j] = Idle /\ mine'[j] = NoPosts
          /\ \A k \in Jobs \ {j} : job'[k] = job[k] /\ mine'[k] = mine[k]
      BY <2>1 DEF CloseAll
    <2>3. \A p \in Posts : \/ status'[p] = status[p]
                           \/ mine[j][p] # Unheld /\ status'[p] # "absent"
      BY <2>1 DEF Writes, Owned, OwnedBy
    <2>4. \A p \in Posts : status[p] # "absent" => status'[p] # "absent"
      BY <2>3
    <2>5. ASSUME NEW k \in Jobs \ {j}
          PROVE  OwnedBy(k)'
      <3>1. \A p \in Posts : status'[p] = "absent" => status[p] = "absent"
        BY <2>4
      <3>2. job[k].post \subseteq Posts
        BY DEF Typed, Sessions, Task
      <3>3. New(k) => \A p \in job[k].post : mine[j][p] = Unheld
        BY <3>2 DEF Owned, OwnedBy
      <3>4. New(k) => \A p \in job[k].post : /\ status'[p] = "absent"
                                             /\ \A i \in Jobs \ {k} : p \notin job'[i].post
        BY <2>2, <2>3, <3>2, <3>3 DEF Owned, OwnedBy, Idle
      <3>5. QED
        BY <2>2, <2>4, <3>1, <3>4, OwnerStays
    <2>6. QED
      BY <2>2, <2>5, ClosedOwner DEF Owned
  <1>8. CASE Restart \/ \E j \in Jobs : CommitFails(j)
    BY <1>8, CloseOwned DEF Restart, CommitFails, rows
  <1>9. CASE SetPublisherManager \/ PausePosting \/ ResumePosting \/ UNCHANGED vars
    <2>1. UNCHANGED <<job, mine, status>>
      BY <1>9 DEF SetPublisherManager, PausePosting, ResumePosting, vars, rows, sessions
    <2>2. QED
      BY <2>1 DEF Owned, OwnedBy, New
  <1>10. QED
    BY <1>1, <1>2, <1>3, <1>4, <1>5, <1>6, <1>7, <1>8, <1>9 DEF Next, PublishStep

LEMMA OwnedInit == Init => Owned
  BY DEF Init, Owned, OwnedBy, New, Idle, NoPosts, Unheld

----------------------------------------------------------------------------
(* The pipeline implements the outbox *)

\* Every step of the pipeline is one of the outbox, or changes nothing it shows.
LEMMA OutboxStep ==
    Typed /\ Typed' /\ Honest /\ Owned /\ [Next]_vars => [Outbox!Next]_(Outbox!outbox)
  <1> SUFFICES ASSUME Typed, Typed', Honest, Owned, [Next]_vars
               PROVE  Outbox!Next \/ UNCHANGED <<status, log, sent>>
    BY DEF Outbox!outbox
  <1>1. CASE \E p \in Posts : CreatePost(p) \/ FallDue(p)
    BY <1>1 DEF CreatePost, FallDue, Fresh, outside, Outbox!Next, Outbox!Accept, Outbox!Accepted
  <1>2. CASE StartSweep
    BY <1>2 DEF StartSweep, rows, outside
  <1>3. ASSUME NEW j \in Requests, NEW p \in Posts,
               PublishNow(j, p) \/ SendNow(j, p) \/ AutoPost(j, p) \/ AnnounceChallenge(j, p)
        PROVE  Outbox!Next \/ UNCHANGED <<status, log, sent>>
    BY <1>3 DEF PublishNow, SendNow, AutoPost, AnnounceChallenge, Fresh, rows, outside,
                Outbox!Next, Outbox!Accept, Outbox!Accepted
  <1>4. ASSUME NEW j \in Jobs, Send(j)
        PROVE  Outbox!Next \/ UNCHANGED <<status, log, sent>>
    <2>1. UNCHANGED <<status, log>>
      BY <1>4 DEF Send, rows
    <2>2. CASE UNCHANGED sent
      BY <2>1, <2>2
    <2>3. CASE \E c \in job[j].todo, p \in job[j].post : sent' = sent \cup {<<p, c>>}
      <3>1. PICK c \in job[j].todo, p \in job[j].post : sent' = sent \cup {<<p, c>>}
        BY <2>3
      <3>2. c \in Channels /\ p \in Posts
        BY <1>4, <3>1 DEF Typed, Sessions, Task
      <3>3. QED
        BY <2>1, <3>1, <3>2 DEF Outbox!Next, Outbox!Deliver
    <2>4. QED
      BY <1>4, <2>2, <2>3 DEF Send, outside
  <1>5. ASSUME NEW j \in Jobs, Commit(j)
        PROVE  Outbox!Next
    <2>1. /\ UNCHANGED sent
          /\ status' = [p \in Posts |-> IF Writes(j, p) THEN mine[j][p] ELSE status[p]]
          /\ \A p \in Posts : log'[p] = log[p] \/ log'[p] = found[j][p]
      BY <1>5 DEF Commit, outside
    <2>2. status' \in [Posts -> {"absent"} \cup Outbox!Accepted \cup Outbox!Settled]
      BY DEF Typed, Tables, Status, Outbox!Accepted, Outbox!Settled
    <2>3. log' \in [Posts -> SUBSET Channels]
      BY DEF Typed, Tables
    <2>4. ASSUME NEW p \in Posts
          PROVE  /\ \/ status'[p] = status[p]
                    \/ status'[p] \in Outbox!Settled
                    \/ status[p] = "absent" /\ status'[p] \in Outbox!Accepted
                 /\ status'[p] = "published" /\ status[p] # "published" => Outbox!Receivers(p) # {}
                 /\ log'[p] = log[p] \/ log'[p] \subseteq Outbox!Receivers(p)
      <3>1. mine[j][p] \in Status \cup {Unheld} /\ found[j][p] \in SUBSET Channels
        BY <1>5 DEF Typed, Sessions
      <3>2. found[j][p] \subseteq Outbox!Receivers(p)
        BY <1>5, <3>1 DEF Honest, Outbox!Receivers
      <3>3. mine[j][p] \in {"scheduled", Unheld} \cup Outbox!Settled
        BY <1>5, <3>1 DEF Owned, OwnedBy, Status, Outbox!Settled
      <3>4. mine[j][p] = "scheduled" => status[p] = "absent"
        BY <1>5 DEF Owned, OwnedBy, Unheld
      <3>5. mine[j][p] = "published" => found[j][p] # {}
        BY <1>5 DEF Honest
      <3>6. CASE ~Writes(j, p)
        BY <2>1, <3>2, <3>6
      <3>7. CASE Writes(j, p)
        BY <2>1, <3>2, <3>3, <3>4, <3>5, <3>7 DEF Writes, Outbox!Accepted
      <3>8. QED
        BY <3>6, <3>7
    <2>5. QED
      BY <2>1, <2>2, <2>3, <2>4 DEF Outbox!Next, Outbox!Settle
  <1>6. ASSUME NEW j \in Jobs, Pick(j) \/ Check(j) \/ Conclude(j) \/ Raise(j) \/ CommitFails(j)
        PROVE  UNCHANGED <<status, log, sent>>
    BY <1>6 DEF Pick, Check, Conclude, Raise, CommitFails, rows, outside
  <1>7. CASE Restart \/ SetPublisherManager \/ PausePosting \/ ResumePosting \/ UNCHANGED vars
    BY <1>7 DEF Restart, SetPublisherManager, PausePosting, ResumePosting, vars, rows, outside
  <1>8. QED
    BY <1>1, <1>2, <1>3, <1>4, <1>5, <1>6, <1>7 DEF Next, PublishStep

\* The pipeline implements the outbox: whatever the callers, sessions and faults, rows are
\* accepted, delivered and settled by its rules.
THEOREM OutboxImplemented == Spec => ImplementsOutbox
  <1>1. Init => Outbox!Init
    BY DEF Init, Outbox!Init
  <1>2. Typed /\ Backed => Honest
    BY DEF Backed
  <1>3. QED
    BY <1>1, <1>2, TypeInit, TypeStep, BackedInit, BackedStep, OwnedInit, OwnedStep, OutboxStep, PTL
       DEF Spec, ImplementsOutbox, Outbox!Spec

----------------------------------------------------------------------------
(* One delivery *)

Quiet == faults = 0 /\ requests = 0

Unsent(p) == \A c \in Channels : <<p, c>> \notin sent

\* Without faults and calls of the publish endpoint, the sweep holds posts that wait and
\* no others, every other job holds a post of its own, and none has yet sent what it still
\* has to send.
LineOf(j) ==
    /\ job[j].at # "idle" => /\ job[j].kind = "sweep" <=> j = Sweeper
                             /\ j = Sweeper => job[j].base = "scheduled"
                             /\ j # Sweeper => job[j].base \in {"absent", "publishing"}
    /\ j = Sweeper => \A p \in Posts : /\ mine[j][p] # Unheld => status[p] = "scheduled"
                                       /\ p \in job[j].batch => /\ mine[j][p] = Unheld
                                                                /\ status[p] = "scheduled"
                                       /\ p \in job[j].post => mine[j][p] # Unheld
    /\ j # Sweeper => \A p \in Posts : /\ mine[j][p] # Unheld => p \in job[j].post
                                       /\ p \notin job[j].batch
                                       /\ p \in job[j].post =>
                                              /\ status[p] = job[j].base
                                              /\ \A k \in Jobs \ {j} : p \notin job[k].post
    /\ \A p \in job[j].post : /\ job[j].at = "check" => Unsent(p)
                              /\ job[j].at = "send" => \A c \in job[j].todo : <<p, c>> \notin sent
                              /\ job[j].at = "commit" /\ mine[j][p] = "scheduled" => Unsent(p)

\* Nothing that waits untouched was sent before.
WaitingUnsent == \A p \in Posts : status[p] = "scheduled" /\ mine[Sweeper][p] = Unheld => Unsent(p)

Delivered(c) == {p \in Posts : <<p, c>> \in sent}

Once == Quiet => /\ \A j \in Jobs : LineOf(j)
                 /\ WaitingUnsent
                 /\ \A c \in Channels : feed[c] <= Cardinality(Delivered(c))

\* A job whose session stays keeps its line, as long as its posts keep their status, nobody
\* else takes them up, and nothing of them is sent.
LEMMA LineStays ==
    ASSUME Typed, NEW k \in Jobs, LineOf(k), job'[k] = job[k], mine'[k] = mine[k],
           \A p \in Posts : mine[k][p] # Unheld \/ p \in job[k].batch \cup job[k].post => status'[p] = status[p],
           k # Sweeper => \A p \in job[k].post : \A i \in Jobs \ {k} : p \notin job'[i].post,
           \A p \in job[k].post, c \in Channels :
               job[k].at \in {"check", "send", "commit"} /\ <<p, c>> \in sent' => <<p, c>> \in sent
               \/ (job[k].at = "send" /\ c \notin job[k].todo)
               \/ (job[k].at = "commit" /\ mine[k][p] # "scheduled")
    PROVE  LineOf(k)'
  <1>1. job[k].post \subseteq Posts /\ job[k].todo \subseteq Channels
    BY DEF Typed, Sessions, Task
  <1>2. QED
    BY <1>1 DEF LineOf, Unsent

\* A closed session holds nothing.
LEMMA ClosedLine ==
    ASSUME NEW k \in Jobs, job'[k] = Idle, mine'[k] = NoPosts
    PROVE  LineOf(k)'
  BY DEF LineOf, Idle, NoPosts, Unheld

\* Steps that leave the rows, the sessions' posts and what was sent alone.
LEMMA QuietStays ==
    ASSUME Typed, Once, UNCHANGED <<status, job, mine, outside>>, Quiet' => Quiet
    PROVE  Once'
  BY DEF Once, LineOf, WaitingUnsent, Unsent, Delivered, outside

\* One more channel of one more post.
LEMMA OneMore ==
    ASSUME Typed, NEW c \in Channels, NEW p \in Posts, <<p, c>> \notin sent,
           sent' = sent \cup {<<p, c>>}, feed' = [feed EXCEPT ![c] = @ + 1],
           \A d \in Channels : feed[d] <= Cardinality(Delivered(d))
    PROVE  \A d \in Channels : feed'[d] <= Cardinality(Delivered(d)')
  <1>1. \A d \in Channels : IsFiniteSet(Delivered(d)) /\ Cardinality(Delivered(d)) \in Nat
    <2>1. IsFiniteSet(Posts)
      BY ChannelsAssumption
    <2>2. \A d \in Channels : Delivered(d) \subseteq Posts
      BY DEF Delivered
    <2>3. QED
      BY <2>1, <2>2, FS_Subset, FS_CardinalityType
  <1>2. Delivered(c)' = Delivered(c) \cup {p} /\ p \notin Delivered(c)
    BY DEF Delivered
  <1>3. \A d \in Channels \ {c} : Delivered(d)' = Delivered(d)
    BY DEF Delivered
  <1>4. Cardinality(Delivered(c)') = Cardinality(Delivered(c)) + 1
    BY <1>1, <1>2, FS_AddElement
  <1>5. feed'[c] = feed[c] + 1 /\ feed[c] \in Nat /\ \A d \in Channels \ {c} : feed'[d] = feed[d]
    BY DEF Typed, Tables
  <1>6. QED
    BY <1>1, <1>3, <1>4, <1>5

\* Each action, without faults and calls of the endpoint, sends nothing twice.
LEMMA OnceStep == Typed /\ Owned /\ Once /\ [Next]_vars => Once'
  <1> SUFFICES ASSUME Typed, Owned, Once, [Next]_vars, Quiet'
               PROVE  Once'
    BY DEF Once
  <1>0. Sweeper \in Jobs /\ \A j \in Requests : j \in Jobs /\ j # Sweeper
    BY SweeperAssumption DEF Jobs
  <1>q. Quiet /\ ~Restart /\ (\A j \in Jobs : ~CommitFails(j)) /\ (\A j \in Requests, p \in Posts : ~PublishNow(j, p))
    <2>1. faults \in Nat /\ requests \in Nat
      BY BoundsAssumption DEF Typed, Tables
    <2>2. ~Restart /\ (\A j \in Jobs : ~CommitFails(j)) /\ (\A j \in Requests, p \in Posts : ~PublishNow(j, p))
      BY <2>1 DEF Restart, CommitFails, PublishNow, Quiet
    <2>3. faults' = faults /\ requests' = requests
      BY <2>2 DEF Next, PublishStep, CreatePost, FallDue, StartSweep, SendNow, AutoPost, AnnounceChallenge,
                  Pick, Check, Send, Conclude, Raise, Commit, SetPublisherManager, PausePosting,
                  ResumePosting, vars, bounds
    <2>4. QED
      BY <2>2, <2>3 DEF Quiet
  <1>h. /\ \A j \in Jobs : LineOf(j)
        /\ WaitingUnsent
        /\ \A c \in Channels : feed[c] <= Cardinality(Delivered(c))
    BY <1>q DEF Once
  <1>p. \A j \in Jobs : job[j].post \subseteq Posts /\ job[j].batch \subseteq Posts /\ job[j].todo \subseteq Channels
    BY DEF Typed, Sessions, Task
  <1>c. ASSUME UNCHANGED outside
        PROVE  \A c \in Channels : feed'[c] <= Cardinality(Delivered(c)')
    BY <1>h, <1>c DEF Delivered, outside
  <1>1. CASE \E p \in Posts : CreatePost(p) \/ FallDue(p)
    <2>1. UNCHANGED <<job, mine, outside>>
      BY <1>1 DEF CreatePost, FallDue, sessions
    <2>2. \A p \in Posts : \/ status'[p] = status[p]
                           \/ status[p] = "absent" /\ Unsent(p) /\ \A j \in Jobs : p \notin job[j].post
      BY <1>1 DEF CreatePost, FallDue, Fresh, Unsent, Typed, Tables
    <2>3. ASSUME NEW k \in Jobs
          PROVE  LineOf(k)'
      <3>1. \A p \in Posts : mine[k][p] # Unheld \/ p \in job[k].batch \cup job[k].post => status'[p] = status[p]
        BY <1>h, <2>2 DEF LineOf
      <3>2. k # Sweeper => \A p \in job[k].post : \A i \in Jobs \ {k} : p \notin job'[i].post
        BY <1>h, <1>p, <2>1 DEF LineOf
      <3>3. QED
        BY <1>h, <2>1, <3>1, <3>2, LineStays DEF outside
    <2>4. WaitingUnsent'
      BY <1>h, <2>1, <2>2 DEF WaitingUnsent, Unsent, outside
    <2>5. QED
      BY <1>c, <2>1, <2>3, <2>4 DEF Once
  <1>2. CASE StartSweep
    <2> DEFINE t == [Idle EXCEPT !.kind = "sweep", !.at = "pick", !.batch = Due, !.base = "scheduled"]
    <2>1. t.kind = "sweep" /\ t.at = "pick" /\ t.base = "scheduled" /\ t.post = {} /\ t.batch = Due
      BY DEF Idle
    <2>2. Open(Sweeper, t, {}, Unheld, NoCopies) /\ UNCHANGED <<status, outside>>
      BY <1>2 DEF StartSweep, rows
    <2> HIDE DEF t
    <2>3. /\ job'[Sweeper] = t /\ \A p \in Posts : mine'[Sweeper][p] = Unheld
          /\ \A k \in Jobs \ {Sweeper} : job'[k] = job[k] /\ mine'[k] = mine[k]
      BY <1>0, <2>1, <2>2 DEF Open, Typed, Sessions
    <2>4. \A p \in Due : status[p] = "scheduled"
      BY DEF Due
    <2>5. LineOf(Sweeper)'
      BY <1>0, <2>1, <2>2, <2>3, <2>4 DEF LineOf
    <2>6. ASSUME NEW k \in Jobs \ {Sweeper}
          PROVE  LineOf(k)'
      <3>1. k # Sweeper => \A p \in job[k].post : \A i \in Jobs \ {k} : p \notin job'[i].post
        BY <1>h, <1>p, <2>1, <2>3 DEF LineOf
      <3>2. QED
        BY <1>h, <2>2, <2>3, <3>1, LineStays DEF outside
    <2>7. mine[Sweeper] = mine'[Sweeper] \/ \A p \in Posts : mine[Sweeper][p] = Unheld
      BY <1>0, <2>2 DEF Open, Owned, OwnedBy
    <2>8. WaitingUnsent'
      BY <1>h, <2>2, <2>3, <2>7 DEF WaitingUnsent, Unsent, outside
    <2>9. QED
      BY <1>c, <2>2, <2>5, <2>6, <2>8 DEF Once
  <1>3. ASSUME NEW j \in Requests, NEW p \in Posts,
               SendNow(j, p) \/ AutoPost(j, p) \/ AnnounceChallenge(j, p)
        PROVE  Once'
    <2>1. j \in Jobs /\ j # Sweeper
      BY <1>0
    <2>2. PICK kind \in {"send", "auto", "challenge"}, base \in {"absent", "publishing"},
               s \in {"publishing", "scheduled"}, counts \in {NoCopies, count} :
              /\ Open(j, Working(kind, "check", p, base), {p}, s, counts)
              /\ status'[p] = base
      <3>1. CASE SendNow(j, p)
        BY <3>1 DEF SendNow, Typed, Tables
      <3>2. CASE AutoPost(j, p)
        BY <3>2 DEF AutoPost, Fresh
      <3>3. CASE AnnounceChallenge(j, p)
        BY <3>3 DEF AnnounceChallenge, Fresh
      <3>4. QED
        BY <1>3, <3>1, <3>2, <3>3
    <2> DEFINE t == Working(kind, "check", p, base)
    <2>3. t.kind = kind /\ t.at = "check" /\ t.base = base /\ t.post = {p} /\ t.batch = {}
      BY DEF Working, Idle
    <2>4. /\ job'[j] = t /\ \A q \in Posts : mine'[j][q] = IF q = p THEN s ELSE Unheld
          /\ \A k \in Jobs \ {j} : job'[k] = job[k] /\ mine'[k] = mine[k]
      BY <2>1, <2>2 DEF Open, Typed, Sessions
    <2> HIDE DEF t
    <2>5. /\ Unsent(p) /\ status[p] = "absent" /\ \A k \in Jobs : p \notin job[k].post
          /\ UNCHANGED outside /\ \A q \in Posts \ {p} : status'[q] = status[q]
      BY <1>3 DEF SendNow, AutoPost, AnnounceChallenge, Fresh, Unsent, Typed, Tables
    <2>6. LineOf(j)'
      <3>1. Unsent(p)'
        BY <2>5 DEF Unsent, outside
      <3>2. \A k \in Jobs \ {j} : p \notin job'[k].post
        BY <2>4, <2>5
      <3>3. kind # "sweep"
        OBVIOUS
      <3>4. QED
        BY <2>1, <2>2, <2>3, <2>4, <3>1, <3>2, <3>3 DEF LineOf
    <2>7. ASSUME NEW k \in Jobs \ {j}
          PROVE  LineOf(k)'
      <3>1. \A q \in Posts : mine[k][q] # Unheld \/ q \in job[k].batch \cup job[k].post => q # p
        BY <1>h, <2>5 DEF LineOf
      <3>2. \A q \in Posts : mine[k][q] # Unheld \/ q \in job[k].batch \cup job[k].post => status'[q] = status[q]
        BY <2>5, <3>1
      <3>3. k # Sweeper => \A q \in job[k].post : \A i \in Jobs \ {k} : q \notin job'[i].post
        BY <1>h, <1>p, <2>1, <2>3, <2>4, <2>5 DEF LineOf
      <3>4. QED
        BY <1>h, <2>4, <2>5, <3>2, <3>3, LineStays DEF outside
    <2>8. WaitingUnsent'
      BY <1>h, <1>0, <2>1, <2>2, <2>4, <2>5 DEF WaitingUnsent, Unsent, outside
    <2>9. QED
      BY <1>c, <2>5, <2>6, <2>7, <2>8 DEF Once
  <1>4. ASSUME NEW j \in Jobs, Pick(j)
        PROVE  Once'
    <2>1. UNCHANGED <<status, outside>> /\ job[j].at = "pick" /\ job[j] \in Task
      BY <1>4 DEF Pick, rows, Typed, Sessions
    <2>2. j = Sweeper /\ job[j].base = "scheduled" /\ job[j].kind = "sweep"
      BY <1>h, <2>1 DEF Owned, OwnedBy, LineOf
    <2>3. CASE \E p \in job[j].batch :
                  /\ job' = [job EXCEPT ![j].at = "check", ![j].post = {p}, ![j].batch = @ \ {p}]
                  /\ mine' = [mine EXCEPT ![j][p] = "publishing"]
      <3>1. PICK p \in job[j].batch :
                  /\ job' = [job EXCEPT ![j].at = "check", ![j].post = {p}, ![j].batch = @ \ {p}]
                  /\ mine' = [mine EXCEPT ![j][p] = "publishing"]
        BY <2>3
      <3>2. p \in Posts /\ status[p] = "scheduled" /\ mine[j][p] = Unheld /\ Unsent(p)
        BY <1>h, <1>p, <2>2, <3>1 DEF LineOf, WaitingUnsent
      <3>3. /\ job'[j].at = "check" /\ job'[j].post = {p} /\ job'[j].batch = job[j].batch \ {p}
            /\ job'[j].kind = job[j].kind /\ job'[j].base = job[j].base
        BY <2>1, <3>1 DEF Typed, Sessions, Task
      <3>4. /\ \A q \in Posts : mine'[j][q] = IF q = p THEN "publishing" ELSE mine[j][q]
            /\ \A k \in Jobs \ {j} : job'[k] = job[k] /\ mine'[k] = mine[k]
        BY <3>1, <3>2 DEF Typed, Sessions
      <3>5. Unsent(p)'
        BY <2>1, <3>2 DEF Unsent, outside
      <3>6. LineOf(j)'
        BY <1>h, <2>1, <2>2, <3>2, <3>3, <3>4, <3>5 DEF LineOf, Unheld
      <3>7. ASSUME NEW k \in Jobs \ {j}
            PROVE  LineOf(k)'
        <4>1. p \notin job[k].post
          BY <1>h, <2>2, <3>2 DEF LineOf, Owned, OwnedBy
        <4>2. k # Sweeper => \A q \in job[k].post : \A i \in Jobs \ {k} : q \notin job'[i].post
          BY <1>h, <1>p, <3>3, <3>4, <4>1 DEF LineOf
        <4>3. QED
          BY <1>h, <2>1, <3>4, <4>2, LineStays DEF outside
      <3>8. WaitingUnsent'
        BY <1>h, <2>1, <2>2, <3>4 DEF WaitingUnsent, Unsent, Unheld, outside
      <3>9. QED
        BY <1>c, <2>1, <3>6, <3>7, <3>8 DEF Once
    <2>4. CASE job' = [job EXCEPT ![j].at = "commit"] /\ mine' = mine
      <3>1. /\ job'[j].at = "commit" /\ job'[j].post = job[j].post /\ job'[j].batch = job[j].batch
            /\ job'[j].kind = job[j].kind /\ job'[j].base = job[j].base
        BY <2>1, <2>4 DEF Typed, Sessions, Task
      <3>2. \A k \in Jobs \ {j} : job'[k] = job[k]
        BY <2>4 DEF Typed, Sessions
      <3>3. \A p \in Posts : mine[j][p] # "scheduled"
        BY <2>2 DEF Owned, OwnedBy, New
      <3>4. LineOf(j)'
        BY <1>h, <1>p, <2>1, <2>2, <2>4, <3>1, <3>3 DEF LineOf
      <3>5. \A k \in Jobs : job'[k].post = job[k].post
        BY <3>1, <3>2
      <3>6. ASSUME NEW k \in Jobs \ {j}
            PROVE  LineOf(k)'
        <4>1. k # Sweeper => \A q \in job[k].post : \A i \in Jobs \ {k} : q \notin job'[i].post
          BY <1>h, <1>p, <3>5 DEF LineOf
        <4>2. QED
          BY <1>h, <2>1, <2>4, <3>2, <4>1, LineStays DEF outside
      <3>7. WaitingUnsent'
        BY <1>h, <2>1, <2>4 DEF WaitingUnsent, Unsent, outside
      <3>8. QED
        BY <1>c, <2>1, <3>4, <3>6, <3>7 DEF Once
    <2>5. QED
      BY <1>4, <2>3, <2>4 DEF Pick
  <1>5. ASSUME NEW j \in Jobs, Check(j) \/ Conclude(j) \/ (Raise(j) /\ ~CloseAll({j}))
        PROVE  Once'
    <2>1. UNCHANGED <<status, outside>> /\ job[j].at \in {"check", "send"} /\ job[j] \in Task
      BY <1>5 DEF Check, Conclude, Raise, rows, Typed, Sessions
    <2>2. /\ \A k \in Jobs \ {j} : job'[k] = job[k] /\ mine'[k] = mine[k]
          /\ job'[j].post = job[j].post /\ job'[j].batch = job[j].batch
          /\ job'[j].kind = job[j].kind /\ job'[j].base = job[j].base
          /\ \/ Check(j) /\ mine'[j] = mine[j] /\ job'[j].at \in {"send", After(j)}
             \/ /\ job'[j].at = After(j)
                /\ \A p \in Posts : \/ mine'[j][p] = mine[j][p] /\ p \notin job[j].post
                                    \/ p \in job[j].post /\ mine'[j][p] \in {"published", "failed"}
      <3>0. \A p, q \in job[j].post : p = q
        BY <2>1 DEF Typed, Sessions
      <3>1. CASE Check(j)
        <4>1. job[j].at # "idle" /\ UNCHANGED mine
          BY <3>1 DEF Check
        <4>2. CASE \E p \in job[j].post : job' = [job EXCEPT ![j].at = "send", ![j].todo = aim[p]]
          BY <2>1, <3>1, <4>1, <4>2 DEF Typed, Sessions, Task
        <4>3. CASE job' = [job EXCEPT ![j].at = After(j)]
          BY <2>1, <3>1, <4>1, <4>3 DEF Typed, Sessions, Task
        <4>4. QED
          BY <3>1, <4>2, <4>3 DEF Check
      <3>2. CASE Conclude(j)
        BY <2>1, <3>0, <3>2 DEF Conclude, Typed, Sessions, Task, Verdict
      <3>3. CASE Raise(j) /\ ~CloseAll({j})
        BY <2>1, <3>0, <3>3 DEF Raise, Typed, Sessions, Task
      <3>4. QED
        BY <1>5, <3>1, <3>2, <3>3
    <2>3. After(j) \in {"pick", "commit"}
      BY DEF After
    <2>4. \A k \in Jobs : job'[k].post = job[k].post
      BY <2>2
    <2>5. ASSUME NEW k \in Jobs \ {j}
          PROVE  LineOf(k)'
      <3>1. k # Sweeper => \A q \in job[k].post : \A i \in Jobs \ {k} : q \notin job'[i].post
        BY <1>h, <1>p, <2>4 DEF LineOf
      <3>2. QED
        BY <1>h, <2>1, <2>2, <3>1, LineStays DEF outside
    <2>6. \A p \in Posts : /\ p \in job[j].post \/ mine'[j][p] = mine[j][p]
                           /\ p \in job[j].post /\ mine'[j][p] # mine[j][p] => mine'[j][p] \in {"published", "failed"}
      BY <2>2
    <2>7. \A p \in job[j].post : /\ job'[j].at = "check" => FALSE
                                 /\ job'[j].at = "send" => Unsent(p)
                                 /\ job'[j].at = "commit" /\ mine'[j][p] = "scheduled" => Unsent(p)
      <3>1. CASE Check(j)
        <4>1. job[j].at = "check" /\ \A p \in job[j].post : Unsent(p)
          BY <1>h, <3>1 DEF Check, LineOf
        <4>2. QED
          BY <2>2, <2>3, <4>1
      <3>2. CASE ~Check(j)
        BY <1>p, <2>2, <2>3, <3>2
      <3>3. QED
        BY <3>1, <3>2
    <2>8. \A p \in job[j].post : Unsent(p)' <=> Unsent(p)
      BY <2>1 DEF Unsent, outside
    <2>9. LineOf(j)'
      <3>1. j = Sweeper => \A p \in job[j].post : mine'[j][p] # Unheld
        BY <1>h, <1>p, <2>6 DEF LineOf, Unheld
      <3>2. job'[j].at # "idle" /\ job[j].at # "idle"
        BY <2>1, <2>2, <2>3
      <3>3. \A p \in job'[j].post : /\ job'[j].at = "check" => Unsent(p)'
                                    /\ job'[j].at = "send" => \A c \in job'[j].todo : <<p, c>> \notin sent'
                                    /\ job'[j].at = "commit" /\ mine'[j][p] = "scheduled" => Unsent(p)'
        <4>1. job'[j].todo \subseteq Channels \/ job'[j].at # "send"
          <5>1. CASE Check(j)
            BY <2>1, <5>1 DEF Check, Typed, Sessions, Tables, Task, After
          <5>2. CASE ~Check(j)
            BY <2>2, <2>3, <5>2
          <5>3. QED
            BY <5>1, <5>2
        <4>2. QED
          BY <2>2, <2>7, <2>8, <4>1 DEF Unsent
      <3>4. j = Sweeper => \A p \in Posts : /\ mine'[j][p] # Unheld => status'[p] = "scheduled"
                                            /\ p \in job'[j].batch =>
                                                   mine'[j][p] = Unheld /\ status'[p] = "scheduled"
        BY <1>h, <1>p, <2>1, <2>2, <2>6 DEF LineOf
      <3>5. j # Sweeper => \A p \in Posts : /\ mine'[j][p] # Unheld => p \in job'[j].post
                                            /\ p \notin job'[j].batch
                                            /\ p \in job'[j].post =>
                                                   /\ status'[p] = job'[j].base
                                                   /\ \A k \in Jobs \ {j} : p \notin job'[k].post
        BY <1>h, <2>1, <2>2, <2>4, <2>6 DEF LineOf
      <3>6. QED
        BY <1>h, <2>2, <3>1, <3>2, <3>3, <3>4, <3>5 DEF LineOf
    <2>10. WaitingUnsent'
      <3>1. \A p \in Posts : mine'[Sweeper][p] = Unheld => mine[Sweeper][p] = Unheld
        BY <1>0, <2>2, <2>6 DEF Unheld
      <3>2. QED
        BY <1>h, <2>1, <3>1 DEF WaitingUnsent, Unsent, outside
    <2>11. QED
      BY <1>c, <2>1, <2>5, <2>9, <2>10 DEF Once
  <1>6. ASSUME NEW j \in Jobs, Raise(j), CloseAll({j})
        PROVE  Once'
    <2>1. UNCHANGED <<status, outside>>
      BY <1>6 DEF Raise, rows
    <2>2. /\ job'[j] = Idle /\ mine'[j] = NoPosts
          /\ \A k \in Jobs \ {j} : job'[k] = job[k] /\ mine'[k] = mine[k]
      BY <1>6 DEF CloseAll
    <2>3. j # Sweeper
      <3>1. CASE job[j].kind \in {"sweep", "auto"}
        <4>1. job'[j].at = After(j)
          BY <1>6, <3>1 DEF Raise, Typed, Sessions, Task
        <4>2. QED
          BY <2>2, <4>1 DEF After, Idle
      <3>2. CASE job[j].kind \notin {"sweep", "auto"}
        BY <1>6, <1>h, <3>2 DEF LineOf, Raise
      <3>3. QED
        BY <3>1, <3>2
    <2>4. ASSUME NEW k \in Jobs \ {j}
          PROVE  LineOf(k)'
      <3>1. k # Sweeper => \A q \in job[k].post : \A i \in Jobs \ {k} : q \notin job'[i].post
        BY <1>h, <1>p, <2>2 DEF LineOf, Idle
      <3>2. QED
        BY <1>h, <2>1, <2>2, <3>1, LineStays DEF outside
    <2>5. WaitingUnsent'
      BY <1>h, <1>0, <2>1, <2>2, <2>3 DEF WaitingUnsent, Unsent, outside
    <2>6. QED
      BY <1>c, <2>1, <2>2, <2>4, <2>5, ClosedLine DEF Once
  <1>7. ASSUME NEW j \in Jobs, Send(j)
        PROVE  Once'
    <2>1. PICK c \in job[j].todo, p \in job[j].post :
              /\ job' = [job EXCEPT ![j].todo = @ \ {c}]
              /\ \/ UNCHANGED <<found, copy, bumped, outside>>
                 \/ sent' = sent \cup {<<p, c>>} /\ feed' = [feed EXCEPT ![c] = @ + 1]
      BY <1>7 DEF Send
    <2>2. c \in Channels /\ p \in Posts /\ job[j] \in Task /\ job[j].at = "send" /\ \A q \in job[j].post : q = p
      BY <1>7, <1>p, <2>1 DEF Send, Typed, Sessions
    <2>3. UNCHANGED <<status, mine>>
      BY <1>7 DEF Send, rows
    <2>4. /\ \A k \in Jobs \ {j} : job'[k] = job[k]
          /\ job'[j].at = "send" /\ job'[j].todo = job[j].todo \ {c} /\ job'[j].post = job[j].post
          /\ job'[j].batch = job[j].batch /\ job'[j].kind = job[j].kind /\ job'[j].base = job[j].base
      BY <2>1, <2>2 DEF Typed, Sessions, Task
    <2>5. <<p, c>> \notin sent
      BY <1>h, <2>1, <2>2 DEF LineOf
    <2>6. sent' = sent \/ sent' = sent \cup {<<p, c>>}
      BY <2>1 DEF outside
    <2>7. \A d \in Channels : feed'[d] <= Cardinality(Delivered(d)')
      <3>1. CASE UNCHANGED outside
        BY <1>c, <3>1
      <3>2. CASE sent' = sent \cup {<<p, c>>} /\ feed' = [feed EXCEPT ![c] = @ + 1]
        BY <1>h, <2>2, <2>5, <3>2, OneMore
      <3>3. QED
        BY <2>1, <3>1, <3>2
    <2>8. \A k \in Jobs : job'[k].post = job[k].post
      BY <2>4
    <2>9. \A k \in Jobs \ {j} : p \notin job[k].post
      BY <1>h, <2>1, <2>2 DEF LineOf
    <2>10. ASSUME NEW k \in Jobs \ {j}
           PROVE  LineOf(k)'
      <3>1. k # Sweeper => \A q \in job[k].post : \A i \in Jobs \ {k} : q \notin job'[i].post
        BY <1>h, <1>p, <2>8 DEF LineOf
      <3>2. \A q \in job[k].post, d \in Channels : <<q, d>> \in sent' => <<q, d>> \in sent
        BY <2>6, <2>9
      <3>3. QED
        BY <1>h, <2>3, <2>4, <3>1, <3>2, LineStays
    <2>11. LineOf(j)'
      <3>1. \A q \in job'[j].post : \A d \in job'[j].todo : <<q, d>> \notin sent'
        <4>1. \A q \in job[j].post : \A d \in job[j].todo : <<q, d>> \notin sent
          BY <1>h, <2>2 DEF LineOf
        <4>2. QED
          <5> SUFFICES ASSUME NEW q \in job[j].post, NEW d \in job[j].todo \ {c}
                       PROVE  <<q, d>> \notin sent'
            BY <2>4
          <5>1. <<q, d>> \notin sent /\ <<q, d>> # <<p, c>>
            BY <4>1
          <5>2. QED
            BY <2>6, <5>1
      <3>2. QED
        BY <1>h, <2>2, <2>3, <2>4, <2>8, <3>1 DEF LineOf
    <2>12. WaitingUnsent'
      <3>1. status[p] # "scheduled" \/ mine[Sweeper][p] # Unheld
        BY <1>h, <1>0, <2>1, <2>2 DEF LineOf
      <3>2. QED
        BY <1>h, <2>3, <2>6, <3>1 DEF WaitingUnsent, Unsent
    <2>13. QED
      BY <2>7, <2>10, <2>11, <2>12 DEF Once
  <1>8. ASSUME NEW j \in Jobs, Commit(j)
        PROVE  Once'
    <2>1. /\ CloseAll({j}) /\ UNCHANGED outside /\ job[j].at = "commit"
          /\ status' = [p \in Posts |-> IF Writes(j, p) THEN mine[j][p] ELSE status[p]]
      BY <1>8 DEF Commit
    <2>2. /\ job'[j] = Idle /\ mine'[j] = NoPosts
          /\ \A k \in Jobs \ {j} : job'[k] = job[k] /\ mine'[k] = mine[k]
      BY <2>1 DEF CloseAll
    <2>3. \A p \in Posts : \/ status'[p] = status[p]
                           \/ mine[j][p] # Unheld /\ status'[p] = mine[j][p]
      BY <2>1 DEF Writes
    <2>4. ASSUME NEW k \in Jobs \ {j}
          PROVE  LineOf(k)'
      <3>1. \A p \in Posts : mine[k][p] # Unheld \/ p \in job[k].batch \cup job[k].post => mine[j][p] = Unheld
        <4>1. CASE j = Sweeper
          BY <1>h, <4>1 DEF LineOf, Owned, OwnedBy
        <4>2. CASE j # Sweeper
          BY <1>h, <2>1, <4>2 DEF LineOf
        <4>3. QED
          BY <4>1, <4>2
      <3>2. \A p \in Posts : mine[k][p] # Unheld \/ p \in job[k].batch \cup job[k].post => status'[p] = status[p]
        BY <2>3, <3>1
      <3>3. k # Sweeper => \A q \in job[k].post : \A i \in Jobs \ {k} : q \notin job'[i].post
        BY <1>h, <1>p, <2>2 DEF LineOf, Idle
      <3>4. QED
        BY <1>h, <2>1, <2>2, <3>2, <3>3, LineStays DEF outside
    <2>5. WaitingUnsent'
      <3>1. CASE j = Sweeper
        <4>1. \A p \in Posts : mine[j][p] # Unheld => status'[p] = mine[j][p] /\ mine[j][p] # "scheduled"
          BY <1>h, <2>1, <3>1 DEF LineOf, Writes, Owned, OwnedBy, New
        <4>2. QED
          BY <1>h, <2>1, <2>3, <3>1, <4>1 DEF WaitingUnsent, Unsent, outside
      <3>2. CASE j # Sweeper
        <4>1. \A p \in Posts : mine[j][p] = "scheduled" => Unsent(p)
          BY <1>h, <2>1, <3>2 DEF LineOf, Unheld
        <4>2. mine'[Sweeper] = mine[Sweeper]
          BY <1>0, <2>2, <3>2
        <4>3. QED
          BY <1>h, <2>1, <2>3, <4>1, <4>2 DEF WaitingUnsent, Unsent, outside
      <3>3. QED
        BY <3>1, <3>2
    <2>6. QED
      BY <1>c, <2>1, <2>2, <2>4, <2>5, ClosedLine DEF Once
  <1>9. CASE SetPublisherManager \/ PausePosting \/ ResumePosting \/ UNCHANGED vars
    <2>1. UNCHANGED <<status, job, mine, outside>>
      BY <1>9 DEF SetPublisherManager, PausePosting, ResumePosting, vars, rows, sessions
    <2>2. QED
      BY <1>q, <2>1, QuietStays
  <1>10. QED
    BY <1>q, <1>1, <1>2, <1>3, <1>4, <1>5, <1>6, <1>7, <1>8, <1>9 DEF Next, PublishStep

LEMMA OnceInit == Init => Once
  <1> SUFFICES ASSUME Init
               PROVE  Once
    OBVIOUS
  <1>1. \A j \in Jobs : LineOf(j)
    BY DEF Init, LineOf, Idle, NoPosts, Unheld
  <1>2. \A c \in Channels : Delivered(c) = {} /\ feed[c] = 0
    BY DEF Init, Delivered
  <1>3. Cardinality({}) = 0
    BY FS_EmptySet
  <1>4. WaitingUnsent
    BY DEF Init, WaitingUnsent, Unsent
  <1>5. QED
    BY <1>1, <1>2, <1>3, <1>4 DEF Once

\* Without faults and calls of the publish endpoint no channel receives a post twice,
\* for any number of posts, channels and publishers.
THEOREM DeliveredOnceSafe == Spec => []DeliveredOnce
  <1>1. Once => DeliveredOnce
    BY DEF Once, Quiet, Delivered, DeliveredOnce
  <1>2. QED
    BY <1>1, TypeInit, TypeStep, OwnedInit, OwnedStep, OnceInit, OnceStep, PTL DEF Spec

===============================================================================
