-------------------------- MODULE ChallengePlayProofs --------------------------
(* Theorems about ChallengePlay, for any number of users, challenges and *)
(* handlers.                                                             *)
EXTENDS ChallengePlay, FiniteSetTheorems, TLAPS

\* The fields of a row, one by one.
LEMMA AccountTypes ==
    /\ \A r \in Users \cup {NoUser} : NewAccount(r) \in Account
    /\ Idle \in Task
    /\ Requests \subseteq Task
    /\ \A q \in Requests : q.at = "load" /\ q.user \in Users
                           /\ (q.op = "answer" => q.chal \in Challenges)
  <1>1. \A r \in Users \cup {NoUser} : NewAccount(r) \in Account
    BY DEF NewAccount, Account
  <1>2. Idle \in Task
    BY DEF Idle, Task, Steps
  <1>3. Requests \subseteq Task
    BY DEF Requests, Task, Steps
  <1>4. \A q \in Requests : q.at = "load" /\ q.user \in Users
                            /\ (q.op = "answer" => q.chal \in Challenges)
    BY DEF Requests
  <1>5. QED
    BY <1>1, <1>2, <1>3, <1>4

\* The column updates of the commits yield rows.
LEMMA RowTypes ==
    ASSUME NEW a \in Account
    PROVE  /\ [a EXCEPT !.terms = TRUE] \in Account
           /\ \A b \in BOOLEAN : [a EXCEPT !.terms = TRUE, !.rewarded = @ \/ b] \in Account
           /\ \A i, j, k \in Nat : [a EXCEPT !.refCount = i, !.refPoints = j, !.total = k] \in Account
           /\ \A i, j \in Nat : [a EXCEPT !.total = i, !.correct = j] \in Account
           /\ \A i \in Nat : [a EXCEPT !.challenges = i] \in Account
  BY DEF Account

\* Writing one row of the table.
LEMMA WriteType ==
    ASSUME NEW f \in [Users -> Account], NEW u \in Users, NEW a \in Account
    PROVE  [f EXCEPT ![u] = a] \in [Users -> Account]
  OBVIOUS

\* get_active_challenge and the payload only ever pick a challenge of the table.
LEMMA PickType ==
    ASSUME TypeOK, NEW h \in Handlers
    PROVE  Picked(h) \subseteq Challenges
  BY DEF TypeOK, Task, Picked, ActiveChallenge


\* Ending or moving a handler keeps the types of its copies.
LEMMA FinishType ==
    ASSUME TypeOK, NEW h \in Handlers, Finish(h)
    PROVE  /\ task' \in [Handlers -> Task]
           /\ me' \in [Handlers -> Account]
           /\ boss' \in [Handlers -> Account]
           /\ task' = [task EXCEPT ![h] = Idle]
  BY AccountTypes DEF TypeOK, Finish

\* The part of TypeOK about where handlers are.
Placed(h) ==
    /\ task[h].at # "idle" => task[h].user \in Users
    /\ \/ task[h].op = "answer"
       \/ task[h].at \in {"send", "enter", "join", "refresh", "link", "record"}
       => task[h].chal \in Challenges
    /\ task[h].at = "referrer" => me[h].referredBy \in Users

LEMMA FinishPlaced ==
    ASSUME TypeOK, NEW h \in Handlers, Finish(h)
    PROVE  \A k \in Handlers : Placed(k)'
  BY DEF TypeOK, Placed, Idle, Finish

\* A handler that stays at the same request may move to any step that needs no
\* challenge, or to any step at all once it has one.
LEMMA MovePlaced ==
    ASSUME TypeOK, NEW h \in Handlers, task[h].at # "idle", NEW step \in Steps,
           Goto(h, step),
           \A k \in Handlers \ {h} : me'[k] = me[k],
           step = "referrer" => me'[h].referredBy \in Users,
           \/ step \notin {"send", "enter", "join", "refresh", "link", "record"}
           \/ task[h].chal \in Challenges
    PROVE  /\ task' \in [Handlers -> Task]
           /\ \A k \in Handlers : Placed(k)'
  <1>1. task' \in [Handlers -> Task]
    BY DEF TypeOK, Goto, Task
  <1>2. \A k \in Handlers : Placed(k)'
    BY DEF TypeOK, Goto, Placed
  <1>3. QED
    BY <1>1, <1>2

\* Likewise when a step also fills in a field of the request.
LEMMA FillPlaced ==
    ASSUME TypeOK, NEW h \in Handlers, NEW t \in Task, task' = [task EXCEPT ![h] = t],
           t.user \in Users, t.chal \in Challenges, t.at # "referrer", me' = me
    PROVE  /\ task' \in [Handlers -> Task]
           /\ \A k \in Handlers : Placed(k)'
  BY DEF TypeOK, Placed

\* A handler with a challenge at hand names a participation that can exist.
LEMMA EntryType ==
    ASSUME TypeOK, NEW h \in Handlers, task[h].at \in {"enter", "join", "refresh", "link", "record"}
    PROVE  Entry(h) \in Users \X Challenges
  BY DEF TypeOK, Entry

\* Every action keeps TypeOK.
LEMMA TypeStep ==
    ASSUME TypeOK, [Next]_vars
    PROVE  TypeOK'
  <1> USE AccountTypes
  <1>1. ASSUME NEW h \in Handlers, Begin(h) PROVE TypeOK'
    <2>1. PICK request \in Requests : task' = [task EXCEPT ![h] = request]
      BY <1>1 DEF Begin
    <2>2. task' \in [Handlers -> Task]
      BY <2>1 DEF TypeOK
    <2>3. \A k \in Handlers : Placed(k)'
      BY <1>1, <2>1 DEF Begin, TypeOK, Placed
    <2>4. QED
      BY <1>1, <2>2, <2>3 DEF Begin, TypeOK, Placed, rows
  <1>2. ASSUME NEW h \in Handlers, Abort(h) PROVE TypeOK'
    BY <1>2, FinishType, FinishPlaced DEF Abort, TypeOK, Placed, rows
  <1>3. ASSUME NEW h \in Handlers, LoadUser(h) PROVE TypeOK'
    <2> USE DEF LoadUser
    <2>1. CASE Finish(h)
      BY <1>3, <2>1, FinishType, FinishPlaced DEF TypeOK, Placed, rows
    <2>2. CASE task[h].user \in members /\ Goto(h, AfterLoad(h))
               /\ me' = [me EXCEPT ![h] = account[task[h].user]] /\ boss' = boss
      <3>1. me' \in [Handlers -> Account]
        BY <2>2 DEF TypeOK
      <3>2. /\ AfterLoad(h) \in Steps
            /\ AfterLoad(h) = "enter" => task[h].op = "answer"
            /\ AfterLoad(h) \in {"enter", "choose", "referrer", "accept"}
            /\ AfterLoad(h) = "referrer" => me'[h].referredBy # NoUser
        BY DEF AfterLoad, Steps
      <3>3. task' \in [Handlers -> Task] /\ \A k \in Handlers : Placed(k)'
        <4>1. AfterLoad(h) = "referrer" => me'[h].referredBy \in Users
          BY <3>1, <3>2 DEF Account
        <4>2. \A k \in Handlers \ {h} : me'[k] = me[k]
          BY <2>2 DEF TypeOK
        <4>3. AfterLoad(h) = "enter" => task[h].chal \in Challenges
          BY <3>2 DEF TypeOK
        <4>4. QED
          BY <1>3, <2>2, <3>2, <4>1, <4>2, <4>3, MovePlaced
      <3>4. QED
        BY <1>3, <2>2, <3>1, <3>3 DEF TypeOK, Placed, rows
    <2>3. CASE \E step \in {"choose", "enrol", "create"} : Goto(h, step)
               /\ me' = [me EXCEPT ![h] = NewAccount(ReferrerFor(h))] /\ boss' = boss
      <3>1. ReferrerFor(h) \in Users \cup {NoUser}
        BY DEF TypeOK, ReferrerFor
      <3>2. me' \in [Handlers -> Account]
        BY <2>3, <3>1 DEF TypeOK
      <3>3. task' \in [Handlers -> Task] /\ \A k \in Handlers : Placed(k)'
        BY <1>3, <2>3, MovePlaced DEF Steps
      <3>4. QED
        BY <1>3, <2>3, <3>2, <3>3 DEF TypeOK, Placed, rows
    <2>4. QED
      BY <1>3, <2>1, <2>2, <2>3
  <1>4. ASSUME NEW h \in Handlers, NEW row \in Account, Insert(h, row, "choose"),
               task[h].at # "idle",
               UNCHANGED <<status, closed, joined, linked, submitted, right, granted>>
        PROVE TypeOK'
    <2>1. CASE Finish(h) /\ UNCHANGED <<members, account>>
      BY <1>4, <2>1, FinishType, FinishPlaced DEF TypeOK, Placed
    <2>2. CASE /\ members' = members \cup {task[h].user}
               /\ account' = [account EXCEPT ![task[h].user] = row]
               /\ me' = [me EXCEPT ![h] = row]
               /\ Goto(h, "choose")
               /\ boss' = boss
      <3>1. task' \in [Handlers -> Task] /\ \A k \in Handlers : Placed(k)'
        BY <1>4, <2>2, MovePlaced DEF Steps
      <3>2. QED
        BY <1>4, <2>2, <3>1 DEF TypeOK, Placed
    <2>3. QED
      BY <1>4, <2>1, <2>2 DEF Insert
  <1>5. ASSUME NEW h \in Handlers, CreateUser(h) PROVE TypeOK'
    BY <1>4, <1>5 DEF CreateUser, TypeOK
  <1>6. ASSUME NEW h \in Handlers, Enrol(h) PROVE TypeOK'
    <2>1. [me[h] EXCEPT !.terms = TRUE] \in Account
      BY RowTypes DEF TypeOK
    <2>2. QED
      BY <1>4, <1>6, <2>1 DEF Enrol
  <1>7. ASSUME NEW h \in Handlers, LoadReferrer(h) PROVE TypeOK'
    <2>1. task' \in [Handlers -> Task] /\ \A k \in Handlers : Placed(k)'
      BY <1>7, MovePlaced DEF LoadReferrer, Steps
    <2>2. QED
      BY <1>7, <2>1 DEF LoadReferrer, TypeOK, Placed, rows
  <1>8. ASSUME NEW h \in Handlers, Accept(h) PROVE TypeOK'
    <2> DEFINE u == task[h].user
               r == me[h].referredBy
               reward == r # NoUser /\ ~me[h].rewarded
               row == [account[u] EXCEPT !.terms = TRUE, !.rewarded = @ \/ reward]
               signed == [account EXCEPT ![u] = row]
               credit(a) == [a EXCEPT !.refCount = boss[h].refCount + 1,
                                      !.refPoints = boss[h].refPoints + ReferralPoints,
                                      !.total = boss[h].total + ReferralPoints]
    <2>1. u \in Users /\ r \in Users \cup {NoUser} /\ me[h] \in Account /\ boss[h] \in Account
      BY <1>8 DEF Accept, TypeOK, Account
    <2>2. signed \in [Users -> Account]
      <3>1. row \in Account
        BY <2>1, RowTypes DEF TypeOK
      <3>2. QED
        BY <3>1, <2>1, WriteType DEF TypeOK
    <2>3. account' \in [Users -> Account]
      <3>1. CASE ~reward
        <4>1. account' = signed
          BY <1>8, <3>1 DEF Accept
        <4>2. QED
          BY <4>1, <2>2
      <3>2. CASE reward
        <4>1. account' = [signed EXCEPT ![r] = credit(signed[r])]
          BY <1>8, <3>2 DEF Accept
        <4>2. /\ boss[h].refCount + 1 \in Nat
              /\ boss[h].refPoints + ReferralPoints \in Nat
              /\ boss[h].total + ReferralPoints \in Nat
          BY <2>1, PointsAssumption DEF Account
        <4>3. r \in Users /\ signed[r] \in Account
          BY <2>1, <2>2, <3>2
        <4>4. credit(signed[r]) \in Account
          BY <4>2, <4>3, RowTypes
        <4>5. QED
          BY <4>1, <4>3, <4>4, <2>2, WriteType
      <3>3. QED
        BY <3>1, <3>2
    <2>4. granted' \in [Users -> Nat]
      BY <1>8, <2>1, PointsAssumption DEF Accept, TypeOK
    <2>5. me' \in [Handlers -> Account]
      BY <1>8, <2>1, <2>3 DEF Accept, TypeOK
    <2>6. task' \in [Handlers -> Task] /\ \A k \in Handlers : Placed(k)'
      <3>1. \A k \in Handlers \ {h} : me'[k] = me[k]
        BY <1>8 DEF Accept, TypeOK
      <3>2. QED
        BY <1>8, <3>1, MovePlaced DEF Accept, Steps
    <2>7. QED
      BY <1>8, <2>3, <2>4, <2>5, <2>6 DEF Accept, TypeOK, Placed
  <1>9. ASSUME NEW h \in Handlers, Choose(h) PROVE TypeOK'
    <2>1. CASE Finish(h)
      BY <1>9, <2>1, FinishType, FinishPlaced DEF Choose, TypeOK, Placed, rows
    <2>2. CASE Goto(h, "register") /\ UNCHANGED <<me, boss>>
      <3>1. task' \in [Handlers -> Task] /\ \A k \in Handlers : Placed(k)'
        BY <1>9, <2>2, MovePlaced DEF Choose, Steps
      <3>2. QED
        BY <1>9, <2>2, <3>1 DEF Choose, TypeOK, Placed, rows
    <2>3. CASE /\ \E c \in Picked(h) :
                      task' = [task EXCEPT ![h].at = "send", ![h].chal = c]
               /\ UNCHANGED <<me, boss>>
      <3>1. PICK c \in Challenges : task' = [task EXCEPT ![h].at = "send", ![h].chal = c]
        BY <2>3, PickType
      <3> DEFINE t == [task[h] EXCEPT !.at = "send", !.chal = c]
      <3>2. t \in Task /\ t.user \in Users /\ t.chal \in Challenges /\ t.at = "send"
        BY <1>9 DEF Choose, TypeOK, Task, Steps
      <3>3. task' = [task EXCEPT ![h] = t]
        BY <3>1 DEF TypeOK
      <3> HIDE DEF t
      <3>4. task' \in [Handlers -> Task] /\ \A k \in Handlers : Placed(k)'
        BY <2>3, <3>2, <3>3, FillPlaced
      <3>5. QED
        BY <1>9, <2>3, <3>4 DEF Choose, TypeOK, Placed, rows
    <2>4. QED
      BY <1>9, <2>1, <2>2, <2>3 DEF Choose
  <1>10. ASSUME NEW h \in Handlers, SendChallenge(h) PROVE TypeOK'
    <2>1. CASE Finish(h)
      BY <1>10, <2>1, FinishType, FinishPlaced DEF SendChallenge, TypeOK, Placed, rows
    <2>2. CASE /\ \E step \in {"register", "enter"} : Goto(h, step)
               /\ \/ me' = me
                  \/ /\ Registered(Sender(h))
                     /\ me' = [me EXCEPT ![h] = account[Sender(h)]]
               /\ boss' = boss
      <3>1. task' \in [Handlers -> Task] /\ \A k \in Handlers : Placed(k)'
        BY <1>10, <2>2, MovePlaced DEF SendChallenge, Steps, TypeOK
      <3>2. me' \in [Handlers -> Account]
        BY <2>2 DEF TypeOK, Registered
      <3>3. QED
        BY <1>10, <2>2, <3>1, <3>2 DEF SendChallenge, TypeOK, Placed, rows
    <2>3. QED
      BY <1>10, <2>1, <2>2 DEF SendChallenge
  <1>11. ASSUME NEW h \in Handlers, PromptSent(h) PROVE TypeOK'
    BY <1>11, FinishType, FinishPlaced DEF PromptSent, TypeOK, Placed, rows
  <1>12. ASSUME NEW h \in Handlers, NEW answered, Proceed(h, answered),
                task[h].at # "idle",
                task[h].at \in {"send", "enter", "join", "refresh", "link", "record"}
         PROVE  /\ task' \in [Handlers -> Task] /\ \A k \in Handlers : Placed(k)'
                /\ me' \in [Handlers -> Account] /\ boss' \in [Handlers -> Account]
    <2>1. CASE Finish(h)
      BY <2>1, FinishType, FinishPlaced
    <2>2. CASE Goto(h, "record") /\ UNCHANGED <<me, boss>>
      BY <1>12, <2>2, MovePlaced DEF Steps, TypeOK
    <2>3. QED
      BY <1>12, <2>1, <2>2 DEF Proceed
  <1>13. ASSUME NEW h \in Handlers, EnterChallenge(h) PROVE TypeOK'
    <2>1. CASE Goto(h, "join") /\ UNCHANGED <<me, boss>>
      <3>1. task' \in [Handlers -> Task] /\ \A k \in Handlers : Placed(k)'
        BY <1>13, <2>1, MovePlaced DEF EnterChallenge, Steps, TypeOK
      <3>2. QED
        BY <1>13, <2>1, <3>1 DEF EnterChallenge, TypeOK, Placed, rows
    <2>2. CASE /\ task' = [task EXCEPT ![h].at = "link", ![h].seen = Entry(h) \in submitted]
               /\ UNCHANGED <<me, boss>>
      <3> DEFINE t == [task[h] EXCEPT !.at = "link", !.seen = Entry(h) \in submitted]
      <3>1. t \in Task /\ t.user \in Users /\ t.chal \in Challenges /\ t.at = "link"
        <4>1. \A b \in BOOLEAN : [task[h] EXCEPT !.at = "link", !.seen = b] \in Task
          BY DEF TypeOK, Task, Steps
        <4>2. t \in Task
          <5>1. (Entry(h) \in submitted) \in BOOLEAN
            OBVIOUS
          <5>2. QED
            BY <4>1, <5>1
        <4>3. t.user = task[h].user /\ t.chal = task[h].chal /\ t.at = "link"
          BY DEF TypeOK, Task
        <4>4. QED
          BY <1>13, <4>2, <4>3 DEF EnterChallenge, TypeOK
      <3>2. task' = [task EXCEPT ![h] = t]
        BY <2>2 DEF TypeOK
      <3> HIDE DEF t
      <3>3. task' \in [Handlers -> Task] /\ \A k \in Handlers : Placed(k)'
        BY <2>2, <3>1, <3>2, FillPlaced
      <3>4. QED
        BY <1>13, <2>2, <3>3 DEF EnterChallenge, TypeOK, Placed, rows
    <2>3. CASE Proceed(h, Entry(h) \in submitted)
      BY <1>13, <2>3, <1>12 DEF EnterChallenge, TypeOK, Placed, rows
    <2>4. QED
      BY <1>13, <2>1, <2>2, <2>3 DEF EnterChallenge
  <1>14. ASSUME NEW h \in Handlers, Join(h) PROVE TypeOK'
    <2>0. Entry(h) \in Users \X Challenges
      BY <1>14, EntryType DEF Join
    <2>1. CASE Finish(h) /\ UNCHANGED <<joined, linked, account>>
      BY <1>14, <2>1, FinishType, FinishPlaced DEF Join, TypeOK, Placed
    <2>2. CASE /\ joined' = joined \cup {Entry(h)}
               /\ linked' = linked \cup {Entry(h)}
               /\ account' = [account EXCEPT ![task[h].user].challenges = me[h].challenges + 1]
               /\ Goto(h, "refresh")
               /\ UNCHANGED <<me, boss>>
      <3>1. task' \in [Handlers -> Task] /\ \A k \in Handlers : Placed(k)'
        BY <1>14, <2>2, MovePlaced DEF Join, Steps, TypeOK
      <3>2. account' \in [Users -> Account]
        <4>1. me[h].challenges + 1 \in Nat /\ account[task[h].user] \in Account
          BY <1>14 DEF Join, TypeOK, Account
        <4>2. QED
          BY <1>14, <2>2, <4>1, RowTypes, WriteType DEF Join, TypeOK
      <3>3. QED
        BY <1>14, <2>0, <2>2, <3>1, <3>2 DEF Join, TypeOK, Placed
    <2>3. QED
      BY <1>14, <2>1, <2>2 DEF Join
  <1>15. ASSUME NEW h \in Handlers, RefreshParticipant(h) PROVE TypeOK'
    BY <1>15, <1>12 DEF RefreshParticipant, TypeOK, Placed, rows
  <1>16. ASSUME NEW h \in Handlers, Link(h) PROVE TypeOK'
    BY <1>16, <1>12, EntryType DEF Link, TypeOK, Placed
  <1>17. ASSUME NEW h \in Handlers, Record(h) PROVE TypeOK'
    <2>1. account' \in [Users -> Account]
      <3>1. /\ me[h].total + AnswerPoints \in Nat /\ me[h].correct + 1 \in Nat
            /\ task[h].user \in Users /\ account[task[h].user] \in Account
        BY <1>17 DEF Record, TypeOK, Account, AnswerPoints
      <3>2. [account[task[h].user] EXCEPT !.total = me[h].total + AnswerPoints,
                                          !.correct = me[h].correct + 1] \in Account
        BY <3>1, RowTypes
      <3>3. QED
        BY <1>17, <3>1, <3>2, WriteType DEF Record, TypeOK
    <2>2. QED
      BY <1>17, <2>1, EntryType, FinishType, FinishPlaced DEF Record, TypeOK, Placed
  <1>18. ASSUME NEW c \in Challenges, Publish(c) PROVE TypeOK'
    BY <1>18 DEF Publish, TypeOK, rows
  <1>19. ASSUME NEW c \in Challenges, Close(c) PROVE TypeOK'
    BY <1>19 DEF Close, TypeOK, rows
  <1>20. CASE UNCHANGED vars
    BY <1>20 DEF vars, rows, TypeOK
  <1>21. QED
    BY <1>1, <1>2, <1>3, <1>5, <1>6, <1>7, <1>8, <1>9, <1>10, <1>11, <1>13, <1>14,
       <1>15, <1>16, <1>17, <1>18, <1>19, <1>20 DEF Next, HandlerStep

\* Every variable keeps its type: what the columns and the loaded copies hold is
\* always a row, and a handler past its first step knows its user and challenge.
THEOREM TypeCorrect == Spec => []TypeOK
  <1>1. Init => TypeOK
    BY AccountTypes DEF Init, InitWith, TypeOK, Idle
  <1>2. TypeOK /\ [Next]_vars => TypeOK'
    BY TypeStep
  <1>3. QED
    BY <1>1, <1>2, PTL DEF Spec

----------------------------------------------------------------------------
(* Counting participations *)

\* The participations of a user can be counted.
LEMMA OfFinite ==
    ASSUME NEW u, NEW pairs, NEW c
    PROVE  /\ IsFiniteSet(Of(u, pairs)) /\ Cardinality(Of(u, pairs)) \in Nat
           /\ IsFiniteSet(Of(u, pairs) \ {c}) /\ Cardinality(Of(u, pairs) \ {c}) \in Nat
  <1>1. Of(u, pairs) \in SUBSET Challenges /\ Of(u, pairs) \ {c} \in SUBSET Challenges
    BY DEF Of
  <1>2. QED
    BY <1>1, ChallengesAssumption, FS_Subset, FS_CardinalityType

\* They count no fewer when participations are added.
LEMMA OfGrows ==
    ASSUME NEW u, NEW pairs, NEW more, pairs \subseteq more, NEW c
    PROVE  /\ Cardinality(Of(u, pairs)) <= Cardinality(Of(u, more))
           /\ Cardinality(Of(u, pairs) \ {c}) <= Cardinality(Of(u, more) \ {c})
  <1>1. Of(u, pairs) \in SUBSET Of(u, more) /\ Of(u, pairs) \ {c} \in SUBSET (Of(u, more) \ {c})
    BY DEF Of
  <1>2. QED
    BY <1>1, OfFinite, FS_Subset

\* A participation that was not there counts one more.
LEMMA OfAdds ==
    ASSUME NEW u, NEW pairs, NEW c \in Challenges
    PROVE  Cardinality(Of(u, pairs \cup {<<u, c>>})) = Cardinality(Of(u, pairs) \ {c}) + 1
  <1>1. Of(u, pairs \cup {<<u, c>>}) = (Of(u, pairs) \ {c}) \cup {c}
    BY DEF Of
  <1>2. QED
    BY <1>1, OfFinite, FS_AddElement

\* Leaving out a participation that is not there changes nothing.
LEMMA OfWithout ==
    ASSUME NEW u, NEW pairs, NEW c, <<u, c>> \notin pairs
    PROVE  Of(u, pairs) \ {c} = Of(u, pairs)
  BY DEF Of

----------------------------------------------------------------------------
(* What a step may do to the tables *)

\* The tables only grow, and what a row records about the terms and the referral stays.
Grows ==
    /\ joined \subseteq joined' /\ linked \subseteq linked'
    /\ submitted \subseteq submitted' /\ right \subseteq right'
    /\ \A u \in members : /\ u \in members'
                          /\ account[u].terms => account'[u].terms
                          /\ account[u].rewarded => account'[u].rewarded
                          /\ account'[u].referredBy = account[u].referredBy
    /\ \A u \in Users : granted[u] <= granted'[u]

\* What the commit of accept_terms writes, row by row.
LEMMA AcceptWrites ==
    ASSUME TypeOK, NEW h \in Handlers, Accept(h), NEW v \in Users
    PROVE  LET r == me[h].referredBy
               reward == r # NoUser /\ ~me[h].rewarded
           IN  /\ account[v].terms => account'[v].terms
               /\ account[v].rewarded => account'[v].rewarded
               /\ account'[v].referredBy = account[v].referredBy
               /\ account'[v].correct = account[v].correct
               /\ account'[v].challenges = account[v].challenges
               /\ \/ account'[v].total = account[v].total
                  \/ /\ reward /\ v = r
                     /\ account'[v].total = boss[h].total + ReferralPoints
                     /\ granted'[v] = granted[v] + ReferralPoints
  <1> DEFINE u == task[h].user
             r == me[h].referredBy
             reward == r # NoUser /\ ~me[h].rewarded
             row == [account[u] EXCEPT !.terms = TRUE,
                                       !.rewarded = account[u].rewarded \/ reward]
             signed == [account EXCEPT ![u] = row]
             Kept(new, old) == /\ old.terms => new.terms
                               /\ old.rewarded => new.rewarded
                               /\ new.referredBy = old.referredBy
                               /\ new.correct = old.correct
                               /\ new.challenges = old.challenges
  <1>1. u \in Users /\ account[u] \in Account /\ account[v] \in Account
    BY DEF Accept, TypeOK
  <1>2. row \in Account /\ Kept(row, account[u]) /\ row.total = account[u].total
    <2>1. reward \in BOOLEAN
      OBVIOUS
    <2>2. row \in Account
      BY <1>1, <2>1, RowTypes
    <2>3. /\ row.terms = TRUE
          /\ row.rewarded = (account[u].rewarded \/ reward)
          /\ row.referredBy = account[u].referredBy
          /\ row.correct = account[u].correct
          /\ row.challenges = account[u].challenges
          /\ row.total = account[u].total
      BY <1>1 DEF Account
    <2> HIDE DEF row, reward
    <2>4. QED
      BY <2>2, <2>3
  <1> HIDE DEF row
  <1>3. signed[v] \in Account /\ Kept(signed[v], account[v]) /\ signed[v].total = account[v].total
    BY <1>1, <1>2 DEF TypeOK
  <1>4. CASE ~reward
    BY <1>3, <1>4 DEF Accept, row
  <1>5. CASE reward
    <2> DEFINE credit == [signed[r] EXCEPT !.refCount = boss[h].refCount + 1,
                                           !.refPoints = boss[h].refPoints + ReferralPoints,
                                           !.total = boss[h].total + ReferralPoints]
    <2>1. account' = [signed EXCEPT ![r] = credit]
      BY <1>5 DEF Accept, row
    <2>2. granted' = [granted EXCEPT ![r] = granted[r] + ReferralPoints]
      BY <1>5 DEF Accept
    <2>3. CASE v # r
      BY <1>3, <2>1, <2>3 DEF TypeOK
    <2>4. CASE v = r
      <3>1. Kept(credit, signed[v]) /\ credit.total = boss[h].total + ReferralPoints
        BY <1>3, <2>4 DEF Account
      <3> HIDE DEF credit
      <3>2. account'[v] = credit /\ granted'[v] = granted[v] + ReferralPoints
        BY <2>1, <2>2, <2>4 DEF TypeOK
      <3>3. QED
        BY <1>3, <1>5, <2>4, <3>1, <3>2
    <2>5. QED
      BY <2>3, <2>4
  <1>6. QED
    BY <1>4, <1>5

\* Every action only adds to the tables, and only raises what was granted.
LEMMA StepGrows ==
    ASSUME TypeOK, [Next]_vars
    PROVE  Grows
  <1> \A u \in Users : granted[u] \in Nat
    BY DEF TypeOK
  <1>1. CASE UNCHANGED rows /\ UNCHANGED granted
    BY <1>1 DEF Grows, rows
  <1>2. ASSUME NEW h \in Handlers, NEW row, NEW next, Insert(h, row, next),
               UNCHANGED <<joined, linked, submitted, right, granted>>
        PROVE  Grows
    BY <1>2 DEF Insert, Grows, TypeOK
  <1>3. ASSUME NEW h \in Handlers, Accept(h) PROVE Grows
    <2>1. \A v \in Users : /\ account[v].terms => account'[v].terms
                           /\ account[v].rewarded => account'[v].rewarded
                           /\ account'[v].referredBy = account[v].referredBy
      BY <1>3, AcceptWrites
    <2>2. \A v \in Users : granted[v] <= granted'[v]
      BY <1>3, PointsAssumption DEF Accept, TypeOK
    <2>3. UNCHANGED <<members, joined, linked, submitted, right>> /\ members \subseteq Users
      BY <1>3 DEF Accept, TypeOK
    <2>4. QED
      BY <2>1, <2>2, <2>3 DEF Grows
  <1>4. ASSUME NEW h \in Handlers, Join(h) PROVE Grows
    BY <1>4 DEF Join, Grows, TypeOK, Account
  <1>5. ASSUME NEW h \in Handlers, Link(h) PROVE Grows
    BY <1>5 DEF Link, Grows
  <1>6. ASSUME NEW h \in Handlers, Record(h) PROVE Grows
    <2>1. task[h].user \in Users /\ account[task[h].user] \in Account
      BY <1>6 DEF Record, TypeOK
    <2>2. \A v \in Users : /\ account'[v].terms = account[v].terms
                           /\ account'[v].rewarded = account[v].rewarded
                           /\ account'[v].referredBy = account[v].referredBy
      <3>1. CASE ~task[h].choice
        BY <1>6, <3>1 DEF Record
      <3>2. CASE task[h].choice
        <4> DEFINE row == [account[task[h].user] EXCEPT !.total = me[h].total + AnswerPoints,
                                                        !.correct = me[h].correct + 1]
        <4>1. account' = [account EXCEPT ![task[h].user] = row]
          BY <1>6, <3>2 DEF Record
        <4>2. /\ row.terms = account[task[h].user].terms
              /\ row.rewarded = account[task[h].user].rewarded
              /\ row.referredBy = account[task[h].user].referredBy
          BY <2>1 DEF Account
        <4> HIDE DEF row
        <4>3. QED
          BY <4>1, <4>2, <2>1 DEF TypeOK
      <3>3. QED
        BY <3>1, <3>2
    <2>3. /\ UNCHANGED <<members, joined, linked, granted>>
          /\ submitted \subseteq submitted' /\ right \subseteq right'
      BY <1>6 DEF Record
    <2>4. members \subseteq Users
      BY DEF TypeOK
    <2>5. QED
      BY <2>2, <2>3, <2>4 DEF Grows
  <1>7. QED
    BY <1>1, <1>2, <1>3, <1>4, <1>5, <1>6
       DEF Next, HandlerStep, Begin, Abort, LoadUser, CreateUser, Enrol, LoadReferrer, Choose,
           SendChallenge, PromptSent, EnterChallenge, RefreshParticipant, Publish, Close,
           vars, rows

\* Nothing that was recorded is ever taken back.
THEOREM RecordsStaySafe == Spec => RecordsStay
  <1>1. TypeOK /\ [Next]_vars =>
          [/\ joined \subseteq joined' /\ linked \subseteq linked'
           /\ submitted \subseteq submitted' /\ right \subseteq right'
           /\ \A u \in members : /\ u \in members'
                                 /\ account[u].terms => account'[u].terms
                                 /\ account[u].rewarded => account'[u].rewarded
                                 /\ account'[u].referredBy = account[u].referredBy]_vars
    BY StepGrows DEF Grows
  <1>2. QED
    BY <1>1, TypeCorrect, PTL DEF Spec, RecordsStay

----------------------------------------------------------------------------
(* The inductive invariant.  NeverOvercounted is not inductive: a commit adds *)
(* to a copy that may be arbitrarily old.  What saves it is that the copy of  *)
(* the user is older than the copy of the participant, so the challenge the   *)
(* commit is about to count is not among those the copy has counted.          *)

\* row claims no more than n correct answers and gift referral points account for.
Covered(row, n, gift) == row.correct <= n /\ row.total <= AnswerPoints * n + gift

\* The challenges of u that a set of pairs holds, and those other than c.
Count(u, pairs) == Cardinality(Of(u, pairs))
CountBut(u, pairs, c) == Cardinality(Of(u, pairs) \ {c})

CopyOK(h) ==
    LET t == task[h]
        u == task[h].user
        c == task[h].chal
        r == me[h].referredBy
    IN  /\ t.at \in {"create", "enrol"} =>
               me[h].total = 0 /\ me[h].correct = 0 /\ me[h].challenges = 0
        /\ t.at \in {"enter", "join", "refresh", "link", "record"} =>
               u \in members /\ account[u].terms
        /\ t.at \in {"refresh", "link", "record"} => <<u, c>> \in joined
        /\ t.at \in {"enter", "join", "refresh"} =>
               Covered(me[h], Count(u, right), granted[u])
        /\ t.at = "enter" => me[h].challenges <= Count(u, joined)
        /\ t.at = "join" => me[h].challenges <= CountBut(u, joined, c)
        /\ t.at = "record" \/ (t.at = "link" /\ ~t.seen) =>
               Covered(me[h], CountBut(u, right, c), granted[u])
        /\ t.at = "accept" /\ r # NoUser /\ ~me[h].rewarded =>
               boss[h].total <= AnswerPoints * Count(r, right) + granted[r]

RowsNested == linked \subseteq joined /\ submitted \subseteq joined /\ right \subseteq submitted

\* The counters of u's row are backed by the tables.
Fair(u) ==
    /\ account[u].correct <= Count(u, right)
    /\ account[u].challenges <= Count(u, joined)
    /\ account[u].total <= AnswerPoints * Count(u, right) + granted[u]

Tables == RowsNested /\ ParticipantsAccepted /\ \A u \in Users : Fair(u)

IInv == TypeOK /\ Tables /\ \A h \in Handlers : CopyOK(h)

\* Counts are natural numbers, and grow with the table they count in.
LEMMA CountTypes ==
    ASSUME NEW u, NEW pairs, NEW c
    PROVE  Count(u, pairs) \in Nat /\ CountBut(u, pairs, c) \in Nat
  BY OfFinite DEF Count, CountBut

LEMMA CountGrows ==
    ASSUME NEW u, NEW pairs, NEW more, pairs \subseteq more, NEW c
    PROVE  Count(u, pairs) <= Count(u, more) /\ CountBut(u, pairs, c) <= CountBut(u, more, c)
  BY OfGrows DEF Count, CountBut

\* What covers a row still covers it when it grows.
LEMMA CoveredGrows ==
    ASSUME NEW row \in Account, NEW n \in Nat, NEW m \in Nat, n <= m,
           NEW gift \in Nat, NEW more \in Nat, gift <= more, Covered(row, n, gift)
    PROVE  Covered(row, m, more)
  BY DEF Covered, Account, AnswerPoints

\* The copies of a handler that does not move stay good while the tables grow.
LEMMA CopyStays ==
    ASSUME TypeOK, TypeOK', Grows, NEW k \in Handlers, CopyOK(k),
           task'[k] = task[k], me'[k] = me[k], boss'[k] = boss[k]
    PROVE  CopyOK(k)'
  <1> DEFINE t == task[k]
             u == task[k].user
             c == task[k].chal
             r == me[k].referredBy
  <1>1. /\ right \subseteq right' /\ joined \subseteq joined' /\ me[k] \in Account
        /\ \A v \in Users : granted[v] \in Nat /\ granted'[v] \in Nat /\ granted[v] <= granted'[v]
    BY DEF Grows, TypeOK
  <1>2. t.at # "idle" => u \in Users
    BY DEF TypeOK
  <1>3. t.at \in {"enter", "join", "refresh", "link", "record"} =>
            u \in members' /\ account'[u].terms
    BY DEF CopyOK, Grows
  <1>4. t.at \in {"refresh", "link", "record"} => <<u, c>> \in joined'
    BY DEF CopyOK, Grows
  <1>5. t.at \in {"enter", "join", "refresh"} =>
            Covered(me[k], Count(u, right'), granted'[u])
    BY <1>1, <1>2, CountTypes, CountGrows, CoveredGrows DEF CopyOK
  <1>6. t.at = "record" \/ (t.at = "link" /\ ~t.seen) =>
            Covered(me[k], CountBut(u, right', c), granted'[u])
    BY <1>1, <1>2, CountTypes, CountGrows, CoveredGrows DEF CopyOK
  <1>7. /\ t.at = "enter" => me[k].challenges <= Count(u, joined')
        /\ t.at = "join" => me[k].challenges <= CountBut(u, joined', c)
    <2>1. me[k].challenges \in Nat
      BY <1>1 DEF Account
    <2>2. QED
      BY <1>1, <2>1, CountTypes, CountGrows DEF CopyOK
  <1>8. t.at = "accept" /\ r # NoUser /\ ~me[k].rewarded =>
            boss[k].total <= AnswerPoints * Count(r, right') + granted'[r]
    <2>1. ASSUME t.at = "accept", r # NoUser, ~me[k].rewarded
          PROVE  boss[k].total <= AnswerPoints * Count(r, right') + granted'[r]
      <3>1. r \in Users /\ boss[k].total \in Nat
        BY <1>1, <2>1 DEF Account, TypeOK
      <3>2. boss[k].total <= AnswerPoints * Count(r, right) + granted[r]
        BY <2>1 DEF CopyOK
      <3>3. /\ Count(r, right) \in Nat /\ Count(r, right') \in Nat
            /\ Count(r, right) <= Count(r, right')
        BY <1>1, CountTypes, CountGrows
      <3>4. granted[r] \in Nat /\ granted'[r] \in Nat /\ granted[r] <= granted'[r]
        BY <1>1, <3>1
      <3>5. QED
        BY <3>1, <3>2, <3>3, <3>4 DEF AnswerPoints
    <2>2. QED
      BY <2>1
  <1>9. t.at \in {"create", "enrol"} =>
            me[k].total = 0 /\ me[k].correct = 0 /\ me[k].challenges = 0
    BY DEF CopyOK
  <1>10. QED
    BY <1>3, <1>4, <1>5, <1>6, <1>7, <1>8, <1>9 DEF CopyOK, Count, CountBut

\* A counter that a step leaves alone stays backed.
LEMMA CounterStays ==
    ASSUME TypeOK, TypeOK', Grows, NEW v \in Users, Fair(v)
    PROVE  /\ account'[v].correct = account[v].correct
                => account'[v].correct <= Count(v, right')
           /\ account'[v].challenges = account[v].challenges
                => account'[v].challenges <= Count(v, joined')
           /\ account'[v].total = account[v].total
                => account'[v].total <= AnswerPoints * Count(v, right') + granted'[v]
  <1>1. /\ Count(v, right) \in Nat /\ Count(v, right') \in Nat
        /\ Count(v, right) <= Count(v, right')
        /\ Count(v, joined) \in Nat /\ Count(v, joined') \in Nat
        /\ Count(v, joined) <= Count(v, joined')
    BY CountTypes, CountGrows DEF Grows
  <1>2. granted[v] \in Nat /\ granted'[v] \in Nat /\ granted[v] <= granted'[v]
    BY DEF TypeOK, Grows
  <1>3. account[v].correct \in Nat /\ account[v].challenges \in Nat /\ account[v].total \in Nat
    BY DEF TypeOK, Account
  <1>4. QED
    BY <1>1, <1>2, <1>3 DEF Fair, AnswerPoints

\* Counting one more participation c of u covers one more than the others.
LEMMA CountAdds ==
    ASSUME NEW u, NEW pairs, NEW c \in Challenges
    PROVE  /\ Count(u, pairs \cup {<<u, c>>}) = CountBut(u, pairs, c) + 1
           /\ <<u, c>> \notin pairs => CountBut(u, pairs, c) = Count(u, pairs)
  BY OfAdds, OfWithout DEF Count, CountBut

\* Fair of the next state, spelled out.
LEMMA FairPrimed ==
    ASSUME NEW v \in Users,
           account'[v].correct <= Count(v, right'),
           account'[v].challenges <= Count(v, joined'),
           account'[v].total <= AnswerPoints * Count(v, right') + granted'[v]
    PROVE  Fair(v)'
  BY DEF Fair, Count

\* Every step keeps the tables consistent.
LEMMA TablesStep ==
    ASSUME IInv, TypeOK', Grows, [Next]_vars
    PROVE  Tables'
  <1> TypeOK /\ Tables
    BY DEF IInv
  <1>1. CASE UNCHANGED rows /\ UNCHANGED granted
    BY <1>1 DEF Tables, RowsNested, ParticipantsAccepted, Fair, Count, Of, rows
  <1>2. ASSUME NEW h \in Handlers, NEW row, NEW next, Insert(h, row, next),
               row.total = 0, row.correct = 0, row.challenges = 0, task[h].user \in Users,
               UNCHANGED <<joined, linked, submitted, right, granted>>
        PROVE  Tables'
    <2>1. RowsNested'
      BY <1>2 DEF Tables, RowsNested
    <2>2. ParticipantsAccepted'
      BY <1>2 DEF Tables, ParticipantsAccepted, Grows
    <2>3. ASSUME NEW v \in Users PROVE Fair(v)'
      <3>1. CASE account'[v] = account[v]
        BY <3>1, CounterStays, FairPrimed DEF Tables
      <3>2. CASE account'[v] = row
        <4>1. Count(v, right') \in Nat /\ Count(v, joined') \in Nat /\ granted'[v] \in Nat
          BY CountTypes DEF TypeOK
        <4>2. QED
          BY <1>2, <3>2, <4>1, FairPrimed DEF AnswerPoints
      <3>3. QED
        BY <1>2, <3>1, <3>2 DEF Insert, TypeOK
    <2>4. QED
      BY <2>1, <2>2, <2>3 DEF Tables
  <1>3. ASSUME NEW h \in Handlers, CreateUser(h) PROVE Tables'
    BY <1>2, <1>3 DEF CreateUser, IInv, CopyOK, TypeOK
  <1>4. ASSUME NEW h \in Handlers, Enrol(h) PROVE Tables'
    <2> DEFINE row == [me[h] EXCEPT !.terms = TRUE]
    <2>1. row.total = 0 /\ row.correct = 0 /\ row.challenges = 0 /\ task[h].user \in Users
      <3>1. me[h] \in Account
        BY DEF TypeOK
      <3>2. me[h].total = 0 /\ me[h].correct = 0 /\ me[h].challenges = 0
        BY <1>4 DEF Enrol, IInv, CopyOK
      <3>3. QED
        BY <1>4, <3>1, <3>2 DEF Enrol, TypeOK, Account
    <2> HIDE DEF row
    <2>2. Insert(h, row, "choose") /\ UNCHANGED <<joined, linked, submitted, right, granted>>
      BY <1>4 DEF Enrol, row
    <2>3. QED
      BY <1>2, <2>1, <2>2
  <1>5. ASSUME NEW h \in Handlers, Accept(h) PROVE Tables'
    <2> DEFINE u == task[h].user
               r == me[h].referredBy
               reward == r # NoUser /\ ~me[h].rewarded
    <2>1. UNCHANGED <<members, joined, linked, submitted, right>>
      BY <1>5 DEF Accept
    <2>2. RowsNested' /\ ParticipantsAccepted'
      BY <2>1 DEF Tables, RowsNested, ParticipantsAccepted, Grows
    <2>3. ASSUME NEW v \in Users
          PROVE  /\ account'[v].correct = account[v].correct
                 /\ account'[v].challenges = account[v].challenges
                 /\ \/ account'[v].total = account[v].total
                    \/ /\ reward /\ v = r
                       /\ account'[v].total = boss[h].total + ReferralPoints
                       /\ granted'[v] = granted[v] + ReferralPoints
      BY <1>5, AcceptWrites
    <2>4. ASSUME NEW v \in Users PROVE Fair(v)'
      <3>1. CASE account'[v].total = account[v].total
        BY <2>3, <2>4, <3>1, CounterStays, FairPrimed DEF Tables
      <3>2. CASE /\ reward /\ v = r
                 /\ account'[v].total = boss[h].total + ReferralPoints
                 /\ granted'[v] = granted[v] + ReferralPoints
        <4>1. boss[h].total <= AnswerPoints * Count(r, right) + granted[r]
          BY <1>5, <3>2 DEF Accept, IInv, CopyOK
        <4>2. /\ Count(v, right) \in Nat /\ granted[v] \in Nat /\ boss[h].total \in Nat
              /\ Count(v, right') = Count(v, right)
          BY <2>1, CountTypes DEF TypeOK, Account
        <4>3. account'[v].total <= AnswerPoints * Count(v, right') + granted'[v]
          BY <3>2, <4>1, <4>2, PointsAssumption DEF AnswerPoints
        <4>4. QED
          BY <2>3, <4>3, CounterStays, FairPrimed DEF Tables
      <3>3. QED
        BY <2>3, <3>1, <3>2
    <2>5. QED
      BY <2>2, <2>4 DEF Tables
  <1>6. ASSUME NEW h \in Handlers, Join(h) PROVE Tables'
    <2> DEFINE u == task[h].user
               c == task[h].chal
    <2>1. CASE UNCHANGED rows /\ UNCHANGED granted
      BY <1>1, <2>1
    <2>2. CASE /\ joined' = joined \cup {<<u, c>>}
               /\ linked' = linked \cup {<<u, c>>}
               /\ account' = [account EXCEPT ![u] =
                                [account[u] EXCEPT !.challenges = me[h].challenges + 1]]
      <3>0. UNCHANGED <<members, submitted, right, granted>>
        BY <1>6 DEF Join
      <3>1. u \in Users /\ c \in Challenges /\ u \in members /\ account[u].terms
        BY <1>6 DEF Join, IInv, CopyOK, TypeOK
      <3>2. RowsNested' /\ ParticipantsAccepted'
        BY <2>2, <3>0, <3>1 DEF Tables, RowsNested, ParticipantsAccepted, Grows
      <3>3. account[u] \in Account
        BY <3>1 DEF TypeOK
      <3>4. ASSUME NEW v \in Users
            PROVE  /\ account'[v].correct = account[v].correct
                   /\ account'[v].total = account[v].total
                   /\ \/ account'[v].challenges = account[v].challenges
                      \/ v = u /\ account'[v].challenges = me[h].challenges + 1
        BY <2>2, <3>1, <3>3 DEF TypeOK, Account
      <3>5. ASSUME NEW v \in Users PROVE Fair(v)'
        <4>1. CASE account'[v].challenges = account[v].challenges
          BY <3>4, <4>1, CounterStays, FairPrimed DEF Tables
        <4>2. CASE v = u /\ account'[v].challenges = me[h].challenges + 1
          <5>1. me[h].challenges <= CountBut(u, joined, c) /\ me[h].challenges \in Nat
            BY <1>6 DEF Join, IInv, CopyOK, TypeOK, Account
          <5>2. Count(u, joined') = CountBut(u, joined, c) + 1 /\ CountBut(u, joined, c) \in Nat
            BY <2>2, <3>1, CountAdds, CountTypes
          <5>3. account'[v].challenges <= Count(v, joined')
            BY <4>2, <5>1, <5>2
          <5>4. QED
            BY <3>4, <5>3, CounterStays, FairPrimed DEF Tables
        <4>3. QED
          BY <3>4, <4>1, <4>2
      <3>6. QED
        BY <3>2, <3>5 DEF Tables
    <2>3. QED
      BY <1>6, <2>1, <2>2 DEF Join, Entry, rows
  <1>7. ASSUME NEW h \in Handlers, Link(h) PROVE Tables'
    <2>1. /\ linked' = linked \cup {Entry(h)}
          /\ UNCHANGED <<members, account, joined, submitted, right, granted>>
          /\ Entry(h) \in joined /\ task[h].user \in members /\ account[task[h].user].terms
      BY <1>7 DEF Link, IInv, CopyOK, Entry
    <2>2. RowsNested' /\ ParticipantsAccepted'
      BY <2>1 DEF Tables, RowsNested, ParticipantsAccepted, Entry
    <2>3. \A v \in Users : Fair(v)'
      BY <2>1 DEF Tables, Fair, Count, Of
    <2>4. QED
      BY <2>2, <2>3 DEF Tables
  <1>8. ASSUME NEW h \in Handlers, Record(h) PROVE Tables'
    <2> DEFINE u == task[h].user
               c == task[h].chal
    <2>1. /\ UNCHANGED <<members, joined, linked, granted>>
          /\ submitted' = submitted \cup {<<u, c>>}
          /\ right' = right \/ right' = right \cup {<<u, c>>}
      BY <1>8 DEF Record, Entry
    <2>2. u \in Users /\ c \in Challenges /\ <<u, c>> \in joined
      BY <1>8 DEF Record, IInv, CopyOK, TypeOK
    <2>3. RowsNested' /\ ParticipantsAccepted'
      <3>1. RowsNested'
        BY <2>1, <2>2, <1>8 DEF Record, Entry, Tables, RowsNested
      <3>2. QED
        BY <2>1, <3>1 DEF Tables, ParticipantsAccepted, Grows
    <2>4. ASSUME NEW v \in Users PROVE Fair(v)'
      <3>1. CASE account'[v] = account[v]
        BY <3>1, CounterStays, FairPrimed DEF Tables
      <3>2. CASE v = u /\ task[h].choice
        <4>1. /\ account'[v].total = me[h].total + AnswerPoints
              /\ account'[v].correct = me[h].correct + 1
              /\ account'[v].challenges = account[v].challenges
              /\ right' = right \cup {<<u, c>>}
          <5> DEFINE row == [account[u] EXCEPT !.total = me[h].total + AnswerPoints,
                                               !.correct = me[h].correct + 1]
          <5>1. account' = [account EXCEPT ![u] = row] /\ right' = right \cup {<<u, c>>}
            BY <1>8, <3>2 DEF Record, Entry
          <5>2. /\ row.total = me[h].total + AnswerPoints
                /\ row.correct = me[h].correct + 1
                /\ row.challenges = account[u].challenges
            BY <2>2 DEF TypeOK, Account
          <5> HIDE DEF row
          <5>3. QED
            BY <2>2, <3>2, <5>1, <5>2 DEF TypeOK
        <4>2. Covered(me[h], CountBut(u, right, c), granted[u])
          BY <1>8 DEF Record, IInv, CopyOK
        <4>3. Count(u, right') = CountBut(u, right, c) + 1 /\ CountBut(u, right, c) \in Nat
          BY <2>2, <4>1, CountAdds, CountTypes
        <4>4. /\ me[h].total \in Nat /\ me[h].correct \in Nat
              /\ granted[v] \in Nat /\ granted' = granted
          BY <2>1 DEF TypeOK, Account
        <4>5. /\ account'[v].correct <= Count(v, right')
              /\ account'[v].total <= AnswerPoints * Count(v, right') + granted'[v]
          BY <3>2, <4>1, <4>2, <4>3, <4>4 DEF Covered, AnswerPoints
        <4>6. QED
          BY <4>1, <4>5, CounterStays, FairPrimed DEF Tables
      <3>3. QED
        BY <1>8, <2>2, <3>1, <3>2 DEF Record, TypeOK
    <2>5. QED
      BY <2>3, <2>4 DEF Tables
  <1>9. QED
    BY <1>1, <1>3, <1>4, <1>5, <1>6, <1>7, <1>8
       DEF Next, HandlerStep, Begin, Abort, LoadUser, LoadReferrer, Choose,
           SendChallenge, PromptSent, EnterChallenge, RefreshParticipant, Publish, Close,
           vars, rows

\* At these steps a handler holds no copy that it will write back unread.
LEMMA FreshCopy ==
    ASSUME NEW h, task'[h].at \in {"idle", "load", "choose", "send", "register", "referrer"}
    PROVE  CopyOK(h)'
  BY DEF CopyOK

\* Finishing leaves a handler idle; moving on leaves its request as it was.
LEMMA FinishIdle ==
    ASSUME TypeOK, NEW h \in Handlers, Finish(h)
    PROVE  CopyOK(h)'
  BY FreshCopy DEF Finish, Idle, TypeOK

\* Before it records an answer a handler needs a copy that leaves room for it.
LEMMA AnswerCopy ==
    ASSUME NEW h, task'[h].at = "record" \/ task'[h].at = "link",
           task'[h].user \in members', account'[task'[h].user].terms,
           <<task'[h].user, task'[h].chal>> \in joined',
           \/ task'[h].at = "link" /\ task'[h].seen
           \/ Covered(me[h], CountBut(task[h].user, right, task[h].chal), granted[task[h].user])'
    PROVE  CopyOK(h)'
  BY DEF CopyOK

\* Moving a handler changes its step and nothing else of its request.
LEMMA GotoMoves ==
    ASSUME TypeOK, NEW h \in Handlers, NEW step, Goto(h, step)
    PROVE  /\ task'[h].at = step /\ task'[h].user = task[h].user
           /\ task'[h].chal = task[h].chal /\ task'[h].seen = task[h].seen
  BY DEF TypeOK, Goto, Task

\* The copy of the handler that moves is good, too.
LEMMA CopyStep ==
    ASSUME IInv, TypeOK', Grows, NEW h \in Handlers, Begin(h) \/ HandlerStep(h) \/ Abort(h)
    PROVE  CopyOK(h)'
  <1> TypeOK /\ Tables /\ CopyOK(h)
    BY DEF IInv
  <1> USE GotoMoves
  <1>1. CASE Begin(h)
    BY <1>1, FreshCopy, AccountTypes DEF Begin, TypeOK
  <1>2. CASE Abort(h)
    BY <1>2, FinishIdle DEF Abort
  <1>3. CASE LoadUser(h)
    <2> DEFINE u == task[h].user
    <2>1. CASE Finish(h)
      BY <2>1, FinishIdle
    <2>2. CASE /\ u \in members /\ (task[h].op = "answer" => Registered(u))
               /\ me' = [me EXCEPT ![h] = account[u]] /\ Goto(h, AfterLoad(h))
      <3>1. me'[h] = account[u] /\ Fair(u) /\ UNCHANGED <<rows, granted>>
        BY <1>3, <2>2 DEF LoadUser, TypeOK, Tables
      <3>2. AfterLoad(h) \in {"enter", "choose", "referrer", "accept"}
        BY DEF AfterLoad
      <3>3. CASE AfterLoad(h) = "enter"
        <4>1. Registered(u)
          BY <2>2, <3>3 DEF AfterLoad
        <4>2. QED
          BY <2>2, <3>1, <3>3, <4>1 DEF CopyOK, Covered, Fair, Count, Registered, rows
      <3>4. CASE AfterLoad(h) = "accept"
        <4>1. me'[h].referredBy = NoUser \/ me'[h].rewarded
          BY <3>4 DEF AfterLoad
        <4>2. QED
          BY <2>2, <3>4, <4>1 DEF CopyOK
      <3>5. QED
        BY <2>2, <3>2, <3>3, <3>4, FreshCopy
    <2>3. CASE /\ me' = [me EXCEPT ![h] = NewAccount(ReferrerFor(h))]
               /\ \E step \in {"choose", "enrol", "create"} : Goto(h, step)
      <3>1. me'[h].total = 0 /\ me'[h].correct = 0 /\ me'[h].challenges = 0
        BY <2>3 DEF TypeOK, NewAccount
      <3>2. QED
        BY <2>3, <3>1 DEF CopyOK
    <2>4. QED
      BY <1>3, <2>1, <2>2, <2>3 DEF LoadUser
  <1>4. CASE CreateUser(h) \/ Enrol(h)
    BY <1>4, FinishIdle, FreshCopy DEF CreateUser, Enrol, Insert
  <1>5. CASE LoadReferrer(h)
    <2>1. me[h].referredBy \in Users /\ me' = me /\ UNCHANGED <<rows, granted>>
      BY <1>5 DEF LoadReferrer, TypeOK
    <2>2. boss'[h] = account[me[h].referredBy] /\ Fair(me[h].referredBy)
      BY <1>5, <2>1 DEF LoadReferrer, TypeOK, Tables
    <2>3. task'[h].at = "accept"
      BY <1>5 DEF LoadReferrer
    <2>4. QED
      BY <2>1, <2>2, <2>3 DEF CopyOK, Fair, Count, rows
  <1>6. CASE Accept(h)
    BY <1>6, FreshCopy DEF Accept
  <1>7. CASE Choose(h)
    <2>1. CASE Finish(h)
      BY <2>1, FinishIdle
    <2>2. CASE Goto(h, "register")
      BY <2>2, FreshCopy
    <2>3. CASE \E c \in Challenges : task' = [task EXCEPT ![h].at = "send", ![h].chal = c]
      BY <2>3, FreshCopy DEF TypeOK, Task
    <2>4. QED
      BY <1>7, <2>1, <2>2, <2>3, PickType DEF Choose
  <1>8. CASE SendChallenge(h)
    <2>1. CASE Finish(h)
      BY <2>1, FinishIdle
    <2>2. CASE Goto(h, "register")
      BY <2>2, FreshCopy
    <2>3. CASE /\ Registered(Sender(h)) /\ me' = [me EXCEPT ![h] = account[Sender(h)]]
               /\ Goto(h, "enter")
      <3>1. Sender(h) = task[h].user
        BY <2>3, UsersAssumption DEF Registered, Sender, TypeOK
      <3>2. me'[h] = account[task[h].user] /\ Fair(task[h].user) /\ UNCHANGED <<rows, granted>>
        BY <1>8, <2>3, <3>1 DEF SendChallenge, Registered, TypeOK, Tables
      <3>3. QED
        BY <2>3, <3>1, <3>2 DEF CopyOK, Covered, Fair, Count, Registered, rows
    <2>4. QED
      BY <1>8, <2>1, <2>2, <2>3 DEF SendChallenge
  <1>9. CASE PromptSent(h)
    BY <1>9, FinishIdle DEF PromptSent
  <1>10. CASE EnterChallenge(h)
    <2> DEFINE u == task[h].user
               c == task[h].chal
    <2>1. /\ u \in members /\ account[u].terms /\ UNCHANGED <<rows, granted>>
          /\ Covered(me[h], Count(u, right), granted[u])
          /\ me[h].challenges <= Count(u, joined)
      BY <1>10 DEF EnterChallenge, CopyOK
    <2>2. c \in Challenges
      BY <1>10 DEF EnterChallenge, TypeOK
    <2>3. CASE Finish(h)
      BY <2>3, FinishIdle
    <2>4. CASE <<u, c>> \notin joined /\ Goto(h, "join") /\ me' = me
      <3>1. CountBut(u, joined, c) = Count(u, joined)
        BY <2>2, <2>4, CountAdds
      <3>2. QED
        BY <2>1, <2>4, <3>1 DEF CopyOK, Count, CountBut, rows
    <2>5. <<u, c>> \notin submitted => CountBut(u, right, c) = Count(u, right)
      BY <2>2, CountAdds DEF Tables, RowsNested
    <2>6. CASE /\ <<u, c>> \in joined /\ me' = me
               /\ task' = [task EXCEPT ![h].at = "link", ![h].seen = <<u, c>> \in submitted]
      <3>1. /\ task'[h].at = "link" /\ task'[h].user = u /\ task'[h].chal = c
            /\ ~task'[h].seen => <<u, c>> \notin submitted
        BY <2>6 DEF TypeOK, Task
      <3>2. ~task'[h].seen => Covered(me[h], CountBut(u, right, c), granted[u])'
        BY <2>1, <2>5, <2>6, <3>1 DEF Count, CountBut, rows
      <3>3. /\ task'[h].user \in members' /\ account'[task'[h].user].terms
            /\ <<task'[h].user, task'[h].chal>> \in joined'
        <4>1. UNCHANGED <<members, account, joined>>
          BY <2>1 DEF rows
        <4>2. u \in members /\ account[u].terms /\ <<u, c>> \in joined
          BY <2>1, <2>6
        <4> HIDE DEF u, c
        <4>3. QED
          BY <3>1, <4>1, <4>2
      <3>4. QED
        BY <3>1, <3>2, <3>3, AnswerCopy
    <2>7. CASE <<u, c>> \in joined \ submitted /\ Goto(h, "record") /\ me' = me
      <3>1. Covered(me[h], CountBut(u, right, c), granted[u])'
        BY <2>1, <2>5, <2>7 DEF Count, CountBut, rows
      <3>2. QED
        BY <2>1, <2>7, <3>1, AnswerCopy DEF rows
    <2>8. QED
      BY <1>10, <2>3, <2>4, <2>6, <2>7 DEF EnterChallenge, Proceed, Entry
  <1>11. CASE Join(h)
    <2> DEFINE u == task[h].user
               c == task[h].chal
    <2>1. CASE Finish(h)
      BY <2>1, FinishIdle
    <2>2. CASE joined' = joined \cup {<<u, c>>} /\ Goto(h, "refresh") /\ me' = me
      <3>1. /\ u \in members' /\ account'[u].terms /\ UNCHANGED <<right, granted>>
            /\ Covered(me[h], Count(u, right), granted[u])
        BY <1>11 DEF Join, CopyOK, Grows
      <3>2. QED
        BY <2>2, <3>1 DEF CopyOK, Count
    <2>3. QED
      BY <1>11, <2>1, <2>2 DEF Join, Entry
  <1>12. CASE RefreshParticipant(h)
    <2> DEFINE u == task[h].user
               c == task[h].chal
    <2>1. /\ u \in members /\ account[u].terms /\ UNCHANGED <<rows, granted>>
          /\ Covered(me[h], Count(u, right), granted[u]) /\ <<u, c>> \in joined
      BY <1>12 DEF RefreshParticipant, CopyOK
    <2>2. CASE Finish(h)
      BY <2>2, FinishIdle
    <2>3. CASE <<u, c>> \notin submitted /\ Goto(h, "record") /\ me' = me
      <3>1. CountBut(u, right, c) = Count(u, right)
        BY <1>12, <2>3, CountAdds DEF Tables, RowsNested, RefreshParticipant, TypeOK
      <3>2. Covered(me[h], CountBut(u, right, c), granted[u])'
        BY <2>1, <2>3, <3>1 DEF Count, CountBut, rows
      <3>3. QED
        BY <2>1, <2>3, <3>2, AnswerCopy DEF rows
    <2>4. QED
      BY <1>12, <2>2, <2>3 DEF RefreshParticipant, Proceed, Entry
  <1>13. CASE Link(h)
    <2> DEFINE u == task[h].user
               c == task[h].chal
    <2>1. /\ u \in members /\ account[u].terms /\ <<u, c>> \in joined
          /\ UNCHANGED <<members, account, joined, right, granted>>
      BY <1>13 DEF Link, CopyOK
    <2>2. CASE Finish(h)
      BY <2>2, FinishIdle
    <2>3. CASE ~task[h].seen /\ Goto(h, "record") /\ me' = me
      <3>1. Covered(me[h], CountBut(u, right, c), granted[u])
        BY <1>13, <2>3 DEF Link, CopyOK
      <3>2. Covered(me[h], CountBut(u, right, c), granted[u])'
        BY <2>1, <2>3, <3>1 DEF CountBut, rows
      <3>3. QED
        BY <2>1, <2>3, <3>2, AnswerCopy DEF rows
    <2>4. QED
      BY <1>13, <2>2, <2>3 DEF Link, Proceed
  <1>14. CASE Record(h)
    BY <1>14, FinishIdle DEF Record
  <1>15. QED
    BY <1>1, <1>2, <1>3, <1>4, <1>5, <1>6, <1>7, <1>8, <1>9, <1>10, <1>11, <1>12, <1>13, <1>14
       DEF HandlerStep

\* A step of one handler leaves the request and the copies of the others alone.
LEMMA OthersStay ==
    ASSUME TypeOK, NEW h \in Handlers, Begin(h) \/ HandlerStep(h) \/ Abort(h),
           NEW k \in Handlers \ {h}
    PROVE  task'[k] = task[k] /\ me'[k] = me[k] /\ boss'[k] = boss[k]
  BY DEF TypeOK, HandlerStep, Begin, Abort, LoadUser, CreateUser, Enrol, Insert, LoadReferrer,
         Accept, Choose, SendChallenge, PromptSent, EnterChallenge, Proceed, Join,
         RefreshParticipant, Link, Record, Finish, Goto

\* The inductive invariant holds of every reachable state.
LEMMA Inductive == Spec => []IInv
  <1>1. Init => IInv
    <2> SUFFICES ASSUME Init PROVE IInv
      OBVIOUS
    <2>1. TypeOK
      BY AccountTypes DEF Init, InitWith, TypeOK, Idle
    <2>2. Tables
      <3>1. RowsNested /\ ParticipantsAccepted
        BY DEF Init, InitWith, RowsNested, ParticipantsAccepted
      <3>2. ASSUME NEW v \in Users PROVE Fair(v)
        <4>1. /\ account[v].total = 0 /\ account[v].correct = 0 /\ account[v].challenges = 0
              /\ granted[v] = 0
          BY DEF Init, InitWith, NewAccount
        <4>2. Count(v, right) \in Nat /\ Count(v, joined) \in Nat
          BY CountTypes
        <4>3. QED
          BY <4>1, <4>2 DEF Fair, AnswerPoints
      <3>3. QED
        BY <3>1, <3>2 DEF Tables
    <2>3. \A h \in Handlers : CopyOK(h)
      BY DEF Init, InitWith, CopyOK, Idle
    <2>4. QED
      BY <2>1, <2>2, <2>3 DEF IInv
  <1>2. IInv /\ [Next]_vars => IInv'
    <2> SUFFICES ASSUME IInv, [Next]_vars PROVE IInv'
      OBVIOUS
    <2>1. TypeOK /\ TypeOK' /\ Grows
      BY TypeStep, StepGrows DEF IInv
    <2>2. Tables'
      BY <2>1, TablesStep
    <2>3. ASSUME NEW k \in Handlers PROVE CopyOK(k)'
      <3>1. CASE UNCHANGED <<task, me, boss>>
        BY <2>1, <3>1, CopyStays DEF IInv
      <3>2. ASSUME NEW h \in Handlers, Begin(h) \/ HandlerStep(h) \/ Abort(h) PROVE CopyOK(k)'
        BY <2>1, <3>2, CopyStep, OthersStay, CopyStays DEF IInv
      <3>3. QED
        BY <3>1, <3>2 DEF Next, Publish, Close, vars
    <2>4. QED
      BY <2>1, <2>2, <2>3 DEF IInv
  <1>3. QED
    BY <1>1, <1>2, PTL DEF Spec

\* The counters on a profile never exceed what the participations can account for.
THEOREM CountersSafe == Spec => []NeverOvercounted
  <1>1. IInv => NeverOvercounted
    BY DEF IInv, Tables, Fair, Count, NeverOvercounted
  <1>2. QED
    BY <1>1, Inductive, PTL

\* Points are never minted: correct answers and granted rewards cover them.
THEOREM PointsSafe == Spec => []PointsBacked
  <1>1. IInv => PointsBacked
    BY DEF IInv, Tables, Fair, Count, PointsBacked
  <1>2. QED
    BY <1>1, Inductive, PTL

\* Nobody takes part through the bot without having accepted the terms.
THEOREM ParticipantsSafe == Spec => []ParticipantsAccepted
  <1>1. IInv => ParticipantsAccepted
    BY DEF IInv, Tables
  <1>2. QED
    BY <1>1, Inductive, PTL

----------------------------------------------------------------------------
(* Referrals form a forest.  NoReferralCycle alone is not inductive: a new row *)
(* must refer to one that was there before it, which it does because the       *)
(* handler that inserts it looked the owner of the code up earlier, and rows   *)
(* never go.                                                                   *)

\* Every row refers to a row, or to none.
Rooted == \A u \in members : account[u].referredBy \in members \cup {NoUser}

\* The object about to be inserted refers to the row of somebody else, or to none.
Fostered(h) ==
    task[h].at \in {"create", "enrol"} =>
        me[h].referredBy \in (members \ {task[h].user}) \cup {NoUser}

Forest == TypeOK /\ Rooted /\ NoReferralCycle /\ \A h \in Handlers : Fostered(h)

\* A row that refers to an older one, or to none, leaves a forest a forest: a group of
\* users without the newcomer was there before, and if there are others in it beside the
\* newcomer then one of them refers out of those others, and not to the newcomer either.
LEMMA NewcomerStep ==
    ASSUME TypeOK, Rooted, NoReferralCycle, NEW u \in Users \ members,
           members' = members \cup {u}, account'[u].referredBy \in members \cup {NoUser},
           \A v \in members : account'[v].referredBy = account[v].referredBy
    PROVE  Rooted' /\ NoReferralCycle'
  <1>1. Rooted'
    BY DEF Rooted
  <1>2. ASSUME NEW group \in SUBSET members', group # {}
        PROVE  \E v \in group : account'[v].referredBy \notin group
    <2>1. CASE u \notin group
      <3>1. group \in SUBSET members
        BY <2>1
      <3>2. PICK v \in group : account[v].referredBy \notin group
        BY <1>2, <3>1 DEF NoReferralCycle
      <3>3. QED
        BY <3>1, <3>2
    <2>2. CASE group = {u}
      BY <2>2, UsersAssumption
    <2>3. CASE u \in group /\ group # {u}
      <3>1. group \ {u} \in SUBSET members /\ group \ {u} # {}
        BY <1>2, <2>3
      <3>2. PICK v \in group \ {u} : account[v].referredBy \notin group \ {u}
        BY <3>1 DEF NoReferralCycle
      <3>3. account[v].referredBy # u
        BY <3>1, UsersAssumption DEF Rooted
      <3>4. account'[v].referredBy \notin group
        BY <3>1, <3>2, <3>3
      <3>5. QED
        BY <3>4
    <2>4. QED
      BY <2>1, <2>2, <2>3
  <1>3. QED
    BY <1>1, <1>2 DEF NoReferralCycle

\* The handler that moves either keeps what it is about to insert off the tables, or looks
\* the owner of the code up now.
LEMMA FosterStep ==
    ASSUME TypeOK, NEW h \in Handlers, Begin(h) \/ HandlerStep(h) \/ Abort(h)
    PROVE  Fostered(h)'
  <1> SUFFICES ASSUME task'[h].at \in {"create", "enrol"}
               PROVE  me'[h].referredBy \in (members' \ {task'[h].user}) \cup {NoUser}
    BY DEF Fostered
  <1>1. ~Finish(h)
    BY DEF TypeOK, Finish, Idle
  <1>2. \A step \in Steps \ {"create", "enrol"} : ~Goto(h, step)
    BY GotoMoves
  <1>3. ~Begin(h)
    BY AccountTypes DEF Begin, TypeOK
  <1>4. LoadUser(h)
    <2>1. ~CreateUser(h) /\ ~Enrol(h)
      BY <1>1, <1>2 DEF CreateUser, Enrol, Insert, Steps
    <2>2. ~LoadReferrer(h) /\ ~Accept(h) /\ ~SendChallenge(h) /\ ~PromptSent(h)
      BY <1>1, <1>2 DEF LoadReferrer, Accept, SendChallenge, PromptSent, Steps
    <2>3. ~Choose(h)
      BY <1>1, <1>2 DEF Choose, Steps, TypeOK, Task
    <2>4. ASSUME NEW answered PROVE ~Proceed(h, answered)
      BY <1>1, <1>2 DEF Proceed, Steps
    <2>5. ~EnterChallenge(h)
      <3>1. ASSUME NEW seen PROVE task' # [task EXCEPT ![h].at = "link", ![h].seen = seen]
        BY DEF TypeOK, Task
      <3> DEFINE answered == Entry(h) \in submitted
      <3>2. /\ task' # [task EXCEPT ![h].at = "link", ![h].seen = answered]
            /\ ~Proceed(h, answered) /\ ~Goto(h, "join")
        BY <1>2, <2>4, <3>1 DEF Steps
      <3>3. EnterChallenge(h) => \/ task' = [task EXCEPT ![h].at = "link", ![h].seen = answered]
                                 \/ Proceed(h, answered) \/ Goto(h, "join")
        BY DEF EnterChallenge
      <3> HIDE DEF answered
      <3>4. QED
        BY <3>2, <3>3
    <2>6. ~Join(h) /\ ~RefreshParticipant(h) /\ ~Record(h)
      <3>1. ~Join(h)
        <4>1. ~Goto(h, "refresh")
          BY <1>2 DEF Steps
        <4>2. QED
          BY <1>1, <4>1 DEF Join
      <3>2. ~RefreshParticipant(h)
        BY <2>4 DEF RefreshParticipant
      <3>3. ~Record(h)
        BY <1>1 DEF Record
      <3>4. QED
        BY <3>1, <3>2, <3>3
    <2>7. ~Link(h)
      BY <2>4 DEF Link, TypeOK, Task
    <2>8. ~Abort(h)
      BY <1>1 DEF Abort
    <2>9. QED
      BY <1>3, <2>1, <2>2, <2>3, <2>5, <2>6, <2>7, <2>8 DEF HandlerStep
  <1>5. AfterLoad(h) \in Steps \ {"create", "enrol"}
    BY DEF AfterLoad, Steps
  <1>6. me' = [me EXCEPT ![h] = NewAccount(ReferrerFor(h))] /\ members' = members
    BY <1>1, <1>2, <1>4, <1>5 DEF LoadUser, rows
  <1>7. task'[h].user = task[h].user
    BY <1>1, <1>4, GotoMoves DEF LoadUser
  <1>8. QED
    BY <1>6, <1>7 DEF TypeOK, NewAccount, ReferrerFor

\* Every action keeps the forest.
LEMMA ForestStep ==
    ASSUME Forest, [Next]_vars
    PROVE  Forest'
  <1>1. TypeOK /\ TypeOK' /\ Grows
    BY TypeStep, StepGrows DEF Forest
  <1>2. ASSUME NEW h \in Handlers PROVE Fostered(h)'
    <2>1. CASE task'[h] = task[h] /\ me'[h] = me[h]
      BY <1>1, <2>1 DEF Forest, Fostered, Grows
    <2>2. ASSUME NEW k \in Handlers, Begin(k) \/ HandlerStep(k) \/ Abort(k)
          PROVE  Fostered(h)'
      BY <1>1, <2>1, <2>2, FosterStep, OthersStay
    <2>3. QED
      BY <2>1, <2>2 DEF Next, Publish, Close, vars
  <1>3. ASSUME NEW h \in Handlers, NEW row, NEW next, Insert(h, row, next),
               task[h].at \in {"create", "enrol"}, row.referredBy = me[h].referredBy
        PROVE  (Rooted /\ NoReferralCycle)'
    <2>1. CASE UNCHANGED <<members, account>>
      BY <2>1 DEF Forest, Rooted, NoReferralCycle
    <2>2. CASE /\ task[h].user \notin members
               /\ members' = members \cup {task[h].user}
               /\ account' = [account EXCEPT ![task[h].user] = row]
      <3>1. task[h].user \in Users \ members
        BY <1>1, <1>3, <2>2 DEF TypeOK
      <3>2. account'[task[h].user].referredBy \in members \cup {NoUser}
        BY <1>1, <1>3, <2>2, <3>1 DEF Forest, Fostered, TypeOK
      <3>3. QED
        BY <1>1, <2>2, <3>1, <3>2, NewcomerStep DEF Forest, Grows
    <2>3. QED
      BY <1>3, <2>1, <2>2 DEF Insert
  <1>4. CASE members' = members
    <2>1. \A u \in members : account'[u].referredBy = account[u].referredBy
      BY <1>1 DEF Grows
    <2>2. QED
      BY <1>1, <1>2, <1>4, <2>1 DEF Forest, Rooted, NoReferralCycle
  <1>5. CASE \E h \in Handlers : CreateUser(h) \/ Enrol(h)
    <2>1. PICK h \in Handlers : CreateUser(h) \/ Enrol(h)
      BY <1>5
    <2>2. [me[h] EXCEPT !.terms = TRUE].referredBy = me[h].referredBy
      BY <1>1 DEF TypeOK, Account
    <2>3. (Rooted /\ NoReferralCycle)'
      BY <1>3, <2>1, <2>2 DEF CreateUser, Enrol
    <2>4. QED
      BY <1>1, <1>2, <2>3 DEF Forest
  <1>6. ASSUME NEW h \in Handlers, Begin(h) \/ HandlerStep(h) \/ Abort(h), ~CreateUser(h), ~Enrol(h)
        PROVE  members' = members
    <2>1. Begin(h) \/ Abort(h) \/ LoadUser(h) \/ LoadReferrer(h) => members' = members
      BY DEF Begin, Abort, LoadUser, LoadReferrer, rows
    <2>2. Accept(h) => members' = members
      BY DEF Accept
    <2>3. Choose(h) \/ SendChallenge(h) \/ PromptSent(h) \/ EnterChallenge(h) => members' = members
      BY DEF Choose, SendChallenge, PromptSent, EnterChallenge, rows
    <2>4. Join(h) \/ RefreshParticipant(h) \/ Link(h) \/ Record(h) => members' = members
      BY DEF Join, RefreshParticipant, Link, Record, rows
    <2>5. QED
      BY <1>6, <2>1, <2>2, <2>3, <2>4 DEF HandlerStep
  <1>7. CASE \E c \in Challenges : Publish(c) \/ Close(c)
    BY <1>4, <1>7 DEF Publish, Close, rows
  <1>8. CASE UNCHANGED vars
    BY <1>4, <1>8 DEF vars, rows
  <1>9. QED
    BY <1>4, <1>5, <1>6, <1>7, <1>8 DEF Next

\* Nobody is, through any chain of referrals, their own referrer.
THEOREM ReferralsSafe == Spec => []NoReferralCycle
  <1>1. Init => Forest
    <2> SUFFICES ASSUME Init PROVE Forest
      OBVIOUS
    <2>1. TypeOK
      BY AccountTypes DEF Init, InitWith, TypeOK, Idle
    <2>2. members = {} /\ \A h \in Handlers : Fostered(h)
      BY DEF Init, InitWith, Fostered, Idle
    <2>3. QED
      BY <2>1, <2>2 DEF Forest, Rooted, NoReferralCycle
  <1>2. Forest => NoReferralCycle
    BY DEF Forest
  <1>3. QED
    BY <1>1, <1>2, ForestStep, PTL DEF Spec

===============================================================================
