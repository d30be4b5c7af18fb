--------------------------- MODULE AutoPosterProofs ---------------------------
(* The lock keeps posters apart unless it lapses, and the loop keeps its     *)
(* distance, for any channels and any number of "post now" jobs.             *)
EXTENDS AutoPoster, TLAPS

\* What a poster's record may say, apart from its types.
Placed(j) ==
    /\ poster[j].at \in {"publish", "release"} <=> poster[j].chan # {}
    /\ \A c, d \in poster[j].chan : c = d

\* A record of a poster at rest.
LEMMA RestingType ==
    ASSUME NEW at \in {"idle", "sleep", "cooling", "post"}
    PROVE  /\ Resting(at) \in Poster
           /\ \A C \in SUBSET Channels : [Resting(at) EXCEPT !.queue = C] \in Poster
           /\ Resting(at).chan = {} /\ Resting(at).at = at
           /\ \A C \in SUBSET Channels : /\ [Resting(at) EXCEPT !.queue = C].chan = {}
                                         /\ [Resting(at) EXCEPT !.queue = C].at = at
  BY DEF Resting, Poster

\* A poster that goes to rest leaves the records well-formed.
LEMMA RestStep ==
    ASSUME TypeOK, NEW j \in Posters, NEW r \in Poster, r.chan = {},
           r.at \notin {"publish", "release"}, poster' = [poster EXCEPT ![j] = r]
    PROVE  /\ poster' \in [Posters -> Poster] /\ \A k \in Posters : Placed(k)'
           /\ \A k \in Posters, c \in Channels : Inside(k, c)' <=> Inside(k, c) /\ k # j
  BY DEF TypeOK, Placed, Inside

\* Each action keeps the types.
LEMMA TypeStep == TypeOK /\ [Next]_vars => TypeOK'
  <1> SUFFICES ASSUME TypeOK, [Next]_vars
               PROVE  TypeOK'
    OBVIOUS
  <1> USE DEF TypeOK, Posters, Origins, Lapses
  <1>1. CASE Wake
    BY <1>1, RestingType DEF Wake, store, history
  <1>2. CASE Refused
    BY <1>2, RestingType DEF Refused, store, history
  <1>3. CASE StartCycle
    <2>1. PICK C \in SUBSET Channels :
              poster' = [poster EXCEPT ![Loop] =
                            [Resting(IF C = {} THEN "sleep" ELSE "post") EXCEPT !.queue = C]]
      BY <1>3 DEF StartCycle
    <2>2. served' \subseteq Channels \X Origins
      BY <1>3 DEF StartCycle
    <2>3. poster' \in [Posters -> Poster] /\ \A k \in Posters : Placed(k)'
      BY <2>1, RestingType, RestStep
    <2>4. blind' \in BOOLEAN
      BY <1>3 DEF StartCycle
    <2>5. QED
      BY <1>3, <2>2, <2>3, <2>4 DEF StartCycle, Placed, store
  <1>4. CASE \E j \in Manual : StartPostNow(j)
    <2>1. PICK j \in Manual : StartPostNow(j)
      BY <1>4
    <2>2. QED
      BY <2>1, RestingType DEF StartPostNow, store, history
  <1>5. ASSUME NEW j \in Posters, Acquire(j)
        PROVE  TypeOK'
    <2>1. PICK c \in poster[j].queue :
              /\ Enter(j, c) \/ Skip(j, c)
              /\ locked' \in {locked, locked \cup {c}}
              /\ lapsed' \in {lapsed, lapsed \cup {"lost"}}
      BY <1>5 DEF Acquire
    <2>2. c \in Channels
      BY <2>1 DEF Poster
    <2>3. poster' \in [Posters -> Poster] /\ \A k \in Posters : Placed(k)'
      <3>1. CASE Enter(j, c)
        BY <3>1, <2>2 DEF Enter, Poster, Placed
      <3>2. CASE Skip(j, c)
        BY <3>2, <2>2 DEF Skip, Poster, Placed
      <3>3. QED
        BY <2>1, <3>1, <3>2
    <2>4. QED
      BY <1>5, <2>1, <2>2, <2>3 DEF Acquire, Placed
  <1>6. ASSUME NEW j \in Posters, Publish(j)
        PROVE  TypeOK'
    <2>1. PICK c \in poster[j].chan :
              /\ \/ poster' = [poster EXCEPT ![j].at = "release", ![j].won = TRUE]
                 \/ poster' = [poster EXCEPT ![j].at = "release"]
              /\ leftover' \in {leftover, leftover \cup {c}}
              /\ \/ served' = served
                 \/ served' = served \cup {<<c, IF j = Loop THEN "cycle" ELSE "other">>}
              /\ reset' \in {reset, FALSE}
      BY <1>6 DEF Publish
    <2>2. c \in Channels
      BY <2>1 DEF Poster
    <2>3. poster' \in [Posters -> Poster] /\ \A k \in Posters : Placed(k)'
      BY <1>6, <2>1 DEF Publish, Poster, Placed
    <2>4. served' \subseteq Channels \X Origins
      BY <2>1, <2>2
    <2>5. leftover' \subseteq Channels /\ reset' \in BOOLEAN
      BY <2>1, <2>2
    <2>6. QED
      BY <1>6, <2>3, <2>4, <2>5 DEF Publish, Placed, store
  <1>7. ASSUME NEW j \in Posters, Release(j)
        PROVE  TypeOK'
    <2> DEFINE any == poster[j].posted \/ poster[j].won
    <2> DEFINE rest == [poster[j] EXCEPT !.at = "post", !.chan = {}, !.won = FALSE,
                                         !.posted = any]
               gone == Resting(IF j = Loop THEN "sleep" ELSE "idle")
    <2>0. any \in BOOLEAN
      BY Zenon
    <2>1. rest \in Poster /\ rest.chan = {} /\ rest.at = "post"
      <3>1. poster[j] \in Poster
        OBVIOUS
      <3> HIDE DEF any
      <3>2. QED
        BY <2>0, <3>1 DEF Poster
    <2>2. gone \in Poster /\ gone.chan = {} /\ gone.at \in {"sleep", "idle"}
      BY RestingType
    <2>3. PICK r \in {rest, gone} : poster' = [poster EXCEPT ![j] = r]
      BY <1>7 DEF Release
    <2>4. poster' \in [Posters -> Poster] /\ \A k \in Posters : Placed(k)'
      BY <2>1, <2>2, <2>3, RestStep
    <2>5. poster[j].chan \subseteq Channels
      BY DEF Poster
    <2>6. cooled' \subseteq Channels /\ locked' \subseteq Channels
      BY <1>7, <2>5 DEF Release
    <2>7. QED
      BY <1>7, <2>4, <2>6 DEF Release, Placed, history
  <1>8. ASSUME NEW j \in Posters, EndRound(j)
        PROVE  TypeOK'
    <2>1. PICK at \in {"sleep", "idle"} : poster' = [poster EXCEPT ![j] = Resting(at)]
      BY <1>8 DEF EndRound
    <2>2. poster' \in [Posters -> Poster] /\ \A k \in Posters : Placed(k)'
      BY <2>1, RestingType, RestStep
    <2>3. reset' \in BOOLEAN /\ marked' \in BOOLEAN
      BY <1>8, Zenon DEF EndRound
    <2>4. QED
      BY <1>8, <2>2, <2>3 DEF EndRound, Placed
  <1>9. CASE \E c \in Channels : RdpPostNow(c) \/ ExpireLock(c)
    BY <1>9 DEF RdpPostNow, ExpireLock
  <1>10. CASE ResetCooldowns \/ PausePosting \/ ResumePosting
    BY <1>10 DEF ResetCooldowns, PausePosting, ResumePosting, history
  <1>11. CASE SweepLeftovers
    BY <1>11 DEF SweepLeftovers, store
  <1>12. CASE ExpireMark \/ PostsAge \/ LoseStore
    BY <1>12 DEF ExpireMark, PostsAge, LoseStore, store, history
  <1>13. CASE Restart
    BY <1>13, RestingType DEF Restart, store, history
  <1>14. CASE UNCHANGED vars
    BY <1>14 DEF vars, store, history
  <1>15. QED
    BY <1>1, <1>2, <1>3, <1>4, <1>5, <1>6, <1>7, <1>8, <1>9, <1>10, <1>11, <1>12, <1>13, <1>14
       DEF Next, PostStep

\* Every variable of the auto-poster keeps its type.
THEOREM TypeCorrect == Spec => []TypeOK
  <1>1. Init => TypeOK
    BY RestingType DEF Init, TypeOK, Posters, Lapses
  <1>2. QED
    BY <1>1, TypeStep, PTL DEF Spec

----------------------------------------------------------------------------
(* The lock *)

\* Until a lock lapses, whoever is inside a channel has a key in the store, and is
\* alone: the key it will delete is its own.
LockInv ==
    lapsed = {} => /\ \A j \in Posters, c \in Channels : Inside(j, c) => c \in locked
                   /\ \A i, j \in Posters, c \in Channels : Inside(i, c) /\ Inside(j, c) => i = j

\* The steps that nobody takes into a channel, or out of it, while keys stay.
LEMMA LockStays ==
    ASSUME LockInv, lapsed' = {} => lapsed = {}, locked \subseteq locked',
           \A j \in Posters, c \in Channels : Inside(j, c)' => Inside(j, c)
    PROVE  LockInv'
  BY DEF LockInv

\* A poster enters only a channel whose key it has set; it deletes only its own.
LEMMA LockStep == TypeOK /\ LockInv /\ [Next]_vars => LockInv'
  <1> SUFFICES ASSUME TypeOK, LockInv, [Next]_vars
               PROVE  LockInv'
    OBVIOUS
  <1>1. CASE Wake \/ Refused \/ StartCycle \/ Restart
    <2>1. \A j \in Posters, c \in Channels : Inside(j, c)' => Inside(j, c)
      <3>1. CASE Wake \/ Refused
        BY <3>1 DEF Wake, Refused, Inside, Resting, TypeOK, Posters
      <3>2. CASE StartCycle
        <4>1. PICK C \in SUBSET Channels :
                  poster' = [poster EXCEPT ![Loop] =
                                [Resting(IF C = {} THEN "sleep" ELSE "post") EXCEPT !.queue = C]]
          BY <3>2 DEF StartCycle
        <4>2. QED
          BY <4>1, RestingType, RestStep DEF Posters
      <3>3. CASE Restart
        BY <3>3 DEF Restart, Inside, Resting
      <3>4. QED
        BY <1>1, <3>1, <3>2, <3>3
    <2>2. QED
      BY <1>1, <2>1, LockStays DEF Wake, Refused, StartCycle, Restart, store, history
  <1>2. CASE \E j \in Manual : StartPostNow(j)
    <2>1. \A j \in Posters, c \in Channels : Inside(j, c)' => Inside(j, c)
      BY <1>2 DEF StartPostNow, Inside, Resting, TypeOK, Posters
    <2>2. QED
      BY <1>2, <2>1, LockStays DEF StartPostNow, store, history
  <1>3. ASSUME NEW j \in Posters, Acquire(j)
        PROVE  LockInv'
    <2>1. PICK c \in poster[j].queue :
              \/ /\ c \notin locked /\ locked' = locked \cup {c} /\ Enter(j, c) /\ lapsed' = lapsed
              \/ Skip(j, c) /\ UNCHANGED <<locked, lapsed>>
              \/ Enter(j, c) /\ lapsed' = lapsed \cup {"lost"}
      BY <1>3 DEF Acquire
    <2>2. CASE /\ c \notin locked /\ locked' = locked \cup {c}
               /\ Enter(j, c) /\ lapsed' = lapsed
      <3>1. \A k \in Posters, d \in Channels :
                Inside(k, d)' => Inside(k, d) \/ (k = j /\ d = c)
        BY <2>2 DEF Enter, Inside, TypeOK, Poster
      <3>2. lapsed = {} => \A k \in Posters : c \in Channels => ~Inside(k, c)
        BY <2>2 DEF LockInv
      <3>3. QED
        BY <2>2, <3>1, <3>2 DEF LockInv
    <2>3. CASE Skip(j, c) /\ UNCHANGED <<locked, lapsed>>
      <3>1. \A k \in Posters, d \in Channels : Inside(k, d)' => Inside(k, d)
        BY <2>3 DEF Skip, Inside, TypeOK, Poster
      <3>2. QED
        BY <2>3, <3>1, LockStays
    <2>4. CASE Enter(j, c) /\ lapsed' = lapsed \cup {"lost"}
      BY <2>4 DEF LockInv
    <2>5. QED
      BY <2>1, <2>2, <2>3, <2>4
  <1>4. ASSUME NEW j \in Posters, Publish(j)
        PROVE  LockInv'
    <2>1. \A k \in Posters, c \in Channels : Inside(k, c)' => Inside(k, c)
      BY <1>4 DEF Publish, Inside, TypeOK, Poster
    <2>2. QED
      BY <1>4, <2>1, LockStays DEF Publish, store
  <1>5. ASSUME NEW j \in Posters, Release(j)
        PROVE  LockInv'
    <2>1. \A k \in Posters, c \in Channels : Inside(k, c)' => Inside(k, c) /\ k # j
      <3> DEFINE rest == [poster[j] EXCEPT !.at = "post", !.chan = {}, !.won = FALSE,
                                           !.posted = poster[j].posted \/ poster[j].won]
                 gone == Resting(IF j = Loop THEN "sleep" ELSE "idle")
      <3>1. PICK r \in {rest, gone} : poster' = [poster EXCEPT ![j] = r]
        BY <1>5 DEF Release
      <3>2. rest.at = "post" /\ gone.at \in {"sleep", "idle"}
        BY DEF TypeOK, Poster, Resting
      <3>3. r.at \notin {"publish", "release"}
        BY <3>2
      <3> HIDE DEF rest, gone
      <3>4. QED
        BY <3>1, <3>3 DEF Inside, TypeOK
    <2>2. \A c \in poster[j].chan : Inside(j, c)
      BY <1>5 DEF Release, Inside
    <2>3. lapsed = {} => \A k \in Posters \ {j}, c \in Channels :
                             Inside(k, c) => c \notin poster[j].chan
      BY <2>2 DEF LockInv
    <2>4. QED
      BY <1>5, <2>1, <2>3 DEF Release, LockInv, history
  <1>6. ASSUME NEW j \in Posters, EndRound(j)
        PROVE  LockInv'
    <2>1. \A k \in Posters, c \in Channels : Inside(k, c)' => Inside(k, c)
      BY <1>6 DEF EndRound, Inside, Resting, TypeOK, Poster
    <2>2. QED
      BY <1>6, <2>1, LockStays DEF EndRound
  <1>7. ASSUME NEW d \in Channels, ExpireLock(d)
        PROVE  LockInv'
    <2>1. \A k \in Posters, c \in Channels : Inside(k, c)' <=> Inside(k, c)
      BY <1>7 DEF ExpireLock, Inside
    <2>2. lapsed' = {} => lapsed = {} /\ \A k \in Posters : ~Inside(k, d)
      BY <1>7 DEF ExpireLock, Held
    <2>3. QED
      BY <1>7, <2>1, <2>2 DEF ExpireLock, LockInv
  <1>8. CASE LoseStore
    <2>1. \A k \in Posters, c \in Channels : Inside(k, c)' <=> Inside(k, c)
      BY <1>8 DEF LoseStore, Inside
    <2>2. lapsed' = {} => \A k \in Posters, c \in Channels : ~Inside(k, c)
      BY <1>8 DEF LoseStore, Held
    <2>3. QED
      BY <2>1, <2>2 DEF LockInv
  <1>9. CASE \/ \E c \in Channels : RdpPostNow(c)
             \/ ResetCooldowns \/ PausePosting \/ ResumePosting \/ SweepLeftovers
             \/ ExpireMark \/ PostsAge \/ UNCHANGED vars
    <2>1. UNCHANGED <<locked, poster, lapsed>>
      BY <1>9 DEF RdpPostNow, ResetCooldowns, PausePosting, ResumePosting, SweepLeftovers,
                  ExpireMark, PostsAge, vars, store, history
    <2>2. QED
      BY <2>1, LockStays DEF Inside
  <1>10. QED
    BY <1>1, <1>2, <1>3, <1>4, <1>5, <1>6, <1>7, <1>8, <1>9 DEF Next, PostStep

\* However many jobs post, a channel has one poster at a time until a lock lapses.
THEOREM LockSafe == Spec => []ExclusiveUnlessLapsed
  <1>1. Init => LockInv
    BY DEF Init, LockInv, Inside, Resting
  <1>2. LockInv => ExclusiveUnlessLapsed
    BY DEF LockInv, ExclusiveUnlessLapsed
  <1>3. QED
    BY <1>1, <1>2, TypeCorrect, LockStep, PTL DEF Spec

----------------------------------------------------------------------------
(* The cooldown *)

\* As long as the database answers, a cycle begins only when no young post is on record:
\* no post of an earlier cycle is then left that a post of this one could follow.
SpacingInv == ~blind => ~\E c \in Channels : <<c, "before">> \in served

\* Only StartCycle relabels the posts of a cycle, and then there are none.
LEMMA SpacingStep == TypeOK /\ SpacingInv /\ [Next]_vars => SpacingInv'
  <1> SUFFICES ASSUME TypeOK, SpacingInv, [Next]_vars
               PROVE  SpacingInv'
    OBVIOUS
  <1>1. CASE StartCycle
    BY <1>1 DEF StartCycle, CooldownActive, SpacingInv
  <1>2. ASSUME NEW j \in Posters, Publish(j)
        PROVE  SpacingInv'
    BY <1>2 DEF Publish, SpacingInv
  <1>3. CASE SweepLeftovers \/ PostsAge
    BY <1>3 DEF SweepLeftovers, PostsAge, SpacingInv, history
  <1>4. CASE \/ Wake \/ Refused \/ Restart \/ ResetCooldowns \/ PausePosting \/ ResumePosting
             \/ ExpireMark \/ LoseStore \/ UNCHANGED vars
             \/ \E j \in Manual : StartPostNow(j)
             \/ \E j \in Posters : Acquire(j) \/ Release(j) \/ EndRound(j)
             \/ \E c \in Channels : RdpPostNow(c) \/ ExpireLock(c)
    <2>1. UNCHANGED <<served, blind>>
      BY <1>4 DEF Wake, Refused, Restart, ResetCooldowns, PausePosting, ResumePosting,
                  ExpireMark, LoseStore, vars, StartPostNow, Acquire, Release, EndRound,
                  RdpPostNow, ExpireLock, store, history
    <2>2. QED
      BY <2>1 DEF SpacingInv
  <1>5. QED
    BY <1>1, <1>2, <1>3, <1>4 DEF Next, PostStep

\* Three hours lie between the recorded posts of two cycles of the loop.
THEOREM SpacingSafe == Spec => []CycleSpacing
  <1>1. Init => SpacingInv
    BY DEF Init, SpacingInv
  <1>2. SpacingInv => CycleSpacing
    BY DEF SpacingInv, CycleSpacing
  <1>3. QED
    BY <1>1, <1>2, TypeCorrect, SpacingStep, PTL DEF Spec

=============================================================================
