-------------------------- MODULE GatesAndRoundsProofs --------------------------
(***************************************************************************)
(* What the two gates and the challenge rounds promise, for any number of  *)
(* required channels, of updates, messages and creations at the same time, *)
(* any texts, and any hours between and of the challenges.                 *)
(***************************************************************************)
EXTENDS GatesAndRoundsMC, FiniteSetTheorems, TLAPS

----------------------------------------------------------------------------
(* The membership gate *)

USE DEF Answers

\* A check that begins has been told nothing yet.
LEMMA AskingTypes ==
    ASSUME member \subseteq Channels, NEW kind \in {"handler", "verify", "leave"}
    PROVE  /\ Asking(kind) \in Check
           /\ Asking(kind).at = "ask" /\ Asking(kind).kind = kind
           /\ \A c \in Channels : Asking(kind).answer[c] = "asked"
           /\ Asking(kind).in = member /\ Asking(kind).out = Channels \ member
  BY DEF Asking, Check

\* Where the code puts the answer of a check that begins.
LEMMA StartTypes ==
    ASSUME GateTypeOK, NEW j \in Checks, NEW kind \in {"handler", "verify", "leave"},
           NEW entry \in {"none", "admitted", "refused"}, StartCheck(j, kind, entry)
    PROVE  /\ check' \in [Checks -> Check]
           /\ \A k \in Checks \ {j} : check'[k] = check[k]
           /\ check'[j].at = (IF entry = "none" THEN "ask" ELSE entry)
           /\ check'[j].kind = kind
           /\ \A c \in Channels : check'[j].answer[c] = "asked"
           /\ check'[j].in = member /\ check'[j].out = Channels \ member
  <1> USE DEF GateTypeOK
  <1> DEFINE r == IF entry = "none" THEN Asking(kind) ELSE [Asking(kind) EXCEPT !.at = entry]
  <1>1. /\ r \in Check /\ r.at = (IF entry = "none" THEN "ask" ELSE entry) /\ r.kind = kind
        /\ \A c \in Channels : r.answer[c] = "asked"
        /\ r.in = member /\ r.out = Channels \ member
    <2>1. CASE entry = "none"
      BY <2>1, AskingTypes
    <2>2. CASE entry # "none"
      BY <2>2, AskingTypes DEF Check
    <2>3. QED
      BY <2>1, <2>2
  <1>2. check' = [check EXCEPT ![j] = r]
    BY DEF StartCheck
  <1> HIDE DEF r
  <1>3. QED
    BY <1>1, <1>2

\* An answer changes one field of one check.
LEMMA AnswerTypes ==
    ASSUME GateTypeOK, NEW j \in Checks, NEW c \in Channels, NEW a \in Answers,
           check' = [check EXCEPT ![j].answer[c] = a]
    PROVE  /\ check' \in [Checks -> Check]
           /\ \A k \in Checks \ {j} : check'[k] = check[k]
           /\ check'[j].at = check[j].at /\ check'[j].kind = check[j].kind
           /\ check'[j].in = check[j].in /\ check'[j].out = check[j].out
           /\ check'[j].answer[c] = a
           /\ \A d \in Channels \ {c} : check'[j].answer[d] = check[j].answer[d]
  <1> DEFINE f == [check[j].answer EXCEPT ![c] = a]
             r == [check[j] EXCEPT !.answer = f]
  <1>1. check[j] \in Check /\ check[j].answer \in [Channels -> Answers]
    BY DEF GateTypeOK, Check
  <1>2. f \in [Channels -> Answers] /\ f[c] = a /\ \A d \in Channels \ {c} : f[d] = check[j].answer[d]
    BY <1>1
  <1>3. check' = [check EXCEPT ![j] = r]
    BY <1>1
  <1> HIDE DEF f
  <1>4. /\ r \in Check /\ r.answer = f /\ r.at = check[j].at /\ r.kind = check[j].kind
        /\ r.in = check[j].in /\ r.out = check[j].out
    BY <1>1, <1>2 DEF Check
  <1> HIDE DEF r
  <1>5. QED
    BY <1>2, <1>3, <1>4 DEF GateTypeOK

\* A result changes where a check is, and nothing else of it.
LEMMA ConcludeTypes ==
    ASSUME GateTypeOK, NEW j \in Checks, NEW at \in {"admitted", "refused"},
           check' = [check EXCEPT ![j].at = at]
    PROVE  /\ check' \in [Checks -> Check]
           /\ \A k \in Checks \ {j} : check'[k] = check[k]
           /\ check'[j].at = at /\ check'[j].kind = check[j].kind
           /\ check'[j].in = check[j].in /\ check'[j].out = check[j].out
           /\ check'[j].answer = check[j].answer
  BY DEF GateTypeOK, Check

\* A join or a leave is noted in every check under way, and in nothing else.
LEMMA NotedTypes ==
    ASSUME GateTypeOK, NEW c \in Channels, Join(c) \/ Leave(c)
    PROVE  /\ check' \in [Checks -> Check]
           /\ \A k \in Checks :
                 /\ check'[k].at = check[k].at /\ check'[k].kind = check[k].kind
                 /\ check'[k].answer = check[k].answer
                 /\ check[k].in \subseteq check'[k].in /\ check[k].out \subseteq check'[k].out
                 /\ Join(c) /\ check[k].at # "idle" => c \in check'[k].in
                 /\ Leave(c) /\ check[k].at # "idle" => c \in check'[k].out
  <1> USE DEF GateTypeOK
  <1>1. CASE Join(c)
    <2>1. Join(c) /\ ~Leave(c)
      BY <1>1 DEF Join, Leave
    <2>2. \A k \in Checks : check'[k] = IF check[k].at = "idle" THEN check[k]
                                        ELSE [check[k] EXCEPT !.in = @ \cup {c}]
      BY <1>1 DEF Join
    <2>3. check' = [k \in Checks |-> check'[k]]
      BY <1>1 DEF Join
    <2>4. ASSUME NEW k \in Checks PROVE check[k] \in Check /\ check'[k] \in Check
      <3>1. check[k] \in Check /\ check[k].in \cup {c} \in SUBSET Channels
        BY DEF Check
      <3>2. \A more \in SUBSET Channels : [check[k] EXCEPT !.in = more] \in Check
        BY <3>1 DEF Check
      <3>3. QED
        BY <2>2, <3>1, <3>2
    <2>5. QED
      BY <2>1, <2>2, <2>3, <2>4 DEF Check
  <1>2. CASE Leave(c)
    <2>1. Leave(c) /\ ~Join(c)
      BY <1>2 DEF Join, Leave
    <2>2. \A k \in Checks : check'[k] = IF check[k].at = "idle" THEN check[k]
                                        ELSE [check[k] EXCEPT !.out = @ \cup {c}]
      BY <1>2 DEF Leave
    <2>3. check' = [k \in Checks |-> check'[k]]
      BY <1>2 DEF Leave
    <2>4. ASSUME NEW k \in Checks PROVE check[k] \in Check /\ check'[k] \in Check
      <3>1. check[k] \in Check /\ check[k].out \cup {c} \in SUBSET Channels
        BY DEF Check
      <3>2. \A more \in SUBSET Channels : [check[k] EXCEPT !.out = more] \in Check
        BY <3>1 DEF Check
      <3>3. QED
        BY <2>2, <3>1, <3>2
    <2>5. QED
      BY <2>1, <2>2, <2>3, <2>4 DEF Check
  <1>3. QED
    BY <1>1, <1>2

\* An update that has been handled leaves an idle place.
LEMMA HandledTypes ==
    ASSUME GateTypeOK, NEW j \in Checks, Handled(j)
    PROVE  /\ check' \in [Checks -> Check]
           /\ \A k \in Checks \ {j} : check'[k] = check[k]
           /\ check'[j].at = "idle" /\ check'[j].kind = "handler"
           /\ \A c \in Channels : check'[j].answer[c] = "asked"
  <1> DEFINE r == [check[j] EXCEPT !.at = "idle", !.kind = "handler", !.in = {}, !.out = {},
                                   !.answer = [c \in Channels |-> "asked"]]
  <1>1. check' = [check EXCEPT ![j] = r]
    BY DEF Handled, GateTypeOK
  <1>2. r \in Check /\ r.at = "idle" /\ r.kind = "handler" /\ \A c \in Channels : r.answer[c] = "asked"
    BY DEF GateTypeOK, Check
  <1> HIDE DEF r
  <1>3. QED
    BY <1>1, <1>2 DEF GateTypeOK

\* What Telegram told a check about a channel was so at some time since the update came.
Told(j) ==
    /\ check[j].at # "idle" => member \subseteq check[j].in /\ Channels \ member \subseteq check[j].out
    /\ check[j].at = "ask" =>
           \A c \in Channels : /\ check[j].answer[c] = "joined" => c \in check[j].in
                               /\ check[j].answer[c] = "not_joined" => c \in check[j].out
    /\ check[j].kind = "verify" =>
           /\ check[j].at = "admitted" => check[j].in = Channels
           /\ check[j].at = "refused" =>
                 check[j].out # {} \/ \E c \in Channels : check[j].answer[c] \in {"not_found", "unverified"}

\* While the gate is settled there is a channel the user is not in that no check counts on.
Barred == settled => cache # "admitted" /\ \E c \in Channels \ member : ~InFlight(c)

GateInv == GateTypeOK /\ Barred /\ \A j \in Checks : Told(j)

LEMMA GateInit == GInit => GateInv
  <1> SUFFICES ASSUME GInit PROVE GateInv
    OBVIOUS
  <1>1. [NoCheck EXCEPT !.in = {}, !.out = {}] \in Check
    BY DEF NoCheck, Asking, Check, GInit
  <1>2. \A j \in Checks : check[j].at = "idle" /\ check[j].kind = "handler"
    BY DEF NoCheck, Asking, GInit
  <1>3. GateTypeOK
    BY <1>1 DEF GInit, GateTypeOK
  <1>4. Barred /\ \A j \in Checks : Told(j)
    BY <1>2 DEF GInit, Barred, Told
  <1>5. QED
    BY <1>3, <1>4 DEF GateInv

\* Every action keeps the invariant.
LEMMA GateStep ==
    ASSUME GateInv, [GNext]_gvars
    PROVE  GateInv'
  <1> GateTypeOK /\ Barred /\ \A j \in Checks : Told(j)
    BY DEF GateInv
  <1> USE GateAssumption
  <1>1. ASSUME NEW c \in Channels, Join(c)
        PROVE  GateInv'
    <2>1. GateTypeOK'
      BY <1>1, NotedTypes DEF GateTypeOK, Join
    <2>2. ASSUME NEW k \in Checks PROVE Told(k)'
      <3>1. member' = member \cup {c}
        BY <1>1 DEF Join
      <3>2. check'[k].in \subseteq Channels /\ Told(k)
        BY <2>1 DEF GateTypeOK, Check
      <3>3. QED
        BY <1>1, <3>1, <3>2, NotedTypes DEF Told
    <2>3. Barred'
      BY <1>1 DEF Join, Barred
    <2>4. QED
      BY <2>1, <2>2, <2>3 DEF GateInv
  <1>2. ASSUME NEW c \in Channels, Leave(c)
        PROVE  GateInv'
    <2>1. GateTypeOK'
      BY <1>2, NotedTypes DEF GateTypeOK, Leave, Noticed
    <2>2. ASSUME NEW k \in Checks PROVE Told(k)'
      <3>1. member' = member \ {c}
        BY <1>2 DEF Leave
      <3>2. check'[k].in \subseteq Channels /\ Told(k)
        BY <2>1 DEF GateTypeOK, Check
      <3>3. QED
        BY <1>2, <3>1, <3>2, NotedTypes DEF Told
    <2>3. Barred'
      <3>1. \A d \in Channels : InFlight(d)' <=> InFlight(d)
        BY <1>2, NotedTypes DEF InFlight
      <3>2. QED
        BY <1>2, <3>1 DEF Leave, Barred
    <2>4. QED
      BY <2>1, <2>2, <2>3 DEF GateInv
  <1>3. CASE Expire
    BY <1>3 DEF Expire, GateInv, GateTypeOK, Barred, InFlight, Told
  <1>4. ASSUME NEW j \in Checks, NEW kind \in {"handler", "verify", "leave"},
               NEW entry \in {"none", "admitted", "refused"}, StartCheck(j, kind, entry),
               entry = "none" \/ kind = "handler", UNCHANGED member
        PROVE  /\ \A k \in Checks : Told(k)'
               /\ \A c \in Channels : InFlight(c)' => InFlight(c)
               /\ check' \in [Checks -> Check]
    <2>1. ASSUME NEW k \in Checks PROVE Told(k)'
      <3>1. CASE k = j
        BY <1>4, <3>1, StartTypes DEF Told
      <3>2. CASE k # j
        <4>1. check'[k] = check[k] /\ Told(k)
          BY <1>4, <3>2, StartTypes
        <4>2. QED
          BY <1>4, <4>1 DEF Told
      <3>3. QED
        BY <3>1, <3>2
    <2>2. ASSUME NEW c \in Channels, InFlight(c)' PROVE InFlight(c)
      <3>1. PICK k \in Checks : check'[k].at = "ask" /\ check'[k].answer[c] = "joined"
        BY <2>2 DEF InFlight
      <3>2. k # j
        BY <1>4, <3>1, StartTypes
      <3>3. QED
        BY <1>4, <3>1, <3>2, StartTypes DEF InFlight
    <2>3. QED
      BY <1>4, <2>1, <2>2, StartTypes
  <1>5. ASSUME NEW j \in Checks, Update(j)
        PROVE  GateInv'
    <2>1. cache \in {"none", "admitted", "refused"}
      BY DEF GateTypeOK
    <2>2. QED
      BY <1>4, <1>5, <2>1 DEF Update, GateInv, GateTypeOK, Barred
  <1>6. ASSUME NEW j \in Checks, TapVerify(j)
        PROVE  GateInv'
    BY <1>4, <1>6 DEF TapVerify, NoEntry, GateInv, GateTypeOK, Barred
  <1>7. ASSUME NEW j \in Checks, HandleDeparture(j)
        PROVE  GateInv'
    <2>1. /\ \A k \in Checks : Told(k)'
          /\ \A c \in Channels : InFlight(c)' => InFlight(c)
          /\ check' \in [Checks -> Check]
      BY <1>4, <1>7 DEF HandleDeparture, NoEntry
    <2>2. PICK c \in departures :
              /\ departures' = departures \ {c} /\ cache' = "none"
              /\ lapsed' = (lapsed \/ c \notin member)
              /\ settled' = (settled \/ (c \notin member /\ ~InFlight(c)))
      BY <1>7 DEF HandleDeparture, NoEntry
    <2>3. c \in Channels /\ member' = member
      BY <1>7, <2>2 DEF GateTypeOK, HandleDeparture
    <2>4. Barred'
      BY <2>1, <2>2, <2>3 DEF Barred
    <2>5. GateTypeOK'
      BY <2>1, <2>2, <2>3 DEF GateTypeOK
    <2>6. QED
      BY <2>1, <2>4, <2>5 DEF GateInv
  <1>8. ASSUME NEW j \in Checks, NEW c \in Channels, Answered(j, c)
        PROVE  GateInv'
    <2>1. PICK a \in {IF c \in member THEN "joined" ELSE "not_joined", "not_found", "unverified"} :
              check' = [check EXCEPT ![j].answer[c] = a]
      BY <1>8 DEF Answered
    <2>2. UNCHANGED <<member, departures, cache, lapsed, settled>> /\ check[j].at = "ask"
      BY <1>8 DEF Answered
    <2>3. a \in Answers
      BY <2>1
    <2>4. ASSUME NEW k \in Checks PROVE Told(k)'
      <3>1. CASE k = j
        <4>1. Told(j)
          OBVIOUS
        <4>2. a = "joined" => c \in check[j].in
          BY <2>1, <2>2, <4>1 DEF Told
        <4>3. a = "not_joined" => c \in check[j].out
          BY <2>1, <2>2, <4>1 DEF Told
        <4>4. QED
          BY <2>1, <2>2, <2>3, <3>1, <4>1, <4>2, <4>3, AnswerTypes DEF Told
      <3>2. CASE k # j
        <4>1. check'[k] = check[k] /\ Told(k)
          BY <2>1, <2>3, <3>2, AnswerTypes
        <4>2. QED
          BY <2>2, <4>1 DEF Told
      <3>3. QED
        BY <3>1, <3>2
    <2>5. ASSUME NEW d \in Channels \ member, ~InFlight(d) PROVE ~InFlight(d)'
      <3>1. d = c => a # "joined"
        BY <2>1
      <3>2. QED
        BY <2>1, <2>3, <2>5, <3>1, AnswerTypes DEF InFlight
    <2>6. GateTypeOK'
      BY <2>1, <2>2, <2>3, AnswerTypes DEF GateTypeOK
    <2>7. Barred'
      BY <2>2, <2>5 DEF Barred
    <2>8. QED
      BY <2>4, <2>6, <2>7 DEF GateInv
  <1>9. ASSUME NEW j \in Checks, Conclude(j)
        PROVE  GateInv'
    <2> DEFINE v == Verdict(AllJoined(j))
    <2>1. /\ check[j].at = "ask" /\ \A c \in Channels : check[j].answer[c] # "asked"
          /\ cache' = v /\ check' = [check EXCEPT ![j].at = v]
          /\ UNCHANGED <<member, departures, lapsed, settled>>
      BY <1>9 DEF Conclude
    <2>2. v \in {"admitted", "refused"} /\ (v = "admitted" <=> AllJoined(j))
      BY DEF Verdict
    <2> HIDE DEF v
    <2>3. ASSUME NEW k \in Checks PROVE Told(k)'
      <3>1. CASE k = j
        <4>1. Told(j) /\ check[j] \in Check /\ check[j].answer \in [Channels -> Answers]
          BY DEF GateTypeOK, Check
        <4>2. v = "admitted" => check[j].in = Channels
          BY <2>1, <2>2, <4>1 DEF Told, AllJoined, Check
        <4>3. v = "refused" =>
                  check[j].out # {} \/ \E c \in Channels : check[j].answer[c] \in {"not_found", "unverified"}
          BY <2>1, <2>2, <4>1 DEF Told, AllJoined
        <4>4. QED
          BY <2>1, <2>2, <3>1, <4>1, <4>2, <4>3, ConcludeTypes DEF Told
      <3>2. CASE k # j
        <4>1. check'[k] = check[k] /\ Told(k)
          BY <2>1, <2>2, <3>2, ConcludeTypes
        <4>2. QED
          BY <2>1, <4>1 DEF Told
      <3>3. QED
        BY <3>1, <3>2
    <2>4. \A c \in Channels : InFlight(c)' => InFlight(c)
      BY <2>1, <2>2, ConcludeTypes DEF InFlight
    <2>5. settled => v # "admitted"
      BY <2>1, <2>2 DEF Barred, InFlight, AllJoined
    <2>6. GateTypeOK'
      BY <2>1, <2>2, ConcludeTypes DEF GateTypeOK
    <2>7. Barred'
      BY <2>1, <2>4, <2>5 DEF Barred
    <2>8. QED
      BY <2>3, <2>6, <2>7 DEF GateInv
  <1>10. ASSUME NEW j \in Checks, Handled(j)
         PROVE  GateInv'
    <2>1. UNCHANGED <<member, departures, cache, lapsed, settled>>
      BY <1>10 DEF Handled
    <2>2. ASSUME NEW k \in Checks PROVE Told(k)'
      <3>1. CASE k = j
        BY <1>10, <3>1, HandledTypes DEF Told
      <3>2. CASE k # j
        <4>1. check'[k] = check[k] /\ Told(k)
          BY <1>10, <3>2, HandledTypes
        <4>2. QED
          BY <2>1, <4>1 DEF Told
      <3>3. QED
        BY <3>1, <3>2
    <2>3. \A c \in Channels : InFlight(c)' => InFlight(c)
      BY <1>10, HandledTypes DEF InFlight
    <2>4. GateTypeOK'
      BY <1>10, <2>1, HandledTypes DEF GateTypeOK
    <2>5. Barred'
      BY <2>1, <2>3 DEF Barred
    <2>6. QED
      BY <2>2, <2>4, <2>5 DEF GateInv
  <1>11. CASE UNCHANGED gvars
    BY <1>11 DEF gvars, GateInv, GateTypeOK, Barred, InFlight, Told
  <1>12. QED
    BY <1>1, <1>2, <1>3, <1>5, <1>6, <1>7, <1>8, <1>9, <1>10, <1>11 DEF GNext

LEMMA GateInvariant == GSpec => []GateInv
  BY GateInit, GateStep, PTL DEF GSpec

\* Every variable of the gate keeps its type.
THEOREM GateTyped == GSpec => []GateTypeOK
  <1>1. GateInv => GateTypeOK
    BY DEF GateInv
  <1>2. QED
    BY <1>1, GateInvariant, PTL

\* The Verify button lets in only who was a member of every channel since the tap, and refuses
\* only who was outside of one since the tap or whose own check met an error.
THEOREM VerifySafe == GSpec => []VerifyIsFresh
  <1>1. GateInv => VerifyIsFresh
    BY DEF GateInv, Told, VerifyIsFresh
  <1>2. QED
    BY <1>1, GateInvariant, PTL

\* A leave that was handled in time bars the user, whatever checks are still under way.
THEOREM RevokedSafe == GSpec => []RevokedStays
  <1>1. GateInv => RevokedStays
    BY DEF GateInv, Barred, InFlight, RevokedStays, AllJoined
  <1>2. QED
    BY <1>1, GateInvariant, PTL

----------------------------------------------------------------------------
(* The anti-spam gate *)

\* Message k can still get a strike: what it may score besides its text is at most 50, so its
\* text scored 30 or more.
Might(m) ==
    \/ m.at \in {"listed", "rate"} /\ m.score >= 30
    \/ m.at = "prev" /\ m.score >= 70
    \/ m.at = "score" /\ m.score >= Threshold
    \/ m.at \in {"strikes", "strike"}

Pending == {k \in Callers : Might(msg[k])}

\* Every strike that is stored, or about to be, belongs to a message of its own that scored with
\* its text: the messages that can still get one are not among them.
Charged ==
    /\ \A s \in Stores : store[s].strikes + Cardinality(Pending) <= spam
    /\ \A k \in Callers : msg[k].at = "strike" => msg[k].seen + Cardinality(Pending) <= spam

Earned ==
    /\ \A s \in Stores : store[s].banned => spam >= MaxStrikes
    /\ \A k \in Callers : msg[k].at = "ban" => spam >= MaxStrikes

\* The ban follows in the store that has the third strike.
Followed ==
    \A s \in Stores : store[s].strikes >= MaxStrikes =>
        store[s].banned \/ cut \/ \E k \in Callers : msg[k].at = "ban" /\ msg[k].in = s

SpamInv == SpamTypeOK /\ Charged /\ Earned /\ Followed

LEMMA PendingCounted ==
    \A S \in SUBSET Callers : /\ IsFiniteSet(S) /\ Cardinality(S) \in Nat
                              /\ \A T \in SUBSET S : Cardinality(T) <= Cardinality(S)
                              /\ \A k \in S : Cardinality(S \ {k}) = Cardinality(S) - 1
                              /\ \A k \in Callers \ S : Cardinality(S \cup {k}) = Cardinality(S) + 1
  <1>1. ASSUME NEW S \in SUBSET Callers
        PROVE  IsFiniteSet(S) /\ Cardinality(S) \in Nat
    BY <1>1, SpamAssumption, FS_Subset, FS_CardinalityType
  <1>2. ASSUME NEW S \in SUBSET Callers, NEW T \in SUBSET S
        PROVE  Cardinality(T) <= Cardinality(S)
    BY <1>1, FS_Subset
  <1>3. ASSUME NEW S \in SUBSET Callers, NEW k \in S
        PROVE  Cardinality(S \ {k}) = Cardinality(S) - 1
    BY <1>1, FS_RemoveElement
  <1>4. ASSUME NEW S \in SUBSET Callers, NEW k \in Callers \ S
        PROVE  Cardinality(S \cup {k}) = Cardinality(S) + 1
    BY <1>1, FS_AddElement
  <1>5. QED
    BY <1>1, <1>2, <1>3, <1>4

\* Messages give up, or go on to where they are no more likely to get a strike.
LEMMA PendingFalls ==
    ASSUME \A k \in Callers : Might(msg[k])' => Might(msg[k])
    PROVE  /\ Cardinality(Pending)' <= Cardinality(Pending)
           /\ Cardinality(Pending)' \in Nat /\ Cardinality(Pending) \in Nat
  <1>1. Pending' \in SUBSET Pending /\ Pending \in SUBSET Callers /\ Pending' \in SUBSET Callers
    BY DEF Pending
  <1>2. QED
    BY <1>1, PendingCounted

Ats == {"idle", "listed", "rate", "prev", "score", "strikes", "strike", "ban"}

LEMMA MessageUpdates ==
    ASSUME NEW m \in Message, NEW a \in Ats
    PROVE  /\ Done \in Message
           /\ [m EXCEPT !.at = a] \in Message /\ [Done EXCEPT !.at = a] \in Message
           /\ \A n \in Nat : [m EXCEPT !.at = a, !.score = n] \in Message
           /\ \A n \in 0..MaxSpam : [m EXCEPT !.at = a, !.seen = n] \in Message
           /\ \A s \in Stores : [Done EXCEPT !.at = a, !.in = s] \in Message
  <1>1. Done \in Message
    BY SpamAssumption DEF Message, Done, Stores
  <1>2. \A r \in Message : [r EXCEPT !.at = a] \in Message
    BY DEF Message, Ats
  <1>3. ASSUME NEW n \in Nat
        PROVE  [m EXCEPT !.at = a, !.score = n] \in Message
    BY Zenon DEF Message, Ats
  <1>4. ASSUME NEW n \in 0..MaxSpam
        PROVE  [m EXCEPT !.at = a, !.seen = n] \in Message
    BY Zenon DEF Message, Ats
  <1>5. ASSUME NEW s \in Stores
        PROVE  [Done EXCEPT !.at = a, !.in = s] \in Message
    BY <1>1, Zenon DEF Message, Ats
  <1>6. QED
    BY <1>1, <1>2, <1>3, <1>4, <1>5

\* A cache operation changes one entry and one message.
LEMMA OperateTypes ==
    ASSUME SpamTypeOK, NEW k \in Callers, NEW s \in Stores, NEW d \in Data, NEW m \in Message,
           Operate(k, s, d, m)
    PROVE  /\ SpamTypeOK'
           /\ store'[s] = d /\ \A o \in Stores \ {s} : store'[o] = store[o]
           /\ msg'[k] = m /\ \A j \in Callers \ {k} : msg'[j] = msg[j]
           /\ spam' = spam /\ cut' = (cut \/ (msg[k].at = "ban" /\ s # msg[k].in))
  BY DEF SpamTypeOK, Operate, Release

\* An operation that neither writes strikes nor blacklists.
LEMMA OperateKeeps ==
    ASSUME SpamInv, NEW k \in Callers, NEW s \in Stores, NEW d \in Data, NEW m \in Message,
           Operate(k, s, d, m), msg[k].at # "ban", m.at # "ban", Might(m) => Might(msg[k]),
           m.at = "strike" => m.seen = store[s].strikes,
           d.strikes = store[s].strikes, d.banned = store[s].banned
    PROVE  SpamInv'
  <1>1. SpamTypeOK /\ SpamTypeOK'
    BY OperateTypes DEF SpamInv
  <1>2. /\ store'[s] = d /\ \A o \in Stores \ {s} : store'[o] = store[o]
        /\ msg'[k] = m /\ \A j \in Callers \ {k} : msg'[j] = msg[j]
        /\ spam' = spam /\ cut' = cut
    BY <1>1, OperateTypes DEF SpamTypeOK
  <1>3. \A j \in Callers : Might(msg[j])' => Might(msg[j])
    BY <1>2 DEF Might
  <1>4. /\ Cardinality(Pending)' <= Cardinality(Pending)
        /\ Cardinality(Pending)' \in Nat /\ Cardinality(Pending) \in Nat
    BY <1>3, PendingFalls
  <1>5. \A o \in Stores : /\ store'[o].strikes = store[o].strikes /\ store'[o].banned = store[o].banned
                          /\ store[o].strikes \in Nat
    BY <1>1, <1>2, SpamAssumption DEF SpamTypeOK, Data
  <1>6. \A j \in Callers : msg[j].seen \in Nat
    BY <1>1, SpamAssumption DEF SpamTypeOK, Message
  <1>7. spam \in Nat
    BY <1>1, SpamAssumption DEF SpamTypeOK
  <1>8. Charged'
    <2>1. \A o \in Stores : store'[o].strikes + Cardinality(Pending)' <= spam'
      BY <1>2, <1>4, <1>5, <1>7 DEF SpamInv, Charged
    <2>2. ASSUME NEW j \in Callers, msg'[j].at = "strike"
          PROVE  msg'[j].seen + Cardinality(Pending)' <= spam'
      <3>1. CASE j = k
        BY <1>2, <1>4, <1>5, <1>7, <2>2, <3>1 DEF SpamInv, Charged
      <3>2. CASE j # k
        BY <1>2, <1>4, <1>6, <1>7, <2>2, <3>2 DEF SpamInv, Charged
      <3>3. QED
        BY <3>1, <3>2
    <2>3. QED
      BY <2>1, <2>2 DEF Charged
  <1>9. Earned'
    BY <1>2, <1>5 DEF SpamInv, Earned
  <1>10. Followed'
    BY <1>2, <1>5 DEF SpamInv, Followed
  <1>11. QED
    BY <1>1, <1>8, <1>9, <1>10 DEF SpamInv

\* Every step of a message keeps the invariant.
LEMMA MessageStep ==
    ASSUME SpamInv, NEW k \in Callers, NEW s \in Stores, Step(k, s)
    PROVE  SpamInv'
  <1>0. /\ SpamTypeOK /\ msg[k] \in Message /\ store[s] \in Data /\ spam \in Nat /\ spam <= MaxSpam
        /\ msg[k].score \in Nat /\ msg[k].seen \in Nat /\ store[s].strikes \in 0..MaxSpam
    BY SpamAssumption DEF SpamInv, SpamTypeOK, Message, Data
  <1>1. CASE Listed(k, s)
    <2> DEFINE m == IF store[s].banned THEN Done ELSE [msg[k] EXCEPT !.at = "rate"]
    <2>1. m \in Message /\ m.at # "ban" /\ m.at # "strike" /\ (Might(m) => Might(msg[k]))
      <3>1. m \in Message
        BY <1>0, MessageUpdates DEF Ats
      <3>2. m \in {Done, [msg[k] EXCEPT !.at = "rate"]}
        OBVIOUS
      <3>3. QED
        BY <1>0, <1>1, <3>1, <3>2 DEF Listed, Message, Might, Done
    <2>2. Operate(k, s, store[s], m) /\ msg[k].at # "ban"
      BY <1>1 DEF Listed
    <2> HIDE DEF m
    <2>3. QED
      BY <1>0, <2>1, <2>2, OperateKeeps
  <1>2. CASE CountMessage(k, s)
    <2>1. PICK over \in {0, 40} :
              Operate(k, s, store[s], [msg[k] EXCEPT !.at = "prev", !.score = @ + over])
      BY <1>2 DEF CountMessage
    <2> DEFINE m == [msg[k] EXCEPT !.at = "prev", !.score = @ + over]
    <2>2. m \in Message /\ m.at = "prev" /\ m.score = msg[k].score + over
      <3>1. msg[k].score + over \in Nat /\ "prev" \in Ats
        BY <1>0 DEF Ats
      <3>2. m \in Message
        BY <1>0, <3>1, MessageUpdates
      <3>3. QED
        BY <1>0, <3>2 DEF Message
    <2>3. Might(m) => Might(msg[k])
      BY <1>0, <1>2, <2>2 DEF CountMessage, Might
    <2>4. Operate(k, s, store[s], m) /\ msg[k].at # "ban"
      BY <1>2, <2>1 DEF CountMessage
    <2> HIDE DEF m
    <2>5. QED
      BY <1>0, <2>2, <2>3, <2>4, OperateKeeps
  <1>3. CASE AddPrevious(k, s)
    <2> DEFINE more == IF store[s].hot THEN Repeated ELSE 0
               m == [msg[k] EXCEPT !.at = "score", !.score = @ + more]
    <2>1. more \in {0, 10}
      BY DEF Repeated
    <2>2. Operate(k, s, store[s], m) /\ msg[k].at = "prev"
      BY <1>3 DEF AddPrevious
    <2> HIDE DEF more
    <2>3. m \in Message /\ m.at = "score" /\ m.score = msg[k].score + more
      <3>1. msg[k].score + more \in Nat /\ "score" \in Ats
        BY <1>0, <2>1 DEF Ats
      <3>2. m \in Message
        BY <1>0, <3>1, MessageUpdates
      <3>3. QED
        BY <1>0, <3>2 DEF Message
    <2>4. Might(m) => Might(msg[k])
      BY <1>0, <2>1, <2>2, <2>3 DEF Might, Threshold
    <2> HIDE DEF m
    <2>5. QED
      BY <1>0, <2>2, <2>3, <2>4, OperateKeeps
  <1>4. CASE StoreScore(k, s)
    <2> DEFINE hot == msg[k].score >= Suspicious
               d == [store[s] EXCEPT !.hot = hot]
    <2>1. PICK b \in Blocked(msg[k].score) :
              Operate(k, s, d, IF b THEN [Done EXCEPT !.at = "strikes"] ELSE Done)
      BY <1>4 DEF StoreScore
    <2>2. d \in Data /\ d.strikes = store[s].strikes /\ d.banned = store[s].banned
      <3>1. hot \in BOOLEAN
        BY <1>0 DEF Suspicious
      <3> HIDE DEF hot
      <3>2. d \in Data
        BY <1>0, <3>1, Zenon DEF Data
      <3>3. QED
        BY <1>0, <3>2 DEF Data
    <2> HIDE DEF hot, d
    <2> DEFINE m == IF b THEN [Done EXCEPT !.at = "strikes"] ELSE Done
    <2>3. m \in Message /\ m.at # "ban" /\ m.at # "strike"
      BY <1>0, MessageUpdates DEF Done, Ats
    <2>4. b => msg[k].score >= Threshold
      <3> DEFINE over == msg[k].score > Threshold
      <3>1. b \in IF msg[k].score = Threshold THEN BOOLEAN ELSE {over}
        BY <2>1 DEF Blocked
      <3>2. over => msg[k].score >= Threshold
        BY <1>0 DEF Threshold
      <3>3. msg[k].score = Threshold => msg[k].score >= Threshold
        BY <1>0 DEF Threshold
      <3> HIDE DEF over
      <3>4. CASE msg[k].score # Threshold
        <4>1. b = over
          BY <3>1, <3>4, Zenon
        <4>2. QED
          BY <3>2, <4>1, Zenon
      <3>5. QED
        BY <3>3, <3>4, Zenon
    <2>5. Might(m) => Might(msg[k])
      BY <1>4, <2>4 DEF StoreScore, Might, Done
    <2>6. msg[k].at # "ban" /\ Operate(k, s, d, m)
      BY <1>4, <2>1 DEF StoreScore
    <2> HIDE DEF m
    <2>7. QED
      BY <2>2, <2>3, <2>5, <2>6, OperateKeeps
  <1>5. CASE ReadStrikes(k, s)
    <2> DEFINE m == [msg[k] EXCEPT !.at = "strike", !.seen = store[s].strikes]
    <2>1. m \in Message /\ m.at = "strike" /\ m.seen = store[s].strikes
      <3>1. m \in Message
        BY <1>0, MessageUpdates DEF Ats
      <3>2. QED
        BY <1>0 DEF Message
    <2>2. Operate(k, s, store[s], m) /\ msg[k].at = "strikes"
      BY <1>5 DEF ReadStrikes
    <2>3. Might(msg[k])
      BY <2>2 DEF Might
    <2> HIDE DEF m
    <2>4. QED
      BY <1>0, <2>1, <2>2, <2>3, OperateKeeps
  <1>6. CASE WriteStrikes(k, s)
    <2> DEFINE n == msg[k].seen + 1
               d == [store[s] EXCEPT !.strikes = n]
               m == IF StruckOut(n) THEN [Done EXCEPT !.at = "ban", !.in = s] ELSE Done
    <2>1. msg[k].at = "strike" /\ Operate(k, s, d, m)
      BY <1>6 DEF WriteStrikes
    <2>2. Pending \in SUBSET Callers /\ k \in Pending
      BY <2>1 DEF Pending, Might
    <2>3. /\ Cardinality(Pending) \in Nat /\ Cardinality(Pending \ {k}) \in Nat
          /\ Cardinality(Pending \ {k}) = Cardinality(Pending) - 1
      <3>1. Pending \ {k} \in SUBSET Callers
        BY <2>2
      <3>2. QED
        BY <2>2, <3>1, PendingCounted
    <2>4. msg[k].seen + Cardinality(Pending) <= spam
      BY <2>1 DEF SpamInv, Charged
    <2>5. n \in 0..MaxSpam /\ n <= spam
      BY <1>0, <2>3, <2>4, SpamAssumption
    <2>6. d \in Data /\ d.strikes = n /\ d.banned = store[s].banned
      BY <1>0, <2>5 DEF Data
    <2>7. /\ m \in Message /\ m.at \in {"ban", "idle"}
          /\ n >= MaxStrikes => m.at = "ban" /\ m.in = s
          /\ m.at = "ban" => n >= MaxStrikes
      BY <1>0, MessageUpdates DEF StruckOut, Done, Ats
    <2> HIDE DEF d, m
    <2>8. /\ SpamTypeOK'
          /\ store'[s] = d /\ \A o \in Stores \ {s} : store'[o] = store[o]
          /\ msg'[k] = m /\ \A j \in Callers \ {k} : msg'[j] = msg[j]
          /\ spam' = spam /\ cut' = cut
      BY <1>0, <2>1, <2>6, <2>7, OperateTypes DEF SpamTypeOK
    <2>9. Pending' = Pending \ {k}
      BY <2>7, <2>8 DEF Pending, Might
    <2>10. Charged'
      <3>1. ASSUME NEW o \in Stores PROVE store'[o].strikes + Cardinality(Pending)' <= spam'
        <4>1. store[o].strikes \in Nat /\ store[o].strikes + Cardinality(Pending) <= spam
          BY <1>0, SpamAssumption DEF SpamTypeOK, Data, SpamInv, Charged
        <4>2. store'[o].strikes \in {n, store[o].strikes}
          BY <2>6, <2>8
        <4>3. QED
          BY <1>0, <2>3, <2>4, <2>8, <2>9, <4>1, <4>2
      <3>2. ASSUME NEW j \in Callers, msg'[j].at = "strike"
            PROVE  msg'[j].seen + Cardinality(Pending)' <= spam'
        <4>1. j # k /\ msg'[j] = msg[j]
          BY <2>7, <2>8, <3>2
        <4>2. msg[j].seen \in Nat /\ msg[j].seen + Cardinality(Pending) <= spam
          BY <1>0, <3>2, <4>1, SpamAssumption DEF SpamTypeOK, Message, SpamInv, Charged
        <4>3. QED
          BY <1>0, <2>3, <2>8, <2>9, <4>1, <4>2
      <3>3. QED
        BY <3>1, <3>2 DEF Charged
    <2>11. Earned'
      BY <1>0, <2>5, <2>6, <2>7, <2>8 DEF SpamInv, Earned, MaxStrikes
    <2>12. Followed'
      <3>1. ASSUME NEW o \in Stores, store'[o].strikes >= MaxStrikes
            PROVE  store'[o].banned \/ cut' \/ \E j \in Callers : msg'[j].at = "ban" /\ msg'[j].in = o
        <4>1. CASE o = s
          BY <2>6, <2>7, <2>8, <3>1, <4>1
        <4>2. CASE o # s
          <5>1. store'[o] = store[o]
            BY <2>8, <4>2
          <5>2. store[o].banned \/ cut \/ \E j \in Callers : msg[j].at = "ban" /\ msg[j].in = o
            BY <3>1, <5>1 DEF SpamInv, Followed
          <5>3. QED
            BY <2>1, <2>8, <5>1, <5>2
        <4>3. QED
          BY <4>1, <4>2
      <3>2. QED
        BY <3>1 DEF Followed
    <2>13. QED
      BY <2>8, <2>10, <2>11, <2>12 DEF SpamInv
  <1>7. CASE Blacklist(k, s)
    <2> DEFINE d == [store[s] EXCEPT !.banned = TRUE]
    <2>1. msg[k].at = "ban" /\ Operate(k, s, d, Done)
      BY <1>7 DEF Blacklist
    <2>2. d \in Data /\ d.strikes = store[s].strikes /\ d.banned
      BY <1>0 DEF Data
    <2>3. Done \in Message /\ Done.at = "idle"
      BY SpamAssumption DEF Done, Message, Stores
    <2> HIDE DEF d
    <2>4. /\ SpamTypeOK'
          /\ store'[s] = d /\ \A o \in Stores \ {s} : store'[o] = store[o]
          /\ msg'[k] = Done /\ \A j \in Callers \ {k} : msg'[j] = msg[j]
          /\ spam' = spam /\ cut' = (cut \/ s # msg[k].in)
      BY <1>0, <2>1, <2>2, <2>3, OperateTypes
    <2>5. \A j \in Callers : Might(msg[j])' => Might(msg[j])
      BY <2>3, <2>4 DEF Might
    <2>6. /\ Cardinality(Pending)' <= Cardinality(Pending)
          /\ Cardinality(Pending)' \in Nat /\ Cardinality(Pending) \in Nat
      BY <2>5, PendingFalls
    <2>7. \A o \in Stores : store'[o].strikes = store[o].strikes /\ store[o].strikes \in Nat
      BY <1>0, <2>2, <2>4, SpamAssumption DEF SpamTypeOK, Data
    <2>8. Charged'
      <3>1. \A o \in Stores : store'[o].strikes + Cardinality(Pending)' <= spam'
        BY <1>0, <2>4, <2>6, <2>7 DEF SpamInv, Charged
      <3>2. ASSUME NEW j \in Callers, msg'[j].at = "strike"
            PROVE  msg'[j].seen + Cardinality(Pending)' <= spam'
        <4>1. j # k /\ msg'[j] = msg[j]
          BY <2>3, <2>4, <3>2
        <4>2. msg[j].seen \in Nat /\ msg[j].seen + Cardinality(Pending) <= spam
          BY <1>0, <3>2, <4>1, SpamAssumption DEF SpamTypeOK, Message, SpamInv, Charged
        <4>3. QED
          BY <1>0, <2>4, <2>6, <4>1, <4>2
      <3>3. QED
        BY <3>1, <3>2 DEF Charged
    <2>9. Earned'
      BY <2>1, <2>3, <2>4 DEF SpamInv, Earned
    <2>10. Followed'
      <3>1. ASSUME NEW o \in Stores, store'[o].strikes >= MaxStrikes
            PROVE  store'[o].banned \/ cut' \/ \E j \in Callers : msg'[j].at = "ban" /\ msg'[j].in = o
        <4>1. CASE o = s
          BY <2>2, <2>4, <4>1
        <4>2. CASE o # s
          <5>1. store[o].banned \/ cut \/ \E j \in Callers : msg[j].at = "ban" /\ msg[j].in = o
            BY <2>7, <3>1 DEF SpamInv, Followed
          <5>2. CASE \E j \in Callers \ {k} : msg[j].at = "ban" /\ msg[j].in = o
            BY <2>4, <5>2
          <5>3. CASE msg[k].in = o
            BY <2>4, <4>2, <5>3
          <5>4. QED
            BY <2>4, <4>2, <5>1, <5>2, <5>3
        <4>3. QED
          BY <4>1, <4>2
      <3>2. QED
        BY <3>1 DEF Followed
    <2>11. QED
      BY <2>4, <2>8, <2>9, <2>10 DEF SpamInv
  <1>8. QED
    BY <1>1, <1>2, <1>3, <1>4, <1>5, <1>6, <1>7 DEF Step

\* Steps of the client, of the cache and of time, which write no strikes.
LEMMA StoresStep ==
    ASSUME SpamInv, SpamTypeOK', UNCHANGED spam,
           \A k \in Callers : msg'[k] = msg[k] \/ msg'[k] = Done,
           \A k \in Callers : msg[k].at = "ban" => msg'[k] = msg[k] \/ cut',
           cut => cut',
           \A s \in Stores : /\ store'[s].strikes \in {0, store[s].strikes}
                             /\ store'[s].banned => store[s].banned
                             /\ store'[s].strikes # 0 => store'[s].banned = store[s].banned
    PROVE  SpamInv'
  <1>1. \A k \in Callers : Might(msg[k])' => Might(msg[k])
    BY DEF Might, Done
  <1>2. /\ Cardinality(Pending)' <= Cardinality(Pending)
        /\ Cardinality(Pending)' \in Nat /\ Cardinality(Pending) \in Nat
    BY <1>1, PendingFalls
  <1>3. spam \in Nat /\ spam' = spam /\ \A s \in Stores : store[s].strikes \in Nat
    BY SpamAssumption DEF SpamInv, SpamTypeOK, Data
  <1>4. Charged'
    <2>1. ASSUME NEW s \in Stores PROVE store'[s].strikes + Cardinality(Pending)' <= spam'
      <3>1. store'[s].strikes \in {0, store[s].strikes} /\ store[s].strikes \in Nat
        BY <1>3
      <3>2. store[s].strikes + Cardinality(Pending) <= spam
        BY DEF SpamInv, Charged
      <3>3. QED
        BY <1>2, <1>3, <3>1, <3>2
    <2>2. ASSUME NEW k \in Callers, msg'[k].at = "strike"
          PROVE  msg'[k].seen + Cardinality(Pending)' <= spam'
      <3>1. msg'[k] = msg[k]
        BY <2>2 DEF Done
      <3>2. msg[k].seen \in Nat /\ msg[k].seen + Cardinality(Pending) <= spam
        BY <2>2, <3>1, SpamAssumption DEF SpamInv, SpamTypeOK, Message, Charged
      <3>3. QED
        BY <1>2, <1>3, <3>1, <3>2
    <2>3. QED
      BY <2>1, <2>2 DEF Charged
  <1>5. Earned'
    BY <1>3 DEF SpamInv, Earned, Done
  <1>6. Followed'
    <2>1. ASSUME NEW s \in Stores, store'[s].strikes >= MaxStrikes
          PROVE  store'[s].banned \/ cut' \/ \E k \in Callers : msg'[k].at = "ban" /\ msg'[k].in = s
      <3>1. store'[s].strikes = store[s].strikes /\ store'[s].banned = store[s].banned
        BY <1>3, <2>1 DEF MaxStrikes
      <3>2. QED
        BY <2>1, <3>1 DEF SpamInv, Followed
    <2>2. QED
      BY <2>1 DEF Followed
  <1>7. QED
    BY <1>4, <1>5, <1>6 DEF SpamInv

LEMMA SpamInit == SInit => SpamInv
  <1> SUFFICES ASSUME SInit
               PROVE  SpamInv
    OBVIOUS
  <1>1. SpamTypeOK
    <2>1. Clean \in Data /\ Done \in Message
      BY SpamAssumption DEF Data, Clean, Message, Done, Stores
    <2>2. 0 \in 0..MaxSpam
      BY SpamAssumption
    <2>3. QED
      BY <2>1, <2>2, SpamAssumption DEF SInit, FInit, SpamTypeOK
  <1>2. (\A k \in Callers : msg[k] = Done) /\ spam = 0 /\ \A s \in Stores : store[s] = Clean
    BY SpamAssumption DEF SInit, FInit
  <1>3. Pending = {}
    BY <1>2 DEF Pending, Might, Done
  <1>4. Cardinality(Pending) = 0
    BY <1>3, FS_EmptySet
  <1>5. QED
    BY <1>1, <1>2, <1>4 DEF SpamInv, Charged, Earned, Followed, Clean, Done, MaxStrikes

\* Every action of the gate keeps the invariant.
LEMMA SpamStep == SpamInv /\ [SNext]_svars => SpamInv'
  <1> SUFFICES ASSUME SpamInv, [SNext]_svars
               PROVE  SpamInv'
    OBVIOUS
  <1>0. SpamTypeOK /\ Stores = {"fake", "real"} /\ NoData \in Data /\ NoData.strikes = 0 /\ ~NoData.banned
    BY SpamAssumption DEF SpamInv, Stores, Data, Clean
  <1>1. ASSUME NEW k \in Callers, Receive(k)
        PROVE  SpamInv'
    <2>1. PICK t \in Texts :
              /\ spam' = IF t >= 30 THEN spam + 1 ELSE spam
              /\ spam' <= MaxSpam
              /\ msg' = [msg EXCEPT ![k] = [Done EXCEPT !.at = "listed", !.score = t]]
      BY <1>1 DEF Receive
    <2> DEFINE m == [Done EXCEPT !.at = "listed", !.score = t]
    <2>2. m \in Message /\ m.at = "listed" /\ m.score = t /\ t \in Nat
      <3>1. Done \in Message /\ t \in Nat /\ "listed" \in Ats
        BY SpamAssumption DEF Done, Message, Stores, Ats
      <3>2. m \in Message
        BY <3>1, MessageUpdates
      <3>3. QED
        BY <3>1, <3>2 DEF Done
    <2>3. UNCHANGED <<client, recent, up, got, store, cut>> /\ msg[k].at = "idle"
      BY <1>1 DEF Receive, fvars
    <2>4. msg' = [msg EXCEPT ![k] = m]
      BY <2>1
    <2> HIDE DEF m
    <2>5. msg'[k] = m /\ \A j \in Callers \ {k} : msg'[j] = msg[j]
      BY <1>0, <2>4 DEF SpamTypeOK
    <2>6. spam \in Nat /\ spam' \in 0..MaxSpam /\ spam' >= spam
      BY <1>0, <2>1, <2>2, SpamAssumption DEF SpamTypeOK
    <2>7. SpamTypeOK'
      BY <1>0, <2>2, <2>3, <2>4, <2>6 DEF SpamTypeOK
    <2>8. /\ Cardinality(Pending) \in Nat /\ Cardinality(Pending)' \in Nat
          /\ Cardinality(Pending)' + spam <= Cardinality(Pending) + spam'
      <3>1. Pending \in SUBSET Callers /\ k \notin Pending
        BY <2>3 DEF Pending, Might
      <3>2. Pending' = IF t >= 30 THEN Pending \cup {k} ELSE Pending
        <4>1. Might(msg[k])' <=> t >= 30
          BY <2>2, <2>5 DEF Might
        <4>2. \A j \in Callers \ {k} : Might(msg[j])' <=> Might(msg[j])
          BY <2>5 DEF Might
        <4>3. QED
          BY <3>1, <4>1, <4>2 DEF Pending
      <3>3. Pending' \in SUBSET Callers
        BY DEF Pending
      <3>4. Cardinality(Pending) \in Nat /\ Cardinality(Pending)' \in Nat
        BY <3>1, <3>3, PendingCounted
      <3>5. CASE t >= 30
        <4>1. Cardinality(Pending)' = Cardinality(Pending) + 1
          BY <3>1, <3>2, <3>5, PendingCounted
        <4>2. QED
          BY <2>1, <2>6, <3>4, <3>5, <4>1
      <3>6. CASE ~(t >= 30)
        BY <2>1, <2>6, <3>2, <3>4, <3>6
      <3>7. QED
        BY <3>5, <3>6
    <2>9. Charged'
      <3>1. ASSUME NEW s \in Stores PROVE store'[s].strikes + Cardinality(Pending)' <= spam'
        <4>1. store[s].strikes \in Nat /\ store[s].strikes + Cardinality(Pending) <= spam
          BY <1>0, SpamAssumption DEF SpamTypeOK, Data, SpamInv, Charged
        <4>2. QED
          BY <2>3, <2>6, <2>8, <4>1
      <3>2. ASSUME NEW j \in Callers, msg'[j].at = "strike"
            PROVE  msg'[j].seen + Cardinality(Pending)' <= spam'
        <4>1. j # k /\ msg'[j] = msg[j]
          BY <2>2, <2>5, <3>2
        <4>2. msg[j].seen \in Nat /\ msg[j].seen + Cardinality(Pending) <= spam
          BY <1>0, <3>2, <4>1, SpamAssumption DEF SpamTypeOK, Message, SpamInv, Charged
        <4>3. QED
          BY <2>6, <2>8, <4>1, <4>2
      <3>3. QED
        BY <3>1, <3>2 DEF Charged
    <2>10. Earned'
      <3>1. \A j \in Callers : msg'[j].at = "ban" => msg[j].at = "ban"
        BY <2>2, <2>5
      <3>2. QED
        BY <2>3, <2>6, <3>1 DEF SpamInv, Earned, MaxStrikes
    <2>11. Followed'
      <3>1. \A j \in Callers : msg[j].at = "ban" => msg'[j] = msg[j]
        BY <2>3, <2>5
      <3>2. QED
        BY <2>3, <3>1 DEF SpamInv, Followed
    <2>12. QED
      BY <2>7, <2>9, <2>10, <2>11 DEF SpamInv
  <1>2. ASSUME NEW k \in Callers, NEW s \in Stores, Step(k, s)
        PROVE  SpamInv'
    BY <1>2, MessageStep
  <1>3. ASSUME NEW k \in Callers, Dropped(k)
        PROVE  SpamInv'
    <2>1. /\ msg' = [msg EXCEPT ![k] = Done] /\ cut' = (cut \/ msg[k].at = "ban")
          /\ got' = [got EXCEPT ![k] = "no"] /\ UNCHANGED <<client, recent, up, store, spam>>
      BY <1>3 DEF Dropped, Release
    <2>2. Done \in Message
      BY SpamAssumption DEF Done, Message, Stores
    <2>3. SpamTypeOK'
      BY <1>0, <2>1, <2>2 DEF SpamTypeOK
    <2>4. msg'[k] = Done /\ \A j \in Callers \ {k} : msg'[j] = msg[j]
      BY <1>0, <2>1 DEF SpamTypeOK
    <2>5. QED
      BY <1>0, <2>1, <2>3, <2>4, StoresStep DEF SpamTypeOK
  <1>4. ASSUME NEW k \in Callers, FStep(k), UNCHANGED <<msg, spam, cut>>
        PROVE  SpamInv'
    <2>1. CASE Ping(k) \/ Pong(k)
      <3>1. SpamTypeOK' /\ UNCHANGED store
        BY <1>0, <1>4, <2>1 DEF Ping, Pong, SpamTypeOK
      <3>2. QED
        BY <1>4, <3>1, StoresStep
    <2>2. CASE PingFailed(k)
      <3>1. \/ UNCHANGED <<client, store>> /\ client \notin {"none", "real"}
            \/ /\ client' = "fake"
               /\ \E old \in {NoData, store["fake"]} : store' = [store EXCEPT !["fake"] = old]
        BY <2>2 DEF PingFailed, Falls
      <3>2. got' = [got EXCEPT ![k] = client'] /\ UNCHANGED <<recent, up>>
        BY <2>2 DEF PingFailed
      <3>3. client' \in {"fake"} /\ client' \in Stores
        BY <1>0, <3>1 DEF SpamTypeOK
      <3>4. /\ store' \in [Stores -> Data]
            /\ \A s \in Stores : store'[s] \in {NoData, store[s]}
        BY <1>0, <3>1 DEF SpamTypeOK
      <3>5. SpamTypeOK'
        BY <1>0, <1>4, <3>2, <3>3, <3>4 DEF SpamTypeOK
      <3>6. \A s \in Stores : /\ store'[s].strikes \in {0, store[s].strikes}
                              /\ store'[s].banned => store[s].banned
                              /\ store'[s].strikes # 0 => store'[s].banned = store[s].banned
        BY <1>0, <3>4
      <3>7. QED
        BY <1>4, <3>5, <3>6, StoresStep
    <2>3. QED
      BY <1>4, <2>1, <2>2 DEF FStep
  <1>5. CASE (CooldownOver \/ ServerChanges) /\ UNCHANGED <<msg, spam, cut>>
    <2>1. SpamTypeOK' /\ UNCHANGED store
      BY <1>0, <1>5 DEF CooldownOver, ServerChanges, SpamTypeOK
    <2>2. QED
      BY <1>5, <2>1, StoresStep
  <1>6. ASSUME NEW s \in Stores, Forgets(s)
        PROVE  SpamInv'
    <2>1. UNCHANGED <<client, recent, up, got, msg, spam, cut>>
      BY <1>6 DEF Forgets
    <2>2. store[s] \in Data /\ store[s].strikes \in Nat
      BY <1>0, SpamAssumption DEF SpamTypeOK, Data
    <2>3. \/ store' = [store EXCEPT ![s].hot = FALSE]
          \/ store' = [store EXCEPT ![s].strikes = 0]
          \/ store[s].strikes = 0 /\ store' = [store EXCEPT ![s].banned = FALSE]
      BY <1>6 DEF Forgets
    <2>4. store' \in [Stores -> Data]
      <3>1. /\ [store[s] EXCEPT !.hot = FALSE] \in Data
            /\ [store[s] EXCEPT !.banned = FALSE] \in Data
        BY <2>2 DEF Data
      <3>2. [store[s] EXCEPT !.strikes = 0] \in Data
        BY <2>2, SpamAssumption DEF Data
      <3>3. QED
        BY <1>0, <2>3, <3>1, <3>2 DEF SpamTypeOK
    <2>5. \A o \in Stores : /\ store'[o].strikes \in {0, store[o].strikes}
                            /\ store'[o].banned => store[o].banned
                            /\ store'[o].strikes # 0 => store'[o].banned = store[o].banned
      BY <1>0, <2>2, <2>3 DEF SpamTypeOK, Data
    <2>6. SpamTypeOK'
      BY <1>0, <2>1, <2>4 DEF SpamTypeOK
    <2>7. QED
      BY <2>1, <2>5, <2>6, StoresStep
  <1>7. CASE ProcessEnds
    <2>1. /\ client' = "none" /\ recent' = FALSE /\ got' = [k \in Callers |-> "no"]
          /\ store' = [store EXCEPT !["fake"] = NoData] /\ UNCHANGED <<up, spam>>
          /\ msg' = [k \in Callers |-> Done]
          /\ cut' = (cut \/ \E k \in Callers : msg[k].at = "ban")
      BY <1>7 DEF ProcessEnds, Restart
    <2>2. Done \in Message
      BY SpamAssumption DEF Done, Message, Stores
    <2>3. cut' \in BOOLEAN
      BY <2>1, Zenon
    <2>4. SpamTypeOK'
      BY <1>0, <2>1, <2>2, <2>3 DEF SpamTypeOK
    <2>5. \A s \in Stores : /\ store'[s].strikes \in {0, store[s].strikes}
                            /\ store'[s].banned => store[s].banned
                            /\ store'[s].strikes # 0 => store'[s].banned = store[s].banned
      BY <1>0, <2>1 DEF SpamTypeOK
    <2>6. QED
      BY <2>1, <2>4, <2>5, StoresStep
  <1>8. CASE UNCHANGED svars
    <2>1. UNCHANGED <<client, recent, up, got, store, msg, spam, cut>>
      BY <1>8 DEF svars, fvars
    <2>2. SpamTypeOK'
      BY <1>0, <2>1 DEF SpamTypeOK
    <2>3. QED
      BY <2>1, <2>2, StoresStep
  <1>9. QED
    BY <1>1, <1>2, <1>3, <1>4, <1>5, <1>6, <1>7, <1>8 DEF SNext

LEMMA SpamInvariant == SSpec => []SpamInv
  BY SpamInit, SpamStep, PTL DEF SSpec

\* A customer on the blacklist has sent three messages whose own text scored, however messages
\* overlap and stores change over.
THEOREM BannedForTextSafe == SSpec => []BannedForText
  <1>1. SpamInv => BannedForText
    BY DEF SpamInv, Earned, BannedForText
  <1>2. QED
    BY <1>1, SpamInvariant, PTL

\* Three strikes are followed by the ban, unless the two writes were cut apart.
THEOREM StruckOutSafe == SSpec => []StruckOutIsBanned
  <1>1. SpamInv => StruckOutIsBanned
    BY DEF SpamInv, Followed, StruckOutIsBanned
  <1>2. QED
    BY <1>1, SpamInvariant, PTL

----------------------------------------------------------------------------
(* The challenge rounds *)

\* What the makers keep apart, and the times that are written.
MakersApart ==
    /\ \A m \in Makers : maker[m].at = "idle" <=> maker[m].id = NoId
    /\ \A m, o \in Makers : (m # o /\ maker[m].id # NoId) => maker[m].id # maker[o].id

Started(of) == of.starts <= hour /\ of.ends = of.starts + Duration

Timed ==
    /\ \A m \in Makers : maker[m].at \in {"announce", "commit"} => Started(maker[m].of)
    /\ \A i \in Ids : round[i].status = "active" => Started(round[i])

\* The time a challenge in the making starts at, or the earliest it can.
StartOf(m) == IF maker[m].at = "write" THEN hour ELSE maker[m].of.starts

OneMaker == \A m, o \in Makers : (maker[m].at # "idle" /\ maker[o].at # "idle") => m = o

\* RoundsApart is not inductive: a challenge is committed long after the scheduler looked.  All
\* that while, every challenge that runs had ended before the one in the making starts.
Clear ==
    \A m \in Makers, i \in Ids :
        (maker[m].at # "idle" /\ round[i].status = "active") => round[i].ends <= StartOf(m)

Spaced ==
    \A i, j \in Ids : (i # j /\ round[i].status = "active" /\ round[j].status = "active") =>
        round[j].starts >= round[i].ends \/ round[i].starts >= round[j].ends

RoundsInv == RoundsTypeOK /\ MakersApart /\ Timed /\ (orderly => OneMaker /\ Clear /\ Spaced)

LEMMA RoundNumbers ==
    /\ Interval \in Nat /\ Duration \in Nat /\ LastHour \in Nat
    /\ \A h \in Hours : h \in Nat /\ h + Duration \in 0..(LastHour + Duration)
    /\ \A r \in Round : r.starts \in Nat /\ r.ends \in Nat
    /\ 0 \in Hours /\ 0 \in 0..(LastHour + Duration)
  <1>1. Interval \in Nat /\ Duration \in Nat /\ LastHour \in Nat
    BY RoundTimes
  <1>2. \A h \in Hours : h \in Nat /\ h + Duration \in 0..(LastHour + Duration)
    BY <1>1 DEF Hours
  <1>3. \A r \in Round : r.starts \in Nat /\ r.ends \in Nat
    BY <1>1 DEF Round, Hours
  <1>4. 0 \in Hours /\ 0 \in 0..(LastHour + Duration)
    BY <1>1 DEF Hours
  <1>5. QED
    BY <1>1, <1>2, <1>3, <1>4

LEMMA NoMakerTyped == NoRound \in Round /\ NoMaker \in Maker /\ NoMaker.at = "idle" /\ NoMaker.id = NoId
  BY RoundNumbers DEF NoRound, Round, NoMaker, Maker

\* One maker goes on as r.
LEMMA MakerGoes ==
    ASSUME RoundsInv, NEW m \in Makers, NEW r \in Maker, maker' = [maker EXCEPT ![m] = r],
           UNCHANGED <<hour, round>>, boot' \in {"none yet", "made one", "passed"},
           orderly' \in BOOLEAN, orderly' => orderly,
           r.id \notin Rows, r.at = "idle" <=> r.id = NoId,
           r.id # NoId => \A o \in Makers \ {m} : maker[o].id # r.id,
           r.at \in {"announce", "commit"} => Started(r.of),
           (orderly' /\ r.at # "idle") =>
               /\ \A o \in Makers \ {m} : maker[o].at = "idle"
               /\ \A i \in Ids : round[i].status = "active" =>
                      round[i].ends <= IF r.at = "write" THEN hour ELSE r.of.starts
    PROVE  RoundsInv'
  <1>1. RoundsTypeOK /\ maker'[m] = r /\ \A o \in Makers \ {m} : maker'[o] = maker[o]
    BY DEF RoundsInv, RoundsTypeOK
  <1>2. Rows' = Rows
    BY DEF Rows
  <1>3. RoundsTypeOK'
    BY <1>1, <1>2 DEF RoundsTypeOK
  <1>4. MakersApart'
    BY <1>1 DEF RoundsInv, MakersApart
  <1>5. Timed'
    BY <1>1 DEF RoundsInv, Timed, Started
  <1>6. ASSUME orderly' PROVE OneMaker' /\ Clear' /\ Spaced'
    <2>1. OneMaker /\ Clear /\ Spaced
      BY <1>6 DEF RoundsInv
    <2>a. r.at # "idle" => /\ \A o \in Makers \ {m} : maker[o].at = "idle"
                           /\ \A i \in Ids : round[i].status = "active" =>
                                  round[i].ends <= IF r.at = "write" THEN hour ELSE r.of.starts
      BY <1>6, Zenon
    <2>2. OneMaker'
      <3>1. ASSUME NEW a \in Makers, NEW b \in Makers, maker'[a].at # "idle", maker'[b].at # "idle"
            PROVE  a = b
        <4>1. CASE r.at = "idle"
          <5>1. a # m /\ b # m
            BY <1>1, <3>1, <4>1
          <5>2. maker'[a] = maker[a] /\ maker'[b] = maker[b]
            BY <1>1, <5>1
          <5>3. QED
            BY <2>1, <3>1, <5>2 DEF OneMaker
        <4>2. CASE r.at # "idle"
          <5>1. \A o \in Makers \ {m} : maker'[o].at = "idle"
            BY <1>1, <2>a, <4>2
          <5>2. QED
            BY <3>1, <5>1
        <4>3. QED
          BY <4>1, <4>2
      <3>2. QED
        BY <3>1 DEF OneMaker
    <2>3. Clear'
      <3>1. ASSUME NEW o \in Makers, NEW i \in Ids, maker'[o].at # "idle", round[i].status = "active"
            PROVE  round[i].ends <= StartOf(o)'
        <4>1. CASE o = m
          BY <1>1, <2>a, <3>1, <4>1 DEF StartOf
        <4>2. CASE o # m
          BY <1>1, <2>1, <3>1, <4>2 DEF Clear, StartOf
        <4>3. QED
          BY <4>1, <4>2
      <3>2. QED
        BY <3>1 DEF Clear
    <2>4. Spaced'
      BY <2>1 DEF Spaced
    <2>5. QED
      BY <2>2, <2>3, <2>4
  <1>7. QED
    BY <1>3, <1>4, <1>5, <1>6 DEF RoundsInv

LEMMA HasEnded ==
    ASSUME RoundsInv, NEW j \in Ids, round[j].status = "active", ~Running(j)
    PROVE  round[j].ends <= hour
  <1>1. round[j].starts <= hour
    BY DEF RoundsInv, Timed, Started
  <1>2. round[j] \in Round /\ hour \in Hours
    BY DEF RoundsInv, RoundsTypeOK
  <1>3. hour \in Nat /\ round[j].ends \in Nat
    BY <1>2, RoundNumbers
  <1>4. QED
    BY <1>1, <1>3 DEF Running

\* A creation begins with an id that no row and no other creation has.
LEMMA MakeKeeps ==
    ASSUME RoundsInv, NEW m \in Makers, NEW auto \in BOOLEAN, Make(m, auto),
           UNCHANGED <<hour, round>>, boot' \in {"none yet", "made one", "passed"},
           auto => \A i \in Ids : ~Running(i)
    PROVE  RoundsInv'
  <1>1. PICK i \in Free :
            maker' = [maker EXCEPT ![m] =
                [at |-> "write", id |-> i, of |-> [NoRound EXCEPT !.born = hour, !.auto = auto]]]
    BY DEF Make
  <1> DEFINE f == [NoRound EXCEPT !.born = hour, !.auto = auto]
             r == [at |-> "write", id |-> i, of |-> f]
  <1>2. RoundsTypeOK /\ orderly \in BOOLEAN
    BY DEF RoundsInv, RoundsTypeOK
  <1>3. f \in Round
    BY <1>2, NoMakerTyped, Zenon DEF Round, RoundsTypeOK
  <1>4. /\ i \in Ids /\ i # NoId /\ i \notin Rows
        /\ \A o \in Makers : maker[o].id # i
    BY <1>1, NoIdIsNone DEF Free
  <1>5. maker' = [maker EXCEPT ![m] = r]
    BY <1>1
  <1> HIDE DEF f
  <1>6. r \in Maker /\ r.at = "write" /\ r.id = i
    BY <1>3, <1>4 DEF Maker
  <1> HIDE DEF r
  <1>7. orderly' \in BOOLEAN
    BY Zenon DEF Make
  <1>8. ASSUME orderly'
        PROVE  orderly /\ auto /\ \A o \in Makers : maker[o].at = "idle"
    BY <1>8, Zenon DEF Make
  <1>9. ASSUME orderly', NEW j \in Ids, round[j].status = "active"
        PROVE  round[j].ends <= hour
    <2>1. ~Running(j)
      BY <1>8, <1>9, Zenon
    <2>2. QED
      BY <1>9, <2>1, HasEnded, Zenon
  <1>10. QED
    BY <1>4, <1>5, <1>6, <1>7, <1>8, <1>9, MakerGoes

\* Every action of the rounds keeps the invariant.
LEMMA RoundsStep == RoundsInv /\ [CNext]_cvars => RoundsInv'
  <1> SUFFICES ASSUME RoundsInv, [CNext]_cvars
               PROVE  RoundsInv'
    OBVIOUS
  <1>0. /\ RoundsTypeOK /\ orderly \in BOOLEAN /\ boot \in {"none yet", "made one", "passed"}
        /\ maker \in [Makers -> Maker] /\ round \in [Ids -> Round]
    BY DEF RoundsInv, RoundsTypeOK
  <1>t. hour \in Nat /\ Duration \in Nat /\ hour \in Hours /\ hour <= LastHour /\ LastHour \in Nat
    <2>1. hour \in Hours
      BY <1>0 DEF RoundsTypeOK
    <2>2. Duration \in Nat /\ LastHour \in Nat
      BY RoundNumbers
    <2>3. QED
      BY <2>1, <2>2 DEF Hours
  <1>1. ASSUME NEW m \in Makers, LookDue(m)
        PROVE  RoundsInv'
    <2>1. Make(m, TRUE) /\ (\A i \in Ids : ~Running(i)) /\ UNCHANGED <<hour, round>>
      BY <1>1 DEF LookDue, Due
    <2>2. boot' \in {"none yet", "made one", "passed"}
      BY <1>0, <1>1 DEF LookDue
    <2>3. QED
      BY <2>1, <2>2, MakeKeeps
  <1>2. ASSUME NEW m \in Makers, Order(m)
        PROVE  RoundsInv'
    <2>1. Make(m, FALSE) /\ UNCHANGED <<hour, round, boot>>
      BY <1>2 DEF Order
    <2>2. QED
      BY <1>0, <2>1, MakeKeeps
  <1>3. ASSUME NEW m \in Makers, Written(m)
        PROVE  RoundsInv'
    <2> DEFINE f == [maker[m].of EXCEPT !.starts = hour, !.ends = hour + Duration]
               r == [maker[m] EXCEPT !.at = "announce", !.of = f]
    <2>1. /\ maker[m].at = "write" /\ UNCHANGED <<hour, round, boot, orderly>>
          /\ maker' = [maker EXCEPT ![m] = r]
      BY <1>0, <1>3 DEF Written, Maker, Round
    <2>2. maker[m] \in Maker /\ maker[m].of \in Round
      BY <1>0 DEF Maker
    <2>3. f \in Round /\ f.starts = hour /\ f.ends = hour + Duration
      <3>1. hour \in Hours /\ hour + Duration \in 0..(LastHour + Duration)
        BY RoundNumbers DEF RoundsInv, RoundsTypeOK
      <3>2. f \in Round
        BY <2>2, <3>1, Zenon DEF Round
      <3>3. QED
        BY <2>2, <3>2 DEF Round
    <2> HIDE DEF f
    <2>4. r \in Maker /\ r.at = "announce" /\ r.id = maker[m].id /\ r.of = f
      BY <2>2, <2>3 DEF Maker
    <2> HIDE DEF r
    <2>5. r.id \notin Rows /\ r.id # NoId /\ \A o \in Makers \ {m} : maker[o].id # r.id
      BY <1>0, <2>1, <2>4 DEF RoundsTypeOK, RoundsInv, MakersApart
    <2>6. orderly => /\ \A o \in Makers \ {m} : maker[o].at = "idle"
                     /\ \A i \in Ids : round[i].status = "active" => round[i].ends <= hour
      BY <2>1 DEF RoundsInv, OneMaker, Clear, StartOf
    <2>7. Started(r.of)
      BY <1>t, <2>3, <2>4 DEF Started
    <2>8. QED
      BY <1>0, <2>1, <2>3, <2>4, <2>5, <2>6, <2>7, MakerGoes
  <1>4. ASSUME NEW m \in Makers, Announce(m)
        PROVE  RoundsInv'
    <2>1. PICK status \in {"active", "publish_failed"} :
              maker' = [maker EXCEPT ![m].at = "commit", ![m].of.status = status]
      BY <1>4 DEF Announce
    <2> DEFINE f == [maker[m].of EXCEPT !.status = status]
               r == [maker[m] EXCEPT !.at = "commit", !.of = f]
    <2>2. /\ maker[m].at = "announce" /\ UNCHANGED <<hour, round, boot, orderly>>
      BY <1>4 DEF Announce
    <2>b. maker' = [maker EXCEPT ![m] = r]
      BY <1>0, <2>1 DEF Maker, Round
    <2>3. maker[m] \in Maker /\ maker[m].of \in Round
      BY <1>0 DEF Maker
    <2>4. f \in Round /\ f.starts = maker[m].of.starts /\ f.ends = maker[m].of.ends
      BY <2>3 DEF Round
    <2> HIDE DEF f
    <2>5. r \in Maker /\ r.at = "commit" /\ r.id = maker[m].id /\ r.of = f
      BY <2>3, <2>4 DEF Maker
    <2> HIDE DEF r
    <2>6. r.id \notin Rows /\ r.id # NoId /\ \A o \in Makers \ {m} : maker[o].id # r.id
      BY <1>0, <2>2, <2>5 DEF RoundsTypeOK, RoundsInv, MakersApart
    <2>7. orderly => /\ \A o \in Makers \ {m} : maker[o].at = "idle"
                     /\ \A i \in Ids : round[i].status = "active" => round[i].ends <= r.of.starts
      BY <2>2, <2>4, <2>5 DEF RoundsInv, OneMaker, Clear, StartOf
    <2>8. Started(r.of)
      BY <2>2, <2>4, <2>5 DEF RoundsInv, Timed, Started
    <2>9. QED
      BY <1>0, <2>2, <2>b, <2>5, <2>6, <2>7, <2>8, MakerGoes
  <1>5. ASSUME NEW m \in Makers, Failed(m)
        PROVE  RoundsInv'
    <2>1. NoMaker.id \notin Rows
      BY NoMakerTyped, NoIdIsNone DEF Rows
    <2>2. maker' = [maker EXCEPT ![m] = NoMaker] /\ UNCHANGED <<hour, round, boot, orderly>>
      BY <1>5 DEF Failed
    <2>3. QED
      BY <1>0, <2>1, <2>2, NoMakerTyped, MakerGoes
  <1>6. ASSUME NEW m \in Makers, Store(m)
        PROVE  RoundsInv'
    <2> DEFINE i == maker[m].id
               f == maker[m].of
    <2>1. /\ maker[m].at = "commit" /\ round' = [round EXCEPT ![i] = f]
          /\ maker' = [maker EXCEPT ![m] = NoMaker] /\ UNCHANGED <<hour, boot, orderly>>
      BY <1>6 DEF Store
    <2>2. i \in Ids /\ f \in Round /\ i \notin Rows
      BY <1>0, <2>1 DEF Maker, RoundsTypeOK, RoundsInv, MakersApart
    <2>3. /\ \A o \in Makers \ {m} : maker[o].id # i /\ maker[o].id \notin Rows
          /\ Started(f)
      BY <1>0, <2>1, <2>2, NoIdIsNone DEF RoundsInv, RoundsTypeOK, MakersApart, Timed
    <2>4. orderly => /\ OneMaker /\ Spaced
                     /\ \A j \in Ids : round[j].status = "active" => round[j].ends <= f.starts
      BY <2>1 DEF RoundsInv, Clear, StartOf
    <2>5. NoMaker \in Maker /\ NoMaker.at = "idle" /\ NoMaker.id = NoId /\ NoId \notin Ids
      BY NoMakerTyped, NoIdIsNone
    <2> HIDE DEF i, f
    <2>6. /\ maker'[m] = NoMaker /\ \A o \in Makers \ {m} : maker'[o] = maker[o]
          /\ round'[i] = f /\ \A j \in Ids \ {i} : round'[j] = round[j]
      BY <1>0, <2>1, <2>2 DEF RoundsTypeOK
    <2>7. Rows' \subseteq Rows \cup {i} /\ Rows' \subseteq Ids
      BY <2>6 DEF Rows
    <2>8. RoundsTypeOK'
      <3>1. round' \in [Ids -> Round] /\ maker' \in [Makers -> Maker]
        BY <1>0, <2>1, <2>2, <2>5 DEF RoundsTypeOK
      <3>2. \A o \in Makers : maker'[o].id \notin Rows'
        BY <2>3, <2>5, <2>6, <2>7
      <3>3. QED
        BY <1>0, <2>1, <3>1, <3>2 DEF RoundsTypeOK
    <2>9. MakersApart'
      BY <2>5, <2>6 DEF RoundsInv, MakersApart
    <2>10. Timed'
      BY <2>1, <2>3, <2>5, <2>6 DEF RoundsInv, Timed, Started
    <2>11. ASSUME orderly' PROVE OneMaker' /\ Clear' /\ Spaced'
      <3>1. OneMaker /\ Spaced /\ \A j \in Ids : round[j].status = "active" => round[j].ends <= f.starts
        BY <2>1, <2>4, <2>11
      <3>2. \A o \in Makers : maker'[o].at = "idle"
        BY <2>1, <2>5, <2>6, <3>1 DEF OneMaker
      <3>3. Spaced'
        BY <2>6, <3>1 DEF Spaced
      <3>4. QED
        BY <3>2, <3>3 DEF OneMaker, Clear
    <2>12. QED
      BY <2>8, <2>9, <2>10, <2>11 DEF RoundsInv
  <1>7. CASE Reboot
    <2>1. /\ \A m \in Makers : maker'[m] = NoMaker
          /\ maker' = [m \in Makers |-> NoMaker] /\ boot' = "none yet" /\ UNCHANGED <<hour, round, orderly>>
      BY <1>7 DEF Reboot
    <2>2. NoMaker \in Maker /\ NoMaker.at = "idle" /\ NoMaker.id = NoId /\ NoId \notin Ids
      BY NoMakerTyped, NoIdIsNone
    <2>3. RoundsTypeOK'
      BY <1>0, <2>1, <2>2 DEF RoundsTypeOK, Rows
    <2>4. QED
      BY <2>1, <2>2, <2>3
         DEF RoundsInv, MakersApart, Timed, Started, OneMaker, Clear, Spaced
  <1>8. CASE HourPasses
    <2>1. hour' = hour + 1 /\ hour' \in Hours /\ UNCHANGED <<round, maker, boot, orderly>>
      BY <1>t, <1>8 DEF HourPasses, Hours
    <2>2. RoundsTypeOK'
      BY <1>0, <2>1 DEF RoundsTypeOK, Rows
    <2>3. \A of \in Round : Started(of) => Started(of)'
      BY <1>t, <2>1, RoundNumbers DEF Started
    <2>4. Timed'
      BY <1>0, <2>1, <2>3 DEF RoundsInv, Timed, RoundsTypeOK, Maker
    <2>5. ASSUME orderly' PROVE Clear'
      <3>1. ASSUME NEW m \in Makers, NEW i \in Ids, maker[m].at # "idle", round[i].status = "active"
            PROVE  round[i].ends <= StartOf(m)'
        <4>1. round[i].ends <= StartOf(m) /\ round[i].ends \in Nat
          BY <1>0, <2>1, <2>5, <3>1, RoundNumbers DEF RoundsInv, Clear, RoundsTypeOK, Round
        <4>2. StartOf(m)' = (IF maker[m].at = "write" THEN hour + 1 ELSE maker[m].of.starts)
          BY <2>1 DEF StartOf
        <4>3. QED
          BY <1>t, <4>1, <4>2 DEF StartOf
      <3>2. QED
        BY <2>1, <3>1 DEF Clear
    <2>6. QED
      BY <2>1, <2>2, <2>4, <2>5 DEF RoundsInv, MakersApart, OneMaker, Spaced
  <1>9. CASE LookNotDue \/ UNCHANGED cvars
    <2>1. UNCHANGED <<hour, round, maker, orderly>> /\ boot' \in {"none yet", "made one", "passed"}
      BY <1>0, <1>9 DEF LookNotDue, cvars
    <2>2. RoundsTypeOK'
      BY <1>0, <2>1 DEF RoundsTypeOK, Rows
    <2>3. QED
      BY <2>1, <2>2
         DEF RoundsInv, MakersApart, Timed, Started, OneMaker, Clear, Spaced, StartOf
  <1>10. QED
    BY <1>1, <1>2, <1>3, <1>4, <1>5, <1>6, <1>7, <1>8, <1>9 DEF CNext

LEMMA RoundsInit == CInit => RoundsInv
  <1> SUFFICES ASSUME CInit
               PROVE  RoundsInv
    OBVIOUS
  <1>1. NoRound \in Round /\ NoMaker \in Maker /\ NoMaker.at = "idle" /\ NoMaker.id = NoId /\ NoId \notin Ids
    BY NoMakerTyped, NoIdIsNone
  <1>2. (\A i \in Ids : round[i].status = "none") /\ \A m \in Makers : maker[m] = NoMaker
    BY DEF CInit, NoRound
  <1>3. RoundsTypeOK
    BY <1>1, <1>2, RoundNumbers DEF CInit, RoundsTypeOK, Rows, Hours
  <1>4. QED
    BY <1>1, <1>2, <1>3 DEF RoundsInv, MakersApart, Timed, OneMaker, Clear, Spaced

LEMMA RoundsInvariant == CSpec => []RoundsInv
  BY RoundsInit, RoundsStep, PTL DEF CSpec

\* Every variable of the rounds keeps its type, and no row is written twice.
THEOREM RoundsTyped == CSpec => []RoundsTypeOK
  <1>1. RoundsInv => RoundsTypeOK
    BY DEF RoundsInv
  <1>2. QED
    BY <1>1, RoundsInvariant, PTL

\* When a challenge runs at least as long as the interval, as the configured ones do
\* (core/config.py:60-61), challenges of the scheduler are an interval apart and never overlap.
THEOREM RoundsApartSafe == (Duration >= Interval) => (CSpec => []RoundsApart)
  <1> SUFFICES ASSUME Duration >= Interval
               PROVE  CSpec => []RoundsApart
    OBVIOUS
  <1>1. RoundsInv => RoundsApart
    <2> SUFFICES ASSUME RoundsInv, orderly, NEW i \in Ids, NEW j \in Ids, i # j,
                        round[i].status = "active", round[j].status = "active"
                 PROVE  \/ /\ round[j].starts >= round[i].starts + Interval
                           /\ round[j].starts >= round[i].ends
                        \/ /\ round[i].starts >= round[j].starts + Interval
                           /\ round[i].starts >= round[j].ends
      BY DEF RoundsApart
    <2>1. round[j].starts >= round[i].ends \/ round[i].starts >= round[j].ends
      BY DEF RoundsInv, Spaced
    <2>2. round[i].ends = round[i].starts + Duration /\ round[j].ends = round[j].starts + Duration
      BY DEF RoundsInv, Timed, Started
    <2>3. round[i].starts \in Nat /\ round[j].starts \in Nat
      BY RoundNumbers DEF RoundsInv, RoundsTypeOK
    <2>4. QED
      BY <2>1, <2>2, <2>3, RoundNumbers
  <1>2. QED
    BY <1>1, RoundsInvariant, PTL

----------------------------------------------------------------------------
(* The three of them *)

\* Whichever of the three is at work, every variable of all of them keeps its type.
THEOREM GatesTyped == GatesSpec => []GatesTypeOK
  <1> DEFINE Inv == GateInv /\ SpamInv /\ RoundsInv
  <1>1. GatesInit => Inv
    BY GateInit, SpamInit, RoundsInit DEF GatesInit
  <1>2. Inv /\ [GatesNext]_gates => Inv'
    <2> SUFFICES ASSUME Inv, [GatesNext]_gates
                 PROVE  Inv'
      OBVIOUS
    <2>1. [GNext]_gvars /\ [SNext]_svars /\ [CNext]_cvars
      BY DEF GatesNext, gates
    <2>2. GateInv'
      BY <2>1, GateStep
    <2>3. SpamInv'
      BY <2>1, SpamStep
    <2>4. RoundsInv'
      BY <2>1, RoundsStep
    <2>5. QED
      BY <2>2, <2>3, <2>4
  <1>3. Inv => GatesTypeOK
    BY DEF GateInv, SpamInv, RoundsInv, GatesTypeOK
  <1> HIDE DEF Inv
  <1>4. QED
    BY <1>1, <1>2, <1>3, PTL DEF GatesSpec

================================================================================
