---------------------------- MODULE MembershipGate ----------------------------
(***************************************************************************)
(* The force-subscription gate of the public challenge bot, for one user:  *)
(* every protected handler, the Verify button and the notice of a user who *)
(* left ask the same cached check.  The check asks Telegram about every    *)
(* required channel at once, the answers come in any order, and only then  *)
(* is the result stored; updates are handled concurrently.                 *)
(***************************************************************************)
EXTENDS FiniteSets

CONSTANTS
    Channels,   \* REQUIRED_CHANNELS
    Watched,    \* those where the bot is an administrator, and is told who leaves
    Checks      \* updates of the user handled at the same time

ASSUME GateAssumption == Watched \subseteq Channels /\ Channels # {}

VARIABLES
    member,     \* the channels where the user has one of _MEMBER_STATUSES
    departures, \* leave events not handled yet: the channels left
    cache,      \* the user's entry of _cache while it is younger than CACHE_TTL
    check,      \* check[j]: where the handling of update j is
    lapsed,     \* history: a leave was handled, and the user has not joined a channel since
    settled     \* history: at that moment no check in flight had been told "joined"
                \* about the channel that was left

gvars == <<member, departures, cache, check, lapsed, settled>>

\* What is known of a channel; not_found is the status not_joined as well, made of an error
\* that names the user or the chat as not found.
Answers == {"asked", "joined", "not_joined", "not_found", "unverified"}
Check == [at: {"idle", "ask", "admitted", "refused"}, kind: {"handler", "verify", "leave"},
          answer: [Channels -> Answers],
          in: SUBSET Channels,    \* history: channels the user was in since the update came
          out: SUBSET Channels]   \* history: ... was not in since then

Asking(kind) == [at |-> "ask", kind |-> kind, answer |-> [c \in Channels |-> "asked"],
                 in |-> member, out |-> Channels \ member]
NoCheck == [Asking("handler") EXCEPT !.at = "idle", !.in = {}, !.out = {}]

GInit ==
    /\ member \in SUBSET Channels /\ departures = {} /\ cache = "none"
    /\ check = [j \in Checks |-> [NoCheck EXCEPT !.in = {}, !.out = {}]]
    /\ lapsed = FALSE /\ settled = FALSE

----------------------------------------------------------------------------
(* The user and Telegram *)

Join(c) ==
    /\ c \notin member
    /\ member' = member \cup {c}
    /\ check' = [j \in Checks |-> IF check[j].at = "idle" THEN check[j]
                                  ELSE [check[j] EXCEPT !.in = @ \cup {c}]]
    /\ lapsed' = FALSE /\ settled' = FALSE
    /\ UNCHANGED <<departures, cache>>

\* Mutated: a channel that is not required, or not watched, counts as well.
EveryLeave(c) == {c}

\* The bot is told of a leave only where it is an administrator.
Noticed(c) == {c} \cap Watched

Leave(c) ==
    /\ c \in member
    /\ member' = member \ {c}
    /\ check' = [j \in Checks |-> IF check[j].at = "idle" THEN check[j]
                                  ELSE [check[j] EXCEPT !.out = @ \cup {c}]]
    /\ departures' = departures \cup Noticed(c)
    /\ UNCHANGED <<cache, lapsed, settled>>

\* CACHE_TTL seconds have passed since the entry was stored.
Expire ==
    /\ cache # "none"
    /\ cache' = "none"
    /\ UNCHANGED <<member, departures, check, lapsed, settled>>

----------------------------------------------------------------------------
(* check_membership *)

Verdict(ok) == IF ok THEN "admitted" ELSE "refused"

\* The start of a check: the cached answer, or one question for each channel.
StartCheck(j, kind, entry) ==
    check' = [check EXCEPT ![j] = IF entry = "none" THEN Asking(kind)
                                  ELSE [Asking(kind) EXCEPT !.at = entry]]

\* A protected handler: the gate comes before anything else it does.
Update(j) ==
    /\ check[j].at = "idle"
    /\ StartCheck(j, "handler", cache)
    /\ UNCHANGED <<member, departures, cache, lapsed, settled>>

\* Mutated: the entry is left in place.
KeepEntry == cache

\* invalidate_cache
NoEntry == "none"

\* fsub_verify: the entry is dropped before the check.
TapVerify(j) ==
    /\ check[j].at = "idle"
    /\ cache' = NoEntry
    /\ StartCheck(j, "verify", NoEntry)
    /\ UNCHANGED <<member, departures, lapsed, settled>>

\* Some check in flight counts the user as a member of c.
InFlight(c) == \E j \in Checks : check[j].at = "ask" /\ check[j].answer[c] = "joined"

\* on_chat_member_updated: the entry is dropped, and a check tells the user what is missing.
HandleDeparture(j) ==
    /\ check[j].at = "idle"
    /\ \E c \in departures :
           /\ departures' = departures \ {c}
           /\ cache' = NoEntry
           /\ StartCheck(j, "leave", NoEntry)
           /\ lapsed' = (lapsed \/ c \notin member)
           /\ settled' = (settled \/ (c \notin member /\ ~InFlight(c)))
    /\ UNCHANGED member

\* getChatMember is answered for one channel, or fails for a member as for anyone else: an
\* error "user not found" or "chat not found" counts as not joined, every other one leaves
\* the channel unverified.
Answered(j, c) ==
    /\ check[j].at = "ask" /\ check[j].answer[c] = "asked"
    /\ \E a \in {IF c \in member THEN "joined" ELSE "not_joined", "not_found", "unverified"} :
           check' = [check EXCEPT ![j].answer[c] = a]
    /\ UNCHANGED <<member, departures, cache, lapsed, settled>>

\* Mutated: a channel that could not be checked is not held against the user.
Lenient(j) == \A c \in Channels : check[j].answer[c] \in {"joined", "unverified"}

AllJoined(j) == \A c \in Channels : check[j].answer[c] = "joined"

\* gather() is done: the result is stored, whatever was stored or dropped meanwhile.
Conclude(j) ==
    /\ check[j].at = "ask" /\ \A c \in Channels : check[j].answer[c] # "asked"
    /\ cache' = Verdict(AllJoined(j))
    /\ check' = [check EXCEPT ![j].at = Verdict(AllJoined(j))]
    /\ UNCHANGED <<member, departures, lapsed, settled>>

\* The handler goes on, or has shown the join screen.
Handled(j) ==
    /\ check[j].at \in {"admitted", "refused"}
    /\ check' = [check EXCEPT ![j] =
                     [@ EXCEPT !.at = "idle", !.kind = "handler", !.in = {}, !.out = {},
                               !.answer = [c \in Channels |-> "asked"]]]
    /\ UNCHANGED <<member, departures, cache, lapsed, settled>>

GNext ==
    \/ \E c \in Channels : Join(c) \/ Leave(c)
    \/ Expire
    \/ \E j \in Checks : \/ Update(j) \/ TapVerify(j) \/ HandleDeparture(j)
                         \/ Conclude(j) \/ Handled(j)
                         \/ \E c \in Channels : Answered(j, c)

GSpec == GInit /\ [][GNext]_gvars

----------------------------------------------------------------------------
(* Properties *)

\* Every variable of the gate keeps its type.
GateTypeOK ==
    /\ member \subseteq Channels /\ departures \subseteq Watched
    /\ cache \in {"none", "admitted", "refused"}
    /\ check \in [Checks -> Check]
    /\ lapsed \in BOOLEAN /\ settled \in BOOLEAN

\* The Verify button never answers from the cache: who is let in was a member of every
\* channel at some time since the tap, and who is refused was not a member of some channel
\* at some time since the tap, or a question of this very check ended in an error, which is
\* held against a member too (public_bot.py:507-509, force_sub.py:160-180, 215-239).
VerifyIsFresh ==
    \A j \in Checks : check[j].kind = "verify" =>
        /\ check[j].at = "admitted" => check[j].in = Channels
        /\ check[j].at = "refused" =>
              \/ check[j].out # {}
              \/ \E c \in Channels : check[j].answer[c] \in {"not_found", "unverified"}

\* Once the leave of a required channel has been handled while no check in flight counted on
\* that channel, nothing admits the user any more until a channel is joined again: neither
\* the stored result nor a check that is still being answered (public_bot.py:604-605).
RevokedStays ==
    settled => /\ cache # "admitted"
               /\ ~\E j \in Checks : check[j].at = "ask" /\ AllJoined(j)

\* "Invalidate cache immediately so the next bot interaction re-checks membership": after a
\* leave was handled no stored result admits the user (public_bot.py:604).
RevokedAtOnce == lapsed => cache # "admitted"

\* "Any Telegram API error is logged and treated as unverified": who is told by the Verify
\* button that a channel is not joined was outside of it (force_sub.py:30-31, 161-164).
NotJoinedIsOutside ==
    \A j \in Checks : \A c \in Channels :
        (check[j].kind = "verify" /\ check[j].answer[c] \in {"not_joined", "not_found"})
            => c \in check[j].out

=============================================================================
