------------------------------ MODULE PostOutbox ------------------------------
(***************************************************************************)
(* What the posting side promises to whoever looks at its rows, whatever   *)
(* caller, session, pause or restart is behind them: posts are accepted,   *)
(* messages are delivered, and rows are settled by what was delivered.     *)
(***************************************************************************)
CONSTANTS Posts, Channels

VARIABLES
    row,        \* row[p]: the status of post p
    report,     \* report[p]: the channels said to have it
    received    \* the <<post, channel>> pairs delivered

outbox == <<row, report, received>>

Accepted == {"draft", "scheduled", "publishing"}
Settled == {"publishing", "published", "failed"}

Init ==
    /\ row = [p \in Posts |-> "absent"]
    /\ report = [p \in Posts |-> {}]
    /\ received = {}

Accept(p) ==
    /\ row[p] = "absent"
    /\ \E s \in Accepted : row' = [row EXCEPT ![p] = s]
    /\ UNCHANGED <<report, received>>

Deliver(p, c) ==
    /\ received' = received \cup {<<p, c>>}
    /\ UNCHANGED <<row, report>>

Receivers(p) == {c \in Channels : <<p, c>> \in received}

\* One commit settles any number of posts.  A post that was taken up is never waiting
\* again, one that is new may be put in line, and only what was received is reported.
Settle ==
    /\ row' \in [Posts -> {"absent"} \cup Accepted \cup Settled]
    /\ report' \in [Posts -> SUBSET Channels]
    /\ \A p \in Posts :
           /\ \/ row'[p] = row[p]
              \/ row'[p] \in Settled
              \/ row[p] = "absent" /\ row'[p] \in Accepted
           /\ row'[p] = "published" /\ row[p] # "published" => Receivers(p) # {}
           /\ report'[p] = report[p] \/ report'[p] \subseteq Receivers(p)
    /\ UNCHANGED received

Next ==
    \/ \E p \in Posts : Accept(p) \/ \E c \in Channels : Deliver(p, c)
    \/ Settle

Spec == Init /\ [][Next]_outbox

===============================================================================
