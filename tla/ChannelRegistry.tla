---------------------------- MODULE ChannelRegistry ----------------------------
(***************************************************************************)
(* The table of channels of one account: the discovery that scans the      *)
(* account's dialogs and brings the table in line with what it found, and  *)
(* the REST calls on the table.  A discovery is started five seconds after *)
(* every connection of the account, by the admin bot and by a REST call;   *)
(* nothing keeps two of them apart, and nothing keeps the id of a channel  *)
(* unique.                                                                 *)
(***************************************************************************)
EXTENDS FiniteSets, Functions

CONSTANTS
    Broadcasts, \* Telegram channels
    Rows,       \* rows of the table (a bound)
    Scans,      \* discoveries under way at the same time
    NoChannel

ASSUME NoChannelIsNone == NoChannel \notin Broadcasts

VARIABLES
    posting,    \* the channels where the account is the creator or may post
    row,        \* row[r]: its channel (NoChannel: no such row) and is_active
    scan,       \* scan[s]: where discovery s is
    mirror,     \* history: what the discovery that wrote last had found, if nobody changed
                \* the table since that discovery read it
    apart       \* history: no two discoveries overlapped, and no row was posted

rvars == <<posting, row, scan, mirror, apart>>

Row == [of: Broadcasts \cup {NoChannel}, active: BOOLEAN]
NoRow == [of |-> NoChannel, active |-> FALSE]

Scan == [at: {"idle", "dialogs", "write"}, todo: SUBSET Broadcasts,
         found: SUBSET Broadcasts, loaded: [Rows -> Row]]
NoScan == [at |-> "idle", todo |-> {}, found |-> {}, loaded |-> [r \in Rows |-> NoRow]]

RInit ==
    /\ posting \in SUBSET Broadcasts
    /\ row = [r \in Rows |-> NoRow]
    /\ scan = [s \in Scans |-> NoScan]
    /\ mirror = {} /\ apart = TRUE

----------------------------------------------------------------------------
\* The account is given or loses the right to post.
RightsChange(c) ==
    /\ posting' = IF c \in posting THEN posting \ {c} ELSE posting \cup {c}
    /\ UNCHANGED <<row, scan, mirror, apart>>

\* The account has a connected client: its dialogs are asked for.
BeginScan(s) ==
    /\ scan[s].at = "idle"
    /\ scan' = [scan EXCEPT ![s] = [NoScan EXCEPT !.at = "dialogs", !.todo = Broadcasts]]
    /\ apart' = (apart /\ \A o \in Scans : scan[o].at = "idle")
    /\ UNCHANGED <<posting, row, mirror>>

\* The next dialog: it counts when the account may post there now.
ReadDialog(s) ==
    /\ scan[s].at = "dialogs"
    /\ \E c \in scan[s].todo :
           scan' = [scan EXCEPT ![s].todo = @ \ {c}, ![s].found = @ \cup ({c} \cap posting)]
    /\ UNCHANGED <<posting, row, mirror, apart>>

\* The list breaks off: with an error nothing is done at all.
ScanFailed(s) ==
    /\ scan[s].at # "idle"
    /\ scan' = [scan EXCEPT ![s] = NoScan]
    /\ UNCHANGED <<posting, row, mirror, apart>>

\* Nothing found, or nothing returned: the table is left as it is.
EmptyScan(s) ==
    /\ scan[s].at = "dialogs"
    /\ scan[s].todo = {} /\ scan[s].found = {}
    /\ scan' = [scan EXCEPT ![s] = NoScan]
    /\ UNCHANGED <<posting, row, mirror, apart>>

\* Mutated: a list without channels is taken for a list.
LoadAlways(s) ==
    /\ scan[s].at = "dialogs" /\ scan[s].todo = {}
    /\ scan' = [scan EXCEPT ![s].at = "write", ![s].loaded = row]
    /\ UNCHANGED <<posting, row, mirror, apart>>

\* Otherwise the rows of the account are read.
LoadRows(s) ==
    /\ scan[s].at = "dialogs" /\ scan[s].todo = {} /\ scan[s].found # {}
    /\ scan' = [scan EXCEPT ![s].at = "write", ![s].loaded = row]
    /\ UNCHANGED <<posting, row, mirror, apart>>

\* The channels that have a row among R.
Channels(R, table) == {table[r].of : r \in R} \ {NoChannel}

\* existing_records has one row for a channel; of two, the one that was read later.
Records(s) ==
    LET t == scan[s].loaded
    IN  {R \in SUBSET {r \in Rows : t[r].of # NoChannel} :
            /\ \A q, r \in R : t[q].of = t[r].of => q = r
            /\ Channels(R, t) = Channels(Rows, t)}

\* Mutated: rows are added and reactivated, but none is deactivated.
AddOnly(s, r) == scan[s].loaded[r].active \/ scan[s].loaded[r].of \in scan[s].found

Found(s, r) == scan[s].loaded[r].of \in scan[s].found

\* Mutated: inactive rows do not count as existing.
NoActiveRow(s) ==
    scan[s].found \ Channels({r \in Rows : scan[s].loaded[r].active}, scan[s].loaded)

\* The channels that were found and have no row.
Missing(s) == scan[s].found \ Channels(Rows, scan[s].loaded)

\* The rows whose activity differs from what was found are updated, the missing channels
\* are added, and all of it is committed.
WriteRows(s) ==
    /\ scan[s].at = "write"
    /\ \E R \in Records(s), new \in Injection(Missing(s), {r \in Rows : row[r] = NoRow}) :
           row' = [r \in Rows |->
               IF r \in Range(new)
               THEN [of |-> CHOOSE c \in Missing(s) : new[c] = r, active |-> TRUE]
               ELSE IF r \in R /\ scan[s].loaded[r].active # Found(s, r)
               THEN [row[r] EXCEPT !.active = Found(s, r)]
               ELSE row[r]]
    /\ mirror' = IF scan[s].loaded = row THEN scan[s].found ELSE {}
    /\ scan' = [scan EXCEPT ![s] = NoScan]
    /\ UNCHANGED <<posting, apart>>

\* POST /channels adds a row whatever there is.
PostRow(c) ==
    /\ \E r \in Rows : row[r] = NoRow /\ row' = [row EXCEPT ![r] = [of |-> c, active |-> TRUE]]
    /\ mirror' = {} /\ apart' = FALSE
    /\ UNCHANGED <<posting, scan>>

\* DELETE /channels/{id} deactivates it, until the next discovery finds it.
DeleteRow(r) ==
    /\ row[r].active
    /\ row' = [row EXCEPT ![r].active = FALSE]
    /\ mirror' = {}
    /\ UNCHANGED <<posting, scan, apart>>

RNext ==
    \/ \E c \in Broadcasts : RightsChange(c) \/ PostRow(c)
    \/ \E s \in Scans : \/ BeginScan(s) \/ ReadDialog(s) \/ ScanFailed(s) \/ EmptyScan(s)
                        \/ LoadRows(s) \/ WriteRows(s)
    \/ \E r \in Rows : DeleteRow(r)

RSpec == RInit /\ [][RNext]_rvars

----------------------------------------------------------------------------
(* Properties *)

\* Every variable of the registry keeps its type, and a discovery that found nothing never
\* comes to write (auto_discover.py:61-72: an empty list is a failure, not a loss).
RegistryTypeOK ==
    /\ posting \subseteq Broadcasts /\ row \in [Rows -> Row] /\ scan \in [Scans -> Scan]
    /\ \A s \in Scans : scan[s].at = "write" => scan[s].found # {}
    /\ mirror \subseteq Broadcasts /\ apart \in BOOLEAN

\* A channel has one row, and is posted to once in a cycle, as long as discoveries come one
\* after the other and nobody posts rows: a channel that was lost and is found again gets
\* its old row back (auto_discover.py:86-113).
OneRowPerChannel ==
    apart => \A q, r \in Rows : (row[q].of = row[r].of /\ row[q].of # NoChannel) => q = r

\* After such a discovery the active rows are the channels it found, until somebody else
\* changes a row (auto_discover.py:78-124).
ScanIsMirrored ==
    (apart /\ mirror # {}) => Channels({r \in Rows : row[r].active}, row) = mirror

\* "DB channels no longer admin -> deactivate": when a discovery has written and nothing
\* happened since, no row of another channel is active (auto_discover.py:16, 119-122).
LostChannelsInactive ==
    (mirror # {} /\ \A s \in Scans : scan[s].at = "idle") =>
        \A r \in Rows : row[r].active => row[r].of \in mirror

================================================================================
