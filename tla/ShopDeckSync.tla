----------------------------- MODULE ShopDeckSync -----------------------------
(***************************************************************************)
(* The synchronization units of sync_shopdeck_mcp_data.py: how the tables    *)
(* of ShopDeck's business system follow the source behind the MCP server.    *)
(* A unit runs in one transaction under an advisory lock that it only tries  *)
(* to take.  It reads the window from its checkpoint, less an overlap, to    *)
(* the time it started, writes the rows and moves the checkpoint.            *)
(*                                                                         *)
(* There are three kinds of units: a core table is upserted by its key, an   *)
(* event table only grows, and the NDR proxy reads the shipments that        *)
(* changed and then fetches the reports of those, chunk by chunk.  The       *)
(* model has one unit, of any kind, and the daemons that run it, which a     *)
(* second start of the script makes more than one.                           *)
(***************************************************************************)
EXTENDS Integers, SequencesExt

CONSTANTS
    Daemons, Records,
    Unresolved,   \* order lines without a sku_id that sku_name_map does not know
    Altered,      \* events that the table gives back otherwise than they came
    Overlap,      \* CLOCK_SKEW_OVERLAP_MINUTES; EVENT_REPLAY_WINDOW_MINUTES for events
    Delay,        \* after which a change is visible at the MCP server
    Cadence, Lookback,   \* CADENCE_MINUTES, BOOTSTRAP_LOOKBACK_DAYS
    LastTime, MaxChanges,
    Unset

ASSUME SyncAssumption ==
    /\ Overlap \in Nat /\ Delay \in 0..Overlap
    /\ Cadence \in Nat /\ Lookback \in Nat /\ LastTime \in Nat /\ MaxChanges \in Nat
    /\ Unresolved \subseteq Records /\ Altered \subseteq Records
    /\ Unset \notin Daemons \cup Int

Kinds == {"core", "event", "proxy"}
Times == 0..LastTime

VARIABLES
    kind,         \* of the unit
    time,
    changes,      \* of the source: a row and when it changed, or an event and when it was
    visible,      \* those that the MCP server shows
    table,        \* by row, the times of the copies there are of it
    checkpoint,   \* last_watermark of the unit in sync_checkpoints
    lock,         \* who holds the advisory lock
    daemon,       \* the run of a daemon
    since,        \* ghost: where the first window began
    unheard       \* ghost: changes in the window of an answer that had no rows

syncVars == <<kind, time, changes, visible, table, checkpoint, lock, daemon, since, unheard>>

NoRun == [pc |-> "idle", upper |-> 0, low |-> 0, got |-> {}, todo |-> {}]

SyncInit ==
    /\ kind \in Kinds
    /\ time = 0 /\ changes = {} /\ visible = {}
    /\ table = [r \in Records |-> <<>>]
    /\ checkpoint = Unset /\ lock = Unset /\ since = Unset
    /\ daemon = [d \in Daemons |-> NoRun]
    /\ unheard = {}

Max0(n) == IF n < 0 THEN 0 ELSE n

-----------------------------------------------------------------------------
(* The source.                                                               *)

Tick ==
    /\ time < LastTime
    /\ \A c \in changes \ visible : time < c.at + Delay
    /\ time' = time + 1
    /\ UNCHANGED <<kind, changes, visible, table, checkpoint, lock, daemon, since, unheard>>

Change(r) ==
    /\ Cardinality(changes) < MaxChanges
    /\ changes' = changes \cup {[row |-> r, at |-> time]}
    /\ changes' # changes
    /\ UNCHANGED <<kind, time, visible, table, checkpoint, lock, daemon, since, unheard>>

Appear(c) ==
    /\ c \notin visible
    /\ visible' = visible \cup {c}
    /\ UNCHANGED <<kind, time, changes, table, checkpoint, lock, daemon, since, unheard>>

Of(S, r) == {c \in S : c.row = r}
IsLatest(c, S) == \A d \in Of(S, c.row) : d.at <= c.at

\* What a SELECT over [low, upper) finds: a row is there as it is now, an event for good.
Found(low, upper) ==
    {c \in visible : /\ low <= c.at /\ c.at < upper
                     /\ kind = "event" \/ IsLatest(c, visible)}

-----------------------------------------------------------------------------
(* process_sync_unit, process_event_sync_unit, process_ndr_proxy_unit.       *)

Goes(d, pc) == daemon' = [daemon EXCEPT ![d].pc = pc]

\* upper_bound is taken before there is a connection or a lock.
Start(d) ==
    /\ daemon[d].pc = "idle"
    /\ daemon' = [daemon EXCEPT ![d] = [NoRun EXCEPT !.pc = "lock", !.upper = time]]
    /\ UNCHANGED <<kind, time, changes, visible, table, checkpoint, lock, since, unheard>>

\* Faulty: the answer of pg_try_advisory_xact_lock is not looked at.
MayRun_Unlocked(d) == TRUE

MayRun(d) == lock = Unset

\* Also when the checkpoint is ahead of this run, which waited while another one ran.
Due(d) == checkpoint = Unset \/ daemon[d].upper - checkpoint >= Cadence

\* Faulty: the window begins at the checkpoint.
LowerBound_Sharp(upper) ==
    IF checkpoint = Unset THEN Max0(upper - Lookback) ELSE checkpoint

LowerBound(upper) ==
    Max0((IF checkpoint = Unset THEN upper - Lookback ELSE checkpoint) - Overlap)

\* A unit that is locked or not due is skipped.
TryLock(d) ==
    /\ daemon[d].pc = "lock"
    /\ IF MayRun(d) /\ Due(d)
       THEN /\ lock' = d
            /\ daemon' = [daemon EXCEPT ![d].pc = "query",
                                        ![d].low = LowerBound(daemon[d].upper)]
       ELSE /\ daemon' = [daemon EXCEPT ![d] = NoRun]
            /\ UNCHANGED lock
    /\ UNCHANGED <<kind, time, changes, visible, table, checkpoint, since, unheard>>

\* query_data, which repeats the request a few times and then raises (see UnitFails).  An answer
\* that is no JSON or has no "rows" is an answer without rows.
Query(d) ==
    LET found == Found(daemon[d].low, daemon[d].upper)
        rows == {c.row : c \in found} IN
    /\ daemon[d].pc = "query"
    /\ \/ /\ daemon' = [daemon EXCEPT ![d].pc = "write",
                          ![d].got = IF kind = "proxy" THEN {} ELSE found,
                          ![d].todo = IF kind = "proxy" THEN rows ELSE {}]
          /\ UNCHANGED unheard
       \/ /\ Goes(d, "write")
          /\ unheard' = unheard \cup {c \in changes : daemon[d].low <= c.at /\ c.at < daemon[d].upper}
    /\ UNCHANGED <<kind, time, changes, visible, table, checkpoint, lock, since>>

\* The next chunk of the proxy: the reports of its shipments as they are now.
FetchReports(d) ==
    /\ daemon[d].pc = "write" /\ daemon[d].todo # {}
    /\ \E chunk \in SUBSET daemon[d].todo \ {{}} :
         \/ /\ daemon' = [daemon EXCEPT ![d].todo = @ \ chunk,
                  ![d].got = @ \cup {c \in visible : c.row \in chunk /\ IsLatest(c, visible)}]
            /\ UNCHANGED unheard
         \/ /\ daemon' = [daemon EXCEPT ![d].todo = @ \ chunk]
            /\ unheard' = unheard \cup {c \in changes : c.row \in chunk /\ c.at < daemon[d].upper}
    /\ UNCHANGED <<kind, time, changes, visible, table, checkpoint, lock, since>>

\* upsert_records: what has the key of a new row is deleted -- nothing has a null key -- and
\* the new rows are inserted.
Upserted(r, new) ==
    IF new = {} THEN table[r]
    ELSE LET at == (CHOOSE c \in new : TRUE).at IN
         IF kind = "core" /\ r \in Unresolved THEN Append(table[r], at) ELSE <<at>>

\* hash_row compares the values as they come with those that are read back: JSON is text in
\* PostgreSQL's spelling, a NUMERIC has its scale, a time its zone changed to UTC.
Recognised(r) == r \notin Altered

\* Faulty: only what is later than the checkpoint is compared.
Known_SinceCheckpoint(d, r) ==
    IF ~Recognised(r) THEN {} ELSE
    {table[r][i] : i \in {j \in DOMAIN table[r] : checkpoint # Unset /\ table[r][j] >= checkpoint}}

\* insert_event_records compares with the rows of the table from the window's begin, and inserts
\* what it does not find among them in the order of the answer.
Known(d, r) ==
    IF ~Recognised(r) THEN {} ELSE
    {table[r][i] : i \in {j \in DOMAIN table[r] : table[r][j] >= daemon[d].low}}

Inserted(d, r, new) ==
    table[r] \o SetToSeq({c.at : c \in new} \ Known(d, r))

\* The rows are written, the checkpoint is set, the transaction commits.
CommitUnit(d) ==
    LET New(r) == Of(daemon[d].got, r) IN
    /\ daemon[d].pc = "write" /\ daemon[d].todo = {}
    /\ table' = [r \in Records |-> IF kind = "event" THEN Inserted(d, r, New(r))
                                ELSE Upserted(r, New(r))]
    /\ checkpoint' = daemon[d].upper
    /\ since' = IF since = Unset THEN daemon[d].low ELSE since
    /\ lock' = IF lock = d THEN Unset ELSE lock
    /\ daemon' = [daemon EXCEPT ![d] = NoRun]
    /\ UNCHANGED <<kind, time, changes, visible, unheard>>

\* The unit raises, or its process ends: all of it is rolled back.
UnitFails(d) ==
    /\ daemon[d].pc \in {"query", "write"}
    /\ lock' = IF lock = d THEN Unset ELSE lock
    /\ daemon' = [daemon EXCEPT ![d] = NoRun]
    /\ UNCHANGED <<kind, time, changes, visible, table, checkpoint, since, unheard>>

SyncNext ==
    \/ Tick
    \/ \E r \in Records : Change(r)
    \/ \E c \in changes : Appear(c)
    \/ \E d \in Daemons : Start(d) \/ TryLock(d) \/ Query(d)
                             \/ FetchReports(d) \/ CommitUnit(d) \/ UnitFails(d)

SyncSpec == SyncInit /\ [][SyncNext]_syncVars

-----------------------------------------------------------------------------
(* Properties.                                                               *)

SyncTypeOK ==
    /\ kind \in Kinds /\ time \in Times
    /\ changes \subseteq [row : Records, at : Times] /\ visible \subseteq changes
    /\ unheard \subseteq changes
    /\ table \in [Records -> Seq(Times)]
    /\ checkpoint \in Times \cup {Unset} /\ since \in Times \cup {Unset}
    /\ lock \in Daemons \cup {Unset}
    /\ daemon \in [Daemons -> [pc : {"idle", "lock", "query", "write"}, upper : Times,
                               low : Times, got : SUBSET changes, todo : SUBSET Records]]

\* A change at the source that the checkpoint has left behind is in the table, itself or a
\* later one of its row: although it may be visible only after its window was read, runs
\* fail and are repeated, and rows go on changing.  Except what an answer without rows hid.
NothingIsMissed ==
    \A c \in changes \ unheard :
        checkpoint # Unset /\ since <= c.at /\ c.at < checkpoint - Overlap
            => \/ \E i \in DOMAIN table[c.row] :
                     IF kind = "event" THEN table[c.row][i] = c.at ELSE table[c.row][i] >= c.at
               \/ kind # "event" /\ \E e \in changes : e.row = c.row /\ e.at > c.at

\* However often windows overlap and daemons run at once, an event that is recognised when it
\* is read again is in its table once, and a row with a key has one copy.
OneCopy ==
    \A r \in Records :
        IF kind = "event"
        THEN Recognised(r) => \A i, j \in DOMAIN table[r] : table[r][i] = table[r][j] => i = j
        ELSE r \in Unresolved \/ Len(table[r]) <= 1

\* A daemon that was slow never takes the checkpoint, or a row, back to an older state.
NeverBack ==
    [][ /\ checkpoint # Unset => checkpoint' >= checkpoint
        /\ \A r \in Records : kind # "event" /\ table[r] # <<>> =>
             table'[r][Len(table'[r])] >= table[r][Len(table[r])] ]_syncVars

-----------------------------------------------------------------------------
(* What the documentation says and the code does not do: violated.            *)

\* SHOPDECK-master-documentation.md calls the write of the tables an UPSERT.
OneCopyOfEach == \A r \in Records : kind # "event" => Len(table[r]) <= 1

\* The log of process_event_sync_unit counts what it inserts as "new records".
EventsAreNew ==
    \A r \in Records : kind = "event" =>
        \A i, j \in DOMAIN table[r] : table[r][i] = table[r][j] => i = j

===============================================================================
