---------------------------- MODULE RequestLedger ----------------------------
(***************************************************************************)
(* The request log.  Handlers hand a finished call to a bounded channel    *)
(* and go on; one writer task appends it to the day's JSONL file and       *)
(* collects records into one SQLite transaction per batch; a background    *)
(* sweep keeps the files under a quota and the tables within their ages;   *)
(* readers page through the ledger and ask for summaries meanwhile.        *)
(***************************************************************************)
EXTENDS UsageTables

CONSTANTS Calls,          \* the requests that finish, by request id
          CallOf,         \* Calls -> the columns of the call's record
          LineSize,       \* Calls -> bytes of its JSONL line
          QueueMax,       \* capacity of the channel (256)
          BatchMax,       \* records of one transaction (256)
          MaxFile,        \* bytes of one JSONL file (10 MiB)
          Quota,          \* bytes of all of them (max_bytes)
          Policy,         \* the ages of apply_retention, 0 for ever
          Filters,        \* the filters a ledger reader asks for
          FirstTick, LastTick,              \* bounds of the clock
          MaxEvents       \* bound: faults, sweeps, restarts and readers

\* The columns of a record; the handler adds the request and the time.
Columns == [provider : Nat, model : Nat, agent : Nat, account : Nat, session : Nat,
            status : Nat, tokens : Nat, latency : Nat, ttft : Nat, priced : BOOLEAN,
            cost : Nat, attempt : Nat, looped : BOOLEAN, decode_out : Nat, decode_ms : Nat]

ASSUME LedgerAssumption ==
    /\ QueueMax \in Nat \ {0} /\ BatchMax \in Nat \ {0}
    /\ MaxFile \in Nat /\ Quota \in Nat
    /\ FirstTick \in Nat /\ LastTick \in Nat /\ FirstTick <= LastTick
    /\ CallOf \in [Calls -> Columns] /\ LineSize \in [Calls -> Nat]
    /\ Policy \in [body_age : Nat, log_age : Nat, rollup_age : Nat]

VARIABLES now,      \* the clock
          queue,    \* records in the channel
          batch,    \* records written to JSONL, not yet to SQLite
          files,    \* <<day, index>> -> a JSONL file
          writes,   \* lines written so far, the order of modification times
          db,       \* the SQLite database
          sweeping, \* the sweep has done the files and not yet the tables
          walk,     \* a reader paging through the ledger
          unlogged, \* calls that have not finished
          dropped,  \* calls the full channel refused
          stored,   \* how often a call's row was committed
          lost,     \* calls a fault or a restart took from the writer
          counted,  \* records the rollup still answers for
          left      \* what may still happen, of MaxEvents

writer == <<queue, batch>>
ghosts == <<unlogged, dropped, stored, lost, counted>>
vars   == <<now, writer, files, writes, db, sweeping, walk, ghosts, left>>

Requests(records) == {records[i].request : i \in DOMAIN records}

Spend == left > 0 /\ left' = left - 1

Idle == [open |-> FALSE, filter |-> 0, cursor |-> Unset, seen |-> {},
         twice |-> FALSE, base |-> {}, done |-> FALSE]

Init == /\ now = FirstTick
        /\ queue = <<>> /\ batch = <<>>
        /\ files = EmptyTable /\ writes = 0
        /\ db = EmptyDb
        /\ sweeping = FALSE
        /\ walk = Idle
        /\ unlogged = Calls /\ dropped = {} /\ lost = {}
        /\ stored = [r \in Calls |-> 0] /\ counted = {}
        /\ left = MaxEvents

(***************************************************************************)
(* The handlers.                                                           *)
(***************************************************************************)
HasRoom == Len(queue) < QueueMax

RecordOf(r) == With(With(CallOf[r], "request", r), "ts", now)

\* A call ends, answered at once or streamed: its record is offered to the
\* channel, and a full channel drops it.
Log(r) ==
    /\ r \in unlogged
    /\ unlogged' = unlogged \ {r}
    /\ \/ /\ HasRoom
          /\ queue' = Append(queue, RecordOf(r))
          /\ UNCHANGED dropped
       \/ /\ ~HasRoom
          /\ dropped' = dropped \cup {r}
          /\ UNCHANGED queue
    /\ UNCHANGED <<now, batch, files, writes, db, sweeping, walk, stored,
                   lost, counted, left>>

(***************************************************************************)
(* The JSONL files.                                                        *)
(***************************************************************************)
\* Counts up from 0 to the first index without a file; the line goes to the
\* file before that one when it still fits there.
request_log_path(day, bytes) ==
    LET free == CHOOSE n \in 0 .. Cardinality(DOMAIN files) :
                    /\ <<day, n>> \notin DOMAIN files
                    /\ \A m \in 0 .. n - 1 : <<day, m>> \in DOMAIN files
    IN  IF free > 0 /\ files[<<day, free - 1>>].size + bytes <= MaxFile
        THEN <<day, free - 1>> ELSE <<day, free>>

write_record(rec) ==
    LET bytes == LineSize[rec.request] + 1
        path  == request_log_path(Day(rec.ts), bytes)
        old   == IF path \in DOMAIN files THEN files[path]
                 ELSE [size |-> 0, lines |-> 0, modified |-> 0]
    IN  /\ files' = With(files, path, [size |-> old.size + bytes, lines |-> old.lines + 1,
                                       modified |-> writes + 1])
        /\ writes' = writes + 1

(***************************************************************************)
(* The writer task.                                                        *)
(***************************************************************************)
\* One transaction over the records; fails names the statement that fails for
\* a record, "" for none.
Commit(records, fails) ==
    LET picked(what) == {i \in DOMAIN records : fails[i] \in what}
    IN  /\ db' = insert_request_logs(db, records, fails)
        /\ stored' = [r \in Calls |-> stored[r] + Cardinality(
                {i \in DOMAIN records : records[i].request = r /\ fails[i] # "row"})]
        /\ lost' = lost \cup {records[i].request : i \in picked({"row"})}
        /\ counted' = counted \cup {records[i] : i \in picked({""})}

Fine(records) == [i \in DOMAIN records |-> ""]

\* Mutant: the batch is emptied and never inserted.
flush_sqlite_unsaved(records) ==
    /\ batch' = <<>>
    /\ UNCHANGED <<db, stored, lost, counted, left>>

\* The batch is empty afterwards whatever became of it.  A statement may fail
\* for one record; BEGIN, the commit or the connection pool for all of them.
flush_sqlite(records) ==
    /\ batch' = <<>>
    /\ \/ Commit(records, Fine(records)) /\ UNCHANGED left
       \/ /\ Spend
          /\ \E i \in DOMAIN records, stage \in {"row", "body", "rollup"} :
                Commit(records, [Fine(records) EXCEPT ![i] = stage])
       \/ /\ Spend
          /\ lost' = lost \cup Requests(records)
          /\ UNCHANGED <<db, stored, counted>>

\* A record arrives before the flush timeout and its line is appended at once;
\* a full batch is flushed.
Receive ==
    /\ queue # <<>>
    /\ queue' = Tail(queue)
    /\ write_record(Head(queue))
    /\ LET grown == Append(batch, Head(queue))
       IN  IF Len(grown) >= BatchMax
           THEN flush_sqlite(grown)
           ELSE batch' = grown /\ UNCHANGED <<db, stored, lost, counted, left>>
    /\ UNCHANGED <<now, sweeping, walk, unlogged, dropped>>

\* The append fails and is only reported; the record goes on to the batch.
ReceiveUnwritten ==
    /\ queue # <<>>
    /\ queue' = Tail(queue)
    /\ Spend
    /\ LET grown == Append(batch, Head(queue))
       IN  IF Len(grown) >= BatchMax
           THEN batch' = <<>> /\ Commit(grown, Fine(grown))
           ELSE batch' = grown /\ UNCHANGED <<db, stored, lost, counted>>
    /\ UNCHANGED <<now, files, writes, sweeping, walk, unlogged, dropped>>

\* Mutant: only a full batch is flushed.
FlushTimeout_full ==
    /\ queue = <<>> /\ Len(batch) >= BatchMax
    /\ flush_sqlite(batch)
    /\ UNCHANGED <<now, queue, files, writes, sweeping, walk, unlogged, dropped>>

\* Nothing arrived for BATCH_FLUSH, or the channel is closed and drained.
FlushTimeout ==
    /\ queue = <<>> /\ batch # <<>>
    /\ flush_sqlite(batch)
    /\ UNCHANGED <<now, queue, files, writes, sweeping, walk, unlogged,
                   dropped>>

\* The process ends, drained or not, and another one starts.
Restart ==
    /\ Spend
    /\ lost' = lost \cup Requests(queue) \cup Requests(batch)
    /\ queue' = <<>> /\ batch' = <<>>
    /\ sweeping' = FALSE
    /\ UNCHANGED <<now, files, writes, db, walk, unlogged, dropped, stored, counted>>

(***************************************************************************)
(* The sweep.                                                              *)
(***************************************************************************)
TotalSize(paths) == MapThenSumSet(LAMBDA p : files[p].size, paths)

\* Mutant: the sweep stops only when more than enough is freed.
OldestEnough_greedy(paths, overshoot) ==
    {p \in paths :
        TotalSize({x \in paths : files[x].modified < files[p].modified}) <= overshoot}

\* Files by modification time, oldest first, until enough bytes are freed.
OldestEnough(paths, overshoot) ==
    {p \in paths :
        TotalSize({x \in paths : files[x].modified < files[p].modified}) < overshoot}

\* A file that cannot be removed frees nothing, so the walk goes on past it.
enforce_quota(stuck) ==
    LET total == TotalSize(DOMAIN files)
        removed == OldestEnough(DOMAIN files \ stuck, total - Quota)
    IN  files' = IF Quota = 0 \/ total <= Quota THEN files
                 ELSE Without(files, removed)

SweepFiles ==
    /\ ~sweeping
    /\ Spend
    /\ \E stuck \in {{}} \cup {{p} : p \in DOMAIN files} : enforce_quota(stuck)
    /\ sweeping' = TRUE
    /\ UNCHANGED <<now, writer, writes, db, walk, ghosts>>

\* On a blocking thread, after the files: vacuuming gives pages back and changes
\* no row; every twelfth tick is hourly and applies the ages.
SweepTables(hourly) ==
    /\ sweeping
    /\ sweeping' = FALSE
    /\ IF hourly
       THEN /\ db' = apply_retention(db, Policy, now)
            /\ counted' = IF Policy.rollup_age = 0 THEN counted
                          ELSE {rec \in counted : Hour(rec.ts) + TicksPerHour
                                                    > now - Policy.rollup_age}
       ELSE UNCHANGED <<db, counted>>
    /\ UNCHANGED <<now, writer, files, writes, walk, unlogged, dropped, stored,
                   lost, left>>

(***************************************************************************)
(* The readers.                                                            *)
(***************************************************************************)
Ids(rows) == {row.id : row \in rows}

\* The first page, from a range that ends now.
OpenLedger(f) ==
    /\ ~walk.open
    /\ Spend
    /\ LET filter == Ranged(f, now)
           page == ledger_page(db, filter, Unset)
       IN  walk' = [open |-> TRUE, filter |-> filter, cursor |-> page.next_cursor,
                    seen |-> Ids(page.rows), twice |-> FALSE,
                    base |-> Ids(LedgerRows(db, filter)),
                    done |-> page.next_cursor = Unset]
    /\ UNCHANGED <<now, writer, files, writes, db, sweeping, ghosts>>

NextPage ==
    /\ walk.open /\ ~walk.done
    /\ LET page == ledger_page(db, walk.filter, walk.cursor)
       IN  walk' = [walk EXCEPT !.cursor = page.next_cursor,
                                !.seen = @ \cup Ids(page.rows),
                                !.twice = @ \/ Ids(page.rows) \cap walk.seen # {},
                                !.done = page.next_cursor = Unset]
    /\ UNCHANGED <<now, writer, files, writes, db, sweeping, ghosts, left>>

Tick ==
    /\ now < LastTick
    /\ now' = now + 1
    /\ UNCHANGED <<writer, files, writes, db, sweeping, walk, ghosts, left>>

Writer == Receive \/ FlushTimeout

Next == \/ \E r \in Calls : Log(r)
        \/ Receive \/ ReceiveUnwritten \/ FlushTimeout
        \/ Restart
        \/ SweepFiles \/ \E hourly \in BOOLEAN : SweepTables(hourly)
        \/ \E f \in Filters : OpenLedger(f)
        \/ NextPage
        \/ Tick

\* The writer is a spawned task that waits at most BATCH_FLUSH.
Fairness == WF_vars(Writer)

Spec == Init /\ [][Next]_vars /\ Fairness

(***************************************************************************)
(* Properties.                                                             *)
(***************************************************************************)
TypeOK ==
    /\ now \in FirstTick .. LastTick
    /\ Len(queue) <= QueueMax /\ Len(batch) < BatchMax
    /\ sweeping \in BOOLEAN
    /\ DOMAIN files \subseteq Nat \X Nat
    /\ DOMAIN db.logs \subseteq Calls /\ DOMAIN db.bodies \subseteq Calls
    /\ \A k \in DOMAIN db.rollup : db.rollup[k] \in [TotalFields -> Nat]
    /\ unlogged \subseteq Calls /\ dropped \subseteq Calls /\ lost \subseteq Calls

\* Every call that finished is refused by the full channel, in the writer's
\* hands, stored once or lost to a fault or a restart: the channel, the batch
\* and its clearing after every flush let none of them disappear otherwise.
NothingVanishes ==
    LET hands == Requests(queue) \cup Requests(batch)
        rows  == {r \in Calls : stored[r] > 0}
    IN  /\ Calls = unlogged \cup dropped \cup lost \cup hands \cup rows
        /\ hands \cap (rows \cup lost \cup dropped) = {}
        /\ \A r \in rows : stored[r] = 1

\* Ids follow the order in which the calls were logged, so the ledger's newest
\* row is the call that ended last, across batches and restarts.
RowsInOrder ==
    \A a, b \in RowsOf(db) : a.id < b.id => a.ts <= b.ts

\* A payload never outlives its row: retention by age and the foreign key leave
\* no body that the list of recent calls could not reach.
BodiesHaveRows == DOMAIN db.bodies \subseteq DOMAIN db.logs

\* A JSONL file stays within its limit unless its one line alone is longer.
FilesFit == \A p \in DOMAIN files :
    files[p].size <= MaxFile \/ files[p].lines = 1

\* A sweep brings the files under the quota, if there is one, removes none newer
\* than one it keeps, and none it did not have to; one file that cannot be removed is
\* passed over and made up for by the others.
QuotaKeepsNewest ==
    [][(sweeping' /\ ~sweeping) =>
        LET gone == DOMAIN files \ DOMAIN files'
            kept == DOMAIN files'
        IN  \E stuck \in {{}} \cup {{p} : p \in kept} :
            /\ Quota = 0 \/ TotalSize(kept) <= Quota \/ kept = stuck
            /\ \A g \in gone, k \in kept \ stuck :
                files[g].modified < files[k].modified
            /\ \A g \in gone :
                (\A x \in gone : files[x].modified <= files[g].modified)
                    => TotalSize(kept \cup {g}) > Quota]_vars

(***************************************************************************)
(* What the views ask: every period the callers resolve, some filters.     *)
(***************************************************************************)
Periods == {[kind |-> "today"], [kind |-> "all"],
            [kind |-> "last", ticks |-> TicksPerHour],
            [kind |-> "days", first |-> Day(FirstTick), last |-> Day(FirstTick)]}

Query(period, granularity, provider, agent, account, split) ==
    Ranged([period |-> period, granularity |-> granularity, provider |-> provider,
            model |-> Unset, agent |-> agent, account |-> account, split |-> split], now)

RollupQueries ==
    {Query(p, "hour", Unset, Unset, Unset, "") : p \in Periods}
    \cup {Query(p, "day", 1, Unset, Unset, "") : p \in Periods}
    \cup {Query(p, "day", Unset, Empty, Unset, "") : p \in Periods}

\* A summary is the truth about every hour its range touches: the calls that
\* were folded, each once, whatever batches, faults, restarts, retention of the
\* detail rows and the rounding to hours did in between.
SummaryTellsHistory ==
    \A q \in RollupQueries :
        SummaryTotals(db, q) =
            TotalsDecodeAggregates({rec \in counted :
                /\ Hour(rec.ts) < q.to /\ Hour(rec.ts) + TicksPerHour > q.from
                /\ Matches(q, rec)})

\* The calendar view: one cell for each day of the weeks it covers that had
\* calls, with those calls; a Sunday closes its week and a Monday opens one.
CalendarTellsHistory ==
    LET q == Query([kind |-> "all"], "day", Unset, Unset, Unset, "")
        week(day) == (day + 7 - Monday) \div 7
        shown == {rec \in counted : week(Day(rec.ts)) > week(Day(now)) - HeatmapWeeks}
    IN  heatmap(db, q, now) =
            [day \in {Day(rec.ts) : rec \in shown} |->
                TotalsDecodeAggregates({rec \in shown : Day(rec.ts) = day})]

\* Rebuilding the rollup from the detail rows gives the rollup that the write
\* path folded, column for column, as long as both answer for the same calls.
RebuildAgrees ==
    {rec.request : rec \in counted} = DOMAIN db.logs => rebuild_rollup(db) = db.rollup

\* A summary's breakdowns add up to its totals, and a split of the series never
\* claims more than the point it splits, and all of it when no value was cut.
BreakdownsAddUp ==
    \A p \in {[kind |-> "today"], [kind |-> "all"]}, account \in {Unset, 1},
       split \in {"provider", "model"} :
        LET s == usage_summary(db, Query(p, "day", Unset, Unset, account, split))
            Whole(table) == SumTotals(DOMAIN table, LAMBDA k : table[k])
        IN  /\ \A by \in {s.series, s.by_provider, s.by_model, s.by_agent} :
                    Whole(by) = s.totals
            /\ DOMAIN s.split \subseteq DOMAIN s.series
            /\ \A at \in DOMAIN s.split :
                    Whole(s.split[at]).calls <= s.series[at].calls
            /\ LET values == DOMAIN (IF split = "provider" THEN s.by_provider
                                                           ELSE s.by_model)
               IN  Cardinality(values) <= SeriesKeep =>
                    \A at \in DOMAIN s.series :
                        /\ at \in DOMAIN s.split
                        /\ Whole(s.split[at]).tokens = s.series[at].tokens

\* Picking a provider narrows the page and not the list of providers: the
\* picked one's share is the page's totals and the others can still be chosen.
RankingsMatchPage ==
    \A f \in Filters, provider \in {1, 2} :
        LET filter == [Ranged(f, now) EXCEPT !.provider = provider]
            by == ledger_by(db, filter)
        IN  /\ filter.provider \in DOMAIN by.provider =>
                by.provider[filter.provider] = ledger_page(db, filter, Unset).totals
            /\ by.provider = ledger_by(db, [filter EXCEPT !.provider = Unset]).provider

\* A reader that follows the cursors while calls are stored and retention runs
\* meets no row twice and misses none that was there from first page to last.
WalkSeesEachRowOnce ==
    /\ ~walk.twice
    /\ walk.done => walk.base \cap Ids(RowsOf(db)) \subseteq walk.seen

\* What the channel accepted leaves the writer's hands: again and again the
\* channel and the batch are both empty, so no record waits in a batch for a
\* neighbour that never comes.
AcceptedIsSettled == []<>(queue = <<>> /\ batch = <<>>)

\* Tables and files hang together: rows in the order of their calls, no payload
\* without its row, no file over its limit.
StorageAgrees == TypeOK /\ RowsInOrder /\ BodiesHaveRows /\ FilesFit

\* Every view counts the calls that were stored: summary, calendar, breakdowns,
\* rankings, a walk through the pages, and a rollup built again.
ViewsTellHistory ==
    /\ SummaryTellsHistory /\ CalendarTellsHistory /\ BreakdownsAddUp
    /\ RankingsMatchPage /\ WalkSeesEachRowOnce /\ RebuildAgrees
=============================================================================
