----------------------------- MODULE UsageTables -----------------------------
(***************************************************************************)
(* The log database: its three tables as values, the statements that write *)
(* and prune them, and the queries that the usage views and the ledger read *)
(* them with.  Every statement is an operator from one database value to   *)
(* the next, or to an answer; RequestLedger says when they run.            *)
(*                                                                         *)
(* Time is counted in ticks, one tick for one second of the clock.  Names  *)
(* (providers, models, agents, accounts, sessions) are numbers, since the  *)
(* rankings order them; 0 is the empty name.                               *)
(***************************************************************************)
EXTENDS Integers, FiniteSets, FiniteSetsExt, Sequences

CONSTANTS TicksPerHour, HoursPerDay,    \* the calendar, scaled down
          SeriesKeep,                   \* split values a series point keeps
          HeatmapWeeks,                 \* width of the calendar view
          PageLimit                     \* rows of a ledger page

ASSUME UsageAssumption ==
    {TicksPerHour, HoursPerDay, SeriesKeep, HeatmapWeeks, PageLimit}
        \subseteq Nat \ {0}

Unset   == -1     \* a filter that is not set
Empty == 0      \* the empty name: an agent nobody named

EmptyTable == [x \in {} |-> x]
Without(table, keys) == [k \in DOMAIN table \ keys |-> table[k]]
With(table, key, value) ==
    [k \in DOMAIN table \cup {key} |-> IF k = key THEN value ELSE table[k]]

(***************************************************************************)
(* The calendar.  Day 0 is 1970-01-01, a Thursday, so the Mondays are the  *)
(* days that leave 4.                                                      *)
(***************************************************************************)
TicksPerDay == TicksPerHour * HoursPerDay
Hour(t) == t - (t % TicksPerHour)
Day(t)  == t \div TicksPerDay
Monday  == 4

monday_of(day) == day - ((day - Monday) % 7)

\* SQLite's date(x, 'weekday 1', '-7 days'): on to the next Monday, a Monday
\* staying where it is, then back seven days.
week_expr(day) == day + ((Monday - day) % 7) - 7

\* The point of the series that a tick falls in.  A month is not told apart.
bucket_expr(granularity, t) ==
    CASE granularity = "hour" -> Hour(t)
      [] granularity = "day"  -> Day(t)
      [] granularity = "week" -> week_expr(Day(t))

(***************************************************************************)
(* Timestamps are compared as text.  A row carries its instant as          *)
(* ...:SS.fff+00:00 and a bound is ...:SSZ; both '.' and '+' sort before   *)
(* 'Z', so a row of the bound's own second is older than the bound.  A     *)
(* rollup bucket ends in Z as well and compares as time does.              *)
(***************************************************************************)
RowBefore(ts, bound) == ts <= bound
RowInRange(ts, from, to) == ~RowBefore(ts, from) /\ RowBefore(ts, to)

\* period::resolve: a preset, a rolling window or picked days become bounds.
resolve(period, now) ==
    LET today == Day(now) * TicksPerDay
    IN  CASE period.kind = "today" -> [from |-> today, to |-> today + TicksPerDay]
          [] period.kind = "all"   -> [from |-> 0, to |-> now]
          [] period.kind = "last"  -> [from |-> now - period.ticks, to |-> now]
          [] period.kind = "days"  -> [from |-> period.first * TicksPerDay,
                                       to   |-> (period.last + 1) * TicksPerDay]

\* A filter with the bounds that its period has now.
Ranged(f, now) == LET range == resolve(f.period, now)
                  IN  With(With(f, "from", range.from), "to", range.to)

(***************************************************************************)
(* Totals.  The token sums behave alike and are one field, as do the sums  *)
(* of milliseconds, which are left out.                                    *)
(***************************************************************************)
TotalFields == {"calls", "errors", "tokens", "latency_max", "ttft_calls",
                "cost", "priced", "retried", "loops", "decode_n"}
NoTotals == [f \in TotalFields |-> 0]

add_totals(into, from) ==
    [f \in TotalFields |-> IF f = "latency_max"
                           THEN Max({into[f], from[f]})
                           ELSE into[f] + from[f]]

SumTotals(S, Of(_)) ==
    FoldSet(LAMBDA x, sum : add_totals(sum, Of(x)), NoTotals, S)

One(condition) == IF condition THEN 1 ELSE 0

\* What one record adds to its rollup row when it is written.
Contribution(rec) ==
    [calls       |-> 1,
     errors      |-> One(rec.status >= 400),
     tokens      |-> rec.tokens,
     latency_max |-> rec.latency,
     ttft_calls  |-> One(rec.ttft > 0),
     cost        |-> IF rec.priced THEN rec.cost ELSE 0,
     priced      |-> One(rec.priced),
     retried     |-> One(rec.attempt > 0 /\ rec.status < 400),
     loops       |-> One(rec.looped),
     decode_n    |-> One(rec.decode_out > 0 /\ rec.decode_ms > 0)]

\* The aggregates that the queries over request_logs compute from its columns;
\* the ledger's own leave the decode window out.
TotalsAggregates(rows) ==
    [calls       |-> Cardinality(rows),
     errors      |-> Cardinality({r \in rows : r.status >= 400}),
     tokens      |-> MapThenSumSet(LAMBDA r : r.tokens, rows),
     latency_max |-> IF rows = {} THEN 0 ELSE Max({r.latency : r \in rows}),
     ttft_calls  |-> Cardinality({r \in rows : r.ttft > 0}),
     cost        |-> MapThenSumSet(LAMBDA r : r.cost, {r \in rows : r.priced}),
     priced      |-> Cardinality({r \in rows : r.priced}),
     retried     |-> Cardinality({r \in rows : r.attempt > 0 /\ r.status < 400}),
     loops       |-> Cardinality({r \in rows : r.looped}),
     decode_n    |-> 0]

TotalsDecodeAggregates(rows) ==
    [TotalsAggregates(rows) EXCEPT !.decode_n =
        Cardinality({r \in rows : r.decode_out > 0 /\ r.decode_ms > 0})]

(***************************************************************************)
(* The tables.  logs maps a request to its narrow row, bodies a request to *)
(* the timestamp its payload carries, rollup an hour of one provider,      *)
(* model and agent to totals.  Ids are never used again (autoincrement).   *)
(* EmptyDb is what migrate makes of a new file, version by version.        *)
(***************************************************************************)
EmptyDb == [logs |-> EmptyTable, bodies |-> EmptyTable, rollup |-> EmptyTable,
            next_id |-> 1]

RowsOf(db) == {db.logs[r] : r \in DOMAIN db.logs}

RollupKey(rec) == [bucket |-> Hour(rec.ts), provider |-> rec.provider,
                   model |-> rec.model, agent |-> rec.agent]

upsert_rollup(rollup, rec) ==
    LET key == RollupKey(rec)
        old == IF key \in DOMAIN rollup THEN rollup[key] ELSE NoTotals
    IN  With(rollup, key, add_totals(old, Contribution(rec)))

\* The three statements of one record: the narrow row, the payload, and, for a
\* request not seen before, the rollup.  A statement that fails stops the ones
\* after it, and what the earlier ones wrote stays in the open transaction.
insert_request_log_row(db, rec, failing) ==
    LET existed == rec.request \in DOMAIN db.logs
        id == IF existed THEN db.logs[rec.request].id ELSE db.next_id
        row == [db EXCEPT !.logs = With(@, rec.request, With(rec, "id", id)),
                          !.next_id = IF existed THEN @ ELSE @ + 1]
        body == [row EXCEPT !.bodies = With(@, rec.request, rec.ts)]
    IN  CASE failing = "row"  -> db
          [] failing = "body" -> row
          [] failing = "rollup" \/ existed -> body
          [] OTHER -> [body EXCEPT !.rollup = upsert_rollup(@, rec)]

\* One transaction over the batch; fails names the statement that fails for a
\* record, "" for none.
insert_request_logs(db, records, fails) ==
    LET upto[n \in 0 .. Len(records)] ==
            IF n = 0 THEN db
            ELSE insert_request_log_row(upto[n - 1], records[n], fails[n])
    IN  upto[Len(records)]

(***************************************************************************)
(* Maintenance.                                                            *)
(***************************************************************************)
\* Mutant: the connection was opened with foreign_keys off.
Cascade_without_foreign_keys(db, gone) == [db EXCEPT !.logs = Without(@, gone)]

\* The foreign key of request_bodies: a deleted row takes its body along.
Cascade(db, gone) == [db EXCEPT !.logs = Without(@, gone),
                                !.bodies = Without(@, gone)]

\* An age of 0 keeps its layer for ever.  Bodies first, then rows, then the
\* hours that ended before the cutoff.
apply_retention(db, policy, now) ==
    LET old_bodies == {r \in DOMAIN db.bodies :
                        RowBefore(db.bodies[r], now - policy.body_age)}
        kept == IF policy.body_age = 0 THEN db
                ELSE [db EXCEPT !.bodies = Without(@, old_bodies)]
        old_rows == {r \in DOMAIN db.logs :
                        RowBefore(db.logs[r].ts, now - policy.log_age)}
        logs_done == IF policy.log_age = 0 THEN kept ELSE Cascade(kept, old_rows)
        old_hours == {k \in DOMAIN db.rollup :
                        k.bucket < Hour(now - policy.rollup_age)}
    IN  IF policy.rollup_age = 0 THEN logs_done
        ELSE [logs_done EXCEPT !.rollup = Without(@, old_hours)]

\* Recomputes the rollup from the rows that are still there.
rebuild_rollup(db) ==
    [key \in {RollupKey(row) : row \in RowsOf(db)} |->
        TotalsDecodeAggregates({row \in RowsOf(db) : RollupKey(row) = key})]

(***************************************************************************)
(* The usage summary.  A query is a range, a granularity, filters that may *)
(* be Unset and a dimension to split the series by, "" for none.             *)
(***************************************************************************)
Asked(filter, name) == filter \in {Unset, name}

Matches(q, line) == /\ Asked(q.provider, line.provider)
                    /\ Asked(q.model, line.model)
                    /\ Asked(q.agent, line.agent)

\* Mutant: the lower bound is used as it stands.
hour_floor_missing(t) == t

\* The granularity's hour floor of the lower bound: a rollup row is a whole hour.
hour_floor(t) == Hour(t)

RollupLines(db, q) ==
    {k \in DOMAIN db.rollup : /\ k.bucket >= hour_floor(q.from)
                              /\ k.bucket < q.to
                              /\ Matches(q, k)}

DetailRows(db, q) ==
    {row \in RowsOf(db) : /\ RowInRange(row.ts, q.from, q.to)
                          /\ Matches(q, row)
                          /\ Asked(q.account, row.account)}

\* The grouped lines that the summary folds: rollup rows, or detail rows when an
\* account is asked for, which the rollup does not know.
SummaryLines(db, q) ==
    IF q.account # Unset
    THEN {[at |-> bucket_expr(q.granularity, row.ts), provider |-> row.provider,
           model |-> row.model, agent |-> row.agent, source |-> row.id,
           totals |-> TotalsDecodeAggregates({row})] : row \in DetailRows(db, q)}
    ELSE {[at |-> bucket_expr(q.granularity, k.bucket), provider |-> k.provider,
           model |-> k.model, agent |-> k.agent, source |-> k.bucket,
           totals |-> db.rollup[k]] : k \in RollupLines(db, q)}

GroupBy(lines, field) ==
    [value \in {l[field] : l \in lines} |->
        SumTotals({l \in lines : l[field] = value}, LAMBDA l : l.totals)]

\* A model that several providers served names none of them.
ModelProvider(lines, model) ==
    LET served == {l.provider : l \in {x \in lines : x.model = model}}
    IN  IF Cardinality(served) = 1 THEN CHOOSE p \in served : TRUE ELSE Unset

account_groups(db, q) ==
    LET rows == {r \in DetailRows(db, q) : r.account # Empty}
    IN  [g \in {<<r.account, r.provider>> : r \in rows} |->
            TotalsAggregates({r \in rows : <<r.account, r.provider>> = g})]

session_groups(db, q) ==
    LET rows == {r \in DetailRows(db, [q EXCEPT !.account = Unset]) : r.session # Empty}
    IN  [g \in {<<r.session, r.agent>> : r \in rows} |->
            TotalsAggregates({r \in rows : <<r.session, r.agent>> = g})]

\* Ranks the split values over the whole range, heaviest first, names breaking
\* ties, and keeps the first SeriesKeep of them; a value without a name has no
\* line of its own.
KeptValues(weight) ==
    LET before(v, w) == weight[v] > weight[w] \/ (weight[v] = weight[w] /\ v < w)
    IN  {v \in DOMAIN weight :
            Cardinality({w \in DOMAIN weight : before(w, v)}) < SeriesKeep}

\* The rollup has no account to split by, and request_logs no agent: a split by
\* agent under an account filter is refused.  A split reads no decode window.
series_split(lines, dim) ==
    LET named == {l \in lines : l[dim] # Empty}
        weight == [v \in {l[dim] : l \in named} |->
                    MapThenSumSet(LAMBDA l : l.totals.tokens,
                                  {l \in named : l[dim] = v})]
        kept == {l \in named : l[dim] \in KeptValues(weight)}
        timeless(l) == [l EXCEPT !.totals.decode_n = 0]
    IN  [at \in {l.at : l \in kept} |->
            GroupBy({timeless(l) : l \in {x \in kept : x.at = at}}, dim)]

SummaryTotals(db, q) == SumTotals(SummaryLines(db, q), LAMBDA l : l.totals)

usage_summary(db, q) ==
    LET lines == SummaryLines(db, q)
    IN  [totals      |-> SummaryTotals(db, q),
         series      |-> GroupBy(lines, "at"),
         split       |-> IF q.split \in {"", "account"} THEN EmptyTable
                         ELSE series_split(lines, q.split),
         by_provider |-> GroupBy(lines, "provider"),
         by_model    |-> GroupBy(lines, "model"),
         providers   |-> [m \in {l.model : l \in lines} |-> ModelProvider(lines, m)],
         by_agent    |-> GroupBy(lines, "agent"),
         by_account  |-> account_groups(db, q),
         by_session  |-> session_groups(db, q)]

\* The calendar of the last HeatmapWeeks weeks: a day's calls, days without any
\* left out.  The span is its own; only the filters of the query count.
heatmap(db, q, now) ==
    LET from == (monday_of(Day(now)) - 7 * (HeatmapWeeks - 1)) * TicksPerDay
        keys == {k \in DOMAIN db.rollup : /\ k.bucket >= from
                                          /\ k.bucket <= now
                                          /\ Matches(q, k)}
    IN  [day \in {Day(k.bucket) : k \in keys} |->
            SumTotals({k \in keys : Day(k.bucket) = day}, LAMBDA k : db.rollup[k])]

(***************************************************************************)
(* The ledger: one predicate for the page, the count and the totals.       *)
(***************************************************************************)
where_clause(f, row) ==
    /\ RowInRange(row.ts, f.from, f.to)
    /\ f.day # Unset => Day(row.ts) = f.day
    /\ Matches(f, row)
    /\ f.agent # Empty          \* a row without an agent equals no name
    /\ Asked(f.account, row.account)
    /\ f.failed => row.status >= 400
    /\ f.retried => row.attempt > 0
    /\ f.query # Unset => f.query \in {row.model, row.provider, row.session}

LedgerRows(db, f) == {row \in RowsOf(db) : where_clause(f, row)}

\* A keyset page: the newest rows below the cursor, and the last id as the next
\* cursor when the page is full.
ledger_page(db, f, cursor) ==
    LET below == {row \in LedgerRows(db, f) : cursor = Unset \/ row.id < cursor}
        rows  == {row \in below :
                    Cardinality({x \in below : x.id > row.id}) < PageLimit}
    IN  [rows        |-> rows,
         next_cursor |-> IF Cardinality(rows) = PageLimit
                         THEN Min({row.id : row \in rows}) ELSE Unset,
         totals      |-> TotalsAggregates(LedgerRows(db, f))]

OthersToPick(db, f, dim) == LedgerRows(db, [f EXCEPT ![dim] = Unset])

\* The rankings, each with its own dimension's filter cleared.
ledger_by(db, f) ==
    LET ranking(rows, field) ==
            [v \in {row[field] : row \in rows} |->
                TotalsAggregates({row \in rows : row[field] = v})]
        agents == OthersToPick(db, f, "agent")
        models == OthersToPick(db, f, "model")
    IN  [provider |-> ranking(OthersToPick(db, f, "provider"), "provider"),
         agent    |-> ranking({row \in agents : row.agent # Empty}, "agent"),
         model    |-> [g \in {<<row.model, row.provider>> : row \in models} |->
                        TotalsAggregates({row \in models :
                                            <<row.model, row.provider>> = g})]]
=============================================================================
