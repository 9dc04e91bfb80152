--------------------------- MODULE RequestLedgerProofs ---------------------------
(***************************************************************************)
(* Proofs about the request log for any calls, queue and batch sizes,      *)
(* limits and ages, and whatever faults, sweeps and restarts happen.       *)
(***************************************************************************)
EXTENDS RequestLedger, FiniteSetTheorems, SequenceTheorems, TLAPS

(***************************************************************************)
(* Induction, on sets of numbers and of finite sets.                       *)
(***************************************************************************)
\* The least number principle, on which every induction below rests.
LEMMA LeastNumber ==
  ASSUME NEW T, T \subseteq Nat, T # {}
  PROVE  \E x \in T : \A y \in T : x <= y
<1>1. PICK x \in T : \A y \in T : ~ (<<y, x>> \in OpToRel(<,Nat))
  BY WFMin, NatLessThanWellFounded
<1>2. \A m, n \in Nat : m < n => <<m, n>> \in OpToRel(<,Nat)
  BY DEF OpToRel
<1>3. \A y \in T : ~(y < x)
  BY <1>1, <1>2, Zenon
<1> QED
  BY <1>3

\* A set of numbers that holds 0 and every successor holds them all.
LEMMA UpTo ==
  ASSUME NEW L \in Nat, NEW G, 0 \in G, \A n \in 1..L : n - 1 \in G => n \in G
  PROVE  \A n \in 0..L : n \in G
<1> DEFINE T == {n \in 0..L : n \notin G}
<1> SUFFICES ASSUME T # {} PROVE FALSE
  OBVIOUS
<1>0. T \subseteq Nat
  OBVIOUS
<1>1. PICK x \in T : \A y \in T : x <= y
  <2> HIDE DEF T
  <2> QED
    BY <1>0, LeastNumber
<1>2. x \in 1..L /\ x - 1 \in 0..L /\ ~(x <= x - 1)
  BY <1>1
<1> QED
  BY <1>1, <1>2

\* A set of finite sets that holds {} and every one-element extension within S
\* holds S.
LEMMA GrowTo ==
  ASSUME NEW S, IsFiniteSet(S), NEW G, {} \in G,
         \A T \in SUBSET S, x \in S : T \in G /\ x \notin T => T \cup {x} \in G
  PROVE  \A T \in SUBSET S : T \in G
<1> DEFINE N == Cardinality(S)
           H == {n \in 0..N : \A T \in SUBSET S : Cardinality(T) = n => T \in G}
<1>1. N \in Nat
  BY FS_CardinalityType
<1>2. \A T \in SUBSET S : IsFiniteSet(T) /\ Cardinality(T) \in 0..N
  <2> TAKE T \in SUBSET S
  <2>1. IsFiniteSet(T) /\ Cardinality(T) <= N
    BY FS_Subset
  <2> QED
    BY <1>1, <2>1, FS_CardinalityType
<1>3. 0 \in H
  BY <1>1, <1>2, FS_EmptySet
<1>4. ASSUME NEW n \in 1..N, n - 1 \in H PROVE n \in H
  <2> SUFFICES ASSUME NEW T \in SUBSET S, Cardinality(T) = n PROVE T \in G
    OBVIOUS
  <2>1. PICK x \in T : TRUE
    BY <1>2, FS_EmptySet
  <2>2. Cardinality(T \ {x}) = n - 1
    BY <1>2, <2>1, FS_RemoveElement
  <2>3. T \ {x} \in G /\ x \notin T \ {x} /\ T \ {x} \in SUBSET S
    BY <1>4, <2>2
  <2>4. (T \ {x}) \cup {x} \in G
    BY <2>1, <2>3
  <2>5. (T \ {x}) \cup {x} = T
    BY <2>1
  <2> QED
    BY <2>4, <2>5
<1>5. \A n \in 0..N : n \in H
  <2> HIDE DEF H
  <2> QED
    BY <1>1, <1>3, <1>4, UpTo
<1> QED
  BY <1>2, <1>5

(***************************************************************************)
(* The statements of one transaction, one record after the other.          *)
(***************************************************************************)
\* The database after the first n records of a transaction.
IsRun(f, d, records, fails, L) ==
  f = [n \in 0..L |-> IF n = 0 THEN d
                      ELSE insert_request_log_row(f[n - 1], records[n], fails[n])]

LEMMA RunExists ==
  ASSUME NEW d, NEW records, NEW fails, NEW L \in Nat
  PROVE  \E f : IsRun(f, d, records, fails, L)
<1> DEFINE G == {m \in 0..L : \E f : IsRun(f, d, records, fails, m)}
<1>1. 0 \in G
  <2>1. IsRun([n \in 0..0 |-> d], d, records, fails, 0)
    BY DEF IsRun
  <2> QED
    BY <2>1
<1>2. ASSUME NEW m \in 1..L, m - 1 \in G PROVE m \in G
  <2>1. PICK f : IsRun(f, d, records, fails, m - 1)
    BY <1>2
  <2> DEFINE g == [n \in 0..m |-> IF n = m
                     THEN insert_request_log_row(f[m - 1], records[m], fails[m])
                     ELSE f[n]]
  <2>2. \A n \in 0..m : g[n] = IF n = 0 THEN d
                     ELSE insert_request_log_row(g[n - 1], records[n], fails[n])
    <3> TAKE n \in 0..m
    <3>1. CASE n = m
      <4>1. g[n - 1] = f[m - 1] /\ n # 0
        BY <3>1
      <4> QED
        BY <3>1, <4>1
    <3>2. CASE n # m
      <4>1. n \in 0..m - 1 /\ g[n] = f[n] /\ (n # 0 => n - 1 \in 0..m /\ n - 1 # m)
        BY <3>2
      <4>2. n # 0 => g[n - 1] = f[n - 1]
        BY <4>1
      <4>3. f[n] = IF n = 0 THEN d ELSE insert_request_log_row(f[n - 1], records[n], fails[n])
        BY <2>1, <4>1 DEF IsRun
      <4> QED
        BY <4>1, <4>2, <4>3
    <3> QED
      BY <3>1, <3>2
  <2>3. IsRun(g, d, records, fails, m)
    BY <2>2 DEF IsRun
  <2> QED
    BY <2>3
<1>3. \A n \in 0..L : n \in G
  <2> HIDE DEF G
  <2> QED
    BY <1>1, <1>2, UpTo
<1> QED
  BY <1>3

\* The transaction is the end of such a run, whose steps insert the records.
LEMMA TransactionRuns ==
  ASSUME NEW d, NEW records, NEW fails, Len(records) \in Nat
  PROVE  \E f : /\ f[0] = d
                /\ \A n \in 1..Len(records) :
                     f[n] = insert_request_log_row(f[n - 1], records[n], fails[n])
                /\ insert_request_logs(d, records, fails) = f[Len(records)]
<1> DEFINE L == Len(records)
           f == CHOOSE f : IsRun(f, d, records, fails, L)
<1>1. IsRun(f, d, records, fails, L)
  BY RunExists
<1>2. insert_request_logs(d, records, fails) = f[L]
  BY DEF insert_request_logs, IsRun
<1>3. \A n \in 0..L : f[n] = IF n = 0 THEN d
                     ELSE insert_request_log_row(f[n - 1], records[n], fails[n])
  <2> HIDE DEF f
  <2> QED
    BY <1>1 DEF IsRun
<1> HIDE DEF f
<1>4. f[0] = d
  BY <1>3
<1>5. \A n \in 1..L : f[n] = insert_request_log_row(f[n - 1], records[n], fails[n])
  BY <1>3
<1> QED
  BY <1>2, <1>4, <1>5

(***************************************************************************)
(* Records and rows.                                                       *)
(***************************************************************************)
LEMMA WithIs ==
  ASSUME NEW t, NEW k, NEW v
  PROVE  /\ DOMAIN With(t, k, v) = DOMAIN t \cup {k}
         /\ With(t, k, v)[k] = v
         /\ \A x \in DOMAIN t : x # k => With(t, k, v)[x] = t[x]
  BY DEF With

Record == [provider : Nat, model : Nat, agent : Nat, account : Nat, session : Nat,
           status : Nat, tokens : Nat, latency : Nat, ttft : Nat, priced : BOOLEAN,
           cost : Nat, attempt : Nat, looped : BOOLEAN, decode_out : Nat, decode_ms : Nat,
           request : Calls, ts : Nat]

\* A row is its record and an id.
RowOf(rec, id) == With(rec, "id", id)

LEMMA RecordOfIs ==
  ASSUME NEW r \in Calls, now \in Nat
  PROVE  RecordOf(r) \in Record /\ RecordOf(r).request = r /\ RecordOf(r).ts = now
<1>1. CallOf[r] \in Columns
  BY LedgerAssumption
<1> QED
  BY <1>1 DEF RecordOf, With, Columns, Record

LEMMA RowKeepsRecord ==
  ASSUME NEW rec \in Record, NEW id
  PROVE  /\ RowOf(rec, id).id = id
         /\ DOMAIN RowOf(rec, id) = DOMAIN rec \cup {"id"}
         /\ \A f \in DOMAIN rec : RowOf(rec, id)[f] = rec[f]
         /\ RowOf(rec, id).request = rec.request /\ RowOf(rec, id).ts = rec.ts
  BY DEF RowOf, With, Record

(***************************************************************************)
(* The tables.                                                             *)
(***************************************************************************)
Totals == [TotalFields -> Nat]

IsDb(d) ==
  /\ DOMAIN d = {"logs", "bodies", "rollup", "next_id"}
  /\ d.next_id \in Nat
  /\ DOMAIN d.logs \subseteq Calls
  /\ \A r \in DOMAIN d.logs : \E rec \in Record, id \in Nat :
        rec.request = r /\ d.logs[r] = RowOf(rec, id)
  /\ DOMAIN d.bodies \subseteq DOMAIN d.logs
  /\ \A k \in DOMAIN d.rollup : d.rollup[k] \in Totals

\* Ids ascend with the times of the calls.
IdsAscend(d) ==
  \A r \in DOMAIN d.logs :
    /\ d.logs[r].id < d.next_id
    /\ \A s \in DOMAIN d.logs :
         /\ d.logs[r].id < d.logs[s].id => d.logs[r].ts <= d.logs[s].ts
         /\ d.logs[r].id = d.logs[s].id => r = s

LEMMA RowFacts ==
  ASSUME NEW d, IsDb(d), NEW r \in DOMAIN d.logs
  PROVE  d.logs[r].id \in Nat /\ d.logs[r].ts \in Nat /\ d.logs[r].request = r
<1>1. PICK rec \in Record, id \in Nat : rec.request = r /\ d.logs[r] = RowOf(rec, id)
  BY DEF IsDb
<1>2. rec.ts \in Nat
  BY DEF Record
<1>3. RowOf(rec, id).id = id /\ RowOf(rec, id).request = rec.request /\ RowOf(rec, id).ts = rec.ts
  BY RowKeepsRecord
<1> QED
  BY <1>1, <1>2, <1>3

\* What the statements of one new record leave behind.
LEMMA InsertIs ==
  ASSUME NEW d, IsDb(d), NEW rec \in Record, rec.request \notin DOMAIN d.logs, NEW what,
         NEW e, e = insert_request_log_row(d, rec, what)
  PROVE  /\ what = "row" => e = d
         /\ what # "row" =>
              /\ e.logs = With(d.logs, rec.request, RowOf(rec, d.next_id))
              /\ e.next_id = d.next_id + 1
         /\ e.bodies = IF what \in {"row", "body"} THEN d.bodies
                       ELSE With(d.bodies, rec.request, rec.ts)
         /\ e.rollup = IF what \in {"row", "body", "rollup"} THEN d.rollup
                       ELSE upsert_rollup(d.rollup, rec)
         /\ DOMAIN e = DOMAIN d
<1> DEFINE row == [d EXCEPT !.logs = With(@, rec.request, RowOf(rec, d.next_id)),
                            !.next_id = @ + 1]
           body == [row EXCEPT !.bodies = With(@, rec.request, rec.ts)]
           all == [body EXCEPT !.rollup = upsert_rollup(@, rec)]
<1>1. DOMAIN d = {"logs", "bodies", "rollup", "next_id"}
  BY DEF IsDb
<1>2. /\ row.logs = With(d.logs, rec.request, RowOf(rec, d.next_id))
      /\ row.next_id = d.next_id + 1 /\ row.bodies = d.bodies /\ row.rollup = d.rollup
      /\ DOMAIN row = DOMAIN d
  BY <1>1
<1>3. /\ body.logs = row.logs /\ body.next_id = row.next_id /\ body.rollup = row.rollup
      /\ body.bodies = With(d.bodies, rec.request, rec.ts)
      /\ DOMAIN body = DOMAIN d
  <2> HIDE DEF row
  <2> QED
    BY <1>1, <1>2
<1>4. /\ all.logs = row.logs /\ all.next_id = row.next_id /\ all.bodies = body.bodies
      /\ all.rollup = upsert_rollup(d.rollup, rec)
      /\ DOMAIN all = DOMAIN d
  <2> HIDE DEF row, body
  <2> QED
    BY <1>1, <1>2, <1>3
<1>5. e = CASE what = "row"  -> d
            [] what = "body" -> row
            [] what = "rollup" -> body
            [] OTHER -> all
  BY DEF insert_request_log_row, RowOf
<1> HIDE DEF row, body, all
<1>6. CASE what = "row" BY <1>1, <1>5, <1>6
<1>7. CASE what = "body" BY <1>2, <1>5, <1>7
<1>8. CASE what = "rollup" BY <1>2, <1>3, <1>5, <1>8
<1>9. CASE what \notin {"row", "body", "rollup"}
  <2>1. e = all
    BY <1>5, <1>9
  <2> QED
    BY <1>2, <1>3, <1>4, <1>9, <2>1
<1> QED
  BY <1>6, <1>7, <1>8, <1>9

LEMMA ContributionIsTotals ==
  ASSUME NEW rec \in Record
  PROVE  Contribution(rec) \in Totals
<1>1. /\ rec.tokens \in Nat /\ rec.latency \in Nat /\ rec.cost \in Nat
  BY DEF Record
<1>2. \A c \in BOOLEAN : One(c) \in Nat
  BY DEF One
<1> QED
  BY <1>1, <1>2 DEF Contribution, Totals, TotalFields, One

LEMMA MaxOfTwo ==
  ASSUME NEW a \in Nat, NEW b \in Nat
  PROVE  Max({a, b}) = (IF a >= b THEN a ELSE b)
<1>1. \E x \in {a, b} : \A y \in {a, b} : x >= y
  OBVIOUS
<1> QED
  BY <1>1 DEF Max

LEMMA AddIsTotals ==
  ASSUME NEW a \in Totals, NEW b \in Totals
  PROVE  add_totals(a, b) \in Totals
<1>1. \A f \in TotalFields : a[f] \in Nat /\ b[f] \in Nat
  BY DEF Totals
<1>2. \A f \in TotalFields : Max({a[f], b[f]}) \in Nat
  BY <1>1, MaxOfTwo
<1> QED
  BY <1>1, <1>2 DEF add_totals, Totals

LEMMA NoTotalsIs == NoTotals \in Totals
  BY DEF NoTotals, Totals

LEMMA UpsertIs ==
  ASSUME NEW u, NEW rec \in Record, \A k \in DOMAIN u : u[k] \in Totals
  PROVE  LET w == upsert_rollup(u, rec)
             k == RollupKey(rec)
         IN  /\ DOMAIN w = DOMAIN u \cup {k}
             /\ w[k] = add_totals(IF k \in DOMAIN u THEN u[k] ELSE NoTotals, Contribution(rec))
             /\ \A x \in DOMAIN u : x # k => w[x] = u[x]
             /\ \A x \in DOMAIN w : w[x] \in Totals
<1> DEFINE k == RollupKey(rec)
           old == IF k \in DOMAIN u THEN u[k] ELSE NoTotals
           new == add_totals(old, Contribution(rec))
           w == With(u, k, new)
<1>1. old \in Totals /\ Contribution(rec) \in Totals
  BY NoTotalsIs, ContributionIsTotals
<1>2. new \in Totals
  <2> HIDE DEF old
  <2> QED
    BY <1>1, AddIsTotals
<1>3. upsert_rollup(u, rec) = w
  BY DEF upsert_rollup
<1> HIDE DEF new, k
<1>4. /\ DOMAIN w = DOMAIN u \cup {k} /\ w[k] = new
      /\ \A x \in DOMAIN u : x # k => w[x] = u[x]
  BY DEF With
<1> HIDE DEF w
<1>5. \A x \in DOMAIN w : w[x] \in Totals
  BY <1>2, <1>4
<1> QED
  BY <1>3, <1>4, <1>5 DEF new, k

\* One more record keeps the tables in order.
LEMMA InsertKeeps ==
  ASSUME NEW d, IsDb(d), IdsAscend(d), NEW rec \in Record, rec.request \notin DOMAIN d.logs,
         \A r \in DOMAIN d.logs : d.logs[r].ts <= rec.ts, NEW what,
         NEW e, e = insert_request_log_row(d, rec, what)
  PROVE  /\ IsDb(e) /\ IdsAscend(e)
         /\ e.next_id >= d.next_id
         /\ DOMAIN e.logs = DOMAIN d.logs \cup (IF what = "row" THEN {} ELSE {rec.request})
         /\ \A r \in DOMAIN d.logs : e.logs[r] = d.logs[r]
         /\ what # "row" => e.logs[rec.request] = RowOf(rec, d.next_id)
<1>1. CASE what = "row"
  <2>1. e = d
    BY <1>1, InsertIs
  <2> QED
    BY <1>1, <2>1 DEF IsDb
<1>2. CASE what # "row"
  <2> DEFINE new == RowOf(rec, d.next_id)
             q == rec.request
  <2>1. e.logs = With(d.logs, q, new) /\ e.next_id = d.next_id + 1 /\ DOMAIN e = DOMAIN d
    BY <1>2, InsertIs
  <2>2. /\ DOMAIN e.logs = DOMAIN d.logs \cup {q} /\ e.logs[q] = new
        /\ \A r \in DOMAIN d.logs : r # q => e.logs[r] = d.logs[r]
    BY <2>1 DEF With
  <2>3. \A r \in DOMAIN d.logs : e.logs[r] = d.logs[r]
    BY <2>2
  <2>4. /\ d.next_id \in Nat /\ e.next_id \in Nat /\ rec.ts \in Nat /\ q \in Calls
        /\ new.id = d.next_id /\ new.ts = rec.ts
    <3>1. d.next_id \in Nat /\ rec.ts \in Nat /\ q \in Calls
      BY DEF IsDb, Record
    <3>2. new.id = d.next_id /\ new.ts = rec.ts
      BY RowKeepsRecord, Zenon
    <3> QED
      BY <2>1, <3>1, <3>2
  <2>5. \A r \in DOMAIN d.logs : d.logs[r].id \in Nat /\ d.logs[r].ts \in Nat
    BY RowFacts
  <2>6. \A r \in DOMAIN e.logs : \E x \in Record, id \in Nat :
           x.request = r /\ e.logs[r] = RowOf(x, id)
    <3> TAKE r \in DOMAIN e.logs
    <3>1. CASE r = q
      BY <2>2, <2>4, <3>1
    <3>2. CASE r # q
      <4>1. r \in DOMAIN d.logs /\ e.logs[r] = d.logs[r]
        BY <2>2, <3>2
      <4> QED
        BY <4>1 DEF IsDb
    <3> QED
      BY <3>1, <3>2
  <2>7. DOMAIN e.bodies \subseteq DOMAIN e.logs
    <3>1. e.bodies = d.bodies \/ e.bodies = With(d.bodies, q, rec.ts)
      BY InsertIs
    <3>2. DOMAIN With(d.bodies, q, rec.ts) = DOMAIN d.bodies \cup {q}
      BY DEF With
    <3> QED
      BY <2>2, <3>1, <3>2 DEF IsDb
  <2>8. \A k \in DOMAIN e.rollup : e.rollup[k] \in Totals
    <3>1. \A k \in DOMAIN d.rollup : d.rollup[k] \in Totals
      BY DEF IsDb
    <3>2. e.rollup = d.rollup \/ e.rollup = upsert_rollup(d.rollup, rec)
      BY InsertIs
    <3>3. \A k \in DOMAIN upsert_rollup(d.rollup, rec) : upsert_rollup(d.rollup, rec)[k] \in Totals
      BY <3>1, UpsertIs
    <3> QED
      BY <3>1, <3>2, <3>3
  <2>9. IsDb(e)
    BY <2>1, <2>2, <2>4, <2>6, <2>7, <2>8 DEF IsDb
  <2> HIDE DEF new, q
  <2>10. IdsAscend(e)
    <3> SUFFICES ASSUME NEW r \in DOMAIN e.logs, NEW s \in DOMAIN e.logs
                 PROVE  /\ e.logs[r].id < e.next_id
                        /\ e.logs[r].id < e.logs[s].id => e.logs[r].ts <= e.logs[s].ts
                        /\ e.logs[r].id = e.logs[s].id => r = s
      BY DEF IdsAscend
    <3>1. \A x \in DOMAIN d.logs : d.logs[x].id < d.next_id
      BY DEF IdsAscend
    <3>2. CASE r = q /\ s = q
      BY <2>1, <2>2, <2>4, <3>2
    <3>3. CASE r = q /\ s # q
      <4>1. s \in DOMAIN d.logs /\ e.logs[s] = d.logs[s]
        BY <2>2, <3>3
      <4> QED
        BY <2>1, <2>2, <2>4, <2>5, <3>1, <3>3, <4>1
    <3>4. CASE r # q /\ s = q
      <4>1. r \in DOMAIN d.logs /\ e.logs[r] = d.logs[r]
        BY <2>2, <3>4
      <4> QED
        BY <2>1, <2>2, <2>4, <2>5, <3>1, <3>4, <4>1
    <3>5. CASE r # q /\ s # q
      <4>1. /\ r \in DOMAIN d.logs /\ e.logs[r] = d.logs[r]
            /\ s \in DOMAIN d.logs /\ e.logs[s] = d.logs[s]
        BY <2>2, <3>5
      <4>2. /\ d.logs[r].id < d.logs[s].id => d.logs[r].ts <= d.logs[s].ts
            /\ d.logs[r].id = d.logs[s].id => r = s
        BY <4>1 DEF IdsAscend
      <4> QED
        BY <2>1, <2>4, <2>5, <3>1, <4>1, <4>2
    <3> QED
      BY <3>2, <3>3, <3>4, <3>5
  <2> QED
    BY <1>2, <2>1, <2>2, <2>3, <2>4, <2>9, <2>10 DEF new, q
<1> QED
  BY <1>1, <1>2

\* Records that the tables do not have, in the order of their calls.
Fresh(d, records) ==
  /\ records \in Seq(Record)
  /\ \A i, j \in DOMAIN records : i < j =>
        /\ records[i].request # records[j].request
        /\ records[i].ts <= records[j].ts
  /\ \A i \in DOMAIN records :
        /\ records[i].request \notin DOMAIN d.logs
        /\ \A r \in DOMAIN d.logs : d.logs[r].ts <= records[i].ts

Kept(fails, n) == {i \in 1..n : fails[i] # "row"}

\* A database d after the first n records of a transaction.
Progress(d, e, records, fails, n) ==
  /\ IsDb(e) /\ IdsAscend(e)
  /\ e.next_id >= d.next_id
  /\ DOMAIN e.logs = DOMAIN d.logs \cup {records[i].request : i \in Kept(fails, n)}
  /\ \A r \in DOMAIN d.logs : e.logs[r] = d.logs[r]
  /\ \A i \in Kept(fails, n) : \E id \in Nat :
        id >= d.next_id /\ e.logs[records[i].request] = RowOf(records[i], id)

LEMMA ProgressStep ==
  ASSUME NEW d, IsDb(d), NEW records, Fresh(d, records), NEW fails, NEW n \in DOMAIN records,
         NEW c, Progress(d, c, records, fails, n - 1),
         NEW e, e = insert_request_log_row(c, records[n], fails[n])
  PROVE  Progress(d, e, records, fails, n)
<1> DEFINE rec == records[n]
<1>1. DOMAIN records = 1..Len(records) /\ Len(records) \in Nat /\ rec \in Record /\ n \in Nat
  BY DEF Fresh
<1>2. Kept(fails, n) = Kept(fails, n - 1) \cup (IF fails[n] = "row" THEN {} ELSE {n})
  BY <1>1 DEF Kept
<1>3. \A i \in Kept(fails, n - 1) : i \in DOMAIN records /\ i < n
  BY <1>1 DEF Kept
<1>4. \A i \in Kept(fails, n - 1) : records[i].request # rec.request /\ records[i].ts <= rec.ts
  BY <1>3 DEF Fresh
<1>5. rec.request \notin DOMAIN c.logs
  <2>1. rec.request \notin DOMAIN d.logs
    BY DEF Fresh
  <2> QED
    BY <1>4, <2>1 DEF Progress
<1>6. \A r \in DOMAIN c.logs : c.logs[r].ts <= rec.ts
  <2> TAKE r \in DOMAIN c.logs
  <2>1. CASE r \in DOMAIN d.logs
    <3>1. c.logs[r] = d.logs[r]
      BY <2>1 DEF Progress
    <3> QED
      BY <2>1, <3>1 DEF Fresh
  <2>2. CASE r \notin DOMAIN d.logs
    <3>1. PICK i \in Kept(fails, n - 1) : r = records[i].request
      BY <2>2 DEF Progress
    <3>2. PICK id \in Nat : c.logs[r] = RowOf(records[i], id)
      BY <3>1 DEF Progress
    <3>3. records[i] \in Record
      BY <1>1, <1>3 DEF Fresh
    <3>4. c.logs[r].ts = records[i].ts
      BY <3>2, <3>3 DEF RowOf, With, Record
    <3> QED
      BY <1>4, <3>4
  <2> QED
    BY <2>1, <2>2
<1>7. IsDb(c) /\ IdsAscend(c) /\ c.next_id \in Nat /\ d.next_id \in Nat /\ c.next_id >= d.next_id
  BY DEF Progress, IsDb
<1> HIDE DEF rec
<1>8. /\ IsDb(e) /\ IdsAscend(e)
      /\ e.next_id >= c.next_id
      /\ DOMAIN e.logs = DOMAIN c.logs \cup (IF fails[n] = "row" THEN {} ELSE {rec.request})
      /\ \A r \in DOMAIN c.logs : e.logs[r] = c.logs[r]
      /\ fails[n] # "row" => e.logs[rec.request] = RowOf(rec, c.next_id)
  <2>1. e = insert_request_log_row(c, rec, fails[n])
    BY DEF rec
  <2> QED
    BY <1>1, <1>5, <1>6, <1>7, <2>1, InsertKeeps
<1>9. e.next_id \in Nat /\ e.next_id >= d.next_id
  BY <1>7, <1>8 DEF IsDb
<1>10. /\ DOMAIN c.logs = DOMAIN d.logs \cup {records[i].request : i \in Kept(fails, n - 1)}
       /\ \A r \in DOMAIN d.logs : c.logs[r] = d.logs[r]
       /\ \A i \in Kept(fails, n - 1) : \E id \in Nat :
            id >= d.next_id /\ c.logs[records[i].request] = RowOf(records[i], id)
  BY DEF Progress
<1>11. DOMAIN e.logs = DOMAIN d.logs \cup {records[i].request : i \in Kept(fails, n)}
  BY <1>2, <1>8, <1>10 DEF rec
<1>12. \A r \in DOMAIN d.logs : e.logs[r] = d.logs[r]
  BY <1>8, <1>10
<1>13. ASSUME NEW i \in Kept(fails, n)
       PROVE \E id \in Nat : id >= d.next_id /\ e.logs[records[i].request] = RowOf(records[i], id)
  <2>1. CASE i \in Kept(fails, n - 1)
    <3>1. records[i].request \in DOMAIN c.logs
      BY <1>10, <2>1
    <3> QED
      BY <1>8, <1>10, <2>1, <3>1
  <2>2. CASE i \notin Kept(fails, n - 1)
    <3>1. i = n /\ fails[n] # "row"
      BY <1>2, <1>13, <2>2
    <3> QED
      BY <1>7, <1>8, <3>1 DEF rec
  <2> QED
    BY <2>1, <2>2
<1> QED
  BY <1>8, <1>9, <1>11, <1>12, <1>13 DEF Progress

LEMMA TransactionIs ==
  ASSUME NEW d, IsDb(d), IdsAscend(d), NEW records, Fresh(d, records), NEW fails
  PROVE  Progress(d, insert_request_logs(d, records, fails), records, fails, Len(records))
<1> DEFINE L == Len(records)
<1>1. L \in Nat /\ DOMAIN records = 1..L
  BY DEF Fresh
<1>2. PICK f : /\ f[0] = d
               /\ \A n \in 1..L : f[n] = insert_request_log_row(f[n - 1], records[n], fails[n])
               /\ insert_request_logs(d, records, fails) = f[L]
  BY <1>1, TransactionRuns
<1> DEFINE G == {n \in 0..L : Progress(d, f[n], records, fails, n)}
<1>3. 0 \in G
  <2>1. Kept(fails, 0) = {}
    BY DEF Kept
  <2>2. d.next_id >= d.next_id
    BY DEF IsDb
  <2>3. Progress(d, d, records, fails, 0)
    BY <2>1, <2>2 DEF Progress
  <2> QED
    BY <1>1, <1>2, <2>3
<1>4. ASSUME NEW n \in 1..L, n - 1 \in G PROVE n \in G
  <2>1. Progress(d, f[n], records, fails, n)
    BY <1>1, <1>2, <1>4, ProgressStep
  <2> QED
    BY <1>1, <2>1
<1>5. \A n \in 0..L : n \in G
  <2> HIDE DEF G
  <2> QED
    BY <1>1, <1>3, <1>4, UpTo
<1>6. L \in G
  BY <1>1, <1>5
<1> QED
  BY <1>2, <1>6

(***************************************************************************)
(* Where the calls are.  The line is what the writer still has to store:   *)
(* its batch and then the channel.                                         *)
(***************************************************************************)
Rows(sto) == {r \in Calls : sto[r] > 0}

FlowOf(line, d, sto, unl, dro, los, t) ==
  /\ IsDb(d) /\ IdsAscend(d) /\ Fresh(d, line)
  /\ \A r \in DOMAIN d.logs : d.logs[r].ts <= t
  /\ \A i \in DOMAIN line : line[i].ts <= t
  /\ sto \in [Calls -> {0, 1}] /\ DOMAIN d.logs \subseteq Rows(sto)
  /\ unl \subseteq Calls /\ dro \subseteq Calls /\ los \subseteq Calls
  /\ Calls = unl \cup dro \cup los \cup Requests(line) \cup Rows(sto)
  /\ unl \cap (dro \cup los \cup Requests(line) \cup Rows(sto)) = {}
  /\ Requests(line) \cap (dro \cup los \cup Rows(sto)) = {}

LEMMA ConcatIs ==
  ASSUME NEW a \in Seq(Record), NEW b \in Seq(Record)
  PROVE  /\ a \o b \in Seq(Record)
         /\ DOMAIN a = 1..Len(a) /\ DOMAIN b = 1..Len(b) /\ Len(a) \in Nat /\ Len(b) \in Nat
         /\ DOMAIN (a \o b) = 1..Len(a) + Len(b)
         /\ \A i \in DOMAIN a : i \in DOMAIN (a \o b) /\ (a \o b)[i] = a[i]
         /\ \A i \in DOMAIN b : i + Len(a) \in DOMAIN (a \o b) /\ (a \o b)[i + Len(a)] = b[i]
         /\ \A i \in DOMAIN (a \o b) : \/ i \in DOMAIN a
                                       \/ i - Len(a) \in DOMAIN b /\ i = (i - Len(a)) + Len(a)
         /\ Requests(a \o b) = Requests(a) \cup Requests(b)
<1>1. /\ a \o b \in Seq(Record)
      /\ DOMAIN a = 1..Len(a) /\ DOMAIN b = 1..Len(b) /\ Len(a) \in Nat /\ Len(b) \in Nat
      /\ DOMAIN (a \o b) = 1..Len(a) + Len(b)
  OBVIOUS
<1>2. \A i \in DOMAIN a : i \in DOMAIN (a \o b) /\ (a \o b)[i] = a[i]
  BY <1>1
<1>3. \A i \in DOMAIN b : i + Len(a) \in DOMAIN (a \o b) /\ (a \o b)[i + Len(a)] = b[i]
  BY <1>1
<1>4. \A i \in DOMAIN (a \o b) : \/ i \in DOMAIN a
                                 \/ i - Len(a) \in DOMAIN b /\ i = (i - Len(a)) + Len(a)
  BY <1>1
<1>5. Requests(a) \cup Requests(b) \subseteq Requests(a \o b)
  BY <1>2, <1>3 DEF Requests
<1>6. Requests(a \o b) \subseteq Requests(a) \cup Requests(b)
  <2> SUFFICES ASSUME NEW i \in DOMAIN (a \o b)
               PROVE (a \o b)[i].request \in Requests(a) \cup Requests(b)
    BY DEF Requests
  <2>1. CASE i \in DOMAIN a
    BY <1>2, <2>1 DEF Requests
  <2>2. CASE i - Len(a) \in DOMAIN b /\ i = (i - Len(a)) + Len(a)
    <3> DEFINE j == i - Len(a)
    <3>1. j \in DOMAIN b /\ (a \o b)[i] = b[j]
      BY <1>3, <2>2
    <3> QED
      BY <3>1 DEF Requests
  <2> QED
    BY <1>4, <2>1, <2>2
<1> QED
  BY <1>1, <1>2, <1>3, <1>4, <1>5, <1>6

\* What is left of a line when its front is taken away.
LEMMA FreshRest ==
  ASSUME NEW d, NEW a \in Seq(Record), NEW b \in Seq(Record), Fresh(d, a \o b)
  PROVE  /\ Fresh(d, a) /\ Fresh(d, b)
         /\ Requests(a) \cap Requests(b) = {}
         /\ \A i \in DOMAIN a, j \in DOMAIN b : a[i].ts <= b[j].ts
<1> DEFINE s == a \o b
           A == DOMAIN a
           B == DOMAIN b
           m == Len(a)
<1>1. /\ m \in Nat /\ A = 1..m /\ B \subseteq Nat \ {0}
      /\ \A i \in A : i \in DOMAIN s /\ s[i] = a[i]
      /\ \A i \in B : i + m \in DOMAIN s /\ s[i + m] = b[i]
  BY ConcatIs
<1>2. /\ \A i, j \in DOMAIN s : i < j => s[i].request # s[j].request /\ s[i].ts <= s[j].ts
      /\ \A i \in DOMAIN s : /\ s[i].request \notin DOMAIN d.logs
                             /\ \A r \in DOMAIN d.logs : d.logs[r].ts <= s[i].ts
  BY DEF Fresh
<1> HIDE DEF s, A, B, m
<1>3. \A i \in A, j \in B : i < j + m
  BY <1>1
<1>4. \A i \in A, j \in B : a[i].request # b[j].request /\ a[i].ts <= b[j].ts
  BY <1>1, <1>2, <1>3
<1>5. \A i, j \in A : i < j => a[i].request # a[j].request /\ a[i].ts <= a[j].ts
  BY <1>1, <1>2
<1>6. \A i, j \in B : i < j => b[i].request # b[j].request /\ b[i].ts <= b[j].ts
  <2> SUFFICES ASSUME NEW i \in B, NEW j \in B, i < j
               PROVE  b[i].request # b[j].request /\ b[i].ts <= b[j].ts
    OBVIOUS
  <2>1. i + m < j + m
    BY <1>1
  <2> QED
    BY <1>1, <1>2, <2>1
<1>7. Fresh(d, a) /\ Fresh(d, b)
  BY <1>1, <1>2, <1>5, <1>6 DEF Fresh, A, B
<1> QED
  BY <1>4, <1>7 DEF Requests, A, B

LEMMA FlowLogs ==
  ASSUME NEW line, NEW d, NEW sto, NEW unl, NEW dro, NEW los, NEW t \in Nat,
         FlowOf(line, d, sto, unl, dro, los, t),
         NEW rec \in Record, rec.request \in unl, rec.ts = t
  PROVE  FlowOf(Append(line, rec), d, sto, unl \ {rec.request}, dro, los, t)
<1> DEFINE n == Len(line)
           new == Append(line, rec)
           q == rec.request
<1>1. /\ line \in Seq(Record) /\ n \in Nat /\ DOMAIN line = 1..n
      /\ new \in Seq(Record) /\ DOMAIN new = 1..n + 1 /\ new[n + 1] = rec
      /\ \A i \in 1..n : new[i] = line[i]
  BY DEF FlowOf, Fresh
<1>2. q \in Calls /\ q \notin Requests(line) /\ q \notin Rows(sto)
  BY DEF FlowOf
<1>3. Requests(new) = Requests(line) \cup {q}
  <2> HIDE DEF n, new, q
  <2>1. \A i \in 1..n + 1 : i \in 1..n \/ i = n + 1
    BY <1>1
  <2>2. 1..n + 1 = 1..n \cup {n + 1}
    BY <1>1
  <2> QED
    BY <1>1, <2>2 DEF Requests, q
<1>4. Fresh(d, new)
  <2>1. \A i \in 1..n : line[i].request # q /\ line[i].ts <= t
    BY <1>1, <1>2 DEF Requests, FlowOf
  <2>2. q \notin DOMAIN d.logs /\ \A r \in DOMAIN d.logs : d.logs[r].ts <= t
    BY <1>2 DEF FlowOf
  <2>3. \A i, j \in 1..n : i < j => line[i].request # line[j].request /\ line[i].ts <= line[j].ts
    BY <1>1 DEF FlowOf, Fresh
  <2>4. \A i \in 1..n : /\ line[i].request \notin DOMAIN d.logs
                        /\ \A r \in DOMAIN d.logs : d.logs[r].ts <= line[i].ts
    BY <1>1 DEF FlowOf, Fresh
  <2> HIDE DEF n, new, q
  <2>5. \A i, j \in 1..n + 1 : i < j => i \in 1..n /\ (j \in 1..n \/ j = n + 1)
    BY <1>1
  <2>6. \A i \in 1..n + 1 : i \in 1..n \/ i = n + 1
    BY <1>1
  <2>7. \A i, j \in DOMAIN new : i < j => new[i].request # new[j].request /\ new[i].ts <= new[j].ts
    BY <1>1, <2>1, <2>3, <2>5 DEF q
  <2>8. \A i \in DOMAIN new : /\ new[i].request \notin DOMAIN d.logs
                              /\ \A r \in DOMAIN d.logs : d.logs[r].ts <= new[i].ts
    BY <1>1, <2>2, <2>4, <2>6 DEF q
  <2> QED
    BY <1>1, <2>7, <2>8 DEF Fresh
<1>5. \A i \in DOMAIN new : new[i].ts <= t
  <2>1. \A i \in 1..n : line[i].ts <= t
    BY <1>1 DEF FlowOf
  <2> QED
    BY <1>1, <2>1
<1> HIDE DEF n, new, q
<1> QED
  BY <1>2, <1>3, <1>4, <1>5 DEF FlowOf, new, q

LEMMA FlowDrops ==
  ASSUME NEW line, NEW d, NEW sto, NEW unl, NEW dro, NEW los, NEW t,
         FlowOf(line, d, sto, unl, dro, los, t), NEW q \in unl
  PROVE  FlowOf(line, d, sto, unl \ {q}, dro \cup {q}, los, t)
  BY DEF FlowOf

LEMMA FlowTicks ==
  ASSUME NEW line, NEW d, NEW sto, NEW unl, NEW dro, NEW los, NEW t \in Nat,
         FlowOf(line, d, sto, unl, dro, los, t)
  PROVE  FlowOf(line, d, sto, unl, dro, los, t + 1)
<1>1. \A i \in DOMAIN line : line[i].ts \in Nat
  <2>1. \A i \in DOMAIN line : line[i] \in Record
    BY DEF FlowOf, Fresh
  <2> QED
    BY <2>1 DEF Record
<1>2. \A r \in DOMAIN d.logs : d.logs[r].ts \in Nat
  BY RowFacts DEF FlowOf
<1>3. /\ \A r \in DOMAIN d.logs : d.logs[r].ts <= t + 1
      /\ \A i \in DOMAIN line : line[i].ts <= t + 1
  BY <1>1, <1>2 DEF FlowOf
<1> QED
  BY <1>3 DEF FlowOf

LEMMA FlowLoses ==
  ASSUME NEW a \in Seq(Record), NEW b \in Seq(Record),
         NEW d, NEW sto, NEW unl, NEW dro, NEW los, NEW t,
         FlowOf(a \o b, d, sto, unl, dro, los, t)
  PROVE  FlowOf(b, d, sto, unl, dro, los \cup Requests(a), t)
<1>1. /\ Requests(a \o b) = Requests(a) \cup Requests(b)
      /\ \A i \in DOMAIN b : i + Len(a) \in DOMAIN (a \o b) /\ (a \o b)[i + Len(a)] = b[i]
  BY ConcatIs
<1>2. Fresh(d, b) /\ Requests(a) \cap Requests(b) = {}
  BY FreshRest DEF FlowOf
<1>3. \A i \in DOMAIN b : b[i].ts <= t
  BY <1>1 DEF FlowOf
<1>4. Requests(a) \subseteq Calls
  BY <1>1 DEF FlowOf
<1> QED
  BY <1>1, <1>2, <1>3, <1>4 DEF FlowOf


\* How often a transaction stores a call, and what it loses.
Times(a, fails, r) == Cardinality({i \in DOMAIN a : a[i].request = r /\ fails[i] # "row"})
Failed(a, fails) == {a[i].request : i \in {i \in DOMAIN a : fails[i] \in {"row"}}}

LEMMA TimesIs ==
  ASSUME NEW d, NEW a, Fresh(d, a), NEW fails, NEW r
  PROVE  Times(a, fails, r) = IF \E i \in Kept(fails, Len(a)) : a[i].request = r THEN 1 ELSE 0
<1> DEFINE S == {i \in DOMAIN a : a[i].request = r /\ fails[i] # "row"}
<1>1. DOMAIN a = 1..Len(a) /\ Len(a) \in Nat
  BY DEF Fresh
<1>2. CASE \E i \in Kept(fails, Len(a)) : a[i].request = r
  <2>1. PICK i \in Kept(fails, Len(a)) : a[i].request = r
    BY <1>2
  <2>2. i \in S
    BY <1>1, <2>1 DEF Kept
  <2>3. \A j \in S : j = i
    <3> SUFFICES ASSUME NEW j \in S, j # i PROVE FALSE
      OBVIOUS
    <3>1. i \in Nat /\ j \in Nat /\ (i < j \/ j < i)
      BY <1>1, <2>2
    <3> QED
      BY <2>2, <3>1 DEF Fresh
  <2>4. S = {i}
    <3> HIDE DEF S
    <3> QED
      BY <2>2, <2>3
  <2> HIDE DEF S
  <2>5. Cardinality(S) = 1
    BY <2>4, FS_Singleton
  <2> QED
    BY <1>2, <2>5 DEF Times, S
<1>3. CASE ~ \E i \in Kept(fails, Len(a)) : a[i].request = r
  <2>1. S = {}
    BY <1>1, <1>3 DEF Kept
  <2> HIDE DEF S
  <2>2. Cardinality(S) = 0
    BY <2>1, FS_EmptySet
  <2> QED
    BY <1>3, <2>2 DEF Times, S
<1> QED
  BY <1>2, <1>3

LEMMA FlowCommits ==
  ASSUME NEW a \in Seq(Record), NEW b \in Seq(Record),
         NEW d, NEW sto, NEW unl, NEW dro, NEW los, NEW t,
         FlowOf(a \o b, d, sto, unl, dro, los, t), NEW fails,
         NEW e, e = insert_request_logs(d, a, fails),
         NEW sto2, sto2 = [r \in Calls |-> sto[r] + Times(a, fails, r)]
  PROVE  FlowOf(b, e, sto2, unl, dro, los \cup Failed(a, fails), t)
<1> DEFINE m == Len(a)
           K == {a[i].request : i \in Kept(fails, m)}
           F == Failed(a, fails)
<1>1. /\ Requests(a \o b) = Requests(a) \cup Requests(b)
      /\ DOMAIN a = 1..m /\ m \in Nat
      /\ \A i \in DOMAIN a : i \in DOMAIN (a \o b) /\ (a \o b)[i] = a[i]
      /\ \A i \in DOMAIN b : i + m \in DOMAIN (a \o b) /\ (a \o b)[i + m] = b[i]
  BY ConcatIs
<1>2. /\ Fresh(d, a) /\ Fresh(d, b) /\ Requests(a) \cap Requests(b) = {}
      /\ \A i \in DOMAIN a, j \in DOMAIN b : a[i].ts <= b[j].ts
  BY FreshRest DEF FlowOf
<1>3. /\ \A i \in DOMAIN a : a[i].ts <= t
      /\ \A i \in DOMAIN b : b[i].ts <= t
  BY <1>1 DEF FlowOf
<1>4. IsDb(d) /\ IdsAscend(d)
  BY DEF FlowOf
<1>5. Progress(d, e, a, fails, m)
  BY <1>2, <1>4, TransactionIs
<1>6. /\ IsDb(e) /\ IdsAscend(e)
      /\ DOMAIN e.logs = DOMAIN d.logs \cup K
      /\ \A r \in DOMAIN d.logs : e.logs[r] = d.logs[r]
      /\ \A i \in Kept(fails, m) : \E id \in Nat : e.logs[a[i].request] = RowOf(a[i], id)
  BY <1>5 DEF Progress
<1>7. /\ K \cup F = Requests(a)
      /\ K \cap F = {}
      /\ \A i \in Kept(fails, m) : i \in DOMAIN a
  <2>1. \A i \in DOMAIN a : i \in Kept(fails, m) <=> fails[i] # "row"
    BY <1>1 DEF Kept
  <2>2. \A i \in Kept(fails, m) : i \in DOMAIN a
    BY <1>1 DEF Kept
  <2>3. \A i, j \in DOMAIN a : a[i].request = a[j].request => i = j
    <3> SUFFICES ASSUME NEW i \in DOMAIN a, NEW j \in DOMAIN a, a[i].request = a[j].request, i # j
                 PROVE FALSE
      OBVIOUS
    <3>1. i < j \/ j < i
      BY <1>1
    <3> QED
      BY <1>2, <3>1 DEF Fresh
  <2> HIDE DEF m
  <2> QED
    BY <2>1, <2>2, <2>3 DEF Requests, Failed
<1>8. \A r \in DOMAIN e.logs : \/ r \in DOMAIN d.logs /\ e.logs[r] = d.logs[r]
                               \/ \E i \in DOMAIN a : r = a[i].request /\ e.logs[r].ts = a[i].ts
  <2> TAKE r \in DOMAIN e.logs
  <2>1. CASE r \in DOMAIN d.logs
    BY <1>6, <2>1
  <2>2. CASE r \in K
    <3>1. PICK i \in Kept(fails, m) : r = a[i].request
      BY <2>2
    <3>2. i \in DOMAIN a /\ a[i] \in Record
      BY <1>2, <1>7 DEF Fresh
    <3>3. PICK id \in Nat : e.logs[r] = RowOf(a[i], id)
      BY <1>6, <3>1
    <3>4. e.logs[r].ts = a[i].ts
      BY <3>2, <3>3 DEF RowOf, With, Record
    <3> QED
      BY <3>1, <3>2, <3>4
  <2> QED
    BY <1>6, <2>1, <2>2
<1>9. \A r \in DOMAIN e.logs : e.logs[r].ts <= t
  BY <1>3, <1>8 DEF FlowOf
<1>10. Fresh(e, b)
  <2>1. \A i \in DOMAIN b : b[i].request \notin DOMAIN e.logs
    <3>1. \A i \in DOMAIN b : b[i].request \notin DOMAIN d.logs /\ b[i].request \notin Requests(a)
      BY <1>2 DEF Fresh, Requests
    <3> QED
      BY <1>6, <1>7, <3>1
  <2>2. \A i \in DOMAIN b : \A r \in DOMAIN e.logs : e.logs[r].ts <= b[i].ts
    BY <1>2, <1>8 DEF Fresh
  <2> QED
    BY <1>2, <2>1, <2>2 DEF Fresh
<1>11. \A r \in Calls : Times(a, fails, r) = IF r \in K THEN 1 ELSE 0
  BY <1>2, TimesIs
<1>12. /\ \A r \in Calls : sto[r] \in {0, 1}
       /\ K \subseteq Calls /\ F \subseteq Calls /\ K \cap Rows(sto) = {}
  <2>1. Requests(a) \subseteq Calls /\ Requests(a) \cap Rows(sto) = {}
    BY <1>1 DEF FlowOf
  <2>2. \A r \in Calls : sto[r] \in {0, 1}
    BY DEF FlowOf
  <2> HIDE DEF K, F
  <2> QED
    BY <1>7, <2>1, <2>2
<1> HIDE DEF K, F, m
<1>13. sto2 \in [Calls -> {0, 1}] /\ Rows(sto2) = Rows(sto) \cup K
  <2>1. \A r \in Calls : sto2[r] = sto[r] + (IF r \in K THEN 1 ELSE 0)
    BY <1>11
  <2>2. \A r \in Calls : r \in K => sto[r] = 0
    BY <1>12 DEF Rows
  <2>3. \A r \in Calls : sto2[r] \in {0, 1} /\ (sto2[r] > 0 <=> sto[r] > 0 \/ r \in K)
    BY <1>12, <2>1, <2>2
  <2> QED
    BY <1>12, <2>3 DEF Rows
<1>14. /\ DOMAIN e.logs \subseteq Rows(sto2)
       /\ Calls = unl \cup dro \cup (los \cup F) \cup Requests(b) \cup Rows(sto2)
       /\ unl \cap (dro \cup (los \cup F) \cup Requests(b) \cup Rows(sto2)) = {}
       /\ Requests(b) \cap (dro \cup (los \cup F) \cup Rows(sto2)) = {}
       /\ unl \subseteq Calls /\ dro \subseteq Calls /\ los \cup F \subseteq Calls
  <2>1. /\ DOMAIN d.logs \subseteq Rows(sto)
        /\ Calls = unl \cup dro \cup los \cup Requests(a \o b) \cup Rows(sto)
        /\ unl \cap (dro \cup los \cup Requests(a \o b) \cup Rows(sto)) = {}
        /\ Requests(a \o b) \cap (dro \cup los \cup Rows(sto)) = {}
        /\ unl \subseteq Calls /\ dro \subseteq Calls /\ los \subseteq Calls
    BY DEF FlowOf
  <2> QED
    BY <1>1, <1>2, <1>6, <1>7, <1>12, <1>13, <2>1
<1> QED
  BY <1>3, <1>6, <1>9, <1>10, <1>13, <1>14 DEF FlowOf, F

(***************************************************************************)
(* Retention.                                                              *)
(***************************************************************************)
LEMMA RetentionIs ==
  ASSUME NEW d, IsDb(d), NEW policy, NEW t, NEW e, e = apply_retention(d, policy, t)
  PROVE  /\ DOMAIN e = DOMAIN d /\ e.next_id = d.next_id
         /\ DOMAIN e.logs \subseteq DOMAIN d.logs
         /\ \A r \in DOMAIN e.logs : e.logs[r] = d.logs[r]
         /\ DOMAIN e.bodies \subseteq DOMAIN e.logs
         /\ DOMAIN e.rollup \subseteq DOMAIN d.rollup
         /\ \A k \in DOMAIN e.rollup : e.rollup[k] = d.rollup[k]
<1> DEFINE old_bodies == {r \in DOMAIN d.bodies : RowBefore(d.bodies[r], t - policy.body_age)}
           kept == IF policy.body_age = 0 THEN d ELSE [d EXCEPT !.bodies = Without(@, old_bodies)]
           old_rows == {r \in DOMAIN d.logs : RowBefore(d.logs[r].ts, t - policy.log_age)}
           done == IF policy.log_age = 0 THEN kept ELSE Cascade(kept, old_rows)
           old_hours == {k \in DOMAIN d.rollup : k.bucket < Hour(t - policy.rollup_age)}
<1>1. e = IF policy.rollup_age = 0 THEN done
          ELSE [done EXCEPT !.rollup = Without(@, old_hours)]
  BY DEF apply_retention
<1> HIDE DEF old_bodies, old_rows, old_hours
<1>2. DOMAIN d = {"logs", "bodies", "rollup", "next_id"} /\ DOMAIN d.bodies \subseteq DOMAIN d.logs
  BY DEF IsDb
<1>4. /\ DOMAIN kept = DOMAIN d /\ kept.next_id = d.next_id /\ kept.logs = d.logs
      /\ kept.rollup = d.rollup /\ DOMAIN kept.bodies \subseteq DOMAIN d.bodies
  <2>1. CASE policy.body_age = 0
    BY <2>1
  <2>2. CASE policy.body_age # 0
    <3>1. /\ DOMAIN kept = DOMAIN d /\ kept.next_id = d.next_id /\ kept.logs = d.logs
          /\ kept.rollup = d.rollup /\ kept.bodies = Without(d.bodies, old_bodies)
      BY <1>2, <2>2
    <3> HIDE DEF kept
    <3> QED
      BY <3>1 DEF Without
  <2> QED
    BY <2>1, <2>2
<1> HIDE DEF kept
<1>5. /\ DOMAIN done = DOMAIN d /\ done.next_id = d.next_id /\ done.rollup = d.rollup
      /\ DOMAIN done.logs \subseteq DOMAIN d.logs
      /\ \A r \in DOMAIN done.logs : done.logs[r] = d.logs[r]
      /\ DOMAIN done.bodies \subseteq DOMAIN done.logs
  <2>1. CASE policy.log_age = 0
    BY <1>2, <1>4, <2>1
  <2>2. CASE policy.log_age # 0
    <3>1. /\ DOMAIN done = DOMAIN d /\ done.next_id = d.next_id /\ done.rollup = d.rollup
          /\ done.logs = Without(d.logs, old_rows) /\ done.bodies = Without(kept.bodies, old_rows)
      BY <1>2, <1>4, <2>2 DEF Cascade
    <3> HIDE DEF done
    <3>2. /\ DOMAIN done.logs = DOMAIN d.logs \ old_rows
          /\ \A r \in DOMAIN done.logs : done.logs[r] = d.logs[r]
          /\ DOMAIN done.bodies = DOMAIN kept.bodies \ old_rows
      BY <3>1 DEF Without
    <3> QED
      BY <1>2, <1>4, <3>1, <3>2
  <2> QED
    BY <2>1, <2>2
<1> HIDE DEF done
<1>6. CASE policy.rollup_age = 0
  BY <1>1, <1>5, <1>6
<1>7. CASE policy.rollup_age # 0
  <2>1. /\ DOMAIN e = DOMAIN done /\ e.next_id = done.next_id /\ e.logs = done.logs
        /\ e.bodies = done.bodies /\ e.rollup = Without(done.rollup, old_hours)
    BY <1>1, <1>2, <1>5, <1>7
  <2>2. /\ DOMAIN e.rollup \subseteq DOMAIN d.rollup
        /\ \A k \in DOMAIN e.rollup : e.rollup[k] = d.rollup[k]
    BY <1>5, <2>1 DEF Without
  <2> QED
    BY <1>5, <2>1, <2>2
<1> QED
  BY <1>6, <1>7

LEMMA FlowPrunes ==
  ASSUME NEW line, NEW d, NEW sto, NEW unl, NEW dro, NEW los, NEW t,
         FlowOf(line, d, sto, unl, dro, los, t), NEW policy, NEW at,
         NEW e, e = apply_retention(d, policy, at)
  PROVE  FlowOf(line, e, sto, unl, dro, los, t)
<1>1. /\ DOMAIN e = DOMAIN d /\ e.next_id = d.next_id
      /\ DOMAIN e.logs \subseteq DOMAIN d.logs
      /\ \A r \in DOMAIN e.logs : e.logs[r] = d.logs[r]
      /\ DOMAIN e.bodies \subseteq DOMAIN e.logs
      /\ DOMAIN e.rollup \subseteq DOMAIN d.rollup
      /\ \A k \in DOMAIN e.rollup : e.rollup[k] = d.rollup[k]
  BY RetentionIs DEF FlowOf
<1>2. IsDb(e)
  <2>1. IsDb(d)
    BY DEF FlowOf
  <2>2. /\ DOMAIN e = {"logs", "bodies", "rollup", "next_id"} /\ e.next_id \in Nat
        /\ DOMAIN e.logs \subseteq Calls
        /\ \A k \in DOMAIN e.rollup : e.rollup[k] \in Totals
    BY <1>1, <2>1 DEF IsDb
  <2>3. \A r \in DOMAIN e.logs : \E rec \in Record, id \in Nat :
           rec.request = r /\ e.logs[r] = RowOf(rec, id)
    BY <1>1, <2>1 DEF IsDb
  <2> QED
    BY <1>1, <2>2, <2>3 DEF IsDb
<1>3. IdsAscend(e) /\ Fresh(e, line)
  <2>1. IdsAscend(d) /\ Fresh(d, line)
    BY DEF FlowOf
  <2>2. IdsAscend(e)
    BY <1>1, <2>1 DEF IdsAscend
  <2>3. Fresh(e, line)
    BY <1>1, <2>1 DEF Fresh
  <2> QED
    BY <2>2, <2>3
<1>4. \A r \in DOMAIN e.logs : e.logs[r].ts <= t
  BY <1>1 DEF FlowOf
<1>5. DOMAIN e.logs \subseteq Rows(sto)
  BY <1>1 DEF FlowOf
<1> QED
  BY <1>2, <1>3, <1>4, <1>5 DEF FlowOf

(***************************************************************************)
(* The line as sequences.                                                  *)
(***************************************************************************)
LEMMA LineMoves ==
  ASSUME NEW b \in Seq(Record), NEW q \in Seq(Record), q # <<>>
  PROVE  /\ Head(q) \in Record /\ Tail(q) \in Seq(Record)
         /\ Len(Tail(q)) = Len(q) - 1
         /\ Append(b, Head(q)) \in Seq(Record)
         /\ Len(Append(b, Head(q))) = Len(b) + 1
         /\ Append(b, Head(q)) \o Tail(q) = b \o q
<1> DEFINE x == Head(q)
           r == Tail(q)
           g == Append(b, x)
<1>1. x \in Record /\ r \in Seq(Record) /\ Len(r) = Len(q) - 1
  BY HeadTailProperties
<1>2. \A i \in 1..Len(r) : r[i] = q[i + 1]
  BY HeadTailProperties
<1>3. x = q[1]
  OBVIOUS
<1> HIDE DEF x, r
<1>4. /\ g \in Seq(Record) /\ Len(g) = Len(b) + 1 /\ g[Len(b) + 1] = x
      /\ \A i \in 1..Len(b) : g[i] = b[i]
  BY <1>1, AppendProperties
<1> HIDE DEF g
<1>5. /\ Len(b) \in Nat /\ Len(q) \in Nat /\ Len(q) >= 1
  BY EmptySeq, LenProperties
<1>6. /\ g \o r \in Seq(Record) /\ Len(g \o r) = Len(g) + Len(r)
      /\ \A i \in 1..Len(g) + Len(r) : (g \o r)[i] = IF i <= Len(g) THEN g[i] ELSE r[i - Len(g)]
  BY <1>1, <1>4, ConcatProperties
<1>7. /\ b \o q \in Seq(Record) /\ Len(b \o q) = Len(b) + Len(q)
      /\ \A i \in 1..Len(b) + Len(q) : (b \o q)[i] = IF i <= Len(b) THEN b[i] ELSE q[i - Len(b)]
  BY ConcatProperties
<1>8. Len(g \o r) = Len(b \o q)
  BY <1>1, <1>4, <1>5, <1>6, <1>7
<1>9. ASSUME NEW i \in 1..Len(g \o r) PROVE (g \o r)[i] = (b \o q)[i]
  <2>0. i \in 1..Len(b) + Len(q) /\ i \in 1..Len(g) + Len(r)
    BY <1>6, <1>7, <1>8
  <2>1. CASE i \in 1..Len(b)
    <3>1. i <= Len(b) /\ i <= Len(g)
      BY <1>4, <1>5, <2>1
    <3>2. (g \o r)[i] = g[i] /\ (b \o q)[i] = b[i]
      BY <1>6, <1>7, <2>0, <3>1
    <3> QED
      BY <1>4, <2>1, <3>2
  <2>2. CASE i = Len(b) + 1
    <3>1. i <= Len(g) /\ ~(i <= Len(b)) /\ i - Len(b) = 1
      BY <1>4, <1>5, <2>2
    <3>2. (g \o r)[i] = g[i] /\ (b \o q)[i] = q[1]
      BY <1>6, <1>7, <2>0, <3>1
    <3> QED
      BY <1>3, <1>4, <2>2, <3>2
  <2>3. CASE i > Len(b) + 1
    <3>1. ~(i <= Len(g)) /\ ~(i <= Len(b)) /\ i - Len(g) \in 1..Len(r) /\ (i - Len(g)) + 1 = i - Len(b)
      BY <1>1, <1>4, <1>5, <2>0, <2>3
    <3>2. (g \o r)[i] = r[i - Len(g)] /\ (b \o q)[i] = q[i - Len(b)]
      BY <1>6, <1>7, <2>0, <3>1
    <3> QED
      BY <1>2, <3>1, <3>2
  <2> QED
    BY <1>5, <2>0, <2>1, <2>2, <2>3
<1>10. g \o r = b \o q
  BY <1>6, <1>7, <1>8, <1>9, SeqEqual
<1> QED
  BY <1>1, <1>4, <1>10 DEF x, r, g

LEMMA LineGrows ==
  ASSUME NEW b \in Seq(Record), NEW q \in Seq(Record), NEW x \in Record
  PROVE  Append(b \o q, x) = b \o Append(q, x)
<1>1. <<x>> \in Seq(Record)
  OBVIOUS
<1>2. b \o q \in Seq(Record)
  BY ConcatProperties
<1>3. Append(b \o q, x) = (b \o q) \o <<x>> /\ Append(q, x) = q \o <<x>>
  BY <1>2, AppendIsConcat
<1> QED
  BY <1>1, <1>3, ConcatAssociative

(***************************************************************************)
(* The JSONL files.                                                        *)
(***************************************************************************)
File == [size : Nat, lines : Nat, modified : Nat]

FilesInv ==
  /\ writes \in Nat
  /\ DOMAIN files \subseteq Nat \X Nat /\ IsFiniteSet(DOMAIN files)
  /\ \A p \in DOMAIN files : files[p] \in File /\ files[p].modified <= writes
  /\ \A p, q \in DOMAIN files : files[p].modified = files[q].modified => p = q
  /\ FilesFit

LEMMA DayIsNat == \A t \in Nat : Day(t) \in Nat
<1>1. TicksPerHour \in Nat /\ HoursPerDay \in Nat /\ TicksPerHour > 0 /\ HoursPerDay > 0
  BY UsageAssumption
<1>2. TicksPerDay \in Nat /\ TicksPerDay > 0
  BY <1>1 DEF TicksPerDay
<1> HIDE DEF TicksPerDay
<1> QED
  BY <1>2 DEF Day

\* The search for an index ends at the first free one, and the file before it
\* exists.
LEMMA PathIs ==
  ASSUME FilesInv, NEW day \in Nat, NEW bytes \in Nat
  PROVE  LET p == request_log_path(day, bytes)
         IN  /\ p \in Nat \X Nat
             /\ p \in DOMAIN files => files[p].size + bytes <= MaxFile
<1> DEFINE N == Cardinality(DOMAIN files)
           T == {n \in 0..N : <<day, n>> \notin DOMAIN files}
<1>1. N \in Nat /\ IsFiniteSet(DOMAIN files)
  BY FS_CardinalityType DEF FilesInv
<1>2. T # {}
  <2> SUFFICES ASSUME \A n \in 0..N : <<day, n>> \in DOMAIN files PROVE FALSE
    OBVIOUS
  <2> DEFINE f == [n \in 0..N |-> <<day, n>>]
  <2> HIDE DEF N
  <2>1. IsFiniteSet(0..N) /\ Cardinality(0..N) = N + 1
    BY <1>1, FS_Interval
  <2>2. f \in [0..N -> DOMAIN files] /\ Cardinality(DOMAIN files) < Cardinality(0..N)
    BY <1>1, <2>1 DEF N
  <2>3. PICK x, y \in 0..N : x # y /\ f[x] = f[y]
    <3> HIDE DEF f
    <3> QED
      BY <1>1, <2>1, <2>2, FS_PigeonHole
  <2> QED
    BY <2>3
<1>3. \E n \in T : \A m \in T : n <= m
  <2>1. T \subseteq Nat
    BY <1>1
  <2> HIDE DEF T
  <2> QED
    BY <1>2, <2>1, LeastNumber
<1> DEFINE IsFree(n) == /\ <<day, n>> \notin DOMAIN files
                        /\ \A m \in 0 .. n - 1 : <<day, m>> \in DOMAIN files
           free == CHOOSE n \in 0..N : IsFree(n)
<1>4. \E n \in 0..N : IsFree(n)
  <2>1. PICK n \in T : \A m \in T : n <= m
    BY <1>3
  <2>2. \A m \in 0..n - 1 : m \in 0..N /\ ~(n <= m)
    BY <1>1, <2>1
  <2> QED
    BY <2>1, <2>2
<1>5. free \in 0..N /\ IsFree(free)
  BY <1>4
<1>6. request_log_path(day, bytes) =
        IF free > 0 /\ files[<<day, free - 1>>].size + bytes <= MaxFile
        THEN <<day, free - 1>> ELSE <<day, free>>
  BY DEF request_log_path
<1> HIDE DEF free, N
<1>7. CASE free > 0 /\ files[<<day, free - 1>>].size + bytes <= MaxFile
  <2>1. free - 1 \in Nat
    BY <1>1, <1>5, <1>7
  <2> QED
    BY <1>6, <1>7, <2>1
<1>8. CASE ~(free > 0 /\ files[<<day, free - 1>>].size + bytes <= MaxFile)
  BY <1>1, <1>5, <1>6, <1>8
<1> QED
  BY <1>7, <1>8

LEMMA WriteKeepsFiles ==
  ASSUME FilesInv, NEW rec \in Record, write_record(rec)
  PROVE  FilesInv'
<1> DEFINE bytes == LineSize[rec.request] + 1
           path == request_log_path(Day(rec.ts), bytes)
           old == IF path \in DOMAIN files THEN files[path]
                  ELSE [size |-> 0, lines |-> 0, modified |-> 0]
           new == [size |-> old.size + bytes, lines |-> old.lines + 1, modified |-> writes + 1]
<1>1. bytes \in Nat /\ Day(rec.ts) \in Nat
  <2>1. rec.request \in Calls /\ rec.ts \in Nat
    BY DEF Record
  <2> QED
    BY <2>1, LedgerAssumption, DayIsNat
<1>2. files' = With(files, path, new) /\ writes' = writes + 1
  BY DEF write_record
<1> HIDE DEF bytes
<1>3. path \in Nat \X Nat /\ (path \in DOMAIN files => files[path].size + bytes <= MaxFile)
  BY <1>1, PathIs
<1> HIDE DEF path
<1>4. /\ new \in File /\ new.modified = writes + 1
      /\ new.size <= MaxFile \/ new.lines = 1
  <2>1. writes \in Nat
    BY DEF FilesInv
  <2>2. CASE path \in DOMAIN files
    <3>1. files[path] \in File
      BY <2>2 DEF FilesInv
    <3> QED
      BY <1>1, <1>3, <2>1, <2>2, <3>1 DEF File
  <2>3. CASE path \notin DOMAIN files
    BY <1>1, <2>1, <2>3 DEF File
  <2> QED
    BY <2>2, <2>3
<1> HIDE DEF new
<1>5. /\ DOMAIN files' = DOMAIN files \cup {path}
      /\ files'[path] = new
      /\ \A p \in DOMAIN files : p # path => files'[p] = files[p]
  BY <1>2 DEF With
<1>6. /\ DOMAIN files' \subseteq Nat \X Nat /\ IsFiniteSet(DOMAIN files')
  BY <1>3, <1>5, FS_AddElement DEF FilesInv
<1>7. writes \in Nat /\ writes' \in Nat
  BY <1>2 DEF FilesInv
<1>8. \A p \in DOMAIN files' : /\ files'[p] \in File /\ files'[p].modified <= writes'
                               /\ files'[p].size <= MaxFile \/ files'[p].lines = 1
  <2> TAKE p \in DOMAIN files'
  <2>1. CASE p = path
    BY <1>2, <1>4, <1>5, <1>7, <2>1
  <2>2. CASE p # path
    <3>1. p \in DOMAIN files /\ files'[p] = files[p]
      BY <1>5, <2>2
    <3>2. files[p] \in File /\ files[p].modified <= writes
      BY <3>1 DEF FilesInv
    <3>3. files[p].size <= MaxFile \/ files[p].lines = 1
      BY <3>1 DEF FilesInv, FilesFit
    <3>4. files[p].modified \in Nat
      BY <3>2 DEF File
    <3> QED
      BY <1>2, <1>7, <3>1, <3>2, <3>3, <3>4
  <2> QED
    BY <2>1, <2>2
<1>9. \A p, q \in DOMAIN files' : files'[p].modified = files'[q].modified => p = q
  <2> SUFFICES ASSUME NEW p \in DOMAIN files', NEW q \in DOMAIN files',
                      files'[p].modified = files'[q].modified
               PROVE  p = q
    OBVIOUS
  <2>1. \A x \in DOMAIN files : files[x].modified \in Nat /\ files[x].modified <= writes
    BY DEF FilesInv, File
  <2>2. CASE p # path /\ q # path
    BY <1>5, <2>2 DEF FilesInv
  <2>3. CASE p = path \/ q = path
    BY <1>4, <1>5, <1>7, <2>1, <2>3
  <2> QED
    BY <2>2, <2>3
<1> QED
  BY <1>6, <1>7, <1>8, <1>9 DEF FilesInv, FilesFit

\* A sweep only takes files away.
LEMMA QuotaIs ==
  ASSUME NEW stuck, enforce_quota(stuck)
  PROVE  /\ DOMAIN files' \subseteq DOMAIN files
         /\ \A p \in DOMAIN files' : files'[p] = files[p]
<1> DEFINE total == TotalSize(DOMAIN files)
           removed == OldestEnough(DOMAIN files \ stuck, total - Quota)
<1>1. files' = IF Quota = 0 \/ total <= Quota THEN files ELSE Without(files, removed)
  BY DEF enforce_quota
<1> HIDE DEF total, removed
<1>2. CASE files' = files
  BY <1>2
<1>3. CASE files' = Without(files, removed)
  BY <1>3 DEF Without
<1> QED
  BY <1>1, <1>2, <1>3

LEMMA FewerFiles ==
  ASSUME FilesInv, UNCHANGED writes, DOMAIN files' \subseteq DOMAIN files,
         \A p \in DOMAIN files' : files'[p] = files[p]
  PROVE  FilesInv'
<1>1. IsFiniteSet(DOMAIN files')
  BY FS_Subset DEF FilesInv
<1> QED
  BY <1>1 DEF FilesInv, FilesFit

(***************************************************************************)
(* The invariant of the whole ledger.                                      *)
(***************************************************************************)
Writing ==
  /\ queue \in Seq(Record) /\ Len(queue) <= QueueMax
  /\ batch \in Seq(Record) /\ Len(batch) < BatchMax

Flow == FlowOf(batch \o queue, db, stored, unlogged, dropped, lost, now)

LedgerInv ==
  /\ now \in FirstTick..LastTick /\ sweeping \in BOOLEAN
  /\ Writing /\ Flow /\ FilesInv

LEMMA EmptyBatch ==
  /\ <<>> \in Seq(Record) /\ Len(<<>>) = 0 /\ Len(<<>>) < BatchMax
<1>1. BatchMax \in Nat /\ BatchMax > 0
  BY LedgerAssumption
<1> QED
  BY <1>1, EmptySeq

LEMMA InitHolds == Init => LedgerInv
<1> SUFFICES ASSUME Init PROVE LedgerInv
  OBVIOUS
<1> USE DEF Init
<1>1. now \in FirstTick..LastTick /\ sweeping \in BOOLEAN
  <2>1. now = FirstTick /\ sweeping \in BOOLEAN
    OBVIOUS
  <2>2. FirstTick \in FirstTick..LastTick
    BY LedgerAssumption
  <2> QED
    BY <2>1, <2>2
<1>2. Writing
  <2>1. QueueMax \in Nat
    BY LedgerAssumption
  <2> QED
    BY <2>1, EmptyBatch DEF Writing
<1>3. /\ DOMAIN db = {"logs", "bodies", "rollup", "next_id"} /\ db.next_id = 1
      /\ DOMAIN db.logs = {} /\ DOMAIN db.bodies = {} /\ DOMAIN db.rollup = {}
  BY DEF EmptyDb, EmptyTable
<1>4. IsDb(db) /\ IdsAscend(db)
  BY <1>3 DEF IsDb, IdsAscend
<1>5. batch \o queue = <<>>
  BY EmptyBatch, ConcatEmptySeq
<1>6. Fresh(db, <<>>) /\ DOMAIN <<>> = {}
  BY EmptyBatch DEF Fresh
<1>7. /\ stored \in [Calls -> {0, 1}] /\ Rows(stored) = {} /\ Requests(<<>>) = {}
  BY <1>6 DEF Rows, Requests
<1>8. Flow
  BY <1>3, <1>4, <1>5, <1>6, <1>7 DEF Flow, FlowOf
<1>9. FilesInv
  <2>1. DOMAIN files = {}
    BY DEF EmptyTable
  <2> QED
    BY <2>1, FS_EmptySet DEF FilesInv, FilesFit
<1> QED
  BY <1>1, <1>2, <1>8, <1>9 DEF LedgerInv

\* A commit, in the words of the flow.
LEMMA CommitFlows ==
  ASSUME NEW a \in Seq(Record), NEW b \in Seq(Record), NEW fails,
         FlowOf(a \o b, db, stored, unlogged, dropped, lost, now),
         Commit(a, fails)
  PROVE  FlowOf(b, db', stored', unlogged, dropped, lost', now)
<1>1. /\ db' = insert_request_logs(db, a, fails)
      /\ stored' = [r \in Calls |-> stored[r] + Times(a, fails, r)]
      /\ lost' = lost \cup Failed(a, fails)
  BY DEF Commit, Times, Failed
<1> QED
  BY <1>1, FlowCommits

\* However a flush ends, what was in the batch is stored or lost.
LEMMA FlushFlows ==
  ASSUME NEW a \in Seq(Record), NEW b \in Seq(Record),
         FlowOf(a \o b, db, stored, unlogged, dropped, lost, now),
         flush_sqlite(a)
  PROVE  batch' = <<>> /\ FlowOf(b, db', stored', unlogged, dropped, lost', now)
<1>1. batch' = <<>>
  BY DEF flush_sqlite
<1>2. CASE \E fails : Commit(a, fails)
  BY <1>1, <1>2, CommitFlows
<1>3. CASE lost' = lost \cup Requests(a) /\ UNCHANGED <<db, stored, counted>>
  <2>1. FlowOf(b, db, stored, unlogged, dropped, lost \cup Requests(a), now)
    BY FlowLoses
  <2> QED
    BY <1>1, <1>3, <2>1
<1> QED
  BY <1>2, <1>3 DEF flush_sqlite

LEMMA RestIs ==
  ASSUME NEW q \in Seq(Record)
  PROVE  <<>> \o q = q /\ q \o <<>> = q
  BY ConcatEmptySeq

\* What reading a record from the channel does to the writer's line.
LEMMA TakeKeeps ==
  ASSUME LedgerInv, queue # <<>>, queue' = Tail(queue),
         UNCHANGED <<unlogged, dropped, now>>,
         LET grown == Append(batch, Head(queue))
         IN  IF Len(grown) >= BatchMax
             THEN batch' = <<>> /\ FlowOf(Tail(queue), db', stored', unlogged, dropped, lost', now)
             ELSE batch' = grown /\ UNCHANGED <<db, stored, lost>>
  PROVE  Writing' /\ Flow'
<1> DEFINE grown == Append(batch, Head(queue))
<1>1. /\ Tail(queue) \in Seq(Record) /\ Len(Tail(queue)) = Len(queue) - 1
      /\ grown \in Seq(Record) /\ Len(grown) = Len(batch) + 1
      /\ grown \o Tail(queue) = batch \o queue
      /\ Len(queue) \in Nat /\ Len(batch) \in Nat
      /\ Len(queue) <= QueueMax /\ Len(batch) < BatchMax
  BY LineMoves DEF LedgerInv, Writing
<1>2. QueueMax \in Nat /\ BatchMax \in Nat
  BY LedgerAssumption
<1>3. Len(queue') <= QueueMax /\ queue' \in Seq(Record)
  BY <1>1, <1>2
<1> HIDE DEF grown
<1>4. CASE Len(grown) >= BatchMax
  <2>1. batch' = <<>> /\ FlowOf(Tail(queue), db', stored', unlogged, dropped, lost', now)
    BY <1>4 DEF grown
  <2>2. batch' \o queue' = Tail(queue)
    BY <1>1, <2>1, RestIs
  <2>3. Writing'
    BY <1>3, <2>1, EmptyBatch DEF Writing
  <2> QED
    BY <2>1, <2>2, <2>3 DEF Flow
<1>5. CASE ~(Len(grown) >= BatchMax)
  <2>1. batch' = grown /\ UNCHANGED <<db, stored, lost>>
    BY <1>5 DEF grown
  <2>2. Writing'
    BY <1>1, <1>2, <1>3, <1>5, <2>1 DEF Writing
  <2>3. batch' \o queue' = batch \o queue
    BY <1>1, <2>1
  <2> QED
    BY <2>1, <2>2, <2>3 DEF Flow, LedgerInv
<1> QED
  BY <1>4, <1>5

LEMMA LogKeeps ==
  ASSUME LedgerInv, NEW r \in Calls, Log(r)
  PROVE  LedgerInv'
<1>1. /\ r \in unlogged /\ unlogged' = unlogged \ {r}
      /\ UNCHANGED <<now, batch, files, writes, db, sweeping, stored, lost>>
  BY DEF Log
<1>2. FilesInv'
  BY <1>1 DEF LedgerInv, FilesInv, FilesFit
<1>3. queue \in Seq(Record) /\ batch \in Seq(Record) /\ Len(queue) \in Nat /\ QueueMax \in Nat
  BY LedgerAssumption DEF LedgerInv, Writing
<1>4. now \in Nat
  BY LedgerAssumption DEF LedgerInv
<1>5. CASE HasRoom /\ queue' = Append(queue, RecordOf(r)) /\ UNCHANGED dropped
  <2> DEFINE x == RecordOf(r)
  <2>1. x \in Record /\ x.request = r /\ x.ts = now
    BY <1>4, RecordOfIs
  <2> HIDE DEF x
  <2>2. Append(queue, x) \in Seq(Record) /\ Len(Append(queue, x)) = Len(queue) + 1
    BY <1>3, <2>1, AppendProperties
  <2>3. Append(batch \o queue, x) = batch \o Append(queue, x)
    BY <1>3, <2>1, LineGrows
  <2>4. FlowOf(Append(batch \o queue, x), db, stored, unlogged \ {x.request}, dropped, lost, now)
    BY <1>1, <1>4, <2>1, FlowLogs DEF LedgerInv, Flow
  <2>5. queue' = Append(queue, x)
    BY <1>5 DEF x
  <2>6. Flow'
    BY <1>1, <1>5, <2>1, <2>3, <2>4, <2>5 DEF Flow
  <2>7. Writing'
    BY <1>1, <1>3, <1>5, <2>2, <2>5 DEF LedgerInv, Writing, HasRoom
  <2> QED
    BY <1>1, <1>2, <2>6, <2>7 DEF LedgerInv
<1>6. CASE dropped' = dropped \cup {r} /\ UNCHANGED queue
  <2>1. FlowOf(batch \o queue, db, stored, unlogged \ {r}, dropped \cup {r}, lost, now)
    BY <1>1, FlowDrops DEF LedgerInv, Flow
  <2>2. Flow' /\ Writing'
    BY <1>1, <1>6, <2>1 DEF LedgerInv, Flow, Writing
  <2> QED
    BY <1>1, <1>2, <2>2 DEF LedgerInv
<1> QED
  BY <1>5, <1>6 DEF Log

LEMMA ReceiveKeeps ==
  ASSUME LedgerInv, Receive
  PROVE  LedgerInv'
<1> DEFINE grown == Append(batch, Head(queue))
<1>1. /\ queue # <<>> /\ queue' = Tail(queue) /\ write_record(Head(queue))
      /\ UNCHANGED <<now, sweeping, unlogged, dropped>>
  BY DEF Receive
<1>2. /\ Head(queue) \in Record /\ Tail(queue) \in Seq(Record) /\ grown \in Seq(Record)
      /\ grown \o Tail(queue) = batch \o queue
  BY <1>1, LineMoves DEF LedgerInv, Writing
<1>3. IF Len(grown) >= BatchMax THEN flush_sqlite(grown)
      ELSE batch' = grown /\ UNCHANGED <<db, stored, lost>>
  BY DEF Receive
<1>4. FlowOf(grown \o Tail(queue), db, stored, unlogged, dropped, lost, now)
  BY <1>2 DEF LedgerInv, Flow
<1> HIDE DEF grown
<1>5. Len(grown) >= BatchMax =>
        batch' = <<>> /\ FlowOf(Tail(queue), db', stored', unlogged, dropped, lost', now)
  BY <1>2, <1>3, <1>4, FlushFlows
<1>6. Writing' /\ Flow'
  <2>1. IF Len(grown) >= BatchMax
        THEN batch' = <<>> /\ FlowOf(Tail(queue), db', stored', unlogged, dropped, lost', now)
        ELSE batch' = grown /\ UNCHANGED <<db, stored, lost>>
    BY <1>3, <1>5
  <2> QED
    BY <1>1, <2>1, TakeKeeps DEF grown
<1>7. FilesInv'
  BY <1>1, <1>2, WriteKeepsFiles DEF LedgerInv
<1> QED
  BY <1>1, <1>6, <1>7 DEF LedgerInv

LEMMA ReceiveUnwrittenKeeps ==
  ASSUME LedgerInv, ReceiveUnwritten
  PROVE  LedgerInv'
<1> DEFINE grown == Append(batch, Head(queue))
<1>1. /\ queue # <<>> /\ queue' = Tail(queue)
      /\ UNCHANGED <<now, files, writes, sweeping, unlogged, dropped>>
  BY DEF ReceiveUnwritten
<1>2. /\ Tail(queue) \in Seq(Record) /\ grown \in Seq(Record)
      /\ grown \o Tail(queue) = batch \o queue
  BY <1>1, LineMoves DEF LedgerInv, Writing
<1>3. IF Len(grown) >= BatchMax THEN batch' = <<>> /\ Commit(grown, Fine(grown))
      ELSE batch' = grown /\ UNCHANGED <<db, stored, lost>>
  BY DEF ReceiveUnwritten
<1>4. FlowOf(grown \o Tail(queue), db, stored, unlogged, dropped, lost, now)
  BY <1>2 DEF LedgerInv, Flow
<1> HIDE DEF grown
<1>5. Len(grown) >= BatchMax =>
        batch' = <<>> /\ FlowOf(Tail(queue), db', stored', unlogged, dropped, lost', now)
  BY <1>2, <1>3, <1>4, CommitFlows
<1>6. Writing' /\ Flow'
  <2>1. IF Len(grown) >= BatchMax
        THEN batch' = <<>> /\ FlowOf(Tail(queue), db', stored', unlogged, dropped, lost', now)
        ELSE batch' = grown /\ UNCHANGED <<db, stored, lost>>
    BY <1>3, <1>5
  <2> QED
    BY <1>1, <2>1, TakeKeeps DEF grown
<1>7. FilesInv'
  BY <1>1 DEF LedgerInv, FilesInv, FilesFit
<1> QED
  BY <1>1, <1>6, <1>7 DEF LedgerInv

LEMMA FlushTimeoutKeeps ==
  ASSUME LedgerInv, FlushTimeout
  PROVE  LedgerInv'
<1>1. /\ queue = <<>> /\ flush_sqlite(batch)
      /\ UNCHANGED <<now, queue, files, writes, sweeping, unlogged, dropped>>
  BY DEF FlushTimeout
<1>2. batch \in Seq(Record) /\ queue \in Seq(Record)
  BY DEF LedgerInv, Writing
<1>3. batch' = <<>> /\ FlowOf(queue, db', stored', unlogged, dropped, lost', now)
  BY <1>1, <1>2, FlushFlows DEF LedgerInv, Flow
<1>4. batch' \o queue' = queue
  BY <1>1, <1>2, <1>3, RestIs
<1>5. Writing' /\ Flow'
  BY <1>1, <1>3, <1>4, EmptyBatch DEF LedgerInv, Writing, Flow
<1>6. FilesInv'
  BY <1>1 DEF LedgerInv, FilesInv, FilesFit
<1> QED
  BY <1>1, <1>5, <1>6 DEF LedgerInv

LEMMA RestartKeeps ==
  ASSUME LedgerInv, Restart
  PROVE  LedgerInv'
<1>1. /\ lost' = lost \cup Requests(queue) \cup Requests(batch)
      /\ queue' = <<>> /\ batch' = <<>> /\ sweeping' = FALSE
      /\ UNCHANGED <<now, files, writes, db, unlogged, dropped, stored>>
  BY DEF Restart
<1> DEFINE line == batch \o queue
<1>2. batch \in Seq(Record) /\ queue \in Seq(Record) /\ line \in Seq(Record)
  BY ConcatProperties DEF LedgerInv, Writing
<1>3. Requests(line) = Requests(batch) \cup Requests(queue)
  BY <1>2, ConcatIs
<1>4. FlowOf(line, db, stored, unlogged, dropped, lost, now)
  BY DEF LedgerInv, Flow
<1> HIDE DEF line
<1>5. FlowOf(line \o <<>>, db, stored, unlogged, dropped, lost, now)
  BY <1>2, <1>4, RestIs
<1>6. FlowOf(<<>>, db, stored, unlogged, dropped, lost \cup Requests(line), now)
  BY <1>2, <1>5, EmptyBatch, FlowLoses
<1>7. lost' = lost \cup Requests(line)
  BY <1>1, <1>3
<1>8. batch' \o queue' = <<>>
  BY <1>1, EmptyBatch, RestIs
<1>9. Writing' /\ Flow'
  <2>1. QueueMax \in Nat
    BY LedgerAssumption
  <2>2. Writing'
    BY <1>1, <2>1, EmptyBatch DEF Writing
  <2>3. Flow'
    BY <1>1, <1>6, <1>7, <1>8 DEF Flow
  <2> QED
    BY <2>2, <2>3
<1>10. FilesInv'
  BY <1>1 DEF LedgerInv, FilesInv, FilesFit
<1> QED
  BY <1>1, <1>9, <1>10 DEF LedgerInv

LEMMA SweepFilesKeeps ==
  ASSUME LedgerInv, SweepFiles
  PROVE  LedgerInv'
<1>1. PICK stuck : enforce_quota(stuck)
  BY DEF SweepFiles
<1>2. sweeping' = TRUE /\ UNCHANGED <<now, queue, batch, writes, db, unlogged, dropped, stored, lost>>
  BY DEF SweepFiles, writer, ghosts
<1>3. FilesInv'
  BY <1>1, <1>2, QuotaIs, FewerFiles DEF LedgerInv
<1>4. Writing' /\ Flow'
  BY <1>2 DEF LedgerInv, Writing, Flow
<1> QED
  BY <1>2, <1>3, <1>4 DEF LedgerInv

LEMMA SweepTablesKeeps ==
  ASSUME LedgerInv, NEW hourly \in BOOLEAN, SweepTables(hourly)
  PROVE  LedgerInv'
<1>1. /\ sweeping' = FALSE
      /\ UNCHANGED <<now, queue, batch, files, writes, unlogged, dropped, stored, lost>>
  BY DEF SweepTables, writer
<1>2. db' = db \/ db' = apply_retention(db, Policy, now)
  BY DEF SweepTables
<1>3. FlowOf(batch \o queue, db', stored, unlogged, dropped, lost, now)
  BY <1>2, FlowPrunes DEF LedgerInv, Flow
<1>4. Writing' /\ Flow'
  BY <1>1, <1>3 DEF LedgerInv, Writing, Flow
<1>5. FilesInv'
  BY <1>1 DEF LedgerInv, FilesInv, FilesFit
<1> QED
  BY <1>1, <1>4, <1>5 DEF LedgerInv

LEMMA TickKeeps ==
  ASSUME LedgerInv, Tick
  PROVE  LedgerInv'
<1>1. /\ now < LastTick /\ now' = now + 1
      /\ UNCHANGED <<queue, batch, files, writes, db, sweeping, unlogged, dropped, stored, lost>>
  BY DEF Tick, writer, ghosts
<1>2. now \in Nat /\ now' \in FirstTick..LastTick
  BY <1>1, LedgerAssumption DEF LedgerInv
<1>3. Flow'
  BY <1>1, <1>2, FlowTicks DEF LedgerInv, Flow
<1>4. Writing' /\ FilesInv'
  BY <1>1 DEF LedgerInv, Writing, FilesInv, FilesFit
<1> QED
  BY <1>1, <1>2, <1>3, <1>4 DEF LedgerInv

LEMMA StillKeeps ==
  ASSUME LedgerInv,
         UNCHANGED <<now, queue, batch, files, writes, db, sweeping, unlogged, dropped, stored, lost>>
  PROVE  LedgerInv'
  BY DEF LedgerInv, Writing, Flow, FilesInv, FilesFit

LEMMA StepKeeps == LedgerInv /\ [Next]_vars => LedgerInv'
<1> SUFFICES ASSUME LedgerInv, [Next]_vars PROVE LedgerInv'
  OBVIOUS
<1>1. ASSUME NEW r \in Calls, Log(r) PROVE LedgerInv'
  BY <1>1, LogKeeps
<1>2. CASE Receive
  BY <1>2, ReceiveKeeps
<1>3. CASE ReceiveUnwritten
  BY <1>3, ReceiveUnwrittenKeeps
<1>4. CASE FlushTimeout
  BY <1>4, FlushTimeoutKeeps
<1>5. CASE Restart
  BY <1>5, RestartKeeps
<1>6. CASE SweepFiles
  BY <1>6, SweepFilesKeeps
<1>7. ASSUME NEW hourly \in BOOLEAN, SweepTables(hourly) PROVE LedgerInv'
  BY <1>7, SweepTablesKeeps
<1>8. ASSUME NEW f \in Filters, OpenLedger(f) PROVE LedgerInv'
  BY <1>8, StillKeeps DEF OpenLedger, writer, ghosts
<1>9. CASE NextPage
  BY <1>9, StillKeeps DEF NextPage, writer, ghosts
<1>10. CASE Tick
  BY <1>10, TickKeeps
<1>11. CASE UNCHANGED vars
  BY <1>11, StillKeeps DEF vars, writer, ghosts
<1> QED
  BY <1>1, <1>2, <1>3, <1>4, <1>5, <1>6, <1>7, <1>8, <1>9, <1>10, <1>11 DEF Next

\* The invariant holds of every behaviour.
LEMMA LedgerInvHolds == Spec => []LedgerInv
<1>1. Init => LedgerInv
  BY InitHolds
<1>2. LedgerInv /\ [Next]_vars => LedgerInv'
  BY StepKeeps
<1> QED
  BY <1>1, <1>2, PTL DEF Spec

(***************************************************************************)
(* Every call that finished is refused by the channel, in the writer's     *)
(* hands, stored exactly once or lost to a named fault or a restart, for   *)
(* any number of calls and any sizes of the channel and the batch.         *)
(***************************************************************************)
THEOREM NoCallVanishes == Spec => []NothingVanishes
<1>1. LedgerInv => NothingVanishes
  <2> SUFFICES ASSUME LedgerInv PROVE NothingVanishes
    OBVIOUS
  <2>1. Requests(batch \o queue) = Requests(queue) \cup Requests(batch)
    BY ConcatIs DEF LedgerInv, Writing
  <2>2. \A r \in Calls : stored[r] \in {0, 1}
    BY DEF LedgerInv, Flow, FlowOf
  <2>3. \A r \in Calls : stored[r] > 0 => stored[r] = 1
    BY <2>2
  <2>4. /\ Calls = unlogged \cup dropped \cup lost \cup Requests(batch \o queue) \cup Rows(stored)
        /\ Requests(batch \o queue) \cap (dropped \cup lost \cup Rows(stored)) = {}
    BY DEF LedgerInv, Flow, FlowOf
  <2> QED
    BY <2>1, <2>3, <2>4 DEF NothingVanishes, Rows
<1> QED
  BY <1>1, LedgerInvHolds, PTL

(***************************************************************************)
(* The tables and the files hang together whatever statement fails and     *)
(* whatever the sweep removes: rows carry ids in the order of their calls, *)
(* no payload is without its row, no file outgrows its limit.              *)
(***************************************************************************)
THEOREM StorageHangsTogether == Spec => []StorageAgrees
<1>1. LedgerInv => StorageAgrees
  <2> SUFFICES ASSUME LedgerInv PROVE StorageAgrees
    OBVIOUS
  <2>1. IsDb(db) /\ IdsAscend(db)
    BY DEF LedgerInv, Flow, FlowOf
  <2>2. TypeOK
    BY <2>1 DEF LedgerInv, Writing, Flow, FlowOf, FilesInv, TypeOK, IsDb, Totals
  <2>3. RowsInOrder
    <3> SUFFICES ASSUME NEW r \in DOMAIN db.logs, NEW s \in DOMAIN db.logs,
                        db.logs[r].id < db.logs[s].id
                 PROVE  db.logs[r].ts <= db.logs[s].ts
      BY DEF RowsInOrder, RowsOf
    <3> QED
      BY <2>1 DEF IdsAscend
  <2>4. BodiesHaveRows /\ FilesFit
    BY <2>1 DEF LedgerInv, FilesInv, IsDb, BodiesHaveRows
  <2> QED
    BY <2>2, <2>3, <2>4 DEF StorageAgrees
<1> QED
  BY <1>1, LedgerInvHolds, PTL

(***************************************************************************)
(* The sizes of files, added up.                                           *)
(***************************************************************************)
SizeOf(f, S) == MapThenSumSet(LAMBDA p : f[p].size, S)

Sized(f, S) == IsFiniteSet(S) /\ \A p \in S : f[p].size \in Nat

\* The sum is the last value of a function on the smaller sets.
IsSum(it, f, T) ==
  it = [s \in T |-> IF s = {} THEN 0
                    ELSE LET x == CHOOSE x \in s : TRUE IN f[x].size + it[s \ {x}]]

Pick(s) == CHOOSE x \in s : TRUE

Unfolds(it, f, S) ==
  \A s \in SUBSET S : it[s] = IF s = {} THEN 0 ELSE f[Pick(s)].size + it[s \ {Pick(s)}]

LEMMA PickIs == \A s : s # {} => Pick(s) \in s
  BY DEF Pick

Smaller(S, n) == {s \in SUBSET S : Cardinality(s) <= n}

LEMMA SumExists ==
  ASSUME NEW f, NEW S, IsFiniteSet(S)
  PROVE  \E it : IsSum(it, f, SUBSET S)
<1> DEFINE N == Cardinality(S)
           G == {n \in 0..N : \E it : IsSum(it, f, Smaller(S, n))}
<1>1. /\ N \in Nat
      /\ \A s \in SUBSET S : IsFiniteSet(s) /\ Cardinality(s) \in Nat /\ Cardinality(s) <= N
  BY FS_CardinalityType, FS_Subset
<1>2. 0 \in G
  <2>1. \A s \in Smaller(S, 0) : s = {}
    BY <1>1, FS_EmptySet DEF Smaller
  <2> DEFINE it == [s \in Smaller(S, 0) |-> 0]
  <2>2. IsSum(it, f, Smaller(S, 0))
    BY <2>1 DEF IsSum
  <2> QED
    BY <1>1, <2>2
<1>3. ASSUME NEW n \in 1..N, n - 1 \in G PROVE n \in G
  <2>1. PICK h : IsSum(h, f, Smaller(S, n - 1))
    BY <1>3
  <2> DEFINE it == [s \in Smaller(S, n) |->
                      IF s = {} THEN 0
                      ELSE IF Cardinality(s) = n THEN f[Pick(s)].size + h[s \ {Pick(s)}]
                      ELSE h[s]]
  <2>2. \A s \in Smaller(S, n) : s # {} =>
           /\ s \ {Pick(s)} \in Smaller(S, n - 1)
           /\ Cardinality(s \ {Pick(s)}) # n
           /\ Cardinality(s) # n => s \in Smaller(S, n - 1)
    <3> SUFFICES ASSUME NEW s \in Smaller(S, n), s # {}
                 PROVE  /\ s \ {Pick(s)} \in Smaller(S, n - 1)
                        /\ Cardinality(s \ {Pick(s)}) # n
                        /\ Cardinality(s) # n => s \in Smaller(S, n - 1)
      OBVIOUS
    <3>1. Pick(s) \in s
      BY PickIs
    <3>2. s \in SUBSET S /\ Cardinality(s) \in Nat /\ Cardinality(s) <= n /\ IsFiniteSet(s)
      BY <1>1 DEF Smaller
    <3>3. Cardinality(s \ {Pick(s)}) = Cardinality(s) - 1
      BY <3>1, <3>2, FS_RemoveElement
    <3> QED
      BY <3>2, <3>3 DEF Smaller
  <2>3. \A s \in Smaller(S, n - 1) : s \in Smaller(S, n) /\ Cardinality(s) # n
    BY <1>1 DEF Smaller
  <2>4. \A s \in Smaller(S, n - 1) : it[s] = h[s]
    <3> TAKE s \in Smaller(S, n - 1)
    <3>1. CASE s = {}
      BY <2>1, <2>3, <3>1 DEF IsSum
    <3>2. CASE s # {}
      BY <2>3, <3>2
    <3> QED
      BY <3>1, <3>2
  <2>5. \A s \in Smaller(S, n) :
           it[s] = IF s = {} THEN 0 ELSE f[Pick(s)].size + it[s \ {Pick(s)}]
    <3> TAKE s \in Smaller(S, n)
    <3>1. CASE s = {}
      BY <3>1
    <3>2. CASE s # {} /\ Cardinality(s) = n
      BY <2>2, <2>4, <3>2
    <3>3. CASE s # {} /\ Cardinality(s) # n
      <4>1. s \in Smaller(S, n - 1) /\ s \ {Pick(s)} \in Smaller(S, n - 1)
        BY <2>2, <3>3
      <4>2. h[s] = f[Pick(s)].size + h[s \ {Pick(s)}]
        BY <2>1, <3>3, <4>1 DEF IsSum, Pick
      <4> HIDE DEF it
      <4> QED
        BY <2>4, <3>3, <4>1, <4>2
    <3> QED
      BY <3>1, <3>2, <3>3
  <2>6. IsSum(it, f, Smaller(S, n))
    <3>1. DOMAIN it = Smaller(S, n) /\ it = [s \in Smaller(S, n) |-> it[s]]
      OBVIOUS
    <3> HIDE DEF it
    <3>2. [s \in Smaller(S, n) |-> it[s]]
             = [s \in Smaller(S, n) |-> IF s = {} THEN 0
                  ELSE f[Pick(s)].size + it[s \ {Pick(s)}]]
      BY <2>5
    <3> QED
      BY <3>1, <3>2 DEF IsSum, Pick
  <2> QED
    BY <2>6
<1>4. \A n \in 0..N : n \in G
  <2> HIDE DEF G
  <2> QED
    BY <1>1, <1>2, <1>3, UpTo
<1>5. Smaller(S, N) = SUBSET S
  BY <1>1 DEF Smaller
<1>6. N \in G
  <2> HIDE DEF G
  <2> QED
    BY <1>1, <1>4
<1> HIDE DEF N
<1> QED
  BY <1>5, <1>6

LEMMA SumUnfolds ==
  ASSUME NEW f, NEW S, IsFiniteSet(S)
  PROVE  \E it : SizeOf(f, S) = it[S] /\ Unfolds(it, f, S)
<1> DEFINE it == CHOOSE it : IsSum(it, f, SUBSET S)
<1>1. IsSum(it, f, SUBSET S)
  BY SumExists
<1>2. SizeOf(f, S) = it[S]
  BY DEF SizeOf, MapThenSumSet, MapThenFoldSet, IsSum
<1> HIDE DEF it
<1>3. Unfolds(it, f, S)
  BY <1>1 DEF IsSum, Unfolds, Pick
<1> QED
  BY <1>2, <1>3

\* Every such function agrees with the sum on every subset.
LEMMA SumAgrees ==
  ASSUME NEW f, NEW S, IsFiniteSet(S), NEW T \in SUBSET S,
         NEW it, NEW jt, Unfolds(it, f, S), Unfolds(jt, f, T)
  PROVE  it[T] = jt[T]
<1> DEFINE N == Cardinality(T)
           G == {n \in 0..N : \A s \in SUBSET T : Cardinality(s) = n => it[s] = jt[s]}
<1>1. /\ N \in Nat /\ T \in SUBSET T
      /\ \A s \in SUBSET T : s \in SUBSET S /\ IsFiniteSet(s) /\ Cardinality(s) \in Nat
  BY FS_CardinalityType, FS_Subset
<1>2. \A s : s # {} => Pick(s) \in s
  BY PickIs
<1>3. \A s \in SUBSET T : /\ it[s] = IF s = {} THEN 0 ELSE f[Pick(s)].size + it[s \ {Pick(s)}]
                          /\ jt[s] = IF s = {} THEN 0 ELSE f[Pick(s)].size + jt[s \ {Pick(s)}]
  BY <1>1 DEF Unfolds
<1>4. 0 \in G
  <2>1. \A s \in SUBSET T : Cardinality(s) = 0 => s = {}
    BY <1>1, FS_EmptySet
  <2>2. it[{}] = jt[{}]
    BY <1>3
  <2> QED
    BY <1>1, <2>1, <2>2
<1>5. ASSUME NEW n \in 1..N, n - 1 \in G PROVE n \in G
  <2> SUFFICES ASSUME NEW s \in SUBSET T, Cardinality(s) = n PROVE it[s] = jt[s]
    OBVIOUS
  <2>1. s # {} /\ Pick(s) \in s
    BY <1>2, FS_EmptySet
  <2>2. Cardinality(s \ {Pick(s)}) = n - 1
    BY <1>1, <2>1, FS_RemoveElement
  <2>3. it[s \ {Pick(s)}] = jt[s \ {Pick(s)}]
    BY <1>5, <2>2
  <2> QED
    BY <1>3, <2>1, <2>3
<1>6. \A n \in 0..N : n \in G
  <2> HIDE DEF G
  <2> QED
    BY <1>1, <1>4, <1>5, UpTo
<1>7. N \in G
  <2> HIDE DEF G
  <2> QED
    BY <1>1, <1>6
<1> QED
  BY <1>1, <1>7

\* The sum takes the sizes in an order of its own.
LEMMA SumPicks ==
  ASSUME NEW f, NEW S, IsFiniteSet(S)
  PROVE  SizeOf(f, S) = IF S = {} THEN 0 ELSE f[Pick(S)].size + SizeOf(f, S \ {Pick(S)})
<1> DEFINE T == S \ {Pick(S)}
<1>1. PICK it : SizeOf(f, S) = it[S] /\ Unfolds(it, f, S)
  BY SumUnfolds
<1>2. IsFiniteSet(T) /\ T \in SUBSET S
  BY FS_RemoveElement
<1>3. PICK jt : SizeOf(f, T) = jt[T] /\ Unfolds(jt, f, T)
  <2> HIDE DEF T
  <2> QED
    BY <1>2, SumUnfolds
<1>4. it[T] = jt[T]
  <2> HIDE DEF T
  <2> QED
    BY <1>1, <1>2, <1>3, SumAgrees
<1>5. S \in SUBSET S
  OBVIOUS
<1>6. it[S] = IF S = {} THEN 0 ELSE f[Pick(S)].size + it[T]
  BY <1>1, <1>5 DEF Unfolds
<1> QED
  BY <1>1, <1>3, <1>4, <1>6

\* The sum of a set is any one size and the sum of the rest.
LEMMA SumTakes ==
  ASSUME NEW f, NEW S, Sized(f, S)
  PROVE  /\ SizeOf(f, S) \in Nat
         /\ SizeOf(f, {}) = 0
         /\ \A x \in S : SizeOf(f, S) = f[x].size + SizeOf(f, S \ {x})
<1> DEFINE N == Cardinality(S)
           Good(s) == /\ SizeOf(f, s) \in Nat
                      /\ \A x \in s : SizeOf(f, s) = f[x].size + SizeOf(f, s \ {x})
           G == {n \in 0..N : \A s \in SUBSET S : Cardinality(s) <= n => Good(s)}
<1>1. /\ N \in Nat /\ S \in SUBSET S
      /\ \A s \in SUBSET S : IsFiniteSet(s) /\ Cardinality(s) \in Nat /\ Cardinality(s) <= N
  BY FS_CardinalityType, FS_Subset DEF Sized
<1>2. SizeOf(f, {}) = 0
  BY SumPicks, FS_EmptySet
<1>3. 0 \in G
  <2>1. \A s \in SUBSET S : Cardinality(s) <= 0 => s = {}
    BY <1>1, FS_EmptySet
  <2> QED
    BY <1>1, <1>2, <2>1
<1>4. ASSUME NEW n \in 1..N, n - 1 \in G PROVE n \in G
  <2>0. ASSUME NEW s \in SUBSET S, Cardinality(s) <= n - 1 PROVE Good(s)
    <3> HIDE DEF Good
    <3> QED
      BY <1>4, <2>0
  <2> SUFFICES ASSUME NEW s \in SUBSET S, Cardinality(s) = n PROVE Good(s)
    <3>1. \A s \in SUBSET S : Cardinality(s) <= n => Cardinality(s) <= n - 1 \/ Cardinality(s) = n
      BY <1>1
    <3> HIDE DEF Good
    <3> QED
      BY <2>0, <3>1
  <2> DEFINE c == Pick(s)
  <2>1. c \in s /\ s # {}
    BY PickIs, FS_EmptySet
  <2> HIDE DEF c
  <2>2. ASSUME NEW x \in s PROVE Good(s \ {x})
    <3>1. Cardinality(s \ {x}) = n - 1 /\ s \ {x} \in SUBSET S /\ n - 1 <= n - 1
      BY <1>1, <2>2, FS_RemoveElement
    <3> HIDE DEF Good
    <3> QED
      BY <2>0, <3>1
  <2>3. SizeOf(f, s) = f[c].size + SizeOf(f, s \ {c})
    BY <1>1, <2>1, SumPicks DEF c
  <2>4. \A x \in s : f[x].size \in Nat
    BY DEF Sized
  <2>5. SizeOf(f, s) \in Nat
    <3>1. SizeOf(f, s \ {c}) \in Nat
      BY <2>1, <2>2
    <3> QED
      BY <2>1, <2>3, <2>4, <3>1
  <2>6. ASSUME NEW x \in s PROVE SizeOf(f, s) = f[x].size + SizeOf(f, s \ {x})
    <3>1. CASE x = c
      BY <2>3, <3>1
    <3>2. CASE x # c
      <4> DEFINE a == SizeOf(f, s \ {c})
                 b == SizeOf(f, s \ {x})
                 r == SizeOf(f, (s \ {c}) \ {x})
      <4>1. x \in s \ {c} /\ c \in s \ {x} /\ (s \ {x}) \ {c} = (s \ {c}) \ {x}
        BY <2>1, <2>6, <3>2
      <4>2. a = f[x].size + r /\ a \in Nat
        BY <2>1, <2>2, <4>1
      <4>3. b = f[c].size + r /\ b \in Nat
        <5>1. b = f[c].size + SizeOf(f, (s \ {x}) \ {c}) /\ b \in Nat
          BY <2>2, <2>6, <4>1
        <5> QED
          BY <4>1, <5>1
      <4>4. r \in Nat
        <5>1. Cardinality((s \ {c}) \ {x}) = n - 2 /\ (s \ {c}) \ {x} \in SUBSET S
          <6>1. Cardinality(s \ {c}) = n - 1 /\ IsFiniteSet(s \ {c})
            BY <1>1, <2>1, FS_RemoveElement
          <6>2. Cardinality((s \ {c}) \ {x}) = (n - 1) - 1
            BY <4>1, <6>1, FS_RemoveElement
          <6> QED
            BY <6>2
        <5>2. n - 2 <= n - 1
          OBVIOUS
        <5> QED
          BY <2>0, <5>1, <5>2
      <4> QED
        BY <2>3, <2>4, <2>1, <2>6, <4>2, <4>3, <4>4
    <3> QED
      BY <3>1, <3>2
  <2> QED
    BY <2>5, <2>6
<1>5. \A n \in 0..N : n \in G
  <2> HIDE DEF G
  <2> QED
    BY <1>1, <1>3, <1>4, UpTo
<1>6. N \in G
  <2> HIDE DEF G
  <2> QED
    BY <1>1, <1>5
<1> QED
  BY <1>1, <1>2, <1>6

LEMMA SumSplits ==
  ASSUME NEW f, NEW S, Sized(f, S)
  PROVE  \A T \in SUBSET S : /\ SizeOf(f, T) \in Nat /\ SizeOf(f, S \ T) \in Nat
                             /\ SizeOf(f, S) = SizeOf(f, T) + SizeOf(f, S \ T)
<1> DEFINE G == {T \in SUBSET S : SizeOf(f, S) = SizeOf(f, T) + SizeOf(f, S \ T)}
<1>1. \A T \in SUBSET S : Sized(f, T) /\ Sized(f, S \ T)
  <2> TAKE T \in SUBSET S
  <2>1. IsFiniteSet(T) /\ IsFiniteSet(S \ T)
    BY FS_Subset DEF Sized
  <2> QED
    BY <2>1 DEF Sized
<1>2. \A T \in SUBSET S : SizeOf(f, T) \in Nat /\ SizeOf(f, S \ T) \in Nat
  BY <1>1, SumTakes
<1>3. {} \in G
  <2>1. S \ {} = S /\ {} \in SUBSET S
    OBVIOUS
  <2>2. SizeOf(f, {}) = 0 /\ SizeOf(f, S) \in Nat
    BY SumTakes
  <2> QED
    BY <2>1, <2>2
<1>4. ASSUME NEW T \in SUBSET S, NEW x \in S, T \in G, x \notin T PROVE T \cup {x} \in G
  <2>1. T \cup {x} \in SUBSET S /\ (T \cup {x}) \ {x} = T /\ (S \ T) \ {x} = S \ (T \cup {x})
    BY <1>4
  <2>2. SizeOf(f, T \cup {x}) = f[x].size + SizeOf(f, (T \cup {x}) \ {x})
    <3>1. Sized(f, T \cup {x}) /\ x \in T \cup {x}
      BY <1>1, <2>1
    <3> QED
      BY <3>1, SumTakes
  <2>3. SizeOf(f, S \ T) = f[x].size + SizeOf(f, (S \ T) \ {x})
    BY <1>1, <1>4, SumTakes
  <2>4. f[x].size \in Nat
    BY DEF Sized
  <2>5. /\ SizeOf(f, T) \in Nat /\ SizeOf(f, S \ T) \in Nat
        /\ SizeOf(f, T \cup {x}) \in Nat /\ SizeOf(f, S \ (T \cup {x})) \in Nat
    BY <1>2, <2>1
  <2>6. SizeOf(f, S) = SizeOf(f, T) + SizeOf(f, S \ T)
    BY <1>4
  <2>7. SizeOf(f, S) = SizeOf(f, T \cup {x}) + SizeOf(f, S \ (T \cup {x}))
    BY <2>1, <2>2, <2>3, <2>4, <2>5, <2>6
  <2> QED
    BY <2>1, <2>7
<1>5. \A T \in SUBSET S : T \in G
  <2>1. IsFiniteSet(S)
    BY DEF Sized
  <2> HIDE DEF G
  <2> QED
    BY <1>3, <1>4, <2>1, GrowTo
<1> QED
  BY <1>2, <1>5

LEMMA SumGrows ==
  ASSUME NEW f, NEW S, Sized(f, S), NEW T \in SUBSET S
  PROVE  SizeOf(f, T) <= SizeOf(f, S)
<1>1. SizeOf(f, T) \in Nat /\ SizeOf(f, S \ T) \in Nat /\ SizeOf(f, S) = SizeOf(f, T) + SizeOf(f, S \ T)
  BY SumSplits
<1> QED
  BY <1>1

(***************************************************************************)
(* The sweep of the files.                                                 *)
(***************************************************************************)
\* U are the files that can be removed, over the bytes to free.
LEMMA SweepIs ==
  ASSUME FilesInv, NEW D, D = DOMAIN files, NEW U \in SUBSET D,
         NEW total, total = TotalSize(D), total > Quota,
         NEW gone, gone = OldestEnough(U, total - Quota),
         NEW kept, kept = D \ gone
  PROVE  /\ TotalSize(kept) <= Quota \/ kept \cap U = {}
         /\ \A g \in gone, k \in kept \cap U : files[g].modified < files[k].modified
         /\ \A g \in gone :
              (\A x \in gone : files[x].modified <= files[g].modified)
                => TotalSize(kept \cup {g}) > Quota
<1> DEFINE mod(p) == files[p].modified
           Older(p) == {x \in U : mod(x) < mod(p)}
           over == total - Quota
           Size(S) == SizeOf(files, S)
<1>1. \A S : TotalSize(S) = Size(S)
  BY DEF TotalSize, SizeOf
<1>2. /\ Sized(files, D) /\ \A S \in SUBSET D : Sized(files, S)
  <2>1. IsFiniteSet(D) /\ \A p \in D : files[p].size \in Nat
    BY DEF FilesInv, File
  <2>2. \A S \in SUBSET D : IsFiniteSet(S)
    BY <2>1, FS_Subset
  <2> QED
    BY <2>1, <2>2 DEF Sized
<1>3. \A p \in D : mod(p) \in Nat
  BY DEF FilesInv, File
<1>4. \A p, q \in D : mod(p) = mod(q) => p = q
  BY DEF FilesInv
<1>5. gone = {p \in U : Size(Older(p)) < over}
  BY <1>1 DEF OldestEnough
<1>6. Quota \in Nat /\ total \in Nat /\ over \in Nat /\ total = Size(D)
  <2>1. Size(D) \in Nat
    BY <1>2, SumTakes
  <2>2. Quota \in Nat
    BY LedgerAssumption
  <2>3. total = Size(D)
    BY <1>1
  <2> HIDE DEF Size
  <2> QED
    BY <2>1, <2>2, <2>3
<1>7. \A p : Older(p) \in SUBSET U
  OBVIOUS
<1>8. \A S, T \in SUBSET D : S \subseteq T => Size(S) \in Nat /\ Size(T) \in Nat /\ Size(S) <= Size(T)
  <2> TAKE S, T \in SUBSET D
  <2>1. Size(S) \in Nat /\ Size(T) \in Nat
    BY <1>2, SumTakes
  <2>2. ASSUME S \subseteq T PROVE Size(S) <= Size(T)
    BY <1>2, <2>2, SumGrows
  <2> QED
    BY <2>1, <2>2
<1>9. \A S \in SUBSET D : Size(D \ S) \in Nat /\ Size(S) \in Nat /\ Size(D) = Size(S) + Size(D \ S)
  <2> TAKE S \in SUBSET D
  <2> QED
    BY <1>2, SumSplits
<1>10. \A p, q \in U : mod(p) <= mod(q) => Older(p) \subseteq Older(q)
  BY <1>3
<1>11. /\ gone \subseteq U /\ gone \in SUBSET D
       /\ \A p \in U : p \in gone <=> Size(Older(p)) < over
       /\ \A p \in U : Older(p) \in SUBSET D /\ Size(Older(p)) \in Nat
  <2>1. \A p \in U : Older(p) \in SUBSET D
    BY <1>7
  <2>2. \A p \in U : Size(Older(p)) \in Nat
    BY <1>8, <2>1
  <2> QED
    BY <1>5, <2>1, <2>2
<1> HIDE DEF Size, over
<1>12. TotalSize(kept) <= Quota \/ kept \cap U = {}
  <2> SUFFICES ASSUME kept \cap U # {} PROVE TotalSize(kept) <= Quota
    OBVIOUS
  <2> DEFINE M == {mod(p) : p \in kept \cap U}
  <2>1. M \subseteq Nat /\ M # {}
    BY <1>3
  <2>2. PICK m \in M : \A n \in M : m <= n
    <3> HIDE DEF M
    <3> QED
      BY <2>1, LeastNumber
  <2>3. PICK k \in kept \cap U : \A p \in kept \cap U : mod(k) <= mod(p)
    BY <2>2
  <2>4. Older(k) \subseteq gone
    <3> SUFFICES ASSUME NEW x \in U, mod(x) < mod(k), x \notin gone PROVE FALSE
      OBVIOUS
    <3>1. x \in kept \cap U
      OBVIOUS
    <3>2. mod(k) <= mod(x)
      BY <2>3, <3>1
    <3>3. mod(k) \in Nat /\ mod(x) \in Nat
      BY <1>3, <2>3
    <3> QED
      BY <3>2, <3>3
  <2> HIDE DEF Older, mod
  <2>5. Size(Older(k)) \in Nat /\ Size(Older(k)) >= over
    BY <1>6, <1>11, <2>3
  <2>6. Size(gone) \in Nat /\ Size(gone) >= Size(Older(k))
    BY <1>8, <1>11, <2>3, <2>4
  <2>7. Size(D \ gone) \in Nat /\ Size(D) = Size(gone) + Size(D \ gone)
    BY <1>9, <1>11
  <2>8. Size(D \ gone) <= Quota
    BY <1>6, <2>5, <2>6, <2>7 DEF over
  <2> QED
    BY <1>1, <2>8
<1>13. \A g \in gone, k \in kept \cap U : mod(g) < mod(k)
  <2> SUFFICES ASSUME NEW g \in gone, NEW k \in kept \cap U, ~(mod(g) < mod(k)) PROVE FALSE
    OBVIOUS
  <2>1. g \in U /\ k \in U /\ k \notin gone
    BY <1>11
  <2>2. mod(g) \in Nat /\ mod(k) \in Nat
    BY <1>3, <2>1
  <2>3. Older(k) \subseteq Older(g)
    BY <1>10, <2>1, <2>2
  <2> HIDE DEF Older, mod
  <2>4. Size(Older(k)) <= Size(Older(g)) /\ Size(Older(k)) \in Nat /\ Size(Older(g)) \in Nat
    BY <1>8, <1>11, <2>1, <2>3
  <2>5. Size(Older(g)) < over /\ ~(Size(Older(k)) < over)
    BY <1>11, <2>1
  <2> QED
    BY <1>6, <2>4, <2>5
<1>14. ASSUME NEW g \in gone, \A x \in gone : mod(x) <= mod(g)
       PROVE  TotalSize(kept \cup {g}) > Quota
  <2>1. gone \ {g} \subseteq Older(g) /\ gone \ {g} \in SUBSET D
    <3> SUFFICES ASSUME NEW x \in gone, x # g PROVE x \in U /\ mod(x) < mod(g)
      BY <1>11
    <3>1. x \in U /\ g \in U
      BY <1>11
    <3>2. mod(x) # mod(g) /\ mod(x) \in Nat /\ mod(g) \in Nat
      BY <1>3, <1>4, <3>1
    <3>3. mod(x) <= mod(g)
      BY <1>14
    <3> HIDE DEF mod
    <3> QED
      BY <3>1, <3>2, <3>3
  <2> HIDE DEF Older, mod
  <2>2. g \in U /\ Size(Older(g)) < over /\ Size(Older(g)) \in Nat
    BY <1>11
  <2>3. Size(gone \ {g}) \in Nat /\ Size(gone \ {g}) <= Size(Older(g))
    BY <1>8, <1>11, <2>1, <2>2
  <2>4. D \ (gone \ {g}) = kept \cup {g}
    BY <2>2
  <2>5. Size(kept \cup {g}) \in Nat /\ Size(D) = Size(gone \ {g}) + Size(kept \cup {g})
    BY <1>9, <2>1, <2>4
  <2>6. Size(kept \cup {g}) > Quota
    BY <1>6, <2>2, <2>3, <2>5 DEF over
  <2> QED
    BY <1>1, <2>6
<1> QED
  BY <1>12, <1>13, <1>14

(***************************************************************************)
(* A sweep of the files brings them under the quota, takes the oldest ones *)
(* and none it did not have to, for any number and any sizes of files, and *)
(* passes over one that cannot be removed.                                 *)
(***************************************************************************)
THEOREM SweepKeepsNewest == Spec => QuotaKeepsNewest
<1> DEFINE
      Right == LET gone == DOMAIN files \ DOMAIN files'
                   kept == DOMAIN files'
               IN  \E stuck \in {{}} \cup {{p} : p \in kept} :
                   /\ Quota = 0 \/ TotalSize(kept) <= Quota \/ kept = stuck
                   /\ \A g \in gone, k \in kept \ stuck :
                       files[g].modified < files[k].modified
                   /\ \A g \in gone :
                       (\A x \in gone : files[x].modified <= files[g].modified)
                           => TotalSize(kept \cup {g}) > Quota
      Step == sweeping' /\ ~sweeping => Right
<1>1. ASSUME LedgerInv, SweepFiles PROVE Right
  <2> DEFINE D == DOMAIN files
             total == TotalSize(D)
  <2>1. PICK stuck \in {{}} \cup {{p} : p \in D} : enforce_quota(stuck)
    BY <1>1 DEF SweepFiles
  <2> DEFINE U == D \ stuck
             gone == OldestEnough(U, total - Quota)
             kept == D \ gone
  <2>2. files' = IF Quota = 0 \/ total <= Quota THEN files ELSE Without(files, gone)
    BY <2>1 DEF enforce_quota
  <2>3. CASE Quota = 0 \/ total <= Quota
    <3>1. files' = files
      BY <2>2, <2>3
    <3>2. DOMAIN files \ DOMAIN files' = {} /\ DOMAIN files' = D
      BY <3>1
    <3>3. Quota = 0 \/ TotalSize(DOMAIN files') <= Quota
      BY <2>3, <3>2
    <3> QED
      BY <3>2, <3>3
  <2>4. CASE ~(Quota = 0 \/ total <= Quota)
    <3>1. files' = Without(files, gone)
      BY <2>2, <2>4
    <3>2. DOMAIN files' = kept
      BY <3>1 DEF Without
    <3>3. total \in Nat /\ Quota \in Nat
      <4>1. Sized(files, D)
        BY <1>1 DEF LedgerInv, FilesInv, File, Sized
      <4>2. SizeOf(files, D) \in Nat
        BY <4>1, SumTakes
      <4> QED
        BY <4>2, LedgerAssumption DEF SizeOf, TotalSize
    <3>4. total > Quota
      BY <2>4, <3>3
    <3>5. gone \subseteq U
      BY DEF OldestEnough
    <3>6. U \in SUBSET D
      OBVIOUS
    <3>7. /\ FilesInv
          /\ D = DOMAIN files /\ total = TotalSize(D)
          /\ gone = OldestEnough(U, total - Quota) /\ kept = D \ gone
      BY <1>1 DEF LedgerInv
    <3> HIDE DEF gone, total
    <3>8. /\ TotalSize(kept) <= Quota \/ kept \cap U = {}
          /\ \A g \in gone, k \in kept \cap U : files[g].modified < files[k].modified
          /\ \A g \in gone :
              (\A x \in gone : files[x].modified <= files[g].modified)
                => TotalSize(kept \cup {g}) > Quota
      <4> HIDE DEF kept, U, D
      <4> QED
        BY <3>4, <3>6, <3>7, SweepIs
    <3>9. /\ D \ kept = gone /\ kept \cap U = kept \ stuck
          /\ stuck \cap D \subseteq kept
          /\ kept \cap U = {} => kept = stuck
          /\ stuck \in {{}} \cup {{p} : p \in kept}
      BY <2>1, <3>5
    <3>10. /\ Quota = 0 \/ TotalSize(kept) <= Quota \/ kept = stuck
           /\ \A g \in D \ kept, k \in kept \ stuck : files[g].modified < files[k].modified
           /\ \A g \in D \ kept :
               (\A x \in D \ kept : files[x].modified <= files[g].modified)
                 => TotalSize(kept \cup {g}) > Quota
      BY <3>8, <3>9
    <3> HIDE DEF kept, U
    <3> QED
      BY <3>2, <3>9, <3>10
  <2> QED
    BY <2>3, <2>4
<1>2. LedgerInv /\ [Next]_vars => [Step]_vars
  <2> SUFFICES ASSUME LedgerInv, [Next]_vars, sweeping', ~sweeping PROVE Right
    OBVIOUS
  <2> HIDE DEF Right
  <2>1. sweeping' # sweeping
    OBVIOUS
  <2>2. SweepFiles
    BY <2>1 DEF Next, vars, writer, ghosts, Log, Receive, ReceiveUnwritten, FlushTimeout, Restart,
                SweepTables, OpenLedger, NextPage, Tick
  <2> QED
    BY <1>1, <2>2
<1> QED
  BY <1>2, LedgerInvHolds, PTL DEF Spec, QuotaKeepsNewest
================================================================================
