------------------------------- MODULE SeatOrder -------------------------------
(***************************************************************************)
(* In which order a request tries its targets: the accounts of one         *)
(* provider (crates/server/src/provider_pool.rs, config/provider.rs) and   *)
(* the providers of one route (crates/server/src/route_strategy.rs).       *)
(* Accounts and providers are sequences of distinct or repeated names.     *)
(***************************************************************************)
EXTENDS Naturals, Sequences, FiniteSets

Names(s) == {s[i] : i \in 1..Len(s)}

\* Not so of every provider of a route: `provider` and `providers` are merged.
NamesOnce(s, x) == \A i, j \in 1..Len(s) : s[i] = x /\ s[j] = x => i = j

\* Some positions of a sequence in ascending order, and what stands there:
\* filter() and collect().
Ascending(at) ==
  CHOOSE f \in [1..Cardinality(at) -> at] :
    \A k, l \in 1..Cardinality(at) : k < l => f[k] < f[l]

Picked(s, at) == [k \in 1..Cardinality(at) |-> s[Ascending(at)[k]]]

\* The elements of a sequence that are in a set, or that are not.
Within(s, S) == Picked(s, {i \in 1..Len(s) : s[i] \in S})

Outside(s, S) == Picked(s, {i \in 1..Len(s) : s[i] \notin S})

\* account_ids: empty ids and repeats are dropped, the first of each stays.
AccountIds(listed, empty) ==
  Picked(listed, {i \in 1..Len(listed) :
                    listed[i] # empty /\ \A j \in 1..(i - 1) : listed[j] # listed[i]})

\* Only the saved ids: a seat the order does not name is lost.
ApplyOrderDropsUnknown(ids, saved) == Within(saved, Names(ids))

\* apply_order: the ids the saved order names, in its order, then the others.
ApplyOrder(ids, saved) == Within(saved, Names(ids)) \o Outside(ids, Names(saved))

\* order_accounts: a stable partition, the accounts past their line last.
OrderAccounts(ids, exhausted) == Outside(ids, exhausted) \o Within(ids, exhausted)

\* The one request counter decides where a round-robin route starts; a route
\* of one provider and a priority route leave it alone.
Rotates(names, strategy) == Len(names) > 1 /\ strategy = "round_robin"

OrderProviderNames(names, strategy, counter) ==
  IF ~Rotates(names, strategy) THEN names
  ELSE LET start == counter % Len(names)
       IN  SubSeq(names, start + 1, Len(names)) \o SubSeq(names, 1, start)
================================================================================
