------------------------ MODULE AccountAdoptionProofs -------------------------
(***************************************************************************)
(* Proofs about imports and adopted accounts for any people, homes,        *)
(* exports and writer threads, any number of commands and tokens, and      *)
(* whatever mishaps happen.                                                *)
(***************************************************************************)
EXTENDS AccountAdoption, FiniteSetTheorems, SequenceTheorems, TLAPS

(***************************************************************************)
(* The inductive invariant.                                                *)
(***************************************************************************)
Readable(a) == a.is \in {"tokens", "key"}
Auths == {a \in Auth : IF Readable(a) THEN a.id \in People /\ a.account \in People /\ a.of \in People
                       ELSE a.of = None /\ a.account = None}
Snaps == [People -> Homes \cup {None}]
ImportRows == {Refused} \cup
  {r \in [ok : {TRUE}, id : Ids, gen : Nat, expiry : Int, until : Int, newer_wins : BOOLEAN] :
     r.expiry = NoExpiry \/ r.expiry = r.until}
AgentRows == [ok : {TRUE}, id : Ids, gen : Nat, expiry : Nat, newer_wins : {FALSE}]

WriterPcs == {"free", "start", "read", "copied", "ok", "failed"}
WriterStates == [pc : WriterPcs, home : Homes \cup {None}, of : People \cup {None}, gen : Nat,
                 idtoken : BOOLEAN, was : Auths, by : {None, "adopt", "refresh", "signin"},
                 excused : BOOLEAN, detached : BOOLEAN, overtaken : {"no", "read", "copied"}]
TaskStates == [pc : {"idle", "lookup", "await"}, who : People \cup {None}, w : Writers \cup {None},
               gen : Nat, over : BOOLEAN]
CliStates == [pc : {"idle", "check", "put", "await", "mark", "save", "drop"},
              who : People \cup {None}, w : Writers \cup {None}, home : Homes \cup {None},
              rows : Seq(ImportRows \cup AgentRows), seen : Cred \cup {None}, snap : Snaps,
              agent : BOOLEAN]
WebStates == [pc : {"idle", "drop"}, who : People \cup {None}, snap : Snaps]

Typed ==
  /\ live \in [People -> 1..MaxGen]
  /\ honoured \in [People -> SUBSET Nat] /\ \A p \in People : honoured[p] \subseteq 1..live[p]
  /\ secrets \in [Ids -> Cred \cup {None}]
  /\ adopted \in Snaps
  /\ config \in [Homes -> {"file", "refused"}]
  /\ auth \in [Homes -> Auths]
  /\ lock \in [Homes -> Writers \cup {None}]
  /\ writer \in [Writers -> WriterStates]
  /\ refresh \in TaskStates /\ signin \in TaskStates /\ cli \in CliStates /\ web \in WebStates
  /\ left \in 0..MaxCommands
  /\ written \in [People -> SUBSET Homes]
  /\ switched \in SUBSET Homes /\ missed \in SUBSET People

\* A writer between its read and its write has its home's lock, and only then.
LocksHeld ==
  \A w \in Writers :
    /\ writer[w].pc # "free" => writer[w].home \in Homes /\ writer[w].of \in People
                                /\ writer[w].by \in {"adopt", "refresh", "signin"}
    /\ \A h \in Homes : lock[h] = w <=> writer[w].home = h /\ writer[w].pc \in {"read", "copied"}
    /\ writer[w].pc \in {"read", "copied"} => Readable(writer[w].was)

\* A writer works for the task that spawned it until that has looked at the outcome.
Owned ==
  \A w \in Writers : writer[w].pc # "free" =>
    /\ writer[w].by = "refresh" /\ ~writer[w].detached =>
         refresh.pc = "await" /\ refresh.w = w /\ refresh.who = writer[w].of
    /\ writer[w].by = "adopt" =>
         cli.pc = "await" /\ cli.w = w /\ cli.who = writer[w].of /\ cli.home = writer[w].home
    /\ writer[w].by = "signin" => signin.pc = "await" /\ signin.w = w /\ signin.who = writer[w].of
    /\ writer[w].detached => writer[w].by = "refresh" /\ writer[w].excused
Waiting(task, by) ==
  task.pc = "await" => /\ task.w \in Writers /\ writer[task.w].pc # "free"
                       /\ writer[task.w].by = by /\ ~writer[task.w].detached
Tasks ==
  /\ Waiting(refresh, "refresh") /\ Waiting(signin, "signin") /\ Waiting(cli, "adopt")
  /\ refresh.pc # "idle" => refresh.who \in People
  /\ cli.pc \in {"mark", "save"} => cli.home \in Homes /\ cli.who \in People
  /\ cli.pc = "drop" => cli.who \in People
  /\ web.pc = "drop" => web.who \in People
  /\ signin.pc # "lookup"
\* The row looked at is there, is worth storing, and of the command's kind.
RowsInHand ==
  /\ cli.pc \in {"check", "put"} =>
       /\ cli.rows # <<>> /\ cli.rows \in Seq(IF cli.agent THEN AgentRows ELSE ImportRows)
  /\ cli.pc = "put" => cli.rows[1].ok
  /\ cli.pc = "put" /\ ~cli.agent => Replaces(cli.rows[1], cli.seen)

Marks ==
  /\ \A p \in People : /\ adopted[p] # None => adopted[p] \in written[p]
                       /\ cli.snap[p] # None => cli.snap[p] \in written[p]
                       /\ web.snap[p] # None => web.snap[p] \in written[p]
  /\ cli.pc \in {"mark", "save"} => cli.home \in written[cli.who]

\* Whom a home was or is said to be for.
Names(a) == IF Readable(a) THEN {a.id, a.account, a.of} ELSE {}
Brought(u, h, p) == /\ u.pc # "free" /\ u.home = h
                    /\ \/ u.by # "signin" /\ u.of = p
                       \/ u.pc \in {"read", "copied"} /\ p \in Names(u.was)
Named(h, p) ==
  \/ p \in Names(auth[h])
  \/ h \in written[p]
  \/ \E w \in Writers : Brought(writer[w], h, p)
OneName == \A h \in Homes \ switched : \A p, q \in People : Named(h, p) /\ Named(h, q) => p = q

\* What a refresh has to write is what is stored, unless it was stored over.
Newest ==
  /\ refresh.pc = "lookup" /\ ~refresh.over => refresh.gen = secrets[Codex(refresh.who)].gen
  /\ \A w \in Writers : writer[w].pc # "free" /\ writer[w].by = "refresh" /\ ~writer[w].excused =>
                          writer[w].gen = secrets[Codex(writer[w].of)].gen

Current(p, h) == auth[h].of = p /\ auth[h].gen = secrets[Codex(p)].gen
\* A refresh has stored p's token and is still to write it to h.
Ahead(p, h) ==
  /\ refresh.who = p
  /\ \/ refresh.pc = "lookup" /\ ~refresh.over
     \/ /\ refresh.pc = "await" /\ writer[refresh.w].pc \in {"start", "read", "copied"}
        /\ ~writer[refresh.w].excused /\ writer[refresh.w].home = h
\* An adoption has written p's token and is still to mark it.
Landed(p) ==
  cli.who = p /\ (cli.pc \in {"mark", "save"} \/ (cli.pc = "await" /\ writer[cli.w].pc = "ok"))
MarkedCurrent ==
  \A p \in People : adopted[p] # None /\ p \notin missed /\ ~Landed(p) =>
                      Current(p, adopted[p]) \/ Ahead(p, adopted[p])
LandedCurrent == \A p \in People : Landed(p) /\ p \notin missed => Current(p, cli.home)

\* A writer's file parsed when it was read, and was there when it was copied.
FileWasThere ==
  \A w \in Writers : LET h == writer[w].home IN
    writer[w].pc \in {"read", "copied"} =>
      /\ auth[h].is # "unread"
      /\ writer[w].pc = "copied" /\ auth[h].is = "missing" => writer[w].overtaken = "copied"

IInv == /\ Typed /\ LocksHeld /\ Owned /\ Tasks /\ RowsInHand
        /\ Marks /\ OneName /\ Newest /\ MarkedCurrent /\ LandedCurrent /\ FileWasThere

(***************************************************************************)
(* Numbers, and sequences put together from sequences.                     *)
(***************************************************************************)
\* The least number principle.
LEMMA LeastNumber ==
  ASSUME NEW T, T \subseteq Nat, T # {}
  PROVE  \E x \in T : \A y \in T : x <= y
<1>1. PICK x \in T : \A y \in T : ~ (<<y, x>> \in OpToRel(<,Nat))
  BY WFMin, NatLessThanWellFounded
<1>2. \A m, n \in Nat : m < n => <<m, n>> \in OpToRel(<,Nat)
  BY DEF OpToRel
<1>3. \A y \in T : ~(y < x)
  BY <1>1, <1>2, Zenon
<1> QED
  BY <1>3

\* A set of numbers that holds 1 and every successor holds them all.
LEMMA UpTo ==
  ASSUME NEW L \in Nat, NEW G, 1 \in G, \A n \in 2..L : n - 1 \in G => n \in G
  PROVE  \A n \in 1..L : n \in G
<1> DEFINE T == {n \in 1..L : n \notin G}
<1> SUFFICES ASSUME T # {} PROVE FALSE
  OBVIOUS
<1>0. T \subseteq Nat
  OBVIOUS
<1>1. PICK x \in T : \A y \in T : x <= y
  <2> HIDE DEF T
  <2> QED
    BY <1>0, LeastNumber
<1>2. x \in 2..L /\ x - 1 \in 1..L /\ ~(x <= x - 1)
  BY <1>1
<1> QED
  BY <1>1, <1>2

\* FlattenSeq's own function, over the first n parts.
IsFlat(f, parts, n) ==
  f = [i \in 1..n |-> IF i = 1 THEN parts[i] ELSE f[i - 1] \o parts[i]]

LEMMA FlatExists ==
  ASSUME NEW parts, NEW L \in Nat \ {0}
  PROVE  \E f : IsFlat(f, parts, L)
<1> DEFINE G == {m \in 1..L : \E f : IsFlat(f, parts, m)}
<1>1. 1 \in G
  <2>1. IsFlat([i \in 1..1 |-> parts[i]], parts, 1)
    BY DEF IsFlat
  <2> QED
    BY <2>1
<1>2. ASSUME NEW m \in 2..L, m - 1 \in G PROVE m \in G
  <2>1. PICK f : IsFlat(f, parts, m - 1)
    BY <1>2
  <2> DEFINE g == [i \in 1..m |-> IF i = m THEN f[m - 1] \o parts[m] ELSE f[i]]
  <2>2. \A i \in 1..m : g[i] = IF i = 1 THEN parts[i] ELSE g[i - 1] \o parts[i]
    <3> TAKE i \in 1..m
    <3>1. CASE i = m
      <4>1. g[i - 1] = f[m - 1] /\ i # 1
        BY <3>1
      <4> QED
        BY <3>1, <4>1
    <3>2. CASE i # m
      <4>1. i \in 1..m - 1 /\ g[i] = f[i] /\ (i # 1 => i - 1 \in 1..m /\ i - 1 # m)
        BY <3>2
      <4>2. i # 1 => g[i - 1] = f[i - 1]
        BY <4>1
      <4>3. f[i] = IF i = 1 THEN parts[i] ELSE f[i - 1] \o parts[i]
        BY <2>1, <4>1 DEF IsFlat
      <4> QED
        BY <4>1, <4>2, <4>3
    <3> QED
      BY <3>1, <3>2
  <2>3. IsFlat(g, parts, m)
    BY <2>2 DEF IsFlat
  <2> QED
    BY <2>3
<1>3. \A m \in 1..L : m \in G
  <2> HIDE DEF G
  <2> QED
    BY <1>1, <1>2, UpTo
<1> QED
  BY <1>3

\* Sequences of a kind that is closed under concatenation are put together
\* to one of that kind.
LEMMA FlattenSeqType ==
  ASSUME NEW T, NEW parts \in Seq(T), parts # <<>>, \A s, t \in T : s \o t \in T
  PROVE  FlattenSeq(parts) \in T
<1> DEFINE L == Len(parts)
           flat == CHOOSE f : IsFlat(f, parts, L)
<1>1. L \in Nat \ {0} /\ \A i \in 1..L : parts[i] \in T
  OBVIOUS
<1>2. IsFlat(flat, parts, L)
  <2> HIDE DEF L
  <2> QED
    BY <1>1, FlatExists
<1>3. FlattenSeq(parts) = flat[L]
  BY <1>1 DEF FlattenSeq, IsFlat
<1> HIDE DEF L, flat
<1> DEFINE G == {n \in 1..L : flat[n] \in T}
<1>4. \A n \in 1..L : flat[n] = IF n = 1 THEN parts[n] ELSE flat[n - 1] \o parts[n]
  BY <1>2 DEF IsFlat
<1>5. 1 \in G
  BY <1>1, <1>4
<1>6. ASSUME NEW n \in 2..L, n - 1 \in G PROVE n \in G
  <2>1. n \in 1..L /\ n # 1
    BY <1>1
  <2>2. flat[n - 1] \in T /\ parts[n] \in T
    BY <1>1, <1>6, <2>1
  <2>3. flat[n] = flat[n - 1] \o parts[n]
    BY <1>4, <2>1
  <2> QED
    BY <2>1, <2>2, <2>3
<1>7. \A n \in 1..L : n \in G
  <2> HIDE DEF G
  <2> QED
    BY <1>1, <1>5, <1>6, UpTo
<1> QED
  BY <1>1, <1>3, <1>7

(***************************************************************************)
(* What an import reads.                                                   *)
(***************************************************************************)
LEMMA EntryIsRow ==
  ASSUME NEW provider \in {"codex", "claude"}, NEW name \in People \cup {NoName},
         NEW e \in Entries(People), NEW newer_wins \in BOOLEAN
  PROVE  Entry(provider, name, e, newer_wins) \in ImportRows
<1> DEFINE n == [e EXCEPT !.expiry = Expiry(e)]
<1>1. n.gen = e.gen /\ n.until = e.until /\ n.expiry = Expiry(e)
  BY DEF Entries
<1>2. e.gen \in Nat /\ e.until \in Int /\ Expiry(e) \in Int
      /\ (Expiry(e) = NoExpiry \/ Expiry(e) = e.until)
  <2>1. e.gen \in Nat /\ e.until \in Int /\ e.expiry \in Int /\ UnitIsClear(e)
    BY DEF Entries
  <2>2. CASE e.expiry = NoExpiry
    BY <2>1, <2>2 DEF Expiry, NoExpiry
  <2>3. CASE e.expiry # NoExpiry
    BY <2>1, <2>3, ThresholdAssumption DEF Expiry, NoExpiry, normalize_expiry, UnitIsClear
  <2> QED
    BY <2>1, <2>2, <2>3
<1> HIDE DEF n
<1>3. CASE name \in People
  <2>1. <<provider, name>> \in Ids
    BY <1>3 DEF Ids
  <2>2. Row(provider, name, n, newer_wins) \in ImportRows
    BY <1>1, <1>2, <2>1 DEF Row, ImportRows
  <2> QED
    BY <2>2 DEF Entry, n, ImportRows
<1>4. CASE name = NoName
  BY <1>4 DEF Entry, ImportRows
<1> QED
  BY <1>3, <1>4

LEMMA EntryReaders ==
  ASSUME NEW e \in Entries(People)
  PROVE  /\ import_cswap_entry(e) \in ImportRows
         /\ import_sub2api_entry(e) \in ImportRows
         /\ Cliproxy(e) \in ImportRows /\ Flat(e) \in ImportRows
<1>1. Refused \in ImportRows
  BY DEF ImportRows
<1>2. {e.email, e.alias, e.key} \subseteq People \cup {NoName}
      /\ e.hint \in {"", "claude", "codex"}
  BY DEF Entries
<1>3. \A a, b \in People \cup {NoName} : first_nonempty(a, b) \in People \cup {NoName}
  BY DEF first_nonempty
<1>4. import_cswap_entry(e) \in ImportRows
  BY <1>1, <1>2, <1>3, EntryIsRow DEF import_cswap_entry
<1>5. import_sub2api_entry(e) \in ImportRows
  BY <1>1, <1>2, <1>3, EntryIsRow DEF import_sub2api_entry
<1>6. ASSUME NEW key \in People \cup {NoName}
      PROVE  import_cliproxy_entry(key, e) \in ImportRows
  <2> DEFINE provider == CASE e.type \in {"claude", "codex"} -> e.type
                           [] e.type = "" -> e.hint
                           [] OTHER -> ""
  <2>1. provider \in {"", "claude", "codex"}
    BY <1>2
  <2>2. import_cliproxy_entry(key, e) =
          IF ~e.object \/ provider = "" THEN Refused
          ELSE Entry(provider, first_nonempty(e.email, key), e, FALSE)
    BY DEF import_cliproxy_entry
  <2> DEFINE name == first_nonempty(e.email, key)
  <2>3. name \in People \cup {NoName}
    BY <1>2, <1>3
  <2> HIDE DEF provider, name
  <2>4. CASE provider # ""
    <3>1. Entry(provider, name, e, FALSE) \in ImportRows
      BY <2>1, <2>3, <2>4, EntryIsRow
    <3> QED
      BY <1>1, <2>2, <3>1 DEF name
  <2> QED
    BY <1>1, <2>2, <2>4
<1> QED
  BY <1>2, <1>4, <1>5, <1>6 DEF Cliproxy, Flat

\* One row at least.
Filled == Seq(ImportRows) \ {<<>>}

LEMMA FileIsRows ==
  ASSUME NEW d \in ExportFiles(People)
  PROVE  import_file(d) \in Filled
<1> DEFINE L == Len(d.items)
<1>1. L \in Nat /\ DOMAIN d.items = 1..L /\ \A i \in 1..L : d.items[i] \in Entries(People)
  BY DEF ExportFiles
<1>2. <<Refused>> \in Filled
  BY DEF ImportRows, Filled
<1>3. /\ Each(import_cswap_entry, d.items) \in [1..L -> ImportRows]
      /\ Each(import_sub2api_entry, d.items) \in [1..L -> ImportRows]
      /\ Each(Cliproxy, d.items) \in [1..L -> ImportRows]
      /\ Each(Flat, d.items) \in [1..L -> ImportRows]
  BY <1>1, EntryReaders DEF Each
<1>4. ASSUME L # 0, NEW f \in [1..L -> ImportRows] PROVE f \in Filled
  <2> HIDE DEF ImportRows, L
  <2>1. f \in Seq(ImportRows) /\ Len(f) = L
    BY <1>1
  <2> QED
    BY <1>4, <2>1 DEF Filled
<1>5. L = 0 => d.items = <<>>
  BY DEF ExportFiles
<1>6. d.holds = "itself" => L # 0
  BY DEF ExportFiles
<1> HIDE DEF L
<1>7. dispatch_object(d) \in Filled
  BY <1>2, <1>3, <1>4, <1>5, <1>6 DEF dispatch_object
<1>8. (\E i \in DOMAIN d.items : has_platform(d.items[i])) => L # 0
  BY <1>1
<1> QED
  BY <1>2, <1>3, <1>4, <1>7, <1>8 DEF import_file

\* Every row of an export, good or refused, is one import_entry can take.
LEMMA PathIsRows ==
  ASSUME NEW files \in Exports
  PROVE  import_path(files) \in Filled
<1>1. files \in Seq(ExportFiles(People))
  BY AdoptionAssumption
<1>2. CASE files = <<>>
  BY <1>2 DEF import_path, Filled, ImportRows
<1>3. CASE files # <<>>
  <2> DEFINE parts == [i \in DOMAIN files |-> import_file(files[i])]
  <2>1. Len(files) \in Nat \ {0} /\ DOMAIN files = 1..Len(files)
    BY <1>1, <1>3
  <2>2. parts \in [1..Len(files) -> Filled]
    BY <1>1, <2>1, FileIsRows
  <2> HIDE DEF parts
  <2>3. parts \in Seq(Filled) /\ parts # <<>>
    BY <2>1, <2>2
  <2>4. \A s, t \in Filled : s \o t \in Filled
    <3> TAKE s, t \in Filled
    <3>1. s \in Seq(ImportRows) /\ t \in Seq(ImportRows) /\ s # <<>>
      BY DEF Filled
    <3> HIDE DEF ImportRows
    <3>2. s \o t \in Seq(ImportRows) /\ s \o t # <<>>
      BY <3>1, ConcatProperties, EmptySeq
    <3> QED
      BY <3>2 DEF Filled
  <2>5. FlattenSeq(parts) \in Filled
    BY <2>3, <2>4, FlattenSeqType
  <2> QED
    BY <1>3, <2>5 DEF import_path, parts
<1> QED
  BY <1>2, <1>3

(***************************************************************************)
(* The model's operators.                                                  *)
(***************************************************************************)
LEMMA HomesAreListed ==
  /\ Len(HomeList) \in Nat \ {0} /\ DOMAIN HomeList = 1..Len(HomeList)
  /\ \A h \in Homes : \E i \in 1..Len(HomeList) : HomeList[i] = h
  /\ \A i \in 1..Len(HomeList) : HomeList[i] \in Homes
<1>1. HomeList \in Seq(Homes) /\ HomeList # <<>>
  BY AdoptionAssumption
<1>2. Len(HomeList) \in Nat \ {0} /\ DOMAIN HomeList = 1..Len(HomeList)
  <2> HIDE DEF Homes
  <2> QED
    BY <1>1
<1> QED
  BY <1>2 DEF Homes

\* The first of the homes that hold an account is one of them.
LEMMA FirstHome ==
  ASSUME NEW p, HomesOf(p) # {}
  PROVE  first_home(p) \in HomesOf(p)
<1> DEFINE at(h) == CHOOSE i \in DOMAIN HomeList : HomeList[i] = h
           T == {at(h) : h \in HomesOf(p)}
<1>1. \A h \in HomesOf(p) : at(h) \in DOMAIN HomeList
  BY HomesAreListed DEF HomesOf
<1>2. T \subseteq Nat /\ T # {}
  BY <1>1, HomesAreListed
<1>3. PICK n \in T : \A m \in T : n <= m
  <2> HIDE DEF T
  <2> QED
    BY <1>2, LeastNumber
<1>4. PICK h \in HomesOf(p) : n = at(h)
  OBVIOUS
<1>5. \A g \in HomesOf(p) : at(h) <= at(g)
  BY <1>3, <1>4
<1>6. first_home(p) = CHOOSE x \in HomesOf(p) : \A g \in HomesOf(p) : at(x) <= at(g)
  BY DEF first_home
<1> HIDE DEF at
<1> QED
  BY <1>5, <1>6

\* The vendor's bound is one on each person's tokens.
LEMMA IssueBound ==
  ASSUME NEW p \in People, NEW spent, Issue(p, spent),
         live \in [People -> 1..MaxGen]
  PROVE  live[p] + 1 \in 1..MaxGen
<1> DEFINE All == {x \in People \X (1..MaxGen) : x[2] <= live[x[1]]}
           Own == {p} \X (1..live[p])
<1>1. MaxGen \in Nat /\ live[p] \in 1..MaxGen
  BY AdoptionAssumption
<1>2. IsFiniteSet(1..MaxGen) /\ IsFiniteSet(1..live[p]) /\ Cardinality(1..live[p]) = live[p]
  BY <1>1, FS_Interval
<1>3. IsFiniteSet(People \X (1..MaxGen))
  BY <1>2, AdoptionAssumption, FS_Product
<1>4. Own \subseteq All /\ All \subseteq People \X (1..MaxGen)
  BY <1>1
<1>5. IsFiniteSet(All) /\ Cardinality(Own) <= Cardinality(All)
  BY <1>3, <1>4, FS_Subset
<1>6. Cardinality(Own) = 1 * live[p]
  <2>1. IsFiniteSet({p}) /\ Cardinality({p}) = 1
    BY FS_Singleton
  <2> DEFINE n == 1..live[p]
  <2>2. IsFiniteSet(n) /\ Cardinality(n) = live[p]
    BY <1>2
  <2> HIDE DEF n
  <2>3. Cardinality({p} \X n) = Cardinality({p}) * Cardinality(n)
    BY <2>1, <2>2, FS_Product
  <2> QED
    BY <2>1, <2>2, <2>3 DEF n
<1>7. Cardinality(All) < MaxGen
  BY DEF Issue
<1>8. Cardinality(All) \in Nat
  BY <1>5, FS_CardinalityType
<1> HIDE DEF All, Own
<1> QED
  BY <1>1, <1>5, <1>6, <1>7, <1>8

LEMMA FoundIsRows ==
  ASSUME Typed
  PROVE  FoundRows \in Seq(AgentRows)
<1> DEFINE found(i) == IF read_codex_dir(HomeList[i]) = {} THEN <<>> ELSE <<FoundIn(HomeList[i])>>
           parts == [i \in DOMAIN HomeList |-> found(i)]
<1>1. \A h \in Homes : read_codex_dir(h) # {} => FoundIn(h) \in AgentRows
  <2> SUFFICES ASSUME NEW h \in Homes, auth[h].is = "tokens" PROVE FoundIn(h) \in AgentRows
    BY DEF read_codex_dir
  <2>1. auth[h].id \in People /\ auth[h].gen \in Nat
    BY DEF Typed, Auths, Readable, Auth
  <2> QED
    BY <2>1 DEF FoundIn, AgentRows, Ids, Codex
<1> HIDE DEF AgentRows
<1>2. \A i \in DOMAIN HomeList : found(i) \in Seq(AgentRows)
  BY <1>1, HomesAreListed
<1>3. parts \in [1..Len(HomeList) -> Seq(AgentRows)]
  BY <1>2, HomesAreListed
<1>4. FoundRows = FlattenSeq(parts)
  BY DEF FoundRows
<1> HIDE DEF parts, found
<1>5. parts \in Seq(Seq(AgentRows)) /\ parts # <<>>
  BY <1>3, HomesAreListed
<1>6. \A s, t \in Seq(AgentRows) : s \o t \in Seq(AgentRows)
  BY ConcatProperties
<1> QED
  BY <1>4, <1>5, <1>6, FlattenSeqType

LEMMA FirstAuth ==
  ASSUME Init, NEW h \in Homes
  PROVE  \/ auth[h] = Missing
         \/ auth[h] = [Missing EXCEPT !.is = "unread"]
         \/ \E p \in People : auth[h] = SignedIn(p, 1)
         \/ \E p \in People : auth[h] = [SignedIn(p, 1) EXCEPT !.is = "key"]
<1> DEFINE unread == [Missing EXCEPT !.is = "unread"]
           key(p) == [SignedIn(p, 1) EXCEPT !.is = "key"]
<1>1. auth \in [Homes -> {Missing, unread} \cup {SignedIn(p, 1) : p \in People}
                               \cup {key(p) : p \in People}]
  BY DEF Init
<1> HIDE DEF unread, key
<1>2. \/ auth[h] = Missing \/ auth[h] = unread
      \/ \E p \in People : auth[h] = SignedIn(p, 1)
      \/ \E p \in People : auth[h] = key(p)
  BY <1>1
<1> QED
  BY <1>2 DEF unread, key

LEMMA InitInv == Init => IInv
<1> SUFFICES ASSUME Init PROVE IInv
  OBVIOUS
<1> USE AdoptionAssumption
<1>1. Typed
  <2>1. Missing \in Auths /\ NoWriter \in WriterStates
    BY DEF Missing, NoWriter, WriterStates, WriterPcs, Auths, Auth, Readable
  <2>2. NoTask \in TaskStates /\ NoCli \in CliStates /\ NoWeb \in WebStates
    BY DEF NoTask, TaskStates, NoCli, CliStates, NoWeb, WebStates, Snaps
  <2>3. auth \in [Homes -> Auths]
    <3>1. \A p \in People : /\ SignedIn(p, 1) \in Auths
                            /\ [SignedIn(p, 1) EXCEPT !.is = "key"] \in Auths
      BY DEF SignedIn, Auths, Auth, Readable
    <3>2. [Missing EXCEPT !.is = "unread"] \in Auths
      BY DEF Missing, Auths, Auth, Readable
    <3>3. \A h \in Homes : auth[h] \in Auths
      BY <2>1, <3>1, <3>2, FirstAuth
    <3> QED
      BY <3>3 DEF Init
  <2>4. secrets \in [Ids -> Cred \cup {None}]
    BY DEF Init, Cred, Expired
  <2> QED
    BY <2>1, <2>2, <2>3, <2>4 DEF Init, Typed, Snaps
<1>2. LocksHeld /\ Owned /\ Newest /\ FileWasThere
  BY DEF Init, LocksHeld, Owned, Newest, FileWasThere, NoWriter, NoTask
<1>3. Tasks /\ RowsInHand
  BY DEF Init, Tasks, Waiting, RowsInHand, NoTask, NoCli, NoWeb
<1>4. Marks /\ MarkedCurrent /\ LandedCurrent
  BY DEF Init, Marks, MarkedCurrent, LandedCurrent, Landed, NoCli, NoWeb
<1>5. OneName
  <2> SUFFICES ASSUME NEW h \in Homes, NEW p \in People, NEW q \in People, Named(h, p), Named(h, q)
               PROVE  p = q
    BY DEF OneName
  <2>1. p \in Names(auth[h]) /\ q \in Names(auth[h])
    BY DEF Named, Brought, Init, NoWriter
  <2> QED
    <3>1. CASE auth[h] = Missing \/ auth[h] = [Missing EXCEPT !.is = "unread"]
      BY <2>1, <3>1 DEF Names, Missing, Readable
    <3>2. ASSUME NEW x, auth[h] = SignedIn(x, 1) PROVE p = q
      BY <2>1, <3>2 DEF Names, SignedIn
    <3>3. ASSUME NEW x, auth[h] = [SignedIn(x, 1) EXCEPT !.is = "key"] PROVE p = q
      BY <2>1, <3>3 DEF Names, SignedIn
    <3> QED
      BY <3>1, <3>2, <3>3, FirstAuth
<1> QED
  BY <1>1, <1>2, <1>3, <1>4, <1>5 DEF IInv

(***************************************************************************)
(* Which steps change what.                                                *)
(***************************************************************************)
Rotating == (\E p \in People : RefreshStores(p)) \/ (\E h \in Homes : CodexRefreshes(h))
SigningIn == \/ \E w \in Writers, p \in People : SignInCompletes(w, p)
             \/ \E h \in Homes, p \in People : CodexSignsIn(h, p)
Storing == SignInStored \/ write_entry \/ ImportAgentPuts
CodexActing == \E h \in Homes : \/ CodexRefreshes(h) \/ CodexLogsOut(h)
                                \/ \E p \in People : CodexSignsIn(h, p)
Importing == \/ \E f \in Exports : accounts_import(f)
             \/ import_entry \/ write_entry \/ accounts_import_agent \/ ImportAgentPuts
Adopting == \/ \E w \in Writers, p \in People : accounts_adopt(w, p)
            \/ AdoptWritten \/ MarkReads \/ mark_adopted
Releasing == (\E p \in People : accounts_release(p)) \/ release_adopted

Frame ==
  /\ UNCHANGED vendor \/ Rotating \/ SigningIn
  /\ UNCHANGED secrets \/ Storing \/ \E p \in People : RefreshStores(p)
  /\ UNCHANGED adopted \/ mark_adopted \/ release_adopted
  /\ UNCHANGED config
  /\ UNCHANGED auth \/ CodexActing \/ \E w \in Writers : write_tokens(w)
  /\ UNCHANGED lock \/ \E w \in Writers : Writing(w)
  /\ UNCHANGED refresh \/ Storing \/ Refreshing \/ RefreshCancelled \/ \E p \in People : RefreshStores(p)
  /\ UNCHANGED signin \/ SignInStored \/ \E w \in Writers, p \in People : SignInCompletes(w, p)
  /\ UNCHANGED cli \/ Importing \/ Adopting \/ Releasing
  /\ UNCHANGED web \/ release_adopted \/ \E p \in People : handle_account_release(p)
  /\ UNCHANGED left \/ Command
  /\ UNCHANGED written \/ AdoptWritten
  /\ UNCHANGED switched \/ (\E w \in Writers : write_tokens(w))
       \/ \E h \in Homes, p \in People : CodexSignsIn(h, p)

LEMMA Frames == [Next]_vars => Frame
<1> SUFFICES ASSUME [Next]_vars PROVE Frame
  OBVIOUS
<1>1. ASSUME NEW p \in People, RefreshStores(p) PROVE Frame
  BY <1>1 DEF Frame, vendor, RefreshStores, Rotating
<1>2. ASSUME NEW w \in Writers, NEW i \in BOOLEAN, RefreshLooksUp(w, i) PROVE Frame
  BY <1>2 DEF Frame, vendor, RefreshLooksUp, Refreshing
<1>3. ASSUME RefreshReturns PROVE Frame
  BY <1>3 DEF Frame, vendor, RefreshReturns, Refreshing
<1>4. ASSUME RefreshCancelled PROVE Frame
  BY <1>4 DEF Frame, vendor, RefreshCancelled
<1>5. ASSUME NEW w \in Writers, NEW p \in People, SignInCompletes(w, p) PROVE Frame
  BY <1>5 DEF Frame, vendor, SignInCompletes, SigningIn
<1>6. ASSUME SignInStored PROVE Frame
  BY <1>6 DEF Frame, vendor, SignInStored, Storing
<1>7. ASSUME NEW f \in Exports, accounts_import(f) PROVE Frame
  BY <1>7 DEF Frame, vendor, accounts_import, Importing
<1>8. ASSUME import_entry PROVE Frame
  BY <1>8 DEF Frame, vendor, import_entry, Importing
<1>9. ASSUME write_entry PROVE Frame
  BY <1>9 DEF Frame, vendor, write_entry, Storing, Importing
<1>10. ASSUME accounts_import_agent PROVE Frame
  BY <1>10 DEF Frame, vendor, accounts_import_agent, Importing
<1>11. ASSUME ImportAgentPuts PROVE Frame
  BY <1>11 DEF Frame, vendor, ImportAgentPuts, Storing, Importing
<1>12. ASSUME NEW w \in Writers, NEW p \in People, accounts_adopt(w, p) PROVE Frame
  BY <1>12 DEF Frame, vendor, accounts_adopt, Adopting
<1>13. ASSUME AdoptWritten PROVE Frame
  BY <1>13 DEF Frame, vendor, AdoptWritten, Adopting
<1>14. ASSUME MarkReads PROVE Frame
  BY <1>14 DEF Frame, vendor, MarkReads, Adopting
<1>15. ASSUME mark_adopted PROVE Frame
  BY <1>15 DEF Frame, vendor, mark_adopted, Adopting
<1>16. ASSUME NEW p \in People, accounts_release(p) PROVE Frame
  BY <1>16 DEF Frame, vendor, accounts_release, Releasing
<1>17. ASSUME release_adopted PROVE Frame
  BY <1>17 DEF Frame, vendor, release_adopted, Releasing
<1>18. ASSUME NEW p \in People, handle_account_release(p) PROVE Frame
  BY <1>18 DEF Frame, vendor, handle_account_release
<1>19. ASSUME NEW w \in Writers, WriterReads(w) PROVE Frame
  BY <1>19 DEF Frame, vendor, WriterReads, Writing
<1>20. ASSUME NEW w \in Writers, WriterTimesOut(w) PROVE Frame
  BY <1>20 DEF Frame, vendor, WriterTimesOut, Writing
<1>21. ASSUME NEW w \in Writers, WriterCopies(w) PROVE Frame
  BY <1>21 DEF Frame, vendor, WriterCopies, Writing
<1>22. ASSUME NEW w \in Writers, write_tokens(w) PROVE Frame
  BY <1>22 DEF Frame, vendor, write_tokens, Writing
<1>23. ASSUME NEW w \in Writers, WriteFails(w) PROVE Frame
  BY <1>23 DEF Frame, vendor, WriteFails, Writing
<1>24. ASSUME NEW h \in Homes, NEW p \in People, CodexSignsIn(h, p) PROVE Frame
  BY <1>24 DEF Frame, vendor, CodexSignsIn, CodexWrites, SigningIn, CodexActing
<1>25. ASSUME NEW h \in Homes, CodexRefreshes(h) PROVE Frame
  BY <1>25 DEF Frame, vendor, CodexRefreshes, CodexWrites, Rotating, CodexActing
<1>26. ASSUME NEW h \in Homes, CodexLogsOut(h) PROVE Frame
  BY <1>26 DEF Frame, vendor, CodexLogsOut, CodexWrites, CodexActing
<1>27. ASSUME UNCHANGED vars PROVE Frame
  BY <1>27 DEF Frame, vars, vendor
<1> QED
  BY <1>1, <1>2, <1>3, <1>4, <1>5, <1>6, <1>7, <1>8, <1>9, <1>10, <1>11, <1>12, <1>13, <1>14,
    <1>15, <1>16, <1>17, <1>18, <1>19, <1>20, <1>21, <1>22, <1>23, <1>24, <1>25, <1>26, <1>27
    DEF Next, Writing, Refreshing, Commanding

(***************************************************************************)
(* Every step keeps the types, one variable after the other.               *)
(***************************************************************************)
LEMMA GoodRow ==
  ASSUME NEW row \in ImportRows, row.ok
  PROVE  /\ row.id \in Ids /\ row.gen \in Nat /\ row.expiry \in Int
         /\ row.expiry = NoExpiry \/ row.expiry = row.until
<1>1. row # Refused
  <2>1. ~Refused.ok
    BY DEF Refused
  <2> QED
    BY <2>1, Zenon
<1> QED
  BY <1>1 DEF ImportRows

LEMMA IssueTyped ==
  ASSUME Typed, NEW p \in People, NEW spent, Issue(p, spent)
  PROVE  /\ live' \in [People -> 1..MaxGen] /\ live'[p] \in 1..MaxGen
         /\ honoured' \in [People -> SUBSET Nat]
         /\ \A q \in People : honoured'[q] \subseteq 1..live'[q]
<1>1. live[p] + 1 \in 1..MaxGen /\ live[p] \in 1..MaxGen /\ MaxGen \in Nat
  BY IssueBound, AdoptionAssumption DEF Typed
<1>2. /\ live' = [live EXCEPT ![p] = @ + 1]
      /\ honoured' = [honoured EXCEPT ![p] = (@ \ spent) \cup {live'[p]}]
      /\ live \in [People -> 1..MaxGen] /\ honoured \in [People -> SUBSET Nat]
      /\ \A q \in People : honoured[q] \subseteq 1..live[q]
  BY DEF Issue, Typed
<1>3. live'[p] = live[p] + 1 /\ live' \in [People -> 1..MaxGen]
  BY <1>1, <1>2
<1>4. honoured'[p] = (honoured[p] \ spent) \cup {live'[p]}
  BY <1>2
<1>5. honoured'[p] \subseteq 1..live'[p]
  BY <1>1, <1>2, <1>3, <1>4
<1>6. \A q \in People : honoured'[q] \subseteq 1..live'[q]
  BY <1>2, <1>5
<1>7. honoured' \in [People -> SUBSET Nat]
  BY <1>1, <1>2, <1>3
<1> QED
  BY <1>1, <1>3, <1>6, <1>7

LEMMA VendorTyped ==
  ASSUME Typed, Frame
  PROVE  /\ live' \in [People -> 1..MaxGen]
         /\ honoured' \in [People -> SUBSET Nat]
         /\ \A q \in People : honoured'[q] \subseteq 1..live'[q]
<1>1. CASE UNCHANGED vendor
  BY <1>1 DEF vendor, Typed
<1>2. ASSUME NEW p \in People, RefreshStores(p) PROVE \E q \in People : \E spent : Issue(q, spent)
  BY <1>2 DEF RefreshStores
<1>3. ASSUME NEW w \in Writers, NEW p \in People, SignInCompletes(w, p)
      PROVE  \E q \in People : \E spent : Issue(q, spent)
  BY <1>3 DEF SignInCompletes
<1>4. ASSUME NEW h \in Homes, CodexRefreshes(h) PROVE \E q \in People : \E spent : Issue(q, spent)
  <2>1. auth[h].of \in People
    BY <1>4 DEF CodexRefreshes, Typed, Auths, Readable
  <2> QED
    BY <1>4, <2>1 DEF CodexRefreshes
<1>5. ASSUME NEW h \in Homes, NEW p \in People, CodexSignsIn(h, p)
      PROVE  \E q \in People : \E spent : Issue(q, spent)
  BY <1>5 DEF CodexSignsIn
<1>6. (\E q \in People : \E spent : Issue(q, spent)) \/ UNCHANGED vendor
  BY <1>2, <1>3, <1>4, <1>5 DEF Frame, Rotating, SigningIn
<1> QED
  BY <1>1, <1>6, IssueTyped

LEMMA SecretsTyped ==
  ASSUME IInv, Frame
  PROVE  secrets' \in [Ids -> Cred \cup {None}]
<1> USE DEF IInv
<1>1. secrets \in [Ids -> Cred \cup {None}] /\ \A p \in People : Codex(p) \in Ids
  BY DEF Typed, Ids, Codex
<1>2. ASSUME NEW p \in People, RefreshStores(p) PROVE secrets' \in [Ids -> Cred \cup {None}]
  <2>1. live'[p] \in Nat
    BY <1>2, IssueTyped DEF RefreshStores
  <2>2. [gen |-> live'[p], expiry |-> live'[p]] \in Cred
    BY <2>1 DEF Cred
  <2> QED
    BY <1>1, <1>2, <2>2 DEF RefreshStores
<1>3. CASE SignInStored
  <2>1. writer[signin.w].gen \in Nat /\ signin.who \in People
    BY <1>3 DEF SignInStored, Tasks, Waiting, Owned, LocksHeld, Typed, WriterStates
  <2>2. [gen |-> writer[signin.w].gen, expiry |-> writer[signin.w].gen] \in Cred
    BY <2>1 DEF Cred
  <2> QED
    BY <1>1, <1>3, <2>1, <2>2 DEF SignInStored
<1>4. CASE write_entry
  <2> DEFINE row == cli.rows[1]
  <2>1. row \in ImportRows /\ row.ok
    BY <1>4, ElementOfSeq DEF write_entry, RowsInHand
  <2> HIDE DEF row
  <2>2. row.id \in Ids /\ row.gen \in Nat /\ row.expiry \in Int
    BY <2>1, GoodRow
  <2>3. [gen |-> row.gen, expiry |-> row.expiry] \in Cred
    BY <2>2 DEF Cred
  <2> QED
    BY <1>1, <1>4, <2>2, <2>3 DEF write_entry, row
<1>5. CASE ImportAgentPuts
  <2> DEFINE row == cli.rows[1]
  <2>1. row \in AgentRows
    BY <1>5, ElementOfSeq DEF ImportAgentPuts, RowsInHand
  <2> HIDE DEF row
  <2>2. row.id \in Ids /\ row.gen \in Nat /\ row.expiry \in Int
    BY <2>1 DEF AgentRows
  <2>3. [gen |-> row.gen, expiry |-> row.expiry] \in Cred
    BY <2>2 DEF Cred
  <2> QED
    BY <1>1, <1>5, <2>2, <2>3 DEF ImportAgentPuts, row
<1> QED
  BY <1>1, <1>2, <1>3, <1>4, <1>5 DEF Frame, Storing

LEMMA AdoptedTyped ==
  ASSUME IInv, Frame
  PROVE  adopted' \in Snaps
<1> USE DEF IInv
<1>1. adopted \in Snaps /\ cli.snap \in Snaps /\ web.snap \in Snaps
  BY DEF Typed, CliStates, WebStates
<1>2. CASE mark_adopted
  BY <1>1, <1>2 DEF mark_adopted, Tasks, Snaps
<1>3. CASE release_adopted
  BY <1>1, <1>3 DEF release_adopted, Snaps
<1> QED
  BY <1>1, <1>2, <1>3 DEF Frame

LEMMA AuthTyped ==
  ASSUME IInv, Frame
  PROVE  auth' \in [Homes -> Auths]
<1> USE DEF IInv
<1>1. auth \in [Homes -> Auths]
  BY DEF Typed
<1>2. ASSUME NEW w \in Writers, write_tokens(w) PROVE auth' \in [Homes -> Auths]
  <2> DEFINE u == writer[w]
  <2>1. u.was \in Auths /\ Readable(u.was) /\ u.of \in People /\ u.gen \in Nat /\ u.idtoken \in BOOLEAN
    BY <1>2 DEF write_tokens, LocksHeld, Typed, WriterStates
  <2>2. Updated(u) \in Auths
    BY <2>1 DEF Updated, Auths, Auth, Readable
  <2> QED
    BY <1>1, <1>2, <2>2 DEF write_tokens
<1>3. ASSUME NEW h \in Homes, CodexRefreshes(h) PROVE auth' \in [Homes -> Auths]
  <2>1. auth[h] \in Auths /\ auth[h].is = "tokens" /\ auth[h].of \in People
    BY <1>1, <1>3 DEF CodexRefreshes, Auths, Readable
  <2>2. live'[auth[h].of] \in Nat
    BY <1>3, <2>1, IssueTyped DEF CodexRefreshes
  <2>3. [auth[h] EXCEPT !.gen = live'[auth[h].of]] \in Auths
    BY <2>1, <2>2 DEF Auths, Auth, Readable
  <2> QED
    BY <1>1, <1>3, <2>3 DEF CodexRefreshes, CodexWrites
<1>4. ASSUME NEW h \in Homes, NEW p \in People, CodexSignsIn(h, p) PROVE auth' \in [Homes -> Auths]
  <2>1. live'[p] \in Nat
    BY <1>4, IssueTyped DEF CodexSignsIn
  <2>2. SignedIn(p, live'[p]) \in Auths
    BY <2>1 DEF SignedIn, Auths, Auth, Readable
  <2> QED
    BY <1>1, <1>4, <2>2 DEF CodexSignsIn, CodexWrites
<1>5. ASSUME NEW h \in Homes, CodexLogsOut(h) PROVE auth' \in [Homes -> Auths]
  <2>1. Missing \in Auths
    BY DEF Missing, Auths, Auth, Readable
  <2> QED
    BY <1>1, <1>5, <2>1 DEF CodexLogsOut, CodexWrites
<1> QED
  BY <1>1, <1>2, <1>3, <1>4, <1>5 DEF Frame, CodexActing

LEMMA LockTyped ==
  ASSUME IInv, Frame
  PROVE  lock' \in [Homes -> Writers \cup {None}]
<1> USE DEF IInv
<1>1. lock \in [Homes -> Writers \cup {None}]
  BY DEF Typed
<1>2. ASSUME NEW w \in Writers, NEW result, WriterEnds(w, result)
      PROVE  lock' \in [Homes -> Writers \cup {None}]
  BY <1>1, <1>2 DEF WriterEnds
<1>3. ASSUME NEW w \in Writers, WriterReads(w) PROVE lock' \in [Homes -> Writers \cup {None}]
  BY <1>1, <1>2, <1>3 DEF WriterReads, WriterFails
<1>4. ASSUME NEW w \in Writers, WriterCopies(w) PROVE lock' \in [Homes -> Writers \cup {None}]
  BY <1>1, <1>2, <1>4 DEF WriterCopies, WriterFails
<1>5. ASSUME NEW w \in Writers, WriterTimesOut(w) \/ write_tokens(w) \/ WriteFails(w)
      PROVE  lock' \in [Homes -> Writers \cup {None}]
  BY <1>2, <1>5 DEF WriterTimesOut, write_tokens, WriteFails, WriterFails
<1> QED
  BY <1>1, <1>3, <1>4, <1>5 DEF Frame, Writing

\* Where a writer may be: its record is one of these, whatever step is next.
LEMMA WriterTyped ==
  ASSUME IInv, [Next]_vars
  PROVE  writer' \in [Writers -> WriterStates]
<1> USE DEF IInv
<1>1. writer \in [Writers -> WriterStates] /\ auth \in [Homes -> Auths]
  BY DEF Typed
<1>2. NoWriter \in WriterStates
  BY DEF NoWriter, Missing, WriterStates, WriterPcs, Auths, Auth, Readable
<1>3. ASSUME NEW r \in WriterStates
      PROVE  /\ \A pc \in WriterPcs : [r EXCEPT !.pc = pc] \in WriterStates
             /\ \A a \in Auths : [r EXCEPT !.pc = "read", !.was = a] \in WriterStates
             /\ \A b \in BOOLEAN : [r EXCEPT !.excused = b] \in WriterStates
             /\ [r EXCEPT !.detached = TRUE, !.excused = TRUE] \in WriterStates
             /\ \A pc \in {"read", "copied"} : [r EXCEPT !.overtaken = pc] \in WriterStates
  BY DEF WriterStates, WriterPcs
<1>4. ASSUME NEW w \in Writers, NEW by \in {"adopt", "refresh", "signin"}, NEW h \in Homes,
             NEW p \in People, NEW g \in Nat, NEW i \in BOOLEAN, Spawn(w, by, h, p, g, i)
      PROVE  writer' \in [Writers -> WriterStates]
  <2> DEFINE r == [NoWriter EXCEPT !.pc = "start", !.home = h, !.of = p, !.gen = g, !.idtoken = i,
                                   !.by = by, !.excused = by = "refresh" /\ refresh.over]
  <2>1. (by = "refresh" /\ refresh.over) \in BOOLEAN
    OBVIOUS
  <2>2. r \in WriterStates
    BY <1>2, <2>1 DEF WriterStates, WriterPcs
  <2>3. writer' = [writer EXCEPT ![w] = r]
    BY <1>4 DEF Spawn
  <2> QED
    BY <1>1, <2>2, <2>3
<1>5. ASSUME NEW w \in Writers, NEW result \in {"ok", "failed"}, WriterEnds(w, result)
      PROVE  writer' \in [Writers -> WriterStates]
  <2>1. [writer[w] EXCEPT !.pc = result] \in WriterStates
    BY <1>1, <1>3 DEF WriterPcs
  <2>2. writer' = [writer EXCEPT ![w] = IF writer[w].detached THEN NoWriter
                                        ELSE [writer[w] EXCEPT !.pc = result]]
    BY <1>1, <1>5 DEF WriterEnds
  <2> QED
    BY <1>1, <1>2, <2>1, <2>2
<1>6. ASSUME NEW w, writer' = [writer EXCEPT ![w] = NoWriter]
      PROVE  writer' \in [Writers -> WriterStates]
  BY <1>1, <1>2, <1>6
<1>7. ASSUME NEW p, NEW done, StoredOver(p, done) PROVE writer' \in [Writers -> WriterStates]
  <2>1. ASSUME NEW v \in Writers PROVE writer'[v] \in WriterStates
    <3>1. [writer[v] EXCEPT !.excused = writer[v].excused \/ writer[v].of = p] \in WriterStates
      <4>1. (writer[v].excused \/ writer[v].of = p) \in BOOLEAN
        OBVIOUS
      <4> QED
        BY <1>1, <1>3, <4>1
    <3>2. writer'[v] = IF v = done THEN NoWriter
                       ELSE [writer[v] EXCEPT !.excused = writer[v].excused \/ writer[v].of = p]
      BY <1>7 DEF StoredOver
    <3> QED
      BY <1>2, <3>1, <3>2
  <2> QED
    BY <1>7, <2>1 DEF StoredOver
<1>8. ASSUME NEW h \in Homes, NEW new, CodexWrites(h, new)
      PROVE  writer' \in [Writers -> WriterStates]
  <2>1. ASSUME NEW v \in Writers PROVE writer'[v] \in WriterStates
    BY <1>1, <1>3, <1>8 DEF CodexWrites
  <2> QED
    BY <1>8, <2>1 DEF CodexWrites
<1> QED
  <2>1. ASSUME NEW p \in People, RefreshStores(p) PROVE writer' \in [Writers -> WriterStates]
    BY <1>1, <2>1 DEF RefreshStores
  <2>2. ASSUME NEW w \in Writers, NEW i \in BOOLEAN, RefreshLooksUp(w, i) PROVE writer' \in
    [Writers -> WriterStates]
    <3>1. refresh.who \in People /\ refresh.gen \in Nat
      BY <2>2 DEF RefreshLooksUp, Tasks, Typed, TaskStates
    <3>2. adopted[refresh.who] \in Homes \cup {None}
      BY <3>1 DEF Typed, Snaps
    <3> QED
      BY <1>1, <1>4, <3>1, <3>2, <2>2 DEF RefreshLooksUp
  <2>3. ASSUME RefreshReturns PROVE writer' \in [Writers -> WriterStates]
    BY <1>6, <2>3 DEF RefreshReturns
  <2>4. ASSUME RefreshCancelled PROVE writer' \in [Writers -> WriterStates]
    <3>1. refresh.w \in Writers
      BY <2>4 DEF RefreshCancelled, Tasks, Waiting
    <3>2. [writer[refresh.w] EXCEPT !.detached = TRUE, !.excused = TRUE] \in WriterStates
      BY <1>1, <1>3, <3>1
    <3> QED
      BY <1>1, <3>1, <3>2, <2>4 DEF RefreshCancelled
  <2>5. ASSUME NEW w \in Writers, NEW p \in People, SignInCompletes(w, p) PROVE writer' \in
    [Writers -> WriterStates]
    <3>1. live'[p] \in Nat /\ HomeList[1] \in Homes
      BY <2>5, IssueTyped, HomesAreListed DEF SignInCompletes
    <3> QED
      BY <1>4, <3>1, <2>5 DEF SignInCompletes
  <2>6. ASSUME SignInStored PROVE writer' \in [Writers -> WriterStates]
    BY <1>7, <2>6 DEF SignInStored
  <2>7. ASSUME NEW f \in Exports, accounts_import(f) PROVE writer' \in [Writers -> WriterStates]
    BY <1>1, <2>7 DEF accounts_import
  <2>8. ASSUME import_entry PROVE writer' \in [Writers -> WriterStates]
    BY <1>1, <2>8 DEF import_entry, NextRow
  <2>9. ASSUME write_entry PROVE writer' \in [Writers -> WriterStates]
    BY <1>1, <1>7, <2>9 DEF write_entry
  <2>10. ASSUME accounts_import_agent PROVE writer' \in [Writers -> WriterStates]
    BY <1>1, <2>10 DEF accounts_import_agent
  <2>11. ASSUME ImportAgentPuts PROVE writer' \in [Writers -> WriterStates]
    BY <1>1, <1>7, <2>11 DEF ImportAgentPuts
  <2>12. ASSUME NEW w \in Writers, NEW p \in People, accounts_adopt(w, p) PROVE writer' \in
    [Writers -> WriterStates]
    <3>1. first_home(p) \in Homes
      BY <2>12, FirstHome DEF accounts_adopt, HomesOf
    <3>2. secrets[Codex(p)] \in Cred
      BY <2>12 DEF accounts_adopt, Stored, Codex, Ids, Typed
    <3>3. secrets[Codex(p)].gen \in Nat
      BY <3>2 DEF Cred
    <3> QED
      BY <1>4, <3>1, <3>3, <2>12 DEF accounts_adopt
  <2>13. ASSUME AdoptWritten PROVE writer' \in [Writers -> WriterStates]
    BY <1>6, <2>13 DEF AdoptWritten
  <2>14. ASSUME MarkReads PROVE writer' \in [Writers -> WriterStates]
    BY <1>1, <2>14 DEF MarkReads
  <2>15. ASSUME mark_adopted PROVE writer' \in [Writers -> WriterStates]
    BY <1>1, <2>15 DEF mark_adopted
  <2>16. ASSUME NEW p \in People, accounts_release(p) PROVE writer' \in [Writers ->
    WriterStates]
    BY <1>1, <2>16 DEF accounts_release
  <2>17. ASSUME release_adopted PROVE writer' \in [Writers -> WriterStates]
    BY <1>1, <2>17 DEF release_adopted
  <2>18. ASSUME NEW p \in People, handle_account_release(p) PROVE writer' \in [Writers ->
    WriterStates]
    BY <1>1, <2>18 DEF handle_account_release
  <2>19. ASSUME NEW w \in Writers, WriterReads(w) PROVE writer' \in [Writers -> WriterStates]
    <3>1. CASE writer' = [writer EXCEPT ![w].pc = "read", ![w].was = auth[writer[w].home]]
               /\ lock[writer[w].home] = None
      <4>1. writer[w].home \in Homes
        BY <2>19 DEF WriterReads, LocksHeld
      <4>2. [writer[w] EXCEPT !.pc = "read", !.was = auth[writer[w].home]] \in WriterStates
        BY <1>1, <1>3, <4>1
      <4> QED
        BY <1>1, <3>1, <4>2
    <3>2. CASE WriterEnds(w, "failed")
      BY <1>5, <3>2
    <3> QED
      BY <3>1, <3>2, <2>19 DEF WriterReads, WriterFails
  <2>20. ASSUME NEW w \in Writers, WriterTimesOut(w) PROVE writer' \in [Writers -> WriterStates]
    BY <1>5, <2>20 DEF WriterTimesOut, WriterFails
  <2>21. ASSUME NEW w \in Writers, WriterCopies(w) PROVE writer' \in [Writers -> WriterStates]
    <3>1. [writer[w] EXCEPT !.pc = "copied"] \in WriterStates
      BY <1>1, <1>3 DEF WriterPcs
    <3> QED
      BY <1>1, <1>5, <3>1, <2>21 DEF WriterCopies, WriterFails
  <2>22. ASSUME NEW w \in Writers, write_tokens(w) PROVE writer' \in [Writers -> WriterStates]
    BY <1>5, <2>22 DEF write_tokens
  <2>23. ASSUME NEW w \in Writers, WriteFails(w) PROVE writer' \in [Writers -> WriterStates]
    BY <1>5, <2>23 DEF WriteFails, WriterFails
  <2>24. ASSUME NEW h \in Homes, NEW p \in People, CodexSignsIn(h, p) PROVE writer' \in [Writers
    -> WriterStates]
    BY <1>8, <2>24 DEF CodexSignsIn
  <2>25. ASSUME NEW h \in Homes, CodexRefreshes(h) PROVE writer' \in [Writers -> WriterStates]
    BY <1>8, <2>25 DEF CodexRefreshes
  <2>26. ASSUME NEW h \in Homes, CodexLogsOut(h) PROVE writer' \in [Writers -> WriterStates]
    BY <1>8, <2>26 DEF CodexLogsOut
  <2>27. ASSUME UNCHANGED vars PROVE writer' \in [Writers -> WriterStates]
    BY <1>1, <2>27 DEF vars, vendor
  <2> QED
    BY <2>1, <2>2, <2>3, <2>4, <2>5, <2>6, <2>7, <2>8, <2>9, <2>10, <2>11, <2>12, <2>13, <2>14,
      <2>15, <2>16, <2>17, <2>18, <2>19, <2>20, <2>21, <2>22, <2>23, <2>24, <2>25, <2>26, <2>27
      DEF Next, Writing, Refreshing, Commanding

LEMMA TasksTyped ==
  ASSUME IInv, Frame
  PROVE  refresh' \in TaskStates /\ signin' \in TaskStates
<1> USE DEF IInv
<1>1. refresh \in TaskStates /\ signin \in TaskStates
  BY DEF Typed
<1>2. NoTask \in TaskStates
  BY DEF NoTask, TaskStates
<1>3. ASSUME NEW r \in TaskStates
      PROVE  /\ \A w \in Writers : [r EXCEPT !.pc = "await", !.w = w] \in TaskStates
             /\ \A b \in BOOLEAN : [r EXCEPT !.over = b] \in TaskStates
             /\ \A p \in People, g \in Nat : [r EXCEPT !.pc = "lookup", !.who = p, !.gen = g] \in TaskStates
             /\ \A p \in People, w \in Writers : [r EXCEPT !.pc = "await", !.who = p, !.w = w] \in TaskStates
  BY DEF TaskStates
<1>4. ASSUME NEW p \in People, RefreshStores(p) PROVE refresh' \in TaskStates
  <2>1. live'[p] \in Nat
    BY <1>4, IssueTyped DEF RefreshStores
  <2> QED
    BY <1>1, <1>2, <1>3, <1>4, <2>1 DEF RefreshStores
<1>5. ASSUME NEW p, NEW done, StoredOver(p, done) PROVE refresh' \in TaskStates
  <2>1. (refresh.over \/ refresh.who = p) \in BOOLEAN
    OBVIOUS
  <2>2. refresh' = [refresh EXCEPT !.over = refresh.over \/ refresh.who = p]
    BY <1>1, <1>5 DEF StoredOver, TaskStates
  <2> QED
    BY <1>1, <1>3, <2>1, <2>2
<1>6. ASSUME Storing PROVE refresh' \in TaskStates
  <2>1. CASE SignInStored
    BY <1>5, <2>1 DEF SignInStored
  <2>2. CASE write_entry
    BY <1>1, <1>5, <2>2 DEF write_entry
  <2>3. CASE ImportAgentPuts
    BY <1>1, <1>5, <2>3 DEF ImportAgentPuts
  <2> QED
    BY <1>6, <2>1, <2>2, <2>3 DEF Storing
<1>7. ASSUME Refreshing \/ RefreshCancelled PROVE refresh' \in TaskStates
  BY <1>1, <1>2, <1>3, <1>7 DEF Refreshing, RefreshLooksUp, RefreshReturns, RefreshCancelled
<1>8. refresh' \in TaskStates
  BY <1>1, <1>4, <1>6, <1>7 DEF Frame
<1>9. signin' \in TaskStates
  <2>1. ASSUME NEW w \in Writers, NEW p \in People, SignInCompletes(w, p) PROVE signin' \in TaskStates
    BY <1>2, <1>3, <2>1 DEF SignInCompletes
  <2>2. CASE SignInStored
    BY <1>2, <2>2 DEF SignInStored
  <2> QED
    BY <1>1, <2>1, <2>2 DEF Frame
<1> QED
  BY <1>8, <1>9

LEMMA CliTyped ==
  ASSUME IInv, Frame
  PROVE  cli' \in CliStates
<1> USE DEF IInv
<1> DEFINE Rows == ImportRows \cup AgentRows
<1>1. cli \in CliStates /\ cli.rows \in Seq(Rows) /\ adopted \in Snaps
      /\ secrets \in [Ids -> Cred \cup {None}]
  BY DEF Typed, CliStates
<1>2. NoCli \in CliStates
  BY DEF NoCli, CliStates, Snaps
<1> HIDE DEF Rows
<1>3. ASSUME NEW c \in CliStates
      PROVE  /\ \A pc \in {"check", "put"}, rows \in Seq(Rows), agent \in BOOLEAN :
                  [c EXCEPT !.pc = pc, !.rows = rows, !.agent = agent] \in CliStates
             /\ \A rows \in Seq(Rows) : [c EXCEPT !.pc = "check", !.rows = rows] \in CliStates
             /\ \A rows \in Seq(Rows) :
                  [c EXCEPT !.pc = "check", !.rows = rows, !.seen = None] \in CliStates
             /\ \A rows \in Seq(Rows) : [c EXCEPT !.rows = rows] \in CliStates
             /\ \A seen \in Cred \cup {None} : [c EXCEPT !.pc = "put", !.seen = seen] \in CliStates
             /\ \A p \in People, w \in Writers, h \in Homes :
                  [c EXCEPT !.pc = "await", !.who = p, !.w = w, !.home = h] \in CliStates
             /\ [c EXCEPT !.pc = "mark", !.w = None] \in CliStates
             /\ \A snap \in Snaps : [c EXCEPT !.pc = "save", !.snap = snap] \in CliStates
             /\ \A p \in People, snap \in Snaps :
                  [c EXCEPT !.pc = "drop", !.who = p, !.snap = snap] \in CliStates
  BY DEF CliStates, Rows
<1>4. cli.rows # <<>> => Tail(cli.rows) \in Seq(Rows)
  BY <1>1
<1>5. cli.rows # <<>> => NextRow(cli) \in CliStates
  BY <1>1, <1>2, <1>3, <1>4 DEF NextRow
<1>6. ASSUME NEW f \in Exports, accounts_import(f) PROVE cli' \in CliStates
  <2>1. import_path(f) \in Seq(Rows)
    BY PathIsRows, SeqMonotonic DEF Filled, Rows
  <2> QED
    BY <1>2, <1>3, <1>6, <2>1 DEF accounts_import
<1>7. CASE import_entry
  <2>1. cli.rows # <<>>
    BY <1>7 DEF import_entry, RowsInHand
  <2>2. cli.rows[1].ok => cli.rows[1].id \in Ids
    <3>1. cli.rows[1] \in ImportRows
      BY <1>7, <2>1, ElementOfSeq DEF import_entry, RowsInHand
    <3> QED
      BY <3>1, GoodRow
  <2> QED
    BY <1>1, <1>3, <1>5, <1>7, <2>1, <2>2 DEF import_entry
<1>8. CASE write_entry
  BY <1>5, <1>8 DEF write_entry, RowsInHand
<1>9. CASE accounts_import_agent
  <2>1. FoundRows \in Seq(Rows)
    BY FoundIsRows, SeqMonotonic DEF Rows
  <2> QED
    BY <1>2, <1>3, <1>9, <2>1 DEF accounts_import_agent
<1>10. CASE ImportAgentPuts
  <2>1. cli.rows # <<>>
    BY <1>10 DEF ImportAgentPuts, RowsInHand
  <2>2. [cli EXCEPT !.rows = Tail(cli.rows)] \in CliStates
    BY <1>1, <1>3, <1>4, <2>1
  <2>3. cli' = NoCli \/ cli' = [cli EXCEPT !.rows = Tail(cli.rows)]
    BY <1>1, <1>10 DEF ImportAgentPuts, CliStates
  <2> QED
    BY <1>2, <2>2, <2>3
<1>11. ASSUME NEW w \in Writers, NEW p \in People, accounts_adopt(w, p) PROVE cli' \in CliStates
  <2>1. first_home(p) \in Homes
    BY <1>11, FirstHome DEF accounts_adopt, HomesOf
  <2> QED
    BY <1>2, <1>3, <1>11, <2>1 DEF accounts_adopt
<1>12. CASE AdoptWritten \/ MarkReads \/ mark_adopted
  <2>1. CASE AdoptWritten
    BY <1>1, <1>2, <1>3, <2>1 DEF AdoptWritten
  <2>2. CASE MarkReads
    BY <1>1, <1>3, <2>2 DEF MarkReads
  <2>3. CASE mark_adopted
    BY <1>2, <2>3 DEF mark_adopted
  <2> QED
    BY <1>12, <2>1, <2>2, <2>3
<1>13. CASE release_adopted
  BY <1>1, <1>2, <1>13 DEF release_adopted
<1>14. ASSUME NEW p \in People, accounts_release(p) PROVE cli' \in CliStates
  BY <1>1, <1>2, <1>3, <1>14 DEF accounts_release
<1>15. UNCHANGED cli \/ Importing \/ Adopting \/ Releasing
  BY DEF Frame
<1> QED
  BY <1>1, <1>6, <1>7, <1>8, <1>9, <1>10, <1>11, <1>12, <1>13, <1>14, <1>15
  DEF Importing, Adopting, Releasing

LEMMA TypedStep ==
  ASSUME IInv, [Next]_vars
  PROVE  Typed'
<1> USE DEF IInv
<1>1. Frame
  BY Frames
<1>2. config' \in [Homes -> {"file", "refused"}]
  BY <1>1 DEF Frame, Typed
<1>3. web' \in WebStates
  <2>1. NoWeb \in WebStates
    BY DEF NoWeb, WebStates, Snaps
  <2>2. \A p \in People, snap \in Snaps :
          [NoWeb EXCEPT !.pc = "drop", !.who = p, !.snap = snap] \in WebStates
    BY <2>1 DEF WebStates
  <2>3. CASE release_adopted
    BY <2>1, <2>3 DEF release_adopted, Typed
  <2>4. ASSUME NEW p \in People, handle_account_release(p) PROVE web' \in WebStates
    BY <2>2, <2>4 DEF handle_account_release, Typed
  <2> QED
    BY <1>1, <2>3, <2>4 DEF Frame, Typed
<1>4. left' \in 0..MaxCommands
  BY <1>1, AdoptionAssumption DEF Frame, Typed, Command
<1>5. written' \in [People -> SUBSET Homes]
  <2>1. CASE AdoptWritten
    <3>1. cli.who \in People /\ cli.home \in Homes
      BY <2>1 DEF AdoptWritten, Tasks, Waiting, Owned, LocksHeld
    <3> QED
      BY <2>1, <3>1 DEF AdoptWritten, Typed
  <2> QED
    BY <1>1, <2>1 DEF Frame, Typed
<1>6. switched' \in SUBSET Homes
  <2>1. ASSUME NEW w \in Writers, write_tokens(w) PROVE switched' \in SUBSET Homes
    BY <2>1 DEF write_tokens, LocksHeld, Typed
  <2>2. ASSUME NEW h \in Homes, NEW p \in People, CodexSignsIn(h, p) PROVE switched' \in SUBSET Homes
    BY <2>2 DEF CodexSignsIn, Typed
  <2> QED
    BY <1>1, <2>1, <2>2 DEF Frame, Typed
<1>7. missed' \in SUBSET People
  <2>1. ASSUME NEW p \in People, RefreshStores(p) PROVE missed' \in SUBSET People
    BY <2>1 DEF RefreshStores, Typed
  <2>2. ASSUME NEW w \in Writers, NEW i \in BOOLEAN, RefreshLooksUp(w, i) PROVE missed' \in
    SUBSET People
    BY <2>2 DEF RefreshLooksUp, Spawn, Typed
  <2>3. ASSUME RefreshReturns PROVE missed' \in SUBSET People
    BY <2>3 DEF RefreshReturns, Typed
  <2>4. ASSUME RefreshCancelled PROVE missed' \in SUBSET People
    BY <2>4 DEF RefreshCancelled, Tasks, Typed
  <2>5. ASSUME NEW w \in Writers, NEW p \in People, SignInCompletes(w, p) PROVE missed' \in
    SUBSET People
    BY <2>5 DEF SignInCompletes, Spawn, Typed
  <2>6. ASSUME SignInStored PROVE missed' \in SUBSET People
    BY <2>6 DEF SignInStored, StoredOver, Tasks, Waiting, Owned, LocksHeld, Typed
  <2>7. ASSUME NEW f \in Exports, accounts_import(f) PROVE missed' \in SUBSET People
    BY <2>7 DEF accounts_import, Typed
  <2>8. ASSUME import_entry PROVE missed' \in SUBSET People
    BY <2>8 DEF import_entry, NextRow, Typed
  <2>9. ASSUME write_entry PROVE missed' \in SUBSET People
    <3>1. CASE StoredOver(cli.rows[1].id[2], None)
      <4>1. cli.rows[1] \in ImportRows /\ cli.rows[1].ok
        BY <2>9, ElementOfSeq DEF write_entry, RowsInHand
      <4>2. cli.rows[1].id[2] \in People
        BY <4>1, GoodRow DEF Ids
      <4> QED
        BY <3>1, <4>2 DEF StoredOver, Typed
    <3> QED
      BY <3>1, <2>9 DEF write_entry, Typed
  <2>10. ASSUME accounts_import_agent PROVE missed' \in SUBSET People
    BY <2>10 DEF accounts_import_agent, Typed
  <2>11. ASSUME ImportAgentPuts PROVE missed' \in SUBSET People
    <3>1. CASE StoredOver(cli.rows[1].id[2], None)
      <4>1. cli.rows[1] \in AgentRows
        BY <2>11, ElementOfSeq DEF ImportAgentPuts, RowsInHand
      <4>2. cli.rows[1].id[2] \in People
        BY <4>1 DEF AgentRows, Ids
      <4> QED
        BY <3>1, <4>2 DEF StoredOver, Typed
    <3> QED
      BY <3>1, <2>11 DEF ImportAgentPuts, Typed
  <2>12. ASSUME NEW w \in Writers, NEW p \in People, accounts_adopt(w, p) PROVE missed' \in
    SUBSET People
    BY <2>12 DEF accounts_adopt, Spawn, Typed
  <2>13. ASSUME AdoptWritten PROVE missed' \in SUBSET People
    BY <2>13 DEF AdoptWritten, Typed
  <2>14. ASSUME MarkReads PROVE missed' \in SUBSET People
    BY <2>14 DEF MarkReads, Typed
  <2>15. ASSUME mark_adopted PROVE missed' \in SUBSET People
    BY <2>15 DEF mark_adopted, Displaced, Typed
  <2>16. ASSUME NEW p \in People, accounts_release(p) PROVE missed' \in SUBSET People
    BY <2>16 DEF accounts_release, Typed
  <2>17. ASSUME release_adopted PROVE missed' \in SUBSET People
    BY <2>17 DEF release_adopted, Displaced, Typed
  <2>18. ASSUME NEW p \in People, handle_account_release(p) PROVE missed' \in SUBSET People
    BY <2>18 DEF handle_account_release, Typed
  <2>19. ASSUME NEW w \in Writers, WriterReads(w) PROVE missed' \in SUBSET People
    BY <2>19 DEF WriterReads, WriterFails, WriterEnds, Typed
  <2>20. ASSUME NEW w \in Writers, WriterTimesOut(w) PROVE missed' \in SUBSET People
    BY <2>20 DEF WriterTimesOut, WriterFails, WriterEnds, Typed
  <2>21. ASSUME NEW w \in Writers, WriterCopies(w) PROVE missed' \in SUBSET People
    BY <2>21 DEF WriterCopies, WriterFails, WriterEnds, Typed
  <2>22. ASSUME NEW w \in Writers, write_tokens(w) PROVE missed' \in SUBSET People
    BY <2>22 DEF write_tokens, WriterEnds, Touched, Brings, Typed
  <2>23. ASSUME NEW w \in Writers, WriteFails(w) PROVE missed' \in SUBSET People
    BY <2>23 DEF WriteFails, WriterFails, WriterEnds, Typed
  <2>24. ASSUME NEW h \in Homes, NEW p \in People, CodexSignsIn(h, p) PROVE missed' \in SUBSET
    People
    BY <2>24 DEF CodexSignsIn, CodexWrites, Touched, Typed
  <2>25. ASSUME NEW h \in Homes, CodexRefreshes(h) PROVE missed' \in SUBSET People
    BY <2>25 DEF CodexRefreshes, CodexWrites, Touched, Typed
  <2>26. ASSUME NEW h \in Homes, CodexLogsOut(h) PROVE missed' \in SUBSET People
    BY <2>26 DEF CodexLogsOut, CodexWrites, Touched, Typed
  <2>27. ASSUME UNCHANGED vars PROVE missed' \in SUBSET People
    BY <2>27 DEF vars, vendor, Typed
  <2> QED
    BY <2>1, <2>2, <2>3, <2>4, <2>5, <2>6, <2>7, <2>8, <2>9, <2>10, <2>11, <2>12, <2>13, <2>14,
      <2>15, <2>16, <2>17, <2>18, <2>19, <2>20, <2>21, <2>22, <2>23, <2>24, <2>25, <2>26, <2>27
      DEF Next, Writing, Refreshing, Commanding
<1> QED
  BY <1>1, <1>2, <1>3, <1>4, <1>5, <1>6, <1>7, VendorTyped, SecretsTyped, AdoptedTyped, AuthTyped,
     LockTyped, WriterTyped, TasksTyped, CliTyped
  DEF Typed

(***************************************************************************)
(* Locks, tasks and their writers.                                         *)
(***************************************************************************)
LEMMA LocksHeldStep ==
  ASSUME IInv, [Next]_vars
  PROVE  LocksHeld'
<1> USE DEF IInv
<1>0. /\ None \notin Writers /\ None \notin Homes /\ HomeList[1] \in Homes
      /\ writer \in [Writers -> WriterStates] /\ lock \in [Homes -> Writers \cup {None}]
      /\ auth \in [Homes -> Auths] /\ adopted \in [People -> Homes \cup {None}]
  BY AdoptionAssumption, HomesAreListed DEF Typed, Snaps
<1>1. ASSUME NEW p \in People, RefreshStores(p) PROVE LocksHeld'
  BY <1>1, <1>0 DEF RefreshStores, LocksHeld, Tasks, Waiting, Owned, WriterStates, NoWriter
<1>2. ASSUME NEW w \in Writers, NEW i \in BOOLEAN, RefreshLooksUp(w, i) PROVE LocksHeld'
  <2>1. refresh.who \in People
    BY <1>2 DEF RefreshLooksUp, Tasks
  <2>2. CASE adopted[refresh.who] = None
    BY <1>2, <2>2 DEF RefreshLooksUp, LocksHeld
  <2>3. CASE adopted[refresh.who] \in Homes
    <3>1. Spawn(w, "refresh", adopted[refresh.who], refresh.who, refresh.gen, i)
      BY <1>2, <1>0, <2>3 DEF RefreshLooksUp
    <3> QED
      BY <1>2, <1>0, <2>1, <2>3, <3>1 DEF RefreshLooksUp, Spawn, LocksHeld, WriterStates, NoWriter
  <2> QED
    BY <1>0, <2>1, <2>2, <2>3
<1>3. ASSUME RefreshReturns PROVE LocksHeld'
  BY <1>3, <1>0 DEF RefreshReturns, LocksHeld, Tasks, Waiting, Owned, WriterStates, NoWriter
<1>4. ASSUME RefreshCancelled PROVE LocksHeld'
  BY <1>4, <1>0 DEF RefreshCancelled, LocksHeld, Tasks, Waiting, Owned, WriterStates, NoWriter
<1>5. ASSUME NEW w \in Writers, NEW p \in People, SignInCompletes(w, p) PROVE LocksHeld'
  BY <1>5, <1>0 DEF SignInCompletes, Spawn, LocksHeld, Tasks, Waiting, Owned, WriterStates,
    NoWriter
<1>6. ASSUME SignInStored PROVE LocksHeld'
  BY <1>6, <1>0 DEF SignInStored, StoredOver, LocksHeld, Tasks, Waiting, Owned, WriterStates,
    NoWriter
<1>7. ASSUME NEW f \in Exports, accounts_import(f) PROVE LocksHeld'
  BY <1>7, <1>0 DEF accounts_import, LocksHeld, Tasks, Waiting, Owned, WriterStates, NoWriter
<1>8. ASSUME import_entry PROVE LocksHeld'
  BY <1>8, <1>0 DEF import_entry, NextRow, LocksHeld, Tasks, Waiting, Owned, WriterStates,
    NoWriter
<1>9. ASSUME write_entry PROVE LocksHeld'
  BY <1>9, <1>0 DEF write_entry, StoredOver, LocksHeld, WriterStates, NoWriter
<1>10. ASSUME accounts_import_agent PROVE LocksHeld'
  BY <1>10, <1>0 DEF accounts_import_agent, LocksHeld, Tasks, Waiting, Owned, WriterStates,
    NoWriter
<1>11. ASSUME ImportAgentPuts PROVE LocksHeld'
  <2>1. CASE UNCHANGED writer
    BY <1>11, <2>1 DEF ImportAgentPuts, LocksHeld
  <2>2. CASE StoredOver(cli.rows[1].id[2], None)
    BY <1>11, <1>0, <2>2 DEF ImportAgentPuts, StoredOver, LocksHeld, WriterStates, NoWriter
  <2> QED
    BY <1>11, <2>1, <2>2 DEF ImportAgentPuts
<1>12. ASSUME NEW w \in Writers, NEW p \in People, accounts_adopt(w, p) PROVE LocksHeld'
  <2>1. first_home(p) \in Homes
    BY <1>12, FirstHome DEF accounts_adopt, HomesOf
  <2> QED
    BY <1>12, <1>0, <2>1 DEF accounts_adopt, Spawn, LocksHeld, WriterStates, NoWriter
<1>13. ASSUME AdoptWritten PROVE LocksHeld'
  BY <1>13, <1>0 DEF AdoptWritten, LocksHeld, Tasks, Waiting, Owned, WriterStates, NoWriter
<1>14. ASSUME MarkReads PROVE LocksHeld'
  BY <1>14, <1>0 DEF MarkReads, LocksHeld, Tasks, Waiting, Owned, WriterStates, NoWriter
<1>15. ASSUME mark_adopted PROVE LocksHeld'
  BY <1>15, <1>0 DEF mark_adopted, LocksHeld, Tasks, Waiting, Owned, WriterStates, NoWriter
<1>16. ASSUME NEW p \in People, accounts_release(p) PROVE LocksHeld'
  BY <1>16, <1>0 DEF accounts_release, LocksHeld, Tasks, Waiting, Owned, WriterStates, NoWriter
<1>17. ASSUME release_adopted PROVE LocksHeld'
  BY <1>17, <1>0 DEF release_adopted, LocksHeld, Tasks, Waiting, Owned, WriterStates, NoWriter
<1>18. ASSUME NEW p \in People, handle_account_release(p) PROVE LocksHeld'
  BY <1>18, <1>0 DEF handle_account_release, LocksHeld, Tasks, Waiting, Owned, WriterStates,
    NoWriter
<1>19. ASSUME NEW w \in Writers, WriterReads(w) PROVE LocksHeld'
  <2>1. writer[w].home \in Homes /\ writer[w].pc = "start"
    BY <1>19 DEF WriterReads, LocksHeld
  <2>2. CASE lock' = [lock EXCEPT ![writer[w].home] = w]
    <3>1. /\ lock[writer[w].home] = None /\ Readable(auth[writer[w].home])
          /\ writer' = [writer EXCEPT ![w].pc = "read", ![w].was = auth[writer[w].home]]
      BY <1>19, <1>0, <2>1, <2>2 DEF WriterReads, WriterFails, WriterEnds, Readable
    <3> QED
      BY <1>0, <2>1, <2>2, <3>1 DEF LocksHeld, WriterStates
  <2>3. CASE WriterEnds(w, "failed")
    BY <1>19, <1>0, <2>3 DEF WriterReads, WriterEnds, LocksHeld, Owned, WriterStates, NoWriter
  <2> QED
    BY <1>19, <2>2, <2>3 DEF WriterReads, WriterFails
<1>20. ASSUME NEW w \in Writers, WriterTimesOut(w) PROVE LocksHeld'
  BY <1>20, <1>0 DEF WriterTimesOut, WriterFails, WriterEnds, LocksHeld, Tasks, Waiting, Owned,
    WriterStates, NoWriter
<1>21. ASSUME NEW w \in Writers, WriterCopies(w) PROVE LocksHeld'
  BY <1>21, <1>0 DEF WriterCopies, WriterFails, WriterEnds, LocksHeld, Tasks, Waiting, Owned,
    WriterStates, NoWriter
<1>22. ASSUME NEW w \in Writers, write_tokens(w) PROVE LocksHeld'
  BY <1>22, <1>0 DEF write_tokens, WriterEnds, LocksHeld, Tasks, Waiting, Owned, WriterStates,
    NoWriter
<1>23. ASSUME NEW w \in Writers, WriteFails(w) PROVE LocksHeld'
  BY <1>23, <1>0 DEF WriteFails, WriterFails, WriterEnds, LocksHeld, Tasks, Waiting, Owned,
    WriterStates, NoWriter
<1>24. ASSUME NEW h \in Homes, NEW p \in People, CodexSignsIn(h, p) PROVE LocksHeld'
  BY <1>24, <1>0 DEF CodexSignsIn, CodexWrites, LocksHeld, Tasks, Waiting, Owned, WriterStates,
    NoWriter
<1>25. ASSUME NEW h \in Homes, CodexRefreshes(h) PROVE LocksHeld'
  BY <1>25, <1>0 DEF CodexRefreshes, CodexWrites, LocksHeld, Tasks, Waiting, Owned,
    WriterStates, NoWriter
<1>26. ASSUME NEW h \in Homes, CodexLogsOut(h) PROVE LocksHeld'
  BY <1>26, <1>0 DEF CodexLogsOut, CodexWrites, LocksHeld, Tasks, Waiting, Owned, WriterStates,
    NoWriter
<1>27. ASSUME UNCHANGED vars PROVE LocksHeld'
  BY <1>27, <1>0 DEF vars, vendor, LocksHeld, Tasks, Waiting, Owned, WriterStates, NoWriter
<1> QED
  BY <1>1, <1>2, <1>3, <1>4, <1>5, <1>6, <1>7, <1>8, <1>9, <1>10, <1>11, <1>12, <1>13, <1>14,
    <1>15, <1>16, <1>17, <1>18, <1>19, <1>20, <1>21, <1>22, <1>23, <1>24, <1>25, <1>26, <1>27
    DEF Next, Writing, Refreshing, Commanding

LEMMA OwnedStep ==
  ASSUME IInv, [Next]_vars
  PROVE  Owned'
<1> USE DEF IInv
<1>0. /\ None \notin Writers \cup Homes \cup People
      /\ writer \in [Writers -> WriterStates] /\ refresh \in TaskStates /\ signin \in TaskStates
      /\ cli \in CliStates
  BY AdoptionAssumption DEF Typed
<1>1. ASSUME NEW p \in People, RefreshStores(p) PROVE Owned'
  BY <1>1, <1>0 DEF RefreshStores, Owned, Tasks, Waiting, LocksHeld, WriterStates, TaskStates,
    CliStates, NoWriter, NoTask, NoCli
<1>2. ASSUME NEW w \in Writers, NEW i \in BOOLEAN, RefreshLooksUp(w, i) PROVE Owned'
  <2>1. CASE adopted[refresh.who] = None
    BY <1>2, <1>0, <2>1 DEF RefreshLooksUp, Owned, Tasks, WriterStates, TaskStates, NoWriter, NoTask
  <2>2. CASE adopted[refresh.who] # None
    <3>1. /\ Spawn(w, "refresh", adopted[refresh.who], refresh.who, refresh.gen, i)
          /\ refresh' = [refresh EXCEPT !.pc = "await", !.w = w]
      BY <1>2, <2>2 DEF RefreshLooksUp
    <3> QED
      BY <1>2, <1>0, <3>1 DEF RefreshLooksUp, Spawn, Owned, Tasks, WriterStates, TaskStates, NoWriter, NoTask
  <2> QED
    BY <2>1, <2>2
<1>3. ASSUME RefreshReturns PROVE Owned'
  BY <1>3, <1>0 DEF RefreshReturns, Owned, Tasks, Waiting, LocksHeld, WriterStates, TaskStates,
    CliStates, NoWriter, NoTask, NoCli
<1>4. ASSUME RefreshCancelled PROVE Owned'
  BY <1>4, <1>0 DEF RefreshCancelled, Owned, Tasks, Waiting, LocksHeld, WriterStates,
    TaskStates, CliStates, NoWriter, NoTask, NoCli
<1>5. ASSUME NEW w \in Writers, NEW p \in People, SignInCompletes(w, p) PROVE Owned'
  BY <1>5, <1>0 DEF SignInCompletes, Spawn, Owned, Tasks, Waiting, LocksHeld, WriterStates,
    TaskStates, CliStates, NoWriter, NoTask, NoCli
<1>6. ASSUME SignInStored PROVE Owned'
  BY <1>6, <1>0 DEF SignInStored, StoredOver, Owned, Tasks, Waiting, LocksHeld, WriterStates,
    TaskStates, CliStates, NoWriter, NoTask, NoCli
<1>7. ASSUME NEW f \in Exports, accounts_import(f) PROVE Owned'
  BY <1>7, <1>0 DEF accounts_import, Owned, Tasks, Waiting, LocksHeld, WriterStates, TaskStates,
    CliStates, NoWriter, NoTask, NoCli
<1>8. ASSUME import_entry PROVE Owned'
  BY <1>8, <1>0 DEF import_entry, NextRow, Owned, Tasks, Waiting, LocksHeld, WriterStates,
    TaskStates, CliStates, NoWriter, NoTask, NoCli
<1>9. ASSUME write_entry PROVE Owned'
  <2>1. cli'.pc \in {"idle", "check", "put"} /\ cli.pc = "put"
    BY <1>9, <1>0 DEF write_entry, NextRow, CliStates, NoCli
  <2>2. /\ UNCHANGED signin
        /\ refresh'.pc = refresh.pc /\ refresh'.who = refresh.who /\ refresh'.w = refresh.w
    BY <1>9, <1>0 DEF write_entry, StoredOver, TaskStates
  <2>3. \A v \in Writers :
          /\ writer'[v].pc = writer[v].pc /\ writer'[v].by = writer[v].by
          /\ writer'[v].of = writer[v].of /\ writer'[v].home = writer[v].home
          /\ writer'[v].detached = writer[v].detached
          /\ writer[v].excused => writer'[v].excused
    BY <1>9, <1>0 DEF write_entry, StoredOver, WriterStates
  <2> QED
    BY <1>0, <2>1, <2>2, <2>3 DEF Owned
<1>10. ASSUME accounts_import_agent PROVE Owned'
  BY <1>10, <1>0 DEF accounts_import_agent, Owned, Tasks, Waiting, LocksHeld, WriterStates,
    TaskStates, CliStates, NoWriter, NoTask, NoCli
<1>11. ASSUME ImportAgentPuts PROVE Owned'
  <2>1. cli'.pc \in {"idle", "check", "put"} /\ cli.pc = "put"
    BY <1>11, <1>0 DEF ImportAgentPuts, CliStates, NoCli
  <2>2. /\ UNCHANGED signin
        /\ refresh'.pc = refresh.pc /\ refresh'.who = refresh.who /\ refresh'.w = refresh.w
    BY <1>11, <1>0 DEF ImportAgentPuts, StoredOver, TaskStates
  <2>3. \A v \in Writers :
          /\ writer'[v].pc = writer[v].pc /\ writer'[v].by = writer[v].by
          /\ writer'[v].of = writer[v].of /\ writer'[v].home = writer[v].home
          /\ writer'[v].detached = writer[v].detached
          /\ writer[v].excused => writer'[v].excused
    BY <1>11, <1>0 DEF ImportAgentPuts, StoredOver, WriterStates
  <2> QED
    BY <1>0, <2>1, <2>2, <2>3 DEF Owned
<1>12. ASSUME NEW w \in Writers, NEW p \in People, accounts_adopt(w, p) PROVE Owned'
  BY <1>12, <1>0 DEF accounts_adopt, Spawn, Owned, Tasks, Waiting, LocksHeld, WriterStates,
    TaskStates, CliStates, NoWriter, NoTask, NoCli
<1>13. ASSUME AdoptWritten PROVE Owned'
  BY <1>13, <1>0 DEF AdoptWritten, Owned, Tasks, Waiting, LocksHeld, WriterStates, TaskStates,
    CliStates, NoWriter, NoTask, NoCli
<1>14. ASSUME MarkReads PROVE Owned'
  BY <1>14, <1>0 DEF MarkReads, Owned, Tasks, Waiting, LocksHeld, WriterStates, TaskStates,
    CliStates, NoWriter, NoTask, NoCli
<1>15. ASSUME mark_adopted PROVE Owned'
  BY <1>15, <1>0 DEF mark_adopted, Owned, Tasks, Waiting, LocksHeld, WriterStates, TaskStates,
    CliStates, NoWriter, NoTask, NoCli
<1>16. ASSUME NEW p \in People, accounts_release(p) PROVE Owned'
  BY <1>16, <1>0 DEF accounts_release, Owned, Tasks, Waiting, LocksHeld, WriterStates,
    TaskStates, CliStates, NoWriter, NoTask, NoCli
<1>17. ASSUME release_adopted PROVE Owned'
  BY <1>17, <1>0 DEF release_adopted, Owned, Tasks, Waiting, LocksHeld, WriterStates,
    TaskStates, CliStates, NoWriter, NoTask, NoCli
<1>18. ASSUME NEW p \in People, handle_account_release(p) PROVE Owned'
  BY <1>18, <1>0 DEF handle_account_release, Owned, Tasks, Waiting, LocksHeld, WriterStates,
    TaskStates, CliStates, NoWriter, NoTask, NoCli
<1>19. ASSUME NEW w \in Writers, WriterReads(w) PROVE Owned'
  <2>1. CASE writer' = [writer EXCEPT ![w].pc = "read", ![w].was = auth[writer[w].home]]
    BY <1>19, <1>0, <2>1 DEF WriterReads, Owned, WriterStates, NoWriter
  <2>2. CASE WriterEnds(w, "failed")
    BY <1>19, <1>0, <2>2 DEF WriterReads, WriterEnds, Owned, WriterStates, NoWriter
  <2> QED
    BY <1>19, <2>1, <2>2 DEF WriterReads, WriterFails
<1>20. ASSUME NEW w \in Writers, WriterTimesOut(w) PROVE Owned'
  BY <1>20, <1>0 DEF WriterTimesOut, WriterFails, WriterEnds, Owned, Tasks, Waiting, LocksHeld,
    WriterStates, TaskStates, CliStates, NoWriter, NoTask, NoCli
<1>21. ASSUME NEW w \in Writers, WriterCopies(w) PROVE Owned'
  <2>1. CASE writer' = [writer EXCEPT ![w].pc = "copied"]
    BY <1>21, <1>0, <2>1 DEF WriterCopies, Owned, WriterStates, NoWriter
  <2>2. CASE WriterEnds(w, "failed")
    BY <1>21, <1>0, <2>2 DEF WriterCopies, WriterEnds, Owned, WriterStates, NoWriter
  <2> QED
    BY <1>21, <2>1, <2>2 DEF WriterCopies, WriterFails
<1>22. ASSUME NEW w \in Writers, write_tokens(w) PROVE Owned'
  BY <1>22, <1>0 DEF write_tokens, WriterEnds, Owned, Tasks, Waiting, LocksHeld, WriterStates,
    TaskStates, CliStates, NoWriter, NoTask, NoCli
<1>23. ASSUME NEW w \in Writers, WriteFails(w) PROVE Owned'
  BY <1>23, <1>0 DEF WriteFails, WriterFails, WriterEnds, Owned, Tasks, Waiting, LocksHeld,
    WriterStates, TaskStates, CliStates, NoWriter, NoTask, NoCli
<1>24. ASSUME NEW h \in Homes, NEW p \in People, CodexSignsIn(h, p) PROVE Owned'
  BY <1>24, <1>0 DEF CodexSignsIn, CodexWrites, Owned, Tasks, Waiting, LocksHeld, WriterStates,
    TaskStates, CliStates, NoWriter, NoTask, NoCli
<1>25. ASSUME NEW h \in Homes, CodexRefreshes(h) PROVE Owned'
  BY <1>25, <1>0 DEF CodexRefreshes, CodexWrites, Owned, Tasks, Waiting, LocksHeld,
    WriterStates, TaskStates, CliStates, NoWriter, NoTask, NoCli
<1>26. ASSUME NEW h \in Homes, CodexLogsOut(h) PROVE Owned'
  BY <1>26, <1>0 DEF CodexLogsOut, CodexWrites, Owned, Tasks, Waiting, LocksHeld, WriterStates,
    TaskStates, CliStates, NoWriter, NoTask, NoCli
<1>27. ASSUME UNCHANGED vars PROVE Owned'
  BY <1>27, <1>0 DEF vars, vendor, Owned, Tasks, Waiting, LocksHeld, WriterStates, TaskStates,
    CliStates, NoWriter, NoTask, NoCli
<1> QED
  BY <1>1, <1>2, <1>3, <1>4, <1>5, <1>6, <1>7, <1>8, <1>9, <1>10, <1>11, <1>12, <1>13, <1>14,
    <1>15, <1>16, <1>17, <1>18, <1>19, <1>20, <1>21, <1>22, <1>23, <1>24, <1>25, <1>26, <1>27
    DEF Next, Writing, Refreshing, Commanding

LEMMA TasksStep ==
  ASSUME IInv, [Next]_vars
  PROVE  Tasks'
<1> USE DEF IInv
<1>0. /\ None \notin Writers \cup Homes \cup People
      /\ writer \in [Writers -> WriterStates] /\ refresh \in TaskStates /\ signin \in TaskStates
      /\ cli \in CliStates
  BY AdoptionAssumption DEF Typed
<1>1. ASSUME NEW p \in People, RefreshStores(p) PROVE Tasks'
  BY <1>1, <1>0 DEF RefreshStores, Tasks, Waiting, Owned, LocksHeld, WriterStates, TaskStates,
    CliStates, NoWriter, NoTask, NoCli, NoWeb
<1>2. ASSUME NEW w \in Writers, NEW i \in BOOLEAN, RefreshLooksUp(w, i) PROVE Tasks'
  <2>1. CASE adopted[refresh.who] = None
    BY <1>2, <1>0, <2>1 DEF RefreshLooksUp, Tasks, Waiting, WriterStates, TaskStates, NoWriter, NoTask
  <2>2. CASE adopted[refresh.who] # None
    <3>1. /\ Spawn(w, "refresh", adopted[refresh.who], refresh.who, refresh.gen, i)
          /\ refresh' = [refresh EXCEPT !.pc = "await", !.w = w]
      BY <1>2, <2>2 DEF RefreshLooksUp
    <3> QED
      BY <1>2, <1>0, <3>1 DEF RefreshLooksUp, Spawn, Tasks, Waiting, WriterStates, TaskStates, NoWriter, NoTask
  <2> QED
    BY <2>1, <2>2
<1>3. ASSUME RefreshReturns PROVE Tasks'
  BY <1>3, <1>0 DEF RefreshReturns, Tasks, Waiting, Owned, LocksHeld, WriterStates, TaskStates,
    CliStates, NoWriter, NoTask, NoCli, NoWeb
<1>4. ASSUME RefreshCancelled PROVE Tasks'
  BY <1>4, <1>0 DEF RefreshCancelled, Tasks, Waiting, Owned, LocksHeld, WriterStates,
    TaskStates, CliStates, NoWriter, NoTask, NoCli, NoWeb
<1>5. ASSUME NEW w \in Writers, NEW p \in People, SignInCompletes(w, p) PROVE Tasks'
  BY <1>5, <1>0 DEF SignInCompletes, Spawn, Tasks, Waiting, Owned, LocksHeld, WriterStates,
    TaskStates, CliStates, NoWriter, NoTask, NoCli, NoWeb
<1>6. ASSUME SignInStored PROVE Tasks'
  BY <1>6, <1>0 DEF SignInStored, StoredOver, Tasks, Waiting, Owned, LocksHeld, WriterStates,
    TaskStates, CliStates, NoWriter, NoTask, NoCli, NoWeb
<1>7. ASSUME NEW f \in Exports, accounts_import(f) PROVE Tasks'
  BY <1>7, <1>0 DEF accounts_import, Tasks, Waiting, Owned, LocksHeld, WriterStates, TaskStates,
    CliStates, NoWriter, NoTask, NoCli, NoWeb
<1>8. ASSUME import_entry PROVE Tasks'
  BY <1>8, <1>0 DEF import_entry, NextRow, Tasks, Waiting, Owned, LocksHeld, WriterStates,
    TaskStates, CliStates, NoWriter, NoTask, NoCli, NoWeb
<1>9. ASSUME write_entry PROVE Tasks'
  <2>1. cli'.pc \in {"idle", "check", "put"} /\ cli.pc = "put"
    BY <1>9, <1>0 DEF write_entry, NextRow, CliStates, NoCli
  <2>2. /\ UNCHANGED signin
        /\ refresh'.pc = refresh.pc /\ refresh'.who = refresh.who /\ refresh'.w = refresh.w
    BY <1>9, <1>0 DEF write_entry, StoredOver, TaskStates
  <2>3. \A v \in Writers :
          /\ writer'[v].pc = writer[v].pc /\ writer'[v].by = writer[v].by
          /\ writer'[v].of = writer[v].of /\ writer'[v].home = writer[v].home
          /\ writer'[v].detached = writer[v].detached
          /\ writer[v].excused => writer'[v].excused
    BY <1>9, <1>0 DEF write_entry, StoredOver, WriterStates
  <2>4. UNCHANGED web
    BY <1>9 DEF write_entry
  <2> QED
    BY <1>0, <2>1, <2>2, <2>3, <2>4 DEF Tasks, Waiting
<1>10. ASSUME accounts_import_agent PROVE Tasks'
  BY <1>10, <1>0 DEF accounts_import_agent, Tasks, Waiting, Owned, LocksHeld, WriterStates,
    TaskStates, CliStates, NoWriter, NoTask, NoCli, NoWeb
<1>11. ASSUME ImportAgentPuts PROVE Tasks'
  <2>1. cli'.pc \in {"idle", "check", "put"} /\ cli.pc = "put"
    BY <1>11, <1>0 DEF ImportAgentPuts, CliStates, NoCli
  <2>2. /\ UNCHANGED signin
        /\ refresh'.pc = refresh.pc /\ refresh'.who = refresh.who /\ refresh'.w = refresh.w
    BY <1>11, <1>0 DEF ImportAgentPuts, StoredOver, TaskStates
  <2>3. \A v \in Writers :
          /\ writer'[v].pc = writer[v].pc /\ writer'[v].by = writer[v].by
          /\ writer'[v].of = writer[v].of /\ writer'[v].home = writer[v].home
          /\ writer'[v].detached = writer[v].detached
          /\ writer[v].excused => writer'[v].excused
    BY <1>11, <1>0 DEF ImportAgentPuts, StoredOver, WriterStates
  <2>4. UNCHANGED web
    BY <1>11 DEF ImportAgentPuts
  <2> QED
    BY <1>0, <2>1, <2>2, <2>3, <2>4 DEF Tasks, Waiting
<1>12. ASSUME NEW w \in Writers, NEW p \in People, accounts_adopt(w, p) PROVE Tasks'
  BY <1>12, <1>0 DEF accounts_adopt, Spawn, Tasks, Waiting, Owned, LocksHeld, WriterStates,
    TaskStates, CliStates, NoWriter, NoTask, NoCli, NoWeb
<1>13. ASSUME AdoptWritten PROVE Tasks'
  <2>1. cli.home \in Homes /\ cli.who \in People
    BY <1>13 DEF AdoptWritten, Tasks, Waiting, Owned, LocksHeld
  <2>2. \A v \in Writers : v # cli.w => writer'[v] = writer[v]
    BY <1>13, <1>0 DEF AdoptWritten
  <2>3. refresh.pc = "await" => refresh.w # cli.w
    BY <1>13 DEF AdoptWritten, Tasks, Waiting
  <2>4. signin.pc = "await" => signin.w # cli.w
    BY <1>13 DEF AdoptWritten, Tasks, Waiting
  <2>5. cli'.pc \in {"mark", "idle"} /\ (cli'.pc = "mark" => cli'.home = cli.home /\ cli'.who = cli.who)
    <3>1. CASE cli' = [cli EXCEPT !.pc = "mark", !.w = None]
      BY <1>0, <3>1 DEF CliStates
    <3>2. CASE cli' = NoCli
      BY <3>2 DEF NoCli
    <3> QED
      BY <1>13, <3>1, <3>2 DEF AdoptWritten
  <2> QED
    BY <1>13, <2>1, <2>2, <2>3, <2>4, <2>5 DEF AdoptWritten, Tasks, Waiting
<1>14. ASSUME MarkReads PROVE Tasks'
  BY <1>14, <1>0 DEF MarkReads, Tasks, Waiting, Owned, LocksHeld, WriterStates, TaskStates,
    CliStates, NoWriter, NoTask, NoCli, NoWeb
<1>15. ASSUME mark_adopted PROVE Tasks'
  BY <1>15, <1>0 DEF mark_adopted, Tasks, Waiting, Owned, LocksHeld, WriterStates, TaskStates,
    CliStates, NoWriter, NoTask, NoCli, NoWeb
<1>16. ASSUME NEW p \in People, accounts_release(p) PROVE Tasks'
  BY <1>16, <1>0 DEF accounts_release, Tasks, Waiting, Owned, LocksHeld, WriterStates,
    TaskStates, CliStates, NoWriter, NoTask, NoCli, NoWeb
<1>17. ASSUME release_adopted PROVE Tasks'
  BY <1>17, <1>0 DEF release_adopted, Tasks, Waiting, Owned, LocksHeld, WriterStates,
    TaskStates, CliStates, NoWriter, NoTask, NoCli, NoWeb
<1>18. ASSUME NEW p \in People, handle_account_release(p) PROVE Tasks'
  BY <1>18, <1>0 DEF handle_account_release, Tasks, Waiting, Owned, LocksHeld, WriterStates,
    TaskStates, CliStates, NoWriter, NoTask, NoCli, NoWeb
<1>19. ASSUME NEW w \in Writers, WriterReads(w) PROVE Tasks'
  <2>1. CASE writer' = [writer EXCEPT ![w].pc = "read", ![w].was = auth[writer[w].home]]
    BY <1>19, <1>0, <2>1 DEF WriterReads, Tasks, Waiting, Owned, WriterStates, NoWriter
  <2>2. CASE WriterEnds(w, "failed")
    BY <1>19, <1>0, <2>2 DEF WriterReads, WriterEnds, Tasks, Waiting, Owned, WriterStates, NoWriter
  <2> QED
    BY <1>19, <2>1, <2>2 DEF WriterReads, WriterFails
<1>20. ASSUME NEW w \in Writers, WriterTimesOut(w) PROVE Tasks'
  BY <1>20, <1>0 DEF WriterTimesOut, WriterFails, WriterEnds, Tasks, Waiting, Owned, LocksHeld,
    WriterStates, TaskStates, CliStates, NoWriter, NoTask, NoCli, NoWeb
<1>21. ASSUME NEW w \in Writers, WriterCopies(w) PROVE Tasks'
  <2>1. CASE writer' = [writer EXCEPT ![w].pc = "copied"]
    BY <1>21, <1>0, <2>1 DEF WriterCopies, Tasks, Waiting, Owned, WriterStates, NoWriter
  <2>2. CASE WriterEnds(w, "failed")
    BY <1>21, <1>0, <2>2 DEF WriterCopies, WriterEnds, Tasks, Waiting, Owned, WriterStates, NoWriter
  <2> QED
    BY <1>21, <2>1, <2>2 DEF WriterCopies, WriterFails
<1>22. ASSUME NEW w \in Writers, write_tokens(w) PROVE Tasks'
  BY <1>22, <1>0 DEF write_tokens, WriterEnds, Tasks, Waiting, Owned, LocksHeld, WriterStates,
    TaskStates, CliStates, NoWriter, NoTask, NoCli, NoWeb
<1>23. ASSUME NEW w \in Writers, WriteFails(w) PROVE Tasks'
  BY <1>23, <1>0 DEF WriteFails, WriterFails, WriterEnds, Tasks, Waiting, Owned, LocksHeld,
    WriterStates, TaskStates, CliStates, NoWriter, NoTask, NoCli, NoWeb
<1>24. ASSUME NEW h \in Homes, NEW p \in People, CodexSignsIn(h, p) PROVE Tasks'
  BY <1>24, <1>0 DEF CodexSignsIn, CodexWrites, Tasks, Waiting, Owned, LocksHeld, WriterStates,
    TaskStates, CliStates, NoWriter, NoTask, NoCli, NoWeb
<1>25. ASSUME NEW h \in Homes, CodexRefreshes(h) PROVE Tasks'
  BY <1>25, <1>0 DEF CodexRefreshes, CodexWrites, Tasks, Waiting, Owned, LocksHeld,
    WriterStates, TaskStates, CliStates, NoWriter, NoTask, NoCli, NoWeb
<1>26. ASSUME NEW h \in Homes, CodexLogsOut(h) PROVE Tasks'
  BY <1>26, <1>0 DEF CodexLogsOut, CodexWrites, Tasks, Waiting, Owned, LocksHeld, WriterStates,
    TaskStates, CliStates, NoWriter, NoTask, NoCli, NoWeb
<1>27. ASSUME UNCHANGED vars PROVE Tasks'
  BY <1>27, <1>0 DEF vars, vendor, Tasks, Waiting, Owned, LocksHeld, WriterStates, TaskStates,
    CliStates, NoWriter, NoTask, NoCli, NoWeb
<1> QED
  BY <1>1, <1>2, <1>3, <1>4, <1>5, <1>6, <1>7, <1>8, <1>9, <1>10, <1>11, <1>12, <1>13, <1>14,
    <1>15, <1>16, <1>17, <1>18, <1>19, <1>20, <1>21, <1>22, <1>23, <1>24, <1>25, <1>26, <1>27
    DEF Next, Writing, Refreshing, Commanding

(***************************************************************************)
(* What an import looks at and then stores.                                *)
(***************************************************************************)
LEMMA RowsLeft ==
  ASSUME NEW S, NEW rows \in Seq(S), rows # <<>>, Len(rows) # 1
  PROVE  Tail(rows) \in Seq(S) /\ Tail(rows) # <<>>
<1>1. Len(rows) \in Nat /\ Len(rows) > 1
  <2>1. Len(rows) \in Nat \ {0}
    BY EmptySeq
  <2> QED
    BY <2>1
<1>2. Tail(rows) \in Seq(S) /\ Len(Tail(rows)) = Len(rows) - 1
  BY <1>1
<1> QED
  BY <1>1, <1>2, EmptySeq

LEMMA NextRowInHand ==
  ASSUME Typed, RowsInHand, cli.pc \in {"check", "put"}, ~cli.agent, cli' = NextRow(cli)
  PROVE  RowsInHand'
<1>1. cli \in CliStates /\ cli.rows \in Seq(ImportRows) /\ cli.rows # <<>>
  BY DEF Typed, RowsInHand
<1>2. CASE Len(cli.rows) = 1
  <2>1. cli'.pc = "idle"
    BY <1>2 DEF NextRow, NoCli
  <2> QED
    BY <2>1 DEF RowsInHand
<1>3. CASE Len(cli.rows) # 1
  <2>1. Tail(cli.rows) \in Seq(ImportRows) /\ Tail(cli.rows) # <<>>
    BY <1>1, <1>3, RowsLeft
  <2>2. cli'.pc = "check" /\ cli'.rows = Tail(cli.rows) /\ ~cli'.agent
    BY <1>1, <1>3 DEF NextRow, CliStates
  <2> QED
    BY <2>1, <2>2 DEF RowsInHand
<1> QED
  BY <1>2, <1>3

LEMMA RowsInHandStep ==
  ASSUME IInv, [Next]_vars
  PROVE  RowsInHand'
<1> USE DEF IInv
<1>0. cli \in CliStates
  BY DEF Typed
<1>1. ASSUME NEW p \in People, RefreshStores(p) PROVE RowsInHand'
  BY <1>1, <1>0 DEF RefreshStores, RowsInHand, CliStates, NoCli
<1>2. ASSUME NEW w \in Writers, NEW i \in BOOLEAN, RefreshLooksUp(w, i) PROVE RowsInHand'
  BY <1>2, <1>0 DEF RefreshLooksUp, Spawn, RowsInHand, CliStates, NoCli
<1>3. ASSUME RefreshReturns PROVE RowsInHand'
  BY <1>3, <1>0 DEF RefreshReturns, RowsInHand, CliStates, NoCli
<1>4. ASSUME RefreshCancelled PROVE RowsInHand'
  BY <1>4, <1>0 DEF RefreshCancelled, RowsInHand, CliStates, NoCli
<1>5. ASSUME NEW w \in Writers, NEW p \in People, SignInCompletes(w, p) PROVE RowsInHand'
  BY <1>5, <1>0 DEF SignInCompletes, Spawn, RowsInHand, CliStates, NoCli
<1>6. ASSUME SignInStored PROVE RowsInHand'
  BY <1>6, <1>0 DEF SignInStored, StoredOver, RowsInHand, CliStates, NoCli
<1>7. ASSUME NEW f \in Exports, accounts_import(f) PROVE RowsInHand'
  <2>1. import_path(f) \in Seq(ImportRows) /\ import_path(f) # <<>>
    BY PathIsRows DEF Filled
  <2>2. cli'.pc = "check" /\ cli'.rows = import_path(f) /\ ~cli'.agent
    BY <1>7 DEF accounts_import, NoCli
  <2> QED
    BY <2>1, <2>2 DEF RowsInHand
<1>8. ASSUME import_entry PROVE RowsInHand'
  <2> DEFINE row == cli.rows[1]
  <2>1. CASE row.ok /\ Replaces(row, secrets[row.id])
    <3>1. cli' = [cli EXCEPT !.pc = "put", !.seen = secrets[row.id]]
      BY <1>8, <2>1 DEF import_entry
    <3>2. /\ cli'.pc = "put" /\ cli'.rows = cli.rows /\ cli'.seen = secrets[row.id]
          /\ cli'.agent = cli.agent
      BY <1>0, <3>1 DEF CliStates
    <3> QED
      BY <1>8, <2>1, <3>2 DEF import_entry, RowsInHand
  <2>2. CASE ~(row.ok /\ Replaces(row, secrets[row.id]))
    BY <1>8, <2>2, NextRowInHand DEF import_entry
  <2> QED
    BY <2>1, <2>2
<1>9. ASSUME write_entry PROVE RowsInHand'
  BY <1>9, NextRowInHand DEF write_entry
<1>10. ASSUME accounts_import_agent PROVE RowsInHand'
  <2>1. FoundRows \in Seq(AgentRows) /\ FoundRows # <<>>
    BY <1>10, FoundIsRows DEF accounts_import_agent
  <2>2. cli'.pc = "put" /\ cli'.rows = FoundRows /\ cli'.agent
    BY <1>10 DEF accounts_import_agent, NoCli
  <2>3. FoundRows[1] \in AgentRows
    BY <2>1, ElementOfSeq, EmptySeq
  <2>4. FoundRows[1].ok
    BY <2>3 DEF AgentRows
  <2> QED
    BY <2>1, <2>2, <2>4 DEF RowsInHand
<1>11. ASSUME ImportAgentPuts PROVE RowsInHand'
  <2>1. cli.rows \in Seq(AgentRows) /\ cli.rows # <<>>
    BY <1>11 DEF ImportAgentPuts, RowsInHand
  <2>2. CASE cli' = NoCli
    BY <2>2 DEF RowsInHand, NoCli
  <2>3. CASE Len(cli.rows) # 1 /\ cli' = [cli EXCEPT !.rows = Tail(cli.rows)]
    <3>1. Tail(cli.rows) \in Seq(AgentRows) /\ Tail(cli.rows) # <<>>
      BY <2>1, <2>3, RowsLeft
    <3>2. cli'.pc = "put" /\ cli'.rows = Tail(cli.rows) /\ cli'.agent
      BY <1>11, <1>0, <2>3 DEF ImportAgentPuts, CliStates
    <3>3. Tail(cli.rows)[1] \in AgentRows
      BY <3>1, ElementOfSeq, EmptySeq
    <3>4. Tail(cli.rows)[1].ok
      BY <3>3 DEF AgentRows
    <3> QED
      BY <3>1, <3>2, <3>4 DEF RowsInHand
  <2> QED
    BY <1>11, <1>0, <2>2, <2>3 DEF ImportAgentPuts, CliStates
<1>12. ASSUME NEW w \in Writers, NEW p \in People, accounts_adopt(w, p) PROVE RowsInHand'
  BY <1>12, <1>0 DEF accounts_adopt, Spawn, RowsInHand, CliStates, NoCli
<1>13. ASSUME AdoptWritten PROVE RowsInHand'
  <2>1. cli'.pc \in {"mark", "idle"}
    <3>1. CASE cli' = [cli EXCEPT !.pc = "mark", !.w = None]
      BY <1>0, <3>1 DEF CliStates
    <3>2. CASE cli' = NoCli
      BY <3>2 DEF NoCli
    <3> QED
      BY <1>13, <3>1, <3>2 DEF AdoptWritten
  <2> QED
    BY <2>1 DEF RowsInHand
<1>14. ASSUME MarkReads PROVE RowsInHand'
  BY <1>14, <1>0 DEF MarkReads, RowsInHand, CliStates, NoCli
<1>15. ASSUME mark_adopted PROVE RowsInHand'
  BY <1>15, <1>0 DEF mark_adopted, RowsInHand, CliStates, NoCli
<1>16. ASSUME NEW p \in People, accounts_release(p) PROVE RowsInHand'
  BY <1>16, <1>0 DEF accounts_release, RowsInHand, CliStates, NoCli
<1>17. ASSUME release_adopted PROVE RowsInHand'
  BY <1>17, <1>0 DEF release_adopted, RowsInHand, CliStates, NoCli
<1>18. ASSUME NEW p \in People, handle_account_release(p) PROVE RowsInHand'
  BY <1>18, <1>0 DEF handle_account_release, RowsInHand, CliStates, NoCli
<1>19. ASSUME NEW w \in Writers, WriterReads(w) PROVE RowsInHand'
  BY <1>19, <1>0 DEF WriterReads, WriterFails, WriterEnds, RowsInHand, CliStates, NoCli
<1>20. ASSUME NEW w \in Writers, WriterTimesOut(w) PROVE RowsInHand'
  BY <1>20, <1>0 DEF WriterTimesOut, WriterFails, WriterEnds, RowsInHand, CliStates, NoCli
<1>21. ASSUME NEW w \in Writers, WriterCopies(w) PROVE RowsInHand'
  BY <1>21, <1>0 DEF WriterCopies, WriterFails, WriterEnds, RowsInHand, CliStates, NoCli
<1>22. ASSUME NEW w \in Writers, write_tokens(w) PROVE RowsInHand'
  BY <1>22, <1>0 DEF write_tokens, WriterEnds, RowsInHand, CliStates, NoCli
<1>23. ASSUME NEW w \in Writers, WriteFails(w) PROVE RowsInHand'
  BY <1>23, <1>0 DEF WriteFails, WriterFails, WriterEnds, RowsInHand, CliStates, NoCli
<1>24. ASSUME NEW h \in Homes, NEW p \in People, CodexSignsIn(h, p) PROVE RowsInHand'
  BY <1>24, <1>0 DEF CodexSignsIn, CodexWrites, RowsInHand, CliStates, NoCli
<1>25. ASSUME NEW h \in Homes, CodexRefreshes(h) PROVE RowsInHand'
  BY <1>25, <1>0 DEF CodexRefreshes, CodexWrites, RowsInHand, CliStates, NoCli
<1>26. ASSUME NEW h \in Homes, CodexLogsOut(h) PROVE RowsInHand'
  BY <1>26, <1>0 DEF CodexLogsOut, CodexWrites, RowsInHand, CliStates, NoCli
<1>27. ASSUME UNCHANGED vars PROVE RowsInHand'
  BY <1>27, <1>0 DEF vars, vendor, RowsInHand, CliStates, NoCli
<1> QED
  BY <1>1, <1>2, <1>3, <1>4, <1>5, <1>6, <1>7, <1>8, <1>9, <1>10, <1>11, <1>12, <1>13, <1>14,
    <1>15, <1>16, <1>17, <1>18, <1>19, <1>20, <1>21, <1>22, <1>23, <1>24, <1>25, <1>26, <1>27
    DEF Next, Writing, Refreshing, Commanding

(***************************************************************************)
(* Whom a home is for.                                                     *)
(***************************************************************************)
LEMMA MarksStep ==
  ASSUME IInv, [Next]_vars
  PROVE  Marks'
<1> USE DEF IInv
<1>0. /\ cli \in CliStates /\ web \in WebStates /\ adopted \in Snaps
      /\ written \in [People -> SUBSET Homes] /\ None \notin Homes
  BY AdoptionAssumption DEF Typed
<1>1. ASSUME NEW p \in People, RefreshStores(p) PROVE Marks'
  BY <1>1, <1>0 DEF RefreshStores, Marks, CliStates, WebStates, NoCli, NoWeb, Snaps
<1>2. ASSUME NEW w \in Writers, NEW i \in BOOLEAN, RefreshLooksUp(w, i) PROVE Marks'
  BY <1>2, <1>0 DEF RefreshLooksUp, Spawn, Marks, CliStates, WebStates, NoCli, NoWeb, Snaps
<1>3. ASSUME RefreshReturns PROVE Marks'
  BY <1>3, <1>0 DEF RefreshReturns, Marks, CliStates, WebStates, NoCli, NoWeb, Snaps
<1>4. ASSUME RefreshCancelled PROVE Marks'
  BY <1>4, <1>0 DEF RefreshCancelled, Marks, CliStates, WebStates, NoCli, NoWeb, Snaps
<1>5. ASSUME NEW w \in Writers, NEW p \in People, SignInCompletes(w, p) PROVE Marks'
  BY <1>5, <1>0 DEF SignInCompletes, Spawn, Marks, CliStates, WebStates, NoCli, NoWeb, Snaps
<1>6. ASSUME SignInStored PROVE Marks'
  BY <1>6, <1>0 DEF SignInStored, StoredOver, Marks, CliStates, WebStates, NoCli, NoWeb, Snaps
<1>7. ASSUME NEW f \in Exports, accounts_import(f) PROVE Marks'
  BY <1>7, <1>0 DEF accounts_import, Marks, CliStates, WebStates, NoCli, NoWeb, Snaps
<1>8. ASSUME import_entry PROVE Marks'
  BY <1>8, <1>0 DEF import_entry, NextRow, Marks, CliStates, WebStates, NoCli, NoWeb, Snaps
<1>9. ASSUME write_entry PROVE Marks'
  BY <1>9, <1>0 DEF write_entry, NextRow, StoredOver, Marks, CliStates, WebStates, NoCli, NoWeb,
    Snaps
<1>10. ASSUME accounts_import_agent PROVE Marks'
  BY <1>10, <1>0 DEF accounts_import_agent, Marks, CliStates, WebStates, NoCli, NoWeb, Snaps
<1>11. ASSUME ImportAgentPuts PROVE Marks'
  <2>1. /\ UNCHANGED <<adopted, web, written>>
        /\ cli' = NoCli \/ cli' = [cli EXCEPT !.rows = Tail(cli.rows)]
    BY <1>11, <1>0 DEF ImportAgentPuts, CliStates
  <2>2. CASE cli' = NoCli
    BY <2>1, <2>2 DEF Marks, NoCli
  <2>3. CASE cli' = [cli EXCEPT !.rows = Tail(cli.rows)]
    <3>1. cli'.snap = cli.snap /\ cli'.pc = cli.pc /\ cli'.home = cli.home /\ cli'.who = cli.who
      BY <1>0, <2>3 DEF CliStates
    <3> QED
      BY <2>1, <3>1 DEF Marks
  <2> QED
    BY <2>1, <2>2, <2>3
<1>12. ASSUME NEW w \in Writers, NEW p \in People, accounts_adopt(w, p) PROVE Marks'
  BY <1>12, <1>0 DEF accounts_adopt, Spawn, Marks, CliStates, WebStates, NoCli, NoWeb, Snaps
<1>13. ASSUME AdoptWritten PROVE Marks'
  <2>1. cli.who \in People /\ cli.home \in Homes
    BY <1>13 DEF AdoptWritten, Tasks, Waiting, Owned, LocksHeld
  <2>2. CASE writer[cli.w].pc = "ok"
    <3>1. /\ cli' = [cli EXCEPT !.pc = "mark", !.w = None] /\ UNCHANGED <<adopted, web>>
          /\ written' = [written EXCEPT ![cli.who] = written[cli.who] \cup {cli.home}]
      BY <1>13, <2>2 DEF AdoptWritten
    <3>2. /\ cli'.snap = cli.snap /\ cli'.pc = "mark" /\ cli'.home = cli.home
          /\ cli'.who = cli.who
      BY <1>0, <3>1 DEF CliStates
    <3>3. cli.home \in written'[cli.who] /\ \A p \in People : written[p] \subseteq written'[p]
      BY <1>0, <2>1, <3>1
    <3> QED
      BY <3>1, <3>2, <3>3 DEF Marks
  <2>3. CASE writer[cli.w].pc # "ok"
    BY <1>13, <2>3 DEF AdoptWritten, Marks, NoCli
  <2> QED
    BY <2>2, <2>3
<1>14. ASSUME MarkReads PROVE Marks'
  BY <1>14, <1>0 DEF MarkReads, Marks, CliStates, WebStates, NoCli, NoWeb, Snaps
<1>15. ASSUME mark_adopted PROVE Marks'
  BY <1>15, <1>0 DEF mark_adopted, Marks, CliStates, WebStates, NoCli, NoWeb, Snaps
<1>16. ASSUME NEW p \in People, accounts_release(p) PROVE Marks'
  BY <1>16, <1>0 DEF accounts_release, Marks, CliStates, WebStates, NoCli, NoWeb, Snaps
<1>17. ASSUME release_adopted PROVE Marks'
  BY <1>17, <1>0 DEF release_adopted, Marks, CliStates, WebStates, NoCli, NoWeb, Snaps
<1>18. ASSUME NEW p \in People, handle_account_release(p) PROVE Marks'
  BY <1>18, <1>0 DEF handle_account_release, Marks, CliStates, WebStates, NoCli, NoWeb, Snaps
<1>19. ASSUME NEW w \in Writers, WriterReads(w) PROVE Marks'
  BY <1>19, <1>0 DEF WriterReads, WriterFails, WriterEnds, Marks, CliStates, WebStates, NoCli,
    NoWeb, Snaps
<1>20. ASSUME NEW w \in Writers, WriterTimesOut(w) PROVE Marks'
  BY <1>20, <1>0 DEF WriterTimesOut, WriterFails, WriterEnds, Marks, CliStates, WebStates,
    NoCli, NoWeb, Snaps
<1>21. ASSUME NEW w \in Writers, WriterCopies(w) PROVE Marks'
  BY <1>21, <1>0 DEF WriterCopies, WriterFails, WriterEnds, Marks, CliStates, WebStates, NoCli,
    NoWeb, Snaps
<1>22. ASSUME NEW w \in Writers, write_tokens(w) PROVE Marks'
  BY <1>22, <1>0 DEF write_tokens, WriterEnds, Marks, CliStates, WebStates, NoCli, NoWeb, Snaps
<1>23. ASSUME NEW w \in Writers, WriteFails(w) PROVE Marks'
  BY <1>23, <1>0 DEF WriteFails, WriterFails, WriterEnds, Marks, CliStates, WebStates, NoCli,
    NoWeb, Snaps
<1>24. ASSUME NEW h \in Homes, NEW p \in People, CodexSignsIn(h, p) PROVE Marks'
  BY <1>24, <1>0 DEF CodexSignsIn, CodexWrites, Marks, CliStates, WebStates, NoCli, NoWeb, Snaps
<1>25. ASSUME NEW h \in Homes, CodexRefreshes(h) PROVE Marks'
  BY <1>25, <1>0 DEF CodexRefreshes, CodexWrites, Marks, CliStates, WebStates, NoCli, NoWeb,
    Snaps
<1>26. ASSUME NEW h \in Homes, CodexLogsOut(h) PROVE Marks'
  BY <1>26, <1>0 DEF CodexLogsOut, CodexWrites, Marks, CliStates, WebStates, NoCli, NoWeb, Snaps
<1>27. ASSUME UNCHANGED vars PROVE Marks'
  BY <1>27, <1>0 DEF vars, vendor, Marks, CliStates, WebStates, NoCli, NoWeb, Snaps
<1> QED
  BY <1>1, <1>2, <1>3, <1>4, <1>5, <1>6, <1>7, <1>8, <1>9, <1>10, <1>11, <1>12, <1>13, <1>14,
    <1>15, <1>16, <1>17, <1>18, <1>19, <1>20, <1>21, <1>22, <1>23, <1>24, <1>25, <1>26, <1>27
    DEF Next, Writing, Refreshing, Commanding

\* No step says a home is for somebody new but one that switches it.
LEMMA NamedBefore ==
  ASSUME IInv, [Next]_vars, Typed', NEW g \in Homes \ switched', NEW q \in People, Named(g, q)'
  PROVE  Named(g, q)
<1> USE DEF IInv
<1>0. /\ writer \in [Writers -> WriterStates] /\ auth \in [Homes -> Auths]
      /\ written \in [People -> SUBSET Homes] /\ cli \in CliStates /\ None \notin People \cup Homes
      /\ writer' \in [Writers -> WriterStates] /\ auth' \in [Homes -> Auths]
  BY AdoptionAssumption DEF Typed
<1>1. ASSUME NEW p \in People, RefreshStores(p) PROVE Named(g, q)
  BY <1>1, <1>0 DEF RefreshStores, Named, Brought, Names, WriterStates, NoWriter
<1>2. ASSUME NEW w \in Writers, NEW i \in BOOLEAN, RefreshLooksUp(w, i) PROVE Named(g, q)
  <2> DEFINE h == adopted[refresh.who]
  <2>1. refresh.who \in People
    BY <1>2 DEF RefreshLooksUp, Tasks
  <2>2. CASE h = None
    BY <1>2, <2>2 DEF RefreshLooksUp, Named
  <2>3. CASE h # None
    <3>1. Spawn(w, "refresh", h, refresh.who, refresh.gen, i) /\ UNCHANGED <<auth, written>>
      BY <1>2, <2>3 DEF RefreshLooksUp
    <3>2. \A v \in Writers : v # w => writer'[v] = writer[v]
      BY <1>0, <3>1 DEF Spawn
    <3>3. writer'[w].home = h /\ writer'[w].of = refresh.who /\ writer'[w].pc = "start"
      BY <1>0, <3>1 DEF Spawn, NoWriter
    <3>4. h \in written[refresh.who]
      BY <2>1, <2>3 DEF Marks
    <3>5. ~Brought(writer'[w], g, q) \/ (g = h /\ q = refresh.who)
      BY <3>3 DEF Brought
    <3> QED
      BY <3>1, <3>2, <3>4, <3>5 DEF Named
  <2> QED
    BY <2>2, <2>3
<1>3. ASSUME RefreshReturns PROVE Named(g, q)
  BY <1>3, <1>0 DEF RefreshReturns, Named, Brought, Names, WriterStates, NoWriter
<1>4. ASSUME RefreshCancelled PROVE Named(g, q)
  <2>1. \A v \in Writers : Brought(writer'[v], g, q) => Brought(writer[v], g, q)
    BY <1>4, <1>0 DEF RefreshCancelled, Brought, WriterStates
  <2> QED
    BY <1>4, <2>1 DEF RefreshCancelled, Named
<1>5. ASSUME NEW w \in Writers, NEW p \in People, SignInCompletes(w, p) PROVE Named(g, q)
  BY <1>5, <1>0 DEF SignInCompletes, Spawn, Named, Brought, Names, WriterStates, NoWriter
<1>6. ASSUME SignInStored PROVE Named(g, q)
  BY <1>6, <1>0 DEF SignInStored, StoredOver, Named, Brought, Names, WriterStates, NoWriter
<1>7. ASSUME NEW f \in Exports, accounts_import(f) PROVE Named(g, q)
  BY <1>7, <1>0 DEF accounts_import, Named, Brought, Names, WriterStates, NoWriter
<1>8. ASSUME import_entry PROVE Named(g, q)
  BY <1>8, <1>0 DEF import_entry, NextRow, Named, Brought, Names, WriterStates, NoWriter
<1>9. ASSUME write_entry PROVE Named(g, q)
  BY <1>9, <1>0 DEF write_entry, NextRow, StoredOver, Named, Brought, Names, WriterStates,
    NoWriter
<1>10. ASSUME accounts_import_agent PROVE Named(g, q)
  BY <1>10, <1>0 DEF accounts_import_agent, Named, Brought, Names, WriterStates, NoWriter
<1>11. ASSUME ImportAgentPuts PROVE Named(g, q)
  <2>1. \A v \in Writers : Brought(writer'[v], g, q) => Brought(writer[v], g, q)
    BY <1>11, <1>0 DEF ImportAgentPuts, StoredOver, Brought, WriterStates, NoWriter
  <2> QED
    BY <1>11, <2>1 DEF ImportAgentPuts, Named
<1>12. ASSUME NEW w \in Writers, NEW p \in People, accounts_adopt(w, p) PROVE Named(g, q)
  <2> DEFINE h == first_home(p)
  <2>1. h \in HomesOf(p)
    BY <1>12, FirstHome DEF accounts_adopt
  <2>2. h \in Homes /\ auth[h].is = "tokens" /\ auth[h].id = p
    BY <2>1 DEF HomesOf, read_codex_dir, Codex
  <2>3. p \in Names(auth[h])
    BY <2>2 DEF Names, Readable
  <2>4. UNCHANGED <<auth, written>> /\ Spawn(w, "adopt", h, p, secrets[Codex(p)].gen, FALSE)
    BY <1>12 DEF accounts_adopt
  <2> HIDE DEF h
  <2>5. \A v \in Writers : v # w => writer'[v] = writer[v]
    BY <1>0, <2>4 DEF Spawn
  <2>6. writer'[w].home = h /\ writer'[w].of = p /\ writer'[w].pc = "start"
    BY <1>0, <2>4 DEF Spawn, NoWriter
  <2>7. ~Brought(writer'[w], g, q) \/ (g = h /\ q = p)
    BY <2>6 DEF Brought
  <2> QED
    BY <2>3, <2>4, <2>5, <2>7 DEF Named
<1>13. ASSUME AdoptWritten PROVE Named(g, q)
  <2>1. /\ cli.w \in Writers /\ writer[cli.w].home = cli.home /\ writer[cli.w].of = cli.who
        /\ writer[cli.w].by = "adopt" /\ writer[cli.w].pc # "free" /\ cli.who \in People
    BY <1>13 DEF AdoptWritten, Tasks, Waiting, Owned, LocksHeld
  <2>2. Brought(writer[cli.w], cli.home, cli.who)
    BY <2>1 DEF Brought
  <2>3. g \in written'[q] => g \in written[q] \/ (g = cli.home /\ q = cli.who)
    BY <1>13, <1>0, <2>1 DEF AdoptWritten
  <2>4. ~Brought(NoWriter, g, q)
    BY DEF Brought, NoWriter
  <2>5. \A v \in Writers : Brought(writer'[v], g, q) => Brought(writer[v], g, q)
    BY <1>13, <1>0, <2>4 DEF AdoptWritten
  <2>6. UNCHANGED auth
    BY <1>13 DEF AdoptWritten
  <2> QED
    BY <2>1, <2>2, <2>3, <2>5, <2>6 DEF Named
<1>14. ASSUME MarkReads PROVE Named(g, q)
  BY <1>14, <1>0 DEF MarkReads, Named, Brought, Names, WriterStates, NoWriter
<1>15. ASSUME mark_adopted PROVE Named(g, q)
  BY <1>15, <1>0 DEF mark_adopted, Named, Brought, Names, WriterStates, NoWriter
<1>16. ASSUME NEW p \in People, accounts_release(p) PROVE Named(g, q)
  BY <1>16, <1>0 DEF accounts_release, Named, Brought, Names, WriterStates, NoWriter
<1>17. ASSUME release_adopted PROVE Named(g, q)
  BY <1>17, <1>0 DEF release_adopted, Named, Brought, Names, WriterStates, NoWriter
<1>18. ASSUME NEW p \in People, handle_account_release(p) PROVE Named(g, q)
  BY <1>18, <1>0 DEF handle_account_release, Named, Brought, Names, WriterStates, NoWriter
<1>19. ASSUME NEW w \in Writers, WriterReads(w) PROVE Named(g, q)
  BY <1>19, <1>0 DEF WriterReads, WriterFails, WriterEnds, Named, Brought, Names, WriterStates,
    NoWriter
<1>20. ASSUME NEW w \in Writers, WriterTimesOut(w) PROVE Named(g, q)
  BY <1>20, <1>0 DEF WriterTimesOut, WriterFails, WriterEnds, Named, Brought, Names,
    WriterStates, NoWriter
<1>21. ASSUME NEW w \in Writers, WriterCopies(w) PROVE Named(g, q)
  BY <1>21, <1>0 DEF WriterCopies, WriterFails, WriterEnds, Named, Brought, Names, WriterStates,
    NoWriter
<1>22. ASSUME NEW w \in Writers, write_tokens(w) PROVE Named(g, q)
  <2> DEFINE u == writer[w]
             h == u.home
  <2>1. /\ u.pc = "copied" /\ h \in Homes /\ u.was \in Auths /\ Readable(u.was)
        /\ auth' = [auth EXCEPT ![h] = Updated(u)] /\ UNCHANGED written /\ WriterEnds(w, "ok")
    BY <1>22, <1>0 DEF write_tokens, LocksHeld, WriterStates
  <2>2. u.by = "signin" /\ u.of # u.was.account => switched' = switched \cup {h}
    BY <1>22 DEF write_tokens
  <2>3. u \in WriterStates
    BY <1>0
  <2> HIDE DEF u, h
  <2>4. ~(u.by = "signin" /\ u.of # u.was.account) \/ g # h
    BY <2>2
  <2>5. Names(Updated(u)) \subseteq {u.of} \cup {u.was.id, u.was.account}
    BY <2>1 DEF Names, Updated, Auths, Auth
  <2>6. g = h => \A x \in Names(Updated(u)) : Brought(u, g, x)
    BY <2>1, <2>4, <2>5 DEF Brought, Names, h
  <2>7. q \in Names(auth'[g]) => q \in Names(auth[g]) \/ Brought(writer[w], g, q)
    BY <1>0, <2>1, <2>6 DEF u
  <2>8. Brought(writer'[w], g, q) => Brought(writer[w], g, q)
    BY <1>0, <2>1 DEF WriterEnds, Brought, WriterStates, NoWriter, u, h
  <2>9. \A v \in Writers : v # w => writer'[v] = writer[v]
    BY <1>0, <2>1 DEF WriterEnds
  <2> QED
    BY <2>1, <2>7, <2>8, <2>9 DEF Named
<1>23. ASSUME NEW w \in Writers, WriteFails(w) PROVE Named(g, q)
  BY <1>23, <1>0 DEF WriteFails, WriterFails, WriterEnds, Named, Brought, Names, WriterStates,
    NoWriter
<1>24. ASSUME NEW h \in Homes, NEW p \in People, CodexSignsIn(h, p) PROVE Named(g, q)
  <2>1. \A v \in Writers : Brought(writer'[v], g, q) => Brought(writer[v], g, q)
    BY <1>24, <1>0 DEF CodexSignsIn, CodexWrites, Brought, WriterStates
  <2>2. q \in Names(auth'[g]) => q \in Names(auth[g])
    <3>1. CASE g # h
      BY <1>24, <1>0, <3>1 DEF CodexSignsIn, CodexWrites
    <3>2. CASE g = h
      <4>1. auth[h].account = p
        BY <1>24, <3>2 DEF CodexSignsIn
      <4>2. p \in Names(auth[h])
        BY <1>24, <1>0, <4>1 DEF Names, Auths
      <4>3. Names(SignedIn(p, live'[p])) = {p}
        BY DEF Names, SignedIn, Readable
      <4>4. auth'[h] = SignedIn(p, live'[p])
        BY <1>24, <1>0 DEF CodexSignsIn, CodexWrites
      <4> QED
        BY <3>2, <4>2, <4>3, <4>4
    <3> QED
      BY <3>1, <3>2
  <2> QED
    BY <1>24, <2>1, <2>2 DEF CodexSignsIn, CodexWrites, Named
<1>25. ASSUME NEW h \in Homes, CodexRefreshes(h) PROVE Named(g, q)
  <2>1. \A v \in Writers : Brought(writer'[v], g, q) => Brought(writer[v], g, q)
    BY <1>25, <1>0 DEF CodexRefreshes, CodexWrites, Brought, WriterStates
  <2>2. q \in Names(auth'[g]) => q \in Names(auth[g])
    BY <1>25, <1>0 DEF CodexRefreshes, CodexWrites, Names, Readable, Auths, Auth
  <2> QED
    BY <1>25, <2>1, <2>2 DEF CodexRefreshes, CodexWrites, Named
<1>26. ASSUME NEW h \in Homes, CodexLogsOut(h) PROVE Named(g, q)
  <2>1. \A v \in Writers : Brought(writer'[v], g, q) => Brought(writer[v], g, q)
    BY <1>26, <1>0 DEF CodexLogsOut, CodexWrites, Brought, WriterStates
  <2>2. q \in Names(auth'[g]) => q \in Names(auth[g])
    BY <1>26, <1>0 DEF CodexLogsOut, CodexWrites, Names, Readable, Missing
  <2> QED
    BY <1>26, <2>1, <2>2 DEF CodexLogsOut, CodexWrites, Named
<1>27. ASSUME UNCHANGED vars PROVE Named(g, q)
  BY <1>27, <1>0 DEF vars, vendor, Named, Brought, Names, WriterStates, NoWriter
<1> QED
  BY <1>1, <1>2, <1>3, <1>4, <1>5, <1>6, <1>7, <1>8, <1>9, <1>10, <1>11, <1>12, <1>13, <1>14,
    <1>15, <1>16, <1>17, <1>18, <1>19, <1>20, <1>21, <1>22, <1>23, <1>24, <1>25, <1>26, <1>27
    DEF Next, Writing, Refreshing, Commanding

LEMMA OneNameStep ==
  ASSUME IInv, [Next]_vars, Typed'
  PROVE  OneName'
<1>1. switched \subseteq switched'
  BY Frames DEF Frame, write_tokens, CodexSignsIn
<1> QED
  BY <1>1, NamedBefore DEF OneName, IInv

(***************************************************************************)
(* Which tokens are written.                                               *)
(***************************************************************************)
\* What Codex's writing of its file does to the writers.
LEMMA CodexOvertakes ==
  ASSUME Typed, NEW h \in Homes, NEW new, CodexWrites(h, new), NEW v \in Writers
  PROVE  /\ writer'[v].pc = writer[v].pc /\ writer'[v].home = writer[v].home
         /\ writer'[v].by = writer[v].by /\ writer'[v].of = writer[v].of
         /\ writer'[v].gen = writer[v].gen /\ writer'[v].excused = writer[v].excused
         /\ IF writer[v].home = h /\ writer[v].pc \in {"read", "copied"}
            THEN writer'[v].overtaken = writer[v].pc ELSE writer'[v].overtaken = writer[v].overtaken
         /\ auth'[h] = new /\ \A g \in Homes : g # h => auth'[g] = auth[g]
<1>1. writer[v] \in WriterStates /\ auth \in [Homes -> Auths]
  BY DEF Typed
<1> QED
  BY <1>1 DEF CodexWrites, WriterStates

LEMMA FileWasThereStep ==
  ASSUME IInv, [Next]_vars, Typed'
  PROVE  FileWasThere'
<1> USE DEF IInv
<1>0. /\ writer \in [Writers -> WriterStates] /\ auth \in [Homes -> Auths]
      /\ \A v \in Writers : writer[v].pc # "free" => writer[v].home \in Homes
  BY DEF Typed, LocksHeld
<1>1. ASSUME NEW p \in People, RefreshStores(p) PROVE FileWasThere'
  BY <1>1, <1>0 DEF RefreshStores, FileWasThere, WriterStates, NoWriter
<1>2. ASSUME NEW w \in Writers, NEW i \in BOOLEAN, RefreshLooksUp(w, i) PROVE FileWasThere'
  <2>1. CASE UNCHANGED writer
    BY <1>2, <2>1 DEF RefreshLooksUp, FileWasThere
  <2>2. CASE Spawn(w, "refresh", adopted[refresh.who], refresh.who, refresh.gen, i)
    BY <1>2, <1>0, <2>2 DEF RefreshLooksUp, Spawn, FileWasThere, WriterStates, NoWriter
  <2> QED
    BY <1>2, <2>1, <2>2 DEF RefreshLooksUp
<1>3. ASSUME RefreshReturns PROVE FileWasThere'
  BY <1>3, <1>0 DEF RefreshReturns, FileWasThere, WriterStates, NoWriter
<1>4. ASSUME RefreshCancelled PROVE FileWasThere'
  BY <1>4, <1>0 DEF RefreshCancelled, FileWasThere, WriterStates, NoWriter
<1>5. ASSUME NEW w \in Writers, NEW p \in People, SignInCompletes(w, p) PROVE FileWasThere'
  BY <1>5, <1>0 DEF SignInCompletes, Spawn, FileWasThere, WriterStates, NoWriter
<1>6. ASSUME SignInStored PROVE FileWasThere'
  BY <1>6, <1>0 DEF SignInStored, StoredOver, FileWasThere, WriterStates, NoWriter
<1>7. ASSUME NEW f \in Exports, accounts_import(f) PROVE FileWasThere'
  BY <1>7, <1>0 DEF accounts_import, FileWasThere, WriterStates, NoWriter
<1>8. ASSUME import_entry PROVE FileWasThere'
  BY <1>8, <1>0 DEF import_entry, NextRow, FileWasThere, WriterStates, NoWriter
<1>9. ASSUME write_entry PROVE FileWasThere'
  BY <1>9, <1>0 DEF write_entry, NextRow, StoredOver, FileWasThere, WriterStates, NoWriter
<1>10. ASSUME accounts_import_agent PROVE FileWasThere'
  BY <1>10, <1>0 DEF accounts_import_agent, FileWasThere, WriterStates, NoWriter
<1>11. ASSUME ImportAgentPuts PROVE FileWasThere'
  BY <1>11, <1>0 DEF ImportAgentPuts, StoredOver, FileWasThere, WriterStates, NoWriter
<1>12. ASSUME NEW w \in Writers, NEW p \in People, accounts_adopt(w, p) PROVE FileWasThere'
  BY <1>12, <1>0 DEF accounts_adopt, Spawn, FileWasThere, WriterStates, NoWriter
<1>13. ASSUME AdoptWritten PROVE FileWasThere'
  BY <1>13, <1>0 DEF AdoptWritten, FileWasThere, WriterStates, NoWriter
<1>14. ASSUME MarkReads PROVE FileWasThere'
  BY <1>14, <1>0 DEF MarkReads, FileWasThere, WriterStates, NoWriter
<1>15. ASSUME mark_adopted PROVE FileWasThere'
  BY <1>15, <1>0 DEF mark_adopted, FileWasThere, WriterStates, NoWriter
<1>16. ASSUME NEW p \in People, accounts_release(p) PROVE FileWasThere'
  BY <1>16, <1>0 DEF accounts_release, FileWasThere, WriterStates, NoWriter
<1>17. ASSUME release_adopted PROVE FileWasThere'
  BY <1>17, <1>0 DEF release_adopted, FileWasThere, WriterStates, NoWriter
<1>18. ASSUME NEW p \in People, handle_account_release(p) PROVE FileWasThere'
  BY <1>18, <1>0 DEF handle_account_release, FileWasThere, WriterStates, NoWriter
<1>19. ASSUME NEW w \in Writers, WriterReads(w) PROVE FileWasThere'
  BY <1>19, <1>0 DEF WriterReads, WriterFails, WriterEnds, FileWasThere, WriterStates, NoWriter
<1>20. ASSUME NEW w \in Writers, WriterTimesOut(w) PROVE FileWasThere'
  BY <1>20, <1>0 DEF WriterTimesOut, WriterFails, WriterEnds, FileWasThere, WriterStates,
    NoWriter
<1>21. ASSUME NEW w \in Writers, WriterCopies(w) PROVE FileWasThere'
  BY <1>21, <1>0 DEF WriterCopies, WriterFails, WriterEnds, FileWasThere, WriterStates, NoWriter
<1>22. ASSUME NEW w \in Writers, write_tokens(w) PROVE FileWasThere'
  <2> DEFINE u == writer[w]
             h == u.home
  <2>1. /\ u.pc = "copied" /\ h \in Homes /\ Readable(u.was) /\ u.was \in Auths
        /\ auth' = [auth EXCEPT ![h] = Updated(u)] /\ WriterEnds(w, "ok")
    BY <1>22, <1>0 DEF write_tokens, LocksHeld, WriterStates
  <2>2. Updated(u).is \notin {"missing", "unread"}
    BY <2>1 DEF Updated, Readable, Auths, Auth
  <2>3. auth'[h] = Updated(u) /\ \A g \in Homes : g # h => auth'[g] = auth[g]
    BY <1>0, <2>1
  <2> HIDE DEF u, h
  <2>4. writer'[w].pc \in {"free", "ok"} /\ \A v \in Writers : v # w => writer'[v] = writer[v]
    BY <1>0, <2>1 DEF WriterEnds, WriterStates, NoWriter
  <2> QED
    BY <1>0, <2>2, <2>3, <2>4 DEF FileWasThere
<1>23. ASSUME NEW w \in Writers, WriteFails(w) PROVE FileWasThere'
  BY <1>23, <1>0 DEF WriteFails, WriterFails, WriterEnds, FileWasThere, WriterStates, NoWriter
<1>24. ASSUME NEW h \in Homes, NEW p \in People, CodexSignsIn(h, p) PROVE FileWasThere'
  <2>1. SignedIn(p, live'[p]).is = "tokens"
    BY DEF SignedIn
  <2>2. CodexWrites(h, SignedIn(p, live'[p]))
    BY <1>24 DEF CodexSignsIn
  <2> QED
    BY <1>0, <2>1, <2>2, CodexOvertakes DEF FileWasThere
<1>25. ASSUME NEW h \in Homes, CodexRefreshes(h) PROVE FileWasThere'
  <2> DEFINE new == [auth[h] EXCEPT !.gen = live'[auth[h].of]]
  <2>1. auth[h].is = "tokens" /\ CodexWrites(h, new)
    BY <1>25 DEF CodexRefreshes
  <2>2. new.is = "tokens"
    BY <1>0, <2>1 DEF Auths, Auth
  <2> HIDE DEF new
  <2> QED
    BY <1>0, <2>1, <2>2, CodexOvertakes DEF FileWasThere
<1>26. ASSUME NEW h \in Homes, CodexLogsOut(h) PROVE FileWasThere'
  <2>1. Missing.is = "missing" /\ CodexWrites(h, Missing)
    BY <1>26 DEF CodexLogsOut, Missing
  <2> QED
    BY <1>0, <2>1, CodexOvertakes DEF FileWasThere
<1>27. ASSUME UNCHANGED vars PROVE FileWasThere'
  BY <1>27, <1>0 DEF vars, vendor, FileWasThere, WriterStates, NoWriter
<1> QED
  BY <1>1, <1>2, <1>3, <1>4, <1>5, <1>6, <1>7, <1>8, <1>9, <1>10, <1>11, <1>12, <1>13, <1>14,
    <1>15, <1>16, <1>17, <1>18, <1>19, <1>20, <1>21, <1>22, <1>23, <1>24, <1>25, <1>26, <1>27
    DEF Next, Writing, Refreshing, Commanding

\* What storing a token over p's account does to the writers and the refresh.
LEMMA StoredOverEffect ==
  ASSUME Typed, NEW p, NEW done, StoredOver(p, done)
  PROVE  /\ refresh'.pc = refresh.pc /\ refresh'.who = refresh.who /\ refresh'.w = refresh.w
         /\ refresh'.gen = refresh.gen /\ (refresh'.over <=> refresh.over \/ refresh.who = p)
         /\ \A v \in Writers : v # done =>
              /\ writer'[v].pc = writer[v].pc /\ writer'[v].by = writer[v].by
              /\ writer'[v].of = writer[v].of /\ writer'[v].gen = writer[v].gen
              /\ writer'[v].home = writer[v].home
              /\ writer'[v].excused <=> writer[v].excused \/ writer[v].of = p
         /\ done \in Writers => writer'[done] = NoWriter
         /\ missed' = missed \cup {p}
<1>1. refresh \in TaskStates /\ writer \in [Writers -> WriterStates]
  BY DEF Typed
<1>2. /\ refresh'.pc = refresh.pc /\ refresh'.who = refresh.who /\ refresh'.w = refresh.w
      /\ refresh'.gen = refresh.gen /\ (refresh'.over <=> refresh.over \/ refresh.who = p)
  BY <1>1 DEF StoredOver, TaskStates
<1>3. ASSUME NEW v \in Writers, v # done
      PROVE  /\ writer'[v].pc = writer[v].pc /\ writer'[v].by = writer[v].by
             /\ writer'[v].of = writer[v].of /\ writer'[v].gen = writer[v].gen
             /\ writer'[v].home = writer[v].home
             /\ writer'[v].excused <=> writer[v].excused \/ writer[v].of = p
  BY <1>1, <1>3 DEF StoredOver, WriterStates
<1>4. (done \in Writers => writer'[done] = NoWriter) /\ missed' = missed \cup {p}
  BY DEF StoredOver
<1> QED
  BY <1>2, <1>3, <1>4

\* The steps that store over an account, in one form.
LEMMA StoringEffect ==
  ASSUME IInv, Storing
  PROVE  /\ UNCHANGED <<adopted, auth>>
         /\ \/ UNCHANGED <<secrets, missed, writer, refresh>>
            \/ \E p \in People, done \in Writers \cup {None} :
                 /\ StoredOver(p, done)
                 /\ \A x \in People : x # p => secrets'[Codex(x)] = secrets[Codex(x)]
                 /\ done \in Writers => writer[done].by = "signin"
<1> USE DEF IInv
<1>0. secrets \in [Ids -> Cred \cup {None}] /\ \A x \in People : Codex(x) \in Ids
  BY DEF Typed, Codex, Ids
<1>1. CASE SignInStored
  <2>1. signin.who \in People /\ signin.w \in Writers /\ writer[signin.w].by = "signin"
    BY <1>1 DEF SignInStored, Tasks, Waiting, Owned, LocksHeld
  <2>2. \A x \in People : x # signin.who => secrets'[Codex(x)] = secrets[Codex(x)]
    BY <1>0, <1>1 DEF SignInStored, Codex
  <2>3. StoredOver(signin.who, signin.w) /\ UNCHANGED <<adopted, auth>>
    BY <1>1 DEF SignInStored
  <2> QED
    BY <2>1, <2>2, <2>3
<1>2. CASE write_entry
  <2> DEFINE row == cli.rows[1]
  <2>1. row \in ImportRows /\ row.ok
    BY <1>2, ElementOfSeq DEF write_entry, RowsInHand
  <2>2. row.id \in Ids /\ row.id[2] \in People
    BY <2>1, GoodRow DEF Ids
  <2>3. CASE /\ secrets' = [secrets EXCEPT ![row.id] = [gen |-> row.gen, expiry |-> row.expiry]]
             /\ StoredOver(row.id[2], None)
    <3>1. \A x \in People : x # row.id[2] => secrets'[Codex(x)] = secrets[Codex(x)]
      BY <1>0, <2>3 DEF Codex
    <3> QED
      BY <1>2, <2>2, <2>3, <3>1, AdoptionAssumption DEF write_entry
  <2> QED
    BY <1>2, <2>3 DEF write_entry
<1>3. CASE ImportAgentPuts
  <2> DEFINE row == cli.rows[1]
  <2>1. row \in AgentRows
    BY <1>3, ElementOfSeq DEF ImportAgentPuts, RowsInHand
  <2>2. row.id \in Ids /\ row.id[2] \in People
    BY <2>1 DEF AgentRows, Ids
  <2>3. CASE /\ secrets' = [secrets EXCEPT ![row.id] = [gen |-> row.gen, expiry |-> row.expiry]]
             /\ StoredOver(row.id[2], None)
    <3>1. \A x \in People : x # row.id[2] => secrets'[Codex(x)] = secrets[Codex(x)]
      BY <1>0, <2>3 DEF Codex
    <3> QED
      BY <1>3, <2>2, <2>3, <3>1, AdoptionAssumption DEF ImportAgentPuts
  <2> QED
    BY <1>3, <2>3 DEF ImportAgentPuts
<1> QED
  BY <1>1, <1>2, <1>3 DEF Storing

LEMMA NewestStep ==
  ASSUME IInv, [Next]_vars, Typed'
  PROVE  Newest'
<1> USE DEF IInv
<1>0. /\ writer \in [Writers -> WriterStates] /\ refresh \in TaskStates
      /\ secrets \in [Ids -> Cred \cup {None}]
      /\ \A v \in Writers : writer[v].pc # "free" => writer[v].of \in People
  BY DEF Typed, LocksHeld
<1>stored. ASSUME Storing PROVE Newest'
  <2>1. CASE UNCHANGED <<secrets, missed, writer, refresh>>
    BY <2>1 DEF Newest
  <2>2. ASSUME NEW p \in People, NEW done \in Writers \cup {None}, StoredOver(p, done),
               \A x \in People : x # p => secrets'[Codex(x)] = secrets[Codex(x)]
        PROVE  Newest'
    <3>1. refresh.pc = "lookup" => refresh.who \in People
      BY DEF Tasks
    <3>2. NoWriter.pc = "free"
      BY DEF NoWriter
    <3> QED
      BY <1>0, <2>2, <3>1, <3>2, StoredOverEffect DEF Newest
  <2> QED
    BY <1>stored, <2>1, <2>2, StoringEffect
<1>1. ASSUME NEW p \in People, RefreshStores(p) PROVE Newest'
  BY <1>1, <1>0 DEF RefreshStores, Newest, Owned, Tasks, Waiting, WriterStates, TaskStates,
    NoWriter, NoTask, Codex, Ids
<1>2. ASSUME NEW w \in Writers, NEW i \in BOOLEAN, RefreshLooksUp(w, i) PROVE Newest'
  <2>1. CASE adopted[refresh.who] = None
    BY <1>2, <2>1 DEF RefreshLooksUp, Newest, NoTask
  <2>2. CASE adopted[refresh.who] # None
    <3>1. /\ Spawn(w, "refresh", adopted[refresh.who], refresh.who, refresh.gen, i)
          /\ refresh' = [refresh EXCEPT !.pc = "await", !.w = w] /\ UNCHANGED secrets
      BY <1>2, <2>2 DEF RefreshLooksUp
    <3>2. refresh'.pc = "await" /\ refresh.pc = "lookup"
      BY <1>2, <1>0, <3>1 DEF RefreshLooksUp, TaskStates
    <3>3. /\ writer'[w].of = refresh.who /\ writer'[w].gen = refresh.gen
          /\ writer'[w].excused = refresh.over
          /\ \A v \in Writers : v # w => writer'[v] = writer[v]
      BY <1>0, <3>1 DEF Spawn, NoWriter, TaskStates
    <3> QED
      BY <3>1, <3>2, <3>3 DEF Newest
  <2> QED
    BY <2>1, <2>2
<1>3. ASSUME RefreshReturns PROVE Newest'
  BY <1>3, <1>0 DEF RefreshReturns, Newest, Owned, Tasks, Waiting, WriterStates, TaskStates,
    NoWriter, NoTask, Codex, Ids
<1>4. ASSUME RefreshCancelled PROVE Newest'
  BY <1>4, <1>0 DEF RefreshCancelled, Newest, Owned, Tasks, Waiting, WriterStates, TaskStates,
    NoWriter, NoTask, Codex, Ids
<1>5. ASSUME NEW w \in Writers, NEW p \in People, SignInCompletes(w, p) PROVE Newest'
  BY <1>5, <1>0 DEF SignInCompletes, Spawn, Newest, Owned, Tasks, Waiting, WriterStates,
    TaskStates, NoWriter, NoTask, Codex, Ids
<1>6. ASSUME SignInStored PROVE Newest'
  BY <1>stored, <1>6 DEF Storing
<1>7. ASSUME NEW f \in Exports, accounts_import(f) PROVE Newest'
  BY <1>7, <1>0 DEF accounts_import, Newest, Owned, Tasks, Waiting, WriterStates, TaskStates,
    NoWriter, NoTask, Codex, Ids
<1>8. ASSUME import_entry PROVE Newest'
  BY <1>8, <1>0 DEF import_entry, NextRow, Newest, Owned, Tasks, Waiting, WriterStates,
    TaskStates, NoWriter, NoTask, Codex, Ids
<1>9. ASSUME write_entry PROVE Newest'
  BY <1>stored, <1>9 DEF Storing
<1>10. ASSUME accounts_import_agent PROVE Newest'
  BY <1>10, <1>0 DEF accounts_import_agent, Newest, Owned, Tasks, Waiting, WriterStates,
    TaskStates, NoWriter, NoTask, Codex, Ids
<1>11. ASSUME ImportAgentPuts PROVE Newest'
  BY <1>stored, <1>11 DEF Storing
<1>12. ASSUME NEW w \in Writers, NEW p \in People, accounts_adopt(w, p) PROVE Newest'
  BY <1>12, <1>0 DEF accounts_adopt, Spawn, Newest, Owned, Tasks, Waiting, WriterStates,
    TaskStates, NoWriter, NoTask, Codex, Ids
<1>13. ASSUME AdoptWritten PROVE Newest'
  BY <1>13, <1>0 DEF AdoptWritten, Newest, Owned, Tasks, Waiting, WriterStates, TaskStates,
    NoWriter, NoTask, Codex, Ids
<1>14. ASSUME MarkReads PROVE Newest'
  BY <1>14, <1>0 DEF MarkReads, Newest, Owned, Tasks, Waiting, WriterStates, TaskStates,
    NoWriter, NoTask, Codex, Ids
<1>15. ASSUME mark_adopted PROVE Newest'
  BY <1>15, <1>0 DEF mark_adopted, Newest, Owned, Tasks, Waiting, WriterStates, TaskStates,
    NoWriter, NoTask, Codex, Ids
<1>16. ASSUME NEW p \in People, accounts_release(p) PROVE Newest'
  BY <1>16, <1>0 DEF accounts_release, Newest, Owned, Tasks, Waiting, WriterStates, TaskStates,
    NoWriter, NoTask, Codex, Ids
<1>17. ASSUME release_adopted PROVE Newest'
  BY <1>17, <1>0 DEF release_adopted, Newest, Owned, Tasks, Waiting, WriterStates, TaskStates,
    NoWriter, NoTask, Codex, Ids
<1>18. ASSUME NEW p \in People, handle_account_release(p) PROVE Newest'
  BY <1>18, <1>0 DEF handle_account_release, Newest, Owned, Tasks, Waiting, WriterStates,
    TaskStates, NoWriter, NoTask, Codex, Ids
<1>19. ASSUME NEW w \in Writers, WriterReads(w) PROVE Newest'
  <2>1. CASE writer' = [writer EXCEPT ![w].pc = "read", ![w].was = auth[writer[w].home]]
    BY <1>19, <1>0, <2>1 DEF WriterReads, Newest, WriterStates
  <2>2. CASE WriterEnds(w, "failed")
    BY <1>19, <1>0, <2>2 DEF WriterReads, WriterEnds, Newest, WriterStates, NoWriter
  <2> QED
    BY <1>19, <2>1, <2>2 DEF WriterReads, WriterFails
<1>20. ASSUME NEW w \in Writers, WriterTimesOut(w) PROVE Newest'
  BY <1>20, <1>0 DEF WriterTimesOut, WriterFails, WriterEnds, Newest, Owned, Tasks, Waiting,
    WriterStates, TaskStates, NoWriter, NoTask, Codex, Ids
<1>21. ASSUME NEW w \in Writers, WriterCopies(w) PROVE Newest'
  <2>1. CASE writer' = [writer EXCEPT ![w].pc = "copied"]
    BY <1>21, <1>0, <2>1 DEF WriterCopies, Newest, WriterStates
  <2>2. CASE WriterEnds(w, "failed")
    BY <1>21, <1>0, <2>2 DEF WriterCopies, WriterEnds, Newest, WriterStates, NoWriter
  <2> QED
    BY <1>21, <2>1, <2>2 DEF WriterCopies, WriterFails
<1>22. ASSUME NEW w \in Writers, write_tokens(w) PROVE Newest'
  BY <1>22, <1>0 DEF write_tokens, WriterEnds, Newest, Owned, Tasks, Waiting, WriterStates,
    TaskStates, NoWriter, NoTask, Codex, Ids
<1>23. ASSUME NEW w \in Writers, WriteFails(w) PROVE Newest'
  BY <1>23, <1>0 DEF WriteFails, WriterFails, WriterEnds, Newest, Owned, Tasks, Waiting,
    WriterStates, TaskStates, NoWriter, NoTask, Codex, Ids
<1>24. ASSUME NEW h \in Homes, NEW p \in People, CodexSignsIn(h, p) PROVE Newest'
  BY <1>24, <1>0 DEF CodexSignsIn, CodexWrites, Newest, Owned, Tasks, Waiting, WriterStates,
    TaskStates, NoWriter, NoTask, Codex, Ids
<1>25. ASSUME NEW h \in Homes, CodexRefreshes(h) PROVE Newest'
  BY <1>25, <1>0 DEF CodexRefreshes, CodexWrites, Newest, Owned, Tasks, Waiting, WriterStates,
    TaskStates, NoWriter, NoTask, Codex, Ids
<1>26. ASSUME NEW h \in Homes, CodexLogsOut(h) PROVE Newest'
  BY <1>26, <1>0 DEF CodexLogsOut, CodexWrites, Newest, Owned, Tasks, Waiting, WriterStates,
    TaskStates, NoWriter, NoTask, Codex, Ids
<1>27. ASSUME UNCHANGED vars PROVE Newest'
  BY <1>27, <1>0 DEF vars, vendor, Newest, Owned, Tasks, Waiting, WriterStates, TaskStates,
    NoWriter, NoTask, Codex, Ids
<1> QED
  BY <1>1, <1>2, <1>3, <1>4, <1>5, <1>6, <1>7, <1>8, <1>9, <1>10, <1>11, <1>12, <1>13, <1>14,
    <1>15, <1>16, <1>17, <1>18, <1>19, <1>20, <1>21, <1>22, <1>23, <1>24, <1>25, <1>26, <1>27
    DEF Next, Writing, Refreshing, Commanding

(***************************************************************************)
(* An adopted account's file holds the stored token.                       *)
(***************************************************************************)
Settled(p) == /\ Landed(p) => Current(p, cli.home)
              /\ adopted[p] # None /\ ~Landed(p) => Current(p, adopted[p]) \/ Ahead(p, adopted[p])

LEMMA SettledKept ==
  ASSUME NEW p, Settled(p), Landed(p)' <=> Landed(p),
         Landed(p) => cli'.home = cli.home /\ auth'[cli.home] = auth[cli.home],
         adopted'[p] = adopted[p], adopted[p] # None => auth'[adopted[p]] = auth[adopted[p]],
         secrets'[Codex(p)] = secrets[Codex(p)],
         adopted[p] # None /\ Ahead(p, adopted[p]) => Ahead(p, adopted[p])'
  PROVE  Settled(p)'
<1>1. /\ Landed(p) => (Current(p, cli.home)' <=> Current(p, cli.home))
      /\ adopted[p] # None => (Current(p, adopted[p])' <=> Current(p, adopted[p]))
  BY DEF Current, Codex
<1> QED
  BY <1>1 DEF Settled

\* A write-back and an adoption under way have each their own writer.
LEMMA TwoWriters ==
  ASSUME IInv
  PROVE  /\ refresh.pc = "await" =>
              /\ refresh.w \in Writers /\ writer[refresh.w].pc # "free" /\ writer[refresh.w].by = "refresh"
              /\ ~writer[refresh.w].detached /\ writer[refresh.w].of = refresh.who
         /\ cli.pc = "await" =>
              /\ cli.w \in Writers /\ writer[cli.w].pc # "free" /\ writer[cli.w].by = "adopt"
              /\ ~writer[cli.w].detached /\ writer[cli.w].of = cli.who /\ writer[cli.w].home = cli.home
         /\ cli.pc = "await" /\ refresh.pc = "await" => cli.w # refresh.w
  BY DEF IInv, Tasks, Waiting, Owned, LocksHeld

LEMMA SettledStep ==
  ASSUME IInv, [Next]_vars, Typed', NEW p \in People, p \notin missed'
  PROVE  Settled(p)'
<1> USE DEF IInv
<1>0. /\ writer \in [Writers -> WriterStates] /\ refresh \in TaskStates /\ cli \in CliStates
      /\ auth \in [Homes -> Auths] /\ adopted \in Snaps /\ None \notin People \cup Homes \cup Writers
      /\ missed \in SUBSET People
  BY AdoptionAssumption DEF Typed
<1>old. p \notin missed => Settled(p)
  BY DEF MarkedCurrent, LandedCurrent, Settled
<1>none. NoWriter.pc = "free" /\ NoTask.pc = "idle" /\ NoCli.pc = "idle" /\ NoTask.who = None /\ NoCli.who = None
  BY DEF NoWriter, NoTask, NoCli
<1>stored. ASSUME Storing, UNCHANGED cli \/ (cli.pc = "put" /\ cli'.pc \in {"idle", "check", "put"})
        PROVE  Settled(p)'
  <2>1. UNCHANGED <<adopted, auth>>
    BY <1>stored, StoringEffect
  <2>2. CASE UNCHANGED <<secrets, missed, writer, refresh>>
    <3>1. Landed(p)' <=> Landed(p)
      BY <1>stored, <2>2 DEF Landed
    <3>2. adopted[p] # None /\ Ahead(p, adopted[p]) => Ahead(p, adopted[p])'
      BY <2>1, <2>2 DEF Ahead
    <3>3. Landed(p) => cli'.home = cli.home
      BY <1>stored DEF Landed
    <3> QED
      BY <1>old, <2>1, <2>2, <3>1, <3>2, <3>3, SettledKept
  <2>3. ASSUME NEW q \in People, NEW done \in Writers \cup {None}, StoredOver(q, done),
               \A x \in People : x # q => secrets'[Codex(x)] = secrets[Codex(x)],
               done \in Writers => writer[done].by = "signin"
        PROVE  Settled(p)'
    <3>1. p \notin missed /\ p # q
      BY <2>3, StoredOverEffect
    <3>2. Landed(p)' <=> Landed(p)
      BY <1>stored, <2>3, StoredOverEffect, TwoWriters DEF Landed
    <3>3. Landed(p) => cli'.home = cli.home
      BY <1>stored DEF Landed
    <3>4. adopted[p] # None /\ Ahead(p, adopted[p]) => Ahead(p, adopted[p])'
      BY <2>1, <2>3, <3>1, StoredOverEffect, TwoWriters DEF Ahead
    <3> QED
      BY <1>old, <2>1, <2>3, <3>1, <3>2, <3>3, <3>4, SettledKept
  <2> QED
    BY <1>stored, <2>2, <2>3, StoringEffect
<1>codex. ASSUME NEW h \in Homes, NEW new, CodexWrites(h, new)
        PROVE  Settled(p)'
  <2>1. p \notin missed /\ p \notin Touched(h) /\ UNCHANGED <<secrets, adopted, refresh, cli>>
    BY <1>codex DEF CodexWrites
  <2>2. Landed(p)' <=> Landed(p)
    BY <1>codex, <2>1, CodexOvertakes, TwoWriters DEF Landed
  <2>3. adopted[p] # None /\ Ahead(p, adopted[p]) => Ahead(p, adopted[p])'
    BY <1>codex, <2>1, CodexOvertakes, TwoWriters DEF Ahead
  <2>4. Landed(p) => cli.home \in Homes /\ cli.home # h
    BY <2>1, TwoWriters DEF Landed, Touched, Tasks, LocksHeld
  <2>5. adopted[p] # None => adopted[p] \in Homes /\ adopted[p] # h
    BY <1>0, <2>1 DEF Touched, Snaps
  <2>6. \A g \in Homes : g # h => auth'[g] = auth[g]
    BY <1>0, <1>codex DEF CodexWrites
  <2> QED
    BY <1>old, <2>1, <2>2, <2>3, <2>4, <2>5, <2>6, SettledKept
<1>1. ASSUME NEW q \in People, RefreshStores(q) PROVE Settled(p)'
  <2>1. /\ refresh.pc = "idle" /\ p \notin missed /\ UNCHANGED <<adopted, auth, writer, cli>>
        /\ refresh'.pc = "lookup" /\ refresh'.who = q /\ ~refresh'.over
        /\ \A x \in People : x # q => secrets'[Codex(x)] = secrets[Codex(x)]
        /\ cli.who = q => q \in missed'
    BY <1>1, <1>0 DEF RefreshStores, NoTask, Typed, Codex, Ids
  <2>2. Landed(p)' <=> Landed(p)
    BY <2>1 DEF Landed
  <2>3. CASE p = q
    <3>1. ~Landed(p)' /\ Ahead(p, adopted[p])'
      BY <2>1, <2>2, <2>3 DEF Landed, Ahead
    <3> QED
      BY <3>1 DEF Settled
  <2>4. CASE p # q
    <3>1. ~Ahead(p, adopted[p])
      BY <2>1 DEF Ahead
    <3> QED
      BY <1>old, <2>1, <2>2, <2>4, <3>1, SettledKept
  <2> QED
    BY <2>3, <2>4
<1>2. ASSUME NEW w \in Writers, NEW i \in BOOLEAN, RefreshLooksUp(w, i) PROVE Settled(p)'
  <2>0. p \notin missed /\ UNCHANGED <<auth, secrets, adopted, cli>> /\ refresh.pc = "lookup"
    BY <1>2 DEF RefreshLooksUp
  <2>1. CASE adopted[refresh.who] = None
    <3>1. UNCHANGED writer
      BY <1>2, <2>1 DEF RefreshLooksUp
    <3>2. Landed(p)' <=> Landed(p)
      BY <2>0, <3>1 DEF Landed
    <3>3. ~(adopted[p] # None /\ Ahead(p, adopted[p]))
      BY <2>0, <2>1 DEF Ahead
    <3> QED
      BY <1>old, <2>0, <3>2, <3>3, SettledKept
  <2>2. CASE adopted[refresh.who] # None
    <3>0. Spawn(w, "refresh", adopted[refresh.who], refresh.who, refresh.gen, i)
      BY <1>2, <2>2 DEF RefreshLooksUp
    <3>1. /\ \A v \in Writers : v # w => writer'[v] = writer[v]
          /\ writer[w].pc = "free" /\ writer'[w].pc = "start"
          /\ writer'[w].home = adopted[refresh.who] /\ writer'[w].excused = refresh.over
      BY <1>0, <3>0 DEF Spawn, NoWriter, TaskStates
    <3>2. refresh'.pc = "await" /\ refresh'.w = w /\ refresh'.who = refresh.who
      BY <1>2, <1>0, <2>2 DEF RefreshLooksUp, TaskStates
    <3>3. Landed(p)' <=> Landed(p)
      BY <2>0, <3>1, TwoWriters DEF Landed
    <3>4. adopted[p] # None /\ Ahead(p, adopted[p]) => Ahead(p, adopted[p])'
      BY <2>0, <3>1, <3>2 DEF Ahead
    <3> QED
      BY <1>old, <2>0, <3>3, <3>4, SettledKept
  <2> QED
    BY <2>1, <2>2
<1>3. ASSUME RefreshReturns PROVE Settled(p)'
  <2>1. /\ p \notin missed /\ UNCHANGED <<auth, secrets, adopted, cli>> /\ refresh.pc = "await"
        /\ writer[refresh.w].pc \in {"ok", "failed"}
        /\ \A v \in Writers : v # refresh.w => writer'[v] = writer[v]
    BY <1>3, <1>0 DEF RefreshReturns
  <2>2. Landed(p)' <=> Landed(p)
    BY <2>1, TwoWriters DEF Landed
  <2>3. ~Ahead(p, adopted[p])
    BY <2>1 DEF Ahead
  <2> QED
    BY <1>old, <2>1, <2>2, <2>3, SettledKept
<1>4. ASSUME RefreshCancelled PROVE Settled(p)'
  <2>1. /\ p \notin missed /\ p # refresh.who /\ UNCHANGED <<auth, secrets, adopted, cli>>
        /\ refresh.pc = "await" /\ \A v \in Writers : v # refresh.w => writer'[v] = writer[v]
    BY <1>4, <1>0 DEF RefreshCancelled
  <2>2. Landed(p)' <=> Landed(p)
    BY <2>1, TwoWriters DEF Landed
  <2>3. ~Ahead(p, adopted[p])
    BY <2>1 DEF Ahead
  <2> QED
    BY <1>old, <2>1, <2>2, <2>3, SettledKept
<1>5. ASSUME NEW w \in Writers, NEW q \in People, SignInCompletes(w, q) PROVE Settled(p)'
  <2>1. /\ \A v \in Writers : v # w => writer'[v] = writer[v]
        /\ writer[w].pc = "free" /\ writer'[w].pc = "start"
    BY <1>5, <1>0 DEF SignInCompletes, Spawn, NoWriter
  <2>2. p \notin missed /\ UNCHANGED <<auth, secrets, adopted, refresh>>
    BY <1>5 DEF SignInCompletes, Spawn
  <2>3. Landed(p)' <=> Landed(p)
    BY <1>5, <1>0, <1>none, <2>1, TwoWriters DEF SignInCompletes, Spawn, Landed, CliStates
  <2>4. adopted[p] # None /\ Ahead(p, adopted[p]) => Ahead(p, adopted[p])'
    BY <2>1, <2>2, TwoWriters DEF Ahead
  <2>5. Landed(p) => cli'.home = cli.home
    BY <1>5 DEF SignInCompletes, Spawn, Landed
  <2> QED
    BY <1>old, <2>2, <2>3, <2>4, <2>5, SettledKept
<1>6. ASSUME SignInStored PROVE Settled(p)'
  <2>1. UNCHANGED cli
    BY <1>6 DEF SignInStored
  <2> QED
    BY <1>6, <1>stored, <2>1 DEF Storing, Landed
<1>7. ASSUME NEW f \in Exports, accounts_import(f) PROVE Settled(p)'
  <2>1. Landed(p)' <=> Landed(p)
    BY <1>7, <1>0, <1>none, TwoWriters DEF accounts_import, Landed, CliStates
  <2>2. adopted[p] # None /\ Ahead(p, adopted[p]) => Ahead(p, adopted[p])'
    BY <1>7, <1>0, <1>none, TwoWriters DEF accounts_import, Ahead
  <2>3. Landed(p) => cli'.home = cli.home
    BY <1>7, <1>0 DEF accounts_import, Landed, CliStates
  <2> QED
    BY <1>7, <1>old, <2>1, <2>2, SettledKept, <2>3 DEF accounts_import
<1>8. ASSUME import_entry PROVE Settled(p)'
  <2>1. Landed(p)' <=> Landed(p)
    BY <1>8, <1>0, <1>none, TwoWriters DEF import_entry, NextRow, Landed, CliStates
  <2>2. adopted[p] # None /\ Ahead(p, adopted[p]) => Ahead(p, adopted[p])'
    BY <1>8, <1>0, <1>none, TwoWriters DEF import_entry, NextRow, Ahead
  <2>3. Landed(p) => cli'.home = cli.home
    BY <1>8, <1>0 DEF import_entry, NextRow, Landed, CliStates
  <2> QED
    BY <1>8, <1>old, <2>1, <2>2, SettledKept, <2>3 DEF import_entry, NextRow
<1>9. ASSUME write_entry PROVE Settled(p)'
  <2>1. cli.pc = "put" /\ cli'.pc \in {"idle", "check"}
    BY <1>9, <1>0, <1>none DEF write_entry, NextRow, CliStates
  <2> QED
    BY <1>9, <1>stored, <2>1 DEF Storing, Landed
<1>10. ASSUME accounts_import_agent PROVE Settled(p)'
  <2>1. Landed(p)' <=> Landed(p)
    BY <1>10, <1>0, <1>none, TwoWriters DEF accounts_import_agent, Landed, CliStates
  <2>2. adopted[p] # None /\ Ahead(p, adopted[p]) => Ahead(p, adopted[p])'
    BY <1>10, <1>0, <1>none, TwoWriters DEF accounts_import_agent, Ahead
  <2>3. Landed(p) => cli'.home = cli.home
    BY <1>10, <1>0 DEF accounts_import_agent, Landed, CliStates
  <2> QED
    BY <1>10, <1>old, <2>1, <2>2, SettledKept, <2>3 DEF accounts_import_agent
<1>11. ASSUME ImportAgentPuts PROVE Settled(p)'
  <2>1. cli.pc = "put" /\ cli'.pc \in {"idle", "put"}
    BY <1>11, <1>0, <1>none DEF ImportAgentPuts, CliStates
  <2> QED
    BY <1>11, <1>stored, <2>1 DEF Storing, Landed
<1>12. ASSUME NEW w \in Writers, NEW q \in People, accounts_adopt(w, q) PROVE Settled(p)'
  <2>1. /\ \A v \in Writers : v # w => writer'[v] = writer[v]
        /\ writer[w].pc = "free" /\ writer'[w].pc = "start"
    BY <1>12, <1>0 DEF accounts_adopt, Spawn, NoWriter
  <2>2. p \notin missed /\ UNCHANGED <<auth, secrets, adopted, refresh>>
    BY <1>12 DEF accounts_adopt, Spawn
  <2>3. Landed(p)' <=> Landed(p)
    BY <1>12, <1>0, <1>none, <2>1, TwoWriters DEF accounts_adopt, Spawn, Landed, CliStates
  <2>4. adopted[p] # None /\ Ahead(p, adopted[p]) => Ahead(p, adopted[p])'
    BY <2>1, <2>2, TwoWriters DEF Ahead
  <2>5. Landed(p) => cli'.home = cli.home
    BY <1>12 DEF accounts_adopt, Spawn, Landed
  <2> QED
    BY <1>old, <2>2, <2>3, <2>4, <2>5, SettledKept
<1>13. ASSUME AdoptWritten PROVE Settled(p)'
  <2>1. /\ p \notin missed /\ UNCHANGED <<auth, secrets, adopted, refresh>> /\ cli.pc = "await"
        /\ writer[cli.w].pc \in {"ok", "failed"}
        /\ \A v \in Writers : v # cli.w => writer'[v] = writer[v]
    BY <1>13, <1>0 DEF AdoptWritten
  <2>2. IF writer[cli.w].pc = "ok" THEN cli'.pc = "mark" /\ cli'.who = cli.who /\ cli'.home = cli.home
        ELSE cli'.pc = "idle"
    BY <1>13, <1>0, <1>none DEF AdoptWritten, CliStates
  <2>3. Landed(p)' <=> Landed(p)
    BY <2>1, <2>2 DEF Landed
  <2>4. adopted[p] # None /\ Ahead(p, adopted[p]) => Ahead(p, adopted[p])'
    BY <2>1, TwoWriters DEF Ahead
  <2>5. Landed(p) => cli'.home = cli.home
    BY <2>1, <2>2 DEF Landed
  <2> QED
    BY <1>old, <2>1, <2>3, <2>4, <2>5, SettledKept
<1>14. ASSUME MarkReads PROVE Settled(p)'
  <2>1. Landed(p)' <=> Landed(p)
    BY <1>14, <1>0, <1>none, TwoWriters DEF MarkReads, Landed, CliStates
  <2>2. adopted[p] # None /\ Ahead(p, adopted[p]) => Ahead(p, adopted[p])'
    BY <1>14, <1>0, <1>none, TwoWriters DEF MarkReads, Ahead
  <2>3. Landed(p) => cli'.home = cli.home
    BY <1>14, <1>0 DEF MarkReads, Landed, CliStates
  <2> QED
    BY <1>14, <1>old, <2>1, <2>2, SettledKept, <2>3 DEF MarkReads
<1>15. ASSUME mark_adopted PROVE Settled(p)'
  <2>1. /\ cli.pc = "save" /\ p \notin missed /\ cli'.pc = "idle" /\ UNCHANGED <<auth, secrets, refresh, writer>>
        /\ adopted' = [cli.snap EXCEPT ![cli.who] = cli.home]
        /\ p \in Displaced(cli.snap) => p = cli.who
    BY <1>15, <1>none DEF mark_adopted
  <2>2. ~Landed(p)'
    BY <2>1 DEF Landed
  <2>3. CASE p = cli.who
    <3>1. Current(p, cli.home) /\ adopted'[p] = cli.home
      BY <1>0, <1>old, <2>1, <2>3 DEF Settled, Landed, CliStates, Snaps
    <3>2. Current(p, adopted[p])'
      BY <2>1, <3>1 DEF Current, Codex
    <3> QED
      BY <2>2, <3>2 DEF Settled
  <2>4. CASE p # cli.who
    <3>1. ~Landed(p) /\ adopted'[p] = adopted[p]
      BY <1>0, <2>1, <2>4 DEF Landed, Displaced, CliStates, Snaps
    <3>2. Ahead(p, adopted[p]) => Ahead(p, adopted[p])'
      BY <2>1, <3>1 DEF Ahead
    <3> QED
      BY <1>old, <2>1, <2>2, <3>1, <3>2, SettledKept
  <2> QED
    BY <2>3, <2>4
<1>16. ASSUME NEW q \in People, accounts_release(q) PROVE Settled(p)'
  <2>1. Landed(p)' <=> Landed(p)
    BY <1>16, <1>0, <1>none, TwoWriters DEF accounts_release, Landed, CliStates
  <2>2. adopted[p] # None /\ Ahead(p, adopted[p]) => Ahead(p, adopted[p])'
    BY <1>16, <1>0, <1>none, TwoWriters DEF accounts_release, Ahead
  <2>3. Landed(p) => cli'.home = cli.home
    BY <1>16, <1>0 DEF accounts_release, Landed, CliStates
  <2> QED
    BY <1>16, <1>old, <2>1, <2>2, SettledKept, <2>3 DEF accounts_release
<1>17. ASSUME release_adopted PROVE Settled(p)'
  <2>1. p \notin missed /\ UNCHANGED <<auth, secrets, refresh, writer>>
    BY <1>17 DEF release_adopted
  <2>2. Landed(p)' <=> Landed(p)
    BY <1>17, <1>none, <2>1 DEF release_adopted, Landed
  <2>3. Landed(p) => cli'.home = cli.home
    BY <1>17 DEF release_adopted, Landed
  <2>4. adopted'[p] = None \/ adopted'[p] = adopted[p]
    <3>1. web \in WebStates
      BY DEF Typed
    <3>2. CASE adopted' = [cli.snap EXCEPT ![cli.who] = None] /\ missed' = missed \cup (Displaced(cli.snap) \ {cli.who})
      BY <1>0, <3>2 DEF Displaced, CliStates, Snaps
    <3>3. CASE adopted' = [web.snap EXCEPT ![web.who] = None] /\ missed' = missed \cup (Displaced(web.snap) \ {web.who})
      BY <1>0, <3>1, <3>3 DEF Displaced, WebStates, Snaps
    <3> QED
      BY <1>17, <3>2, <3>3 DEF release_adopted
  <2>5. CASE adopted'[p] = None
    <3>1. Landed(p) => Current(p, cli.home)'
      BY <1>old, <2>1, <2>3 DEF Settled, Current, Codex
    <3> QED
      BY <2>2, <2>5, <3>1 DEF Settled
  <2>6. CASE adopted'[p] = adopted[p]
    <3>1. Ahead(p, adopted[p]) => Ahead(p, adopted[p])'
      BY <2>1, <2>6 DEF Ahead
    <3> QED
      BY <1>old, <2>1, <2>2, <2>3, <2>6, <3>1, SettledKept
  <2> QED
    BY <2>4, <2>5, <2>6
<1>18. ASSUME NEW q \in People, handle_account_release(q) PROVE Settled(p)'
  <2>1. Landed(p)' <=> Landed(p)
    BY <1>18, <1>0, <1>none, TwoWriters DEF handle_account_release, Landed, CliStates
  <2>2. adopted[p] # None /\ Ahead(p, adopted[p]) => Ahead(p, adopted[p])'
    BY <1>18, <1>0, <1>none, TwoWriters DEF handle_account_release, Ahead
  <2>3. Landed(p) => cli'.home = cli.home
    BY <1>18, <1>0 DEF handle_account_release, Landed, CliStates
  <2> QED
    BY <1>18, <1>old, <2>1, <2>2, SettledKept, <2>3 DEF handle_account_release
<1>19. ASSUME NEW w \in Writers, WriterReads(w) PROVE Settled(p)'
  <2>1. CASE writer' = [writer EXCEPT ![w].pc = "read", ![w].was = auth[writer[w].home]]
    <3>1. /\ \A v \in Writers : v # w => writer'[v] = writer[v]
          /\ writer[w].pc = "start" /\ writer'[w].pc = "read" /\ writer'[w].home = writer[w].home
          /\ writer'[w].excused = writer[w].excused
      BY <1>19, <2>1, <1>0 DEF WriterReads, WriterFails, WriterEnds, WriterStates
    <3>2. p \notin missed /\ UNCHANGED <<auth, secrets, adopted, cli, refresh>>
      BY <1>19, <2>1, <1>0, <3>1 DEF WriterReads, WriterFails, WriterEnds
    <3>3. Landed(p)' <=> Landed(p)
      BY <3>1, <3>2, TwoWriters DEF Landed
    <3>4. adopted[p] # None /\ Ahead(p, adopted[p]) => Ahead(p, adopted[p])'
      BY <3>1, <3>2, TwoWriters DEF Ahead
    <3> QED
      BY <1>old, <3>2, <3>3, <3>4, SettledKept
  <2>2. CASE WriterFails(w)
    <3>1. /\ \A v \in Writers : v # w => writer'[v] = writer[v]
          /\ writer'[w].pc \in {"free", "failed"} /\ (writer'[w].pc = "free" => writer[w].detached)
          /\ writer[w].pc # "ok" /\ writer[w].pc # "free"
          /\ writer[w].by = "refresh" => writer[w].of \in missed'
      BY <1>19, <2>2, <1>0, <1>none DEF WriterReads, WriterFails, WriterEnds, WriterStates, LocksHeld
    <3>2. p \notin missed /\ UNCHANGED <<auth, secrets, adopted, cli, refresh>>
      BY <1>19, <2>2 DEF WriterReads, WriterFails, WriterEnds
    <3>3. Landed(p)' <=> Landed(p)
      BY <3>1, <3>2, TwoWriters DEF Landed
    <3>4. adopted[p] # None /\ Ahead(p, adopted[p]) => Ahead(p, adopted[p])'
      BY <3>1, <3>2, TwoWriters DEF Ahead
    <3> QED
      BY <1>old, <3>2, <3>3, <3>4, SettledKept
  <2> QED
    BY <1>19, <2>1, <2>2 DEF WriterReads
<1>20. ASSUME NEW w \in Writers, WriterTimesOut(w) PROVE Settled(p)'
  <2>1. /\ \A v \in Writers : v # w => writer'[v] = writer[v]
        /\ writer'[w].pc \in {"free", "failed"} /\ (writer'[w].pc = "free" => writer[w].detached)
        /\ writer[w].pc # "ok" /\ writer[w].pc # "free"
        /\ writer[w].by = "refresh" => writer[w].of \in missed'
    BY <1>20, <1>0, <1>none DEF WriterTimesOut, WriterFails, WriterEnds, WriterStates, LocksHeld
  <2>2. p \notin missed /\ UNCHANGED <<auth, secrets, adopted, cli, refresh>>
    BY <1>20 DEF WriterTimesOut, WriterFails, WriterEnds
  <2>3. Landed(p)' <=> Landed(p)
    BY <2>1, <2>2, TwoWriters DEF Landed
  <2>4. adopted[p] # None /\ Ahead(p, adopted[p]) => Ahead(p, adopted[p])'
    BY <2>1, <2>2, TwoWriters DEF Ahead
  <2> QED
    BY <1>old, <2>2, <2>3, <2>4, SettledKept
<1>21. ASSUME NEW w \in Writers, WriterCopies(w) PROVE Settled(p)'
  <2>1. CASE writer' = [writer EXCEPT ![w].pc = "copied"]
    <3>1. /\ \A v \in Writers : v # w => writer'[v] = writer[v]
          /\ writer[w].pc = "read" /\ writer'[w].pc = "copied" /\ writer'[w].home = writer[w].home
          /\ writer'[w].excused = writer[w].excused
      BY <1>21, <2>1, <1>0 DEF WriterCopies, WriterFails, WriterEnds, WriterStates
    <3>2. p \notin missed /\ UNCHANGED <<auth, secrets, adopted, cli, refresh>>
      BY <1>21, <2>1, <1>0, <3>1 DEF WriterCopies, WriterFails, WriterEnds
    <3>3. Landed(p)' <=> Landed(p)
      BY <3>1, <3>2, TwoWriters DEF Landed
    <3>4. adopted[p] # None /\ Ahead(p, adopted[p]) => Ahead(p, adopted[p])'
      BY <3>1, <3>2, TwoWriters DEF Ahead
    <3> QED
      BY <1>old, <3>2, <3>3, <3>4, SettledKept
  <2>2. CASE WriterFails(w)
    <3>1. /\ \A v \in Writers : v # w => writer'[v] = writer[v]
          /\ writer'[w].pc \in {"free", "failed"} /\ (writer'[w].pc = "free" => writer[w].detached)
          /\ writer[w].pc # "ok" /\ writer[w].pc # "free"
          /\ writer[w].by = "refresh" => writer[w].of \in missed'
      BY <1>21, <2>2, <1>0, <1>none DEF WriterCopies, WriterFails, WriterEnds, WriterStates, LocksHeld
    <3>2. p \notin missed /\ UNCHANGED <<auth, secrets, adopted, cli, refresh>>
      BY <1>21, <2>2 DEF WriterCopies, WriterFails, WriterEnds
    <3>3. Landed(p)' <=> Landed(p)
      BY <3>1, <3>2, TwoWriters DEF Landed
    <3>4. adopted[p] # None /\ Ahead(p, adopted[p]) => Ahead(p, adopted[p])'
      BY <3>1, <3>2, TwoWriters DEF Ahead
    <3> QED
      BY <1>old, <3>2, <3>3, <3>4, SettledKept
  <2> QED
    BY <1>21, <2>1, <2>2 DEF WriterCopies
<1>22. ASSUME NEW w \in Writers, write_tokens(w) PROVE Settled(p)'
  <2> DEFINE h == writer[w].home
  <2>1. /\ writer[w].pc = "copied" /\ h \in Homes /\ UNCHANGED <<secrets, adopted, cli, refresh>>
        /\ p \in Touched(h) => Brings(w, p)
        /\ p \in missed => p \in Touched(h) /\ (cli.who = p => cli.home = h)
    BY <1>22, <1>0 DEF write_tokens, LocksHeld
  <2>2. /\ auth'[h] = Updated(writer[w]) /\ \A g \in Homes : g # h => auth'[g] = auth[g]
    BY <1>22, <1>0, <2>1 DEF write_tokens
  <2>3. /\ \A v \in Writers : v # w => writer'[v] = writer[v]
        /\ ~writer[w].detached => writer'[w].pc = "ok"
    BY <1>22, <1>0 DEF write_tokens, WriterEnds, WriterStates
  <2>4. p \in Touched(h) => auth'[h].of = p /\ auth'[h].gen = secrets[Codex(p)].gen
    <3>1. writer[w].was \in Auths
      BY <1>0 DEF WriterStates
    <3>2. Updated(writer[w]).of = writer[w].of /\ Updated(writer[w]).gen = writer[w].gen
      BY <3>1 DEF Updated, Auths, Auth
    <3> QED
      BY <2>1, <2>2, <3>2 DEF Brings
  <2> HIDE DEF h
  <2>5. CASE Landed(p)'
    <3>1. CASE cli.home = h
      <4>1. p \in Touched(h)
        BY <2>1, <2>5, <3>1 DEF Landed, Touched
      <4> QED
        BY <2>1, <2>4, <2>5, <3>1, <4>1 DEF Settled, Current, Codex
    <3>2. CASE cli.home # h
      <4>1. cli.who = p /\ p \notin missed
        BY <2>1, <2>5, <3>2 DEF Landed
      <4>2. cli.pc = "await" => cli.w # w
        BY <3>2, TwoWriters DEF h
      <4>3. Landed(p)
        BY <2>1, <2>3, <2>5, <4>2, TwoWriters DEF Landed
      <4>4. cli.home \in Homes
        BY <4>3, TwoWriters DEF Landed, Tasks, LocksHeld
      <4>5. Current(p, cli.home)'
        BY <1>old, <2>1, <2>2, <3>2, <4>1, <4>3, <4>4 DEF Settled, Current, Codex
      <4> QED
        BY <2>5, <4>5 DEF Settled
    <3> QED
      BY <3>1, <3>2
  <2>6. CASE ~Landed(p)' /\ adopted[p] = h
    <3>1. p \in Touched(h)
      BY <2>6 DEF Touched
    <3> QED
      BY <2>1, <2>4, <2>6, <3>1 DEF Settled, Current, Codex
  <2>7. CASE ~Landed(p)' /\ adopted[p] # h /\ p \in Touched(h)
    <3>1. writer[w].by = "adopt" /\ cli.home = h /\ cli.who = p
      BY <2>1, <2>7 DEF Brings, Touched, h
    <3>2. cli.pc = "await" /\ cli.w = w
      BY <2>1, <3>1 DEF Owned
    <3>3. Landed(p)'
      BY <2>1, <2>3, <3>1, <3>2, TwoWriters DEF Landed
    <3> QED
      BY <2>7, <3>3
  <2>8. CASE ~Landed(p)' /\ adopted[p] # h /\ p \notin Touched(h)
    <3>1. p \notin missed
      BY <2>1, <2>8
    <3>2. cli.who = p /\ cli.pc = "await" => cli.w # w
      BY <2>8, TwoWriters DEF Touched, h
    <3>3. ~Landed(p)
      BY <2>1, <2>3, <2>8, <3>2, TwoWriters DEF Landed
    <3>4. adopted[p] # None => adopted[p] \in Homes
      BY <1>0 DEF Snaps
    <3>5. adopted[p] # None /\ Ahead(p, adopted[p]) => Ahead(p, adopted[p])'
      BY <2>1, <2>3, <2>8, TwoWriters DEF Ahead, h
    <3> QED
      BY <1>old, <2>1, <2>2, <2>8, <3>1, <3>3, <3>4, <3>5, SettledKept
  <2> QED
    BY <2>5, <2>6, <2>7, <2>8
<1>23. ASSUME NEW w \in Writers, WriteFails(w) PROVE Settled(p)'
  <2>1. /\ \A v \in Writers : v # w => writer'[v] = writer[v]
        /\ writer'[w].pc \in {"free", "failed"} /\ (writer'[w].pc = "free" => writer[w].detached)
        /\ writer[w].pc # "ok" /\ writer[w].pc # "free"
        /\ writer[w].by = "refresh" => writer[w].of \in missed'
    BY <1>23, <1>0, <1>none DEF WriteFails, WriterFails, WriterEnds, WriterStates, LocksHeld
  <2>2. p \notin missed /\ UNCHANGED <<auth, secrets, adopted, cli, refresh>>
    BY <1>23 DEF WriteFails, WriterFails, WriterEnds
  <2>3. Landed(p)' <=> Landed(p)
    BY <2>1, <2>2, TwoWriters DEF Landed
  <2>4. adopted[p] # None /\ Ahead(p, adopted[p]) => Ahead(p, adopted[p])'
    BY <2>1, <2>2, TwoWriters DEF Ahead
  <2> QED
    BY <1>old, <2>2, <2>3, <2>4, SettledKept
<1>24. ASSUME NEW h \in Homes, NEW q \in People, CodexSignsIn(h, q) PROVE Settled(p)'
  <2>1. CodexWrites(h, SignedIn(q, live'[q]))
    BY <1>24 DEF CodexSignsIn
  <2> QED
    BY <1>codex, <2>1
<1>25. ASSUME NEW h \in Homes, CodexRefreshes(h) PROVE Settled(p)'
  <2>1. CodexWrites(h, [auth[h] EXCEPT !.gen = live'[auth[h].of]])
    BY <1>25 DEF CodexRefreshes
  <2> QED
    BY <1>codex, <2>1
<1>26. ASSUME NEW h \in Homes, CodexLogsOut(h) PROVE Settled(p)'
  <2>1. CodexWrites(h, Missing)
    BY <1>26 DEF CodexLogsOut
  <2> QED
    BY <1>codex, <2>1
<1>27. ASSUME UNCHANGED vars PROVE Settled(p)'
  <2>1. Landed(p)' <=> Landed(p)
    BY <1>27 DEF vars, Landed
  <2>2. adopted[p] # None /\ Ahead(p, adopted[p]) => Ahead(p, adopted[p])'
    BY <1>27 DEF vars, Ahead
  <2> QED
    BY <1>27, <1>old, <2>1, <2>2, SettledKept DEF vars
<1> QED
  BY <1>1, <1>2, <1>3, <1>4, <1>5, <1>6, <1>7, <1>8, <1>9, <1>10, <1>11, <1>12, <1>13, <1>14,
    <1>15, <1>16, <1>17, <1>18, <1>19, <1>20, <1>21, <1>22, <1>23, <1>24, <1>25, <1>26, <1>27
    DEF Next, Writing, Refreshing, Commanding

LEMMA MarkedStep ==
  ASSUME IInv, [Next]_vars, Typed'
  PROVE  MarkedCurrent' /\ LandedCurrent'
  BY SettledStep DEF Settled, MarkedCurrent, LandedCurrent

LEMMA InvStep ==
  ASSUME IInv, [Next]_vars
  PROVE  IInv'
<1>1. Typed'
  BY TypedStep
<1>2. LocksHeld' /\ Owned' /\ Tasks' /\ RowsInHand' /\ Marks'
  BY LocksHeldStep, OwnedStep, TasksStep, RowsInHandStep, MarksStep
<1>3. OneName' /\ Newest' /\ FileWasThere'
  BY <1>1, OneNameStep, NewestStep, FileWasThereStep
<1>4. MarkedCurrent' /\ LandedCurrent'
  BY <1>1, MarkedStep
<1> QED
  BY <1>1, <1>2, <1>3, <1>4 DEF IInv

\* The inductive invariant holds throughout.
LEMMA Invariance == Spec => []IInv
<1>1. IInv /\ [Next]_vars => IInv'
  BY InvStep
<1> QED
  BY <1>1, InitInv, PTL DEF Spec

(***************************************************************************)
(* The theorems.                                                           *)
(***************************************************************************)
\* What adopted.json says of an account is so, however refreshes, sign-ins,
\* imports, adoptions, releases and Codex's own writes fall between each
\* other: its home took its tokens before it was marked, holds the stored
\* one once nobody is at work on it, and nobody else's (account.rs,
\* codex_store.rs).
THEOREM AdoptedHomesHold == Spec => []AdoptionHolds
<1>1. ASSUME IInv PROVE AdoptionHolds
  <2> USE <1>1 DEF IInv
  <2>1. TypeOK
    <3>1. \A w \in Writers : writer[w].pc \in WriterPcs
      BY DEF Typed, WriterStates
    <3>2. \A w \in Writers : writer[w].pc \in {"read", "copied"} <=> \E h \in Homes : lock[h] = w
      BY DEF LocksHeld
    <3>3. /\ refresh.pc \in {"idle", "lookup", "await"} /\ signin.pc \in {"idle", "await"}
          /\ cli.pc \in {"idle", "check", "put", "await", "mark", "save", "drop"}
          /\ web.pc \in {"idle", "drop"}
      BY DEF Typed, Tasks, TaskStates, CliStates, WebStates
    <3>4. auth \in [Homes -> Auth]
      BY DEF Typed, Auths
    <3> QED
      BY <3>1, <3>2, <3>3, <3>4 DEF TypeOK, Typed, WriterPcs, Snaps
  <2>2. AdoptedIsCurrent
    BY DEF AdoptedIsCurrent, Quiet, MarkedCurrent, Landed, Ahead, Current
  <2>3. OwnTokensOnly
    <3> SUFFICES ASSUME NEW h \in Homes, h \notin switched PROVE auth[h].of = auth[h].account
      BY DEF OwnTokensOnly
    <3>1. auth[h] \in Auths
      BY DEF Typed
    <3>2. CASE Readable(auth[h])
      BY <3>1, <3>2 DEF OneName, Named, Names, Auths
    <3>3. CASE ~Readable(auth[h])
      BY <3>1, <3>3 DEF Auths
    <3> QED
      BY <3>2, <3>3
  <2>4. MarkedMeansWritten
    BY DEF Marks, MarkedMeansWritten
  <2> QED
    BY <2>1, <2>2, <2>3, <2>4 DEF AdoptionHolds
<1> QED
  BY <1>1, Invariance, PTL

\* An import never puts a shorter-lived sign-in over what it looked at, in
\* whatever unit the file counts; a write-back that was not cut off never
\* writes a token older than the stored one; and only between the copy and
\* the rename can a sign-out of Codex be undone (import.rs, codex_store.rs).
THEOREM NewerIsKept == Spec => NewerStays
<1>1. ASSUME IInv PROVE ImportNeverOlder /\ WriteBackNewest /\ LogoutStays
  <2> USE <1>1 DEF IInv
  <2>1. ImportNeverOlder
    <3> DEFINE row == cli.rows[1]
               old == secrets[row.id]
    <3>1. SUFFICES ASSUME cli.pc = "put", ~cli.agent, old # None, old = cli.seen, old.expiry # NoExpiry
                   PROVE  row.until > old.expiry
      BY DEF ImportNeverOlder
    <3>2. row \in ImportRows /\ row.ok
      BY <3>1, ElementOfSeq DEF RowsInHand
    <3>3. Replaces(row, old)
      BY <3>1 DEF RowsInHand
    <3>4. row.expiry = row.until /\ row.expiry > old.expiry
      BY <3>1, <3>2, <3>3, GoodRow DEF Replaces
    <3> QED
      BY <3>4
  <2>2. WriteBackNewest
    BY DEF WriteBackNewest, Newest, Typed, WriterStates
  <2>3. LogoutStays
    BY DEF LogoutStays, FileWasThere
  <2> QED
    BY <2>1, <2>2, <2>3
<1> QED
  BY <1>1, Invariance, PTL DEF NewerStays
===============================================================================
